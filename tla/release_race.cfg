SPECIFICATION Spec
CONSTANTS
  Requests = {r1, r2, r3}
  Replicas = {"p1"}
  Channels = {c1}
  Keys = {r1, r2, r3}
  Prints = {"f1", "f2"}
  KeyOf <- OwnKey
  PrintOf <- OnePrint
  None = None
  ReplicaOf <- OneReplica
  OffChain = {}
  Exact = {r1, r2, r3}
  OutlivesLease = TRUE
  MaxFaults = 0
  MaxForeign = 0
INVARIANT NoSequenceClash
SYMMETRY AlikeRequests
CHECK_DEADLOCK FALSE
