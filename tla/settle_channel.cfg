SPECIFICATION Spec
CONSTANTS
  Requests = {r1, r2}
  Replicas = {"p1"}
  Channels = {c1}
  Keys = {r1, r2}
  Prints = {"f1", "f2"}
  KeyOf <- OwnKey
  PrintOf <- OnePrint
  None = None
  ReplicaOf <- OneReplica
  OffChain = {}
  Exact = {r1, r2}
  OutlivesLease = FALSE
  MaxFaults = 0
  MaxForeign = 2
INVARIANTS ChannelInv ChannelExclusive NoSequenceClash
CONSTRAINT TakesTurns
SYMMETRY AlikeRequests
CHECK_DEADLOCK FALSE
