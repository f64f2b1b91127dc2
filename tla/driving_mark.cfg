SPECIFICATION Spec
CONSTANTS
  Requests = {"r1", "r2"}
  Replicas = {"p1"}
  Channels = {c1, c2}
  Keys = {"k1"}
  Prints = {"f1", "f2"}
  KeyOf <- OneKey
  PrintOf <- OnePrint
  None = None
  ReplicaOf <- OneReplica
  OffChain = {}
  Exact = {}
  OutlivesLease = FALSE
  MaxFaults = 0
  MaxForeign = 0
INVARIANT DrivenIsMarked
CHECK_DEADLOCK FALSE
