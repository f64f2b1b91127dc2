SPECIFICATION Spec
CONSTANTS
  Requests = {"r1"}
  Replicas = {"p1", "p2"}
  Channels = {c1}
  Keys = {"k1"}
  Prints = {"f1", "f2"}
  KeyOf <- OneKey
  PrintOf <- OnePrint
  None = None
  ReplicaOf <- OneReplica
  OffChain = {}
  Exact = {}
  OutlivesLease = FALSE
  MaxFaults = 2
  MaxForeign = 1
INVARIANTS FateInv SendInv AcceptedIsPublic VerdictIsTrue HandedBackIsDead
CHECK_DEADLOCK FALSE
