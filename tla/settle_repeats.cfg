SPECIFICATION Spec
CONSTANTS
  Requests = {r1, r2}
  Replicas = {"p1"}
  Channels = {c1}
  Keys = {"k1"}
  Prints = {"f1", "f2"}
  KeyOf <- OneKey
  PrintOf <- OnePrint
  None = None
  ReplicaOf <- OneReplica
  OffChain = {}
  Exact = {}
  OutlivesLease = FALSE
  MaxFaults = 2
  MaxForeign = 0
INVARIANTS TypeOK OwnInv OneTransactionPerKey UnsignedIsTrue AnswersAgree
PROPERTY SettlesPayments
SYMMETRY AlikeRequests
CHECK_DEADLOCK FALSE
