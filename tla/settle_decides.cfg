SPECIFICATION FairSpec
CONSTANTS
  Requests = {"r1", "r2"}
  Replicas = {"p1"}
  Channels = {c1}
  Keys = {"k1"}
  Prints = {"f1", "f2"}
  KeyOf <- OneKey
  PrintOf <- OtherTerms
  None = None
  ReplicaOf <- OneReplica
  OffChain = {"r2"}
  Exact = {"r1"}
  OutlivesLease = FALSE
  MaxFaults = 2
  MaxForeign = 1
INVARIANT IndInv
PROPERTIES SettlesPayments SettlementDecided ChannelsComeBack
CHECK_DEADLOCK FALSE
