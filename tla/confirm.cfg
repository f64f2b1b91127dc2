SPECIFICATION ChainSpec
CONSTANTS
  Horizon = 4
  LastLedger = 3
  Expiration = 2
  Lifetime <- LongForExact
  Keeps = {2, 9}
  Schemes = {"exact", "upto"}
  Providers = 3
  FailAfter = 2
  RecoverAfter = 3
INVARIANTS
  TypeOK UnpaidIsUnpaid PaidIsPaid GivenBackIsDead FreeIsFree
  LooksAreSound RpcSound ActiveIsJustified
PROPERTIES DecidedEventually EndsUpWell
CHECK_DEADLOCK FALSE
