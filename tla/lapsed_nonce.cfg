SPECIFICATION Spec
CONSTANTS
  Horizon = 4
  LastLedger = 3
  Expiration = 2
  Lifetime <- Short
  Keeps = {2, 9}
  Schemes = {"exact", "upto"}
INVARIANT ExpiredIsUnpaid
CHECK_DEADLOCK FALSE
