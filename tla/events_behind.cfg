SPECIFICATION BuyerSpec
CONSTANTS
  BuyerCalls = {b1}
  Terms <- ExactAlone
  Price = 2
  UptoAmounts = {0, 2}
  SessionCap = 3
  ValidFor = 1
  BuyerEnd = 3
  Retention = {1}
  Runs = {1}
  Lag = 2
  EventsLag = 1
INVARIANT ReleasedMovedNothing
CHECK_DEADLOCK FALSE
