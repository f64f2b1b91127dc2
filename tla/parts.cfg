SPECIFICATION PartsSpec
CONSTANTS
  Payments = {11, 13}
  Callers = {"c1"}
  CallerOf <- SameCaller
  Rounds = {1, 2}
  NetworkCap = 3
  CallerCap = 3
  DailyCap = 2
  Reserve = 2
  Ceiling = 2
  Hour = 0
  Day = 1
  LastTick = 1
  Addresses <- TwoAddresses
  PoolCallers = {1, 2, 3}
  MaxStreak = 2
  HoldReplicas = {1, 2}
  PollRuns = {p1, p2}
  MayOverrun = TRUE
  Behind <- OthersBehind
  Window = 1
  Slack = 1
  FreshFor = 1
  FirstTip = 1
  HoldEnd = 3
  MaxLies = 1
  MayReset = TRUE
  BuyerCalls = {b1, b2}
  Terms <- KeyedOrUpto
  Price = 2
  UptoAmounts = {0, 2}
  SessionCap = 3
  ValidFor = 1
  BuyerEnd = 3
  Retention = {1}
  Runs = {1}
  Lag = 2
  EventsLag = 0
  Attempts = {1, 2, 3}
  Wrappers = {w1, w2}
  TrackedCapacity = 1
  MayThrow = FALSE
INVARIANTS
  PartsTypeOK
  ExposureCounted SpendCapped
  PoolIsWhole
  LostIsHeld
  BudgetKept CapKept KeyKept
  OncePerPayment LostIsServed PartsSound
CONSTRAINT HonestRace
SYMMETRY AlikeClients
CHECK_DEADLOCK FALSE
