SPECIFICATION HoldSpec
CONSTANTS
  HoldReplicas = {1}
  PollRuns = {1, 2}
  MayOverrun = TRUE
  Behind <- OthersBehind
  Window = 1
  Slack = 1
  FreshFor = 1
  FirstTip = 3
  HoldEnd = 4
  MaxLies = 1
  MayReset = TRUE
INVARIANT HoldCoversTheLost
CHECK_DEADLOCK FALSE
