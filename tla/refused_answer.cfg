SPECIFICATION DedupeSpec
CONSTANTS
  Attempts = {1, 2, 3}
  Wrappers = {w1, w2}
  TrackedCapacity = 1
  MayThrow = TRUE
INVARIANT RefusedSettlesNothing
CHECK_DEADLOCK FALSE
