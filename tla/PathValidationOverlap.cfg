CONSTANTS
  MaxChallenges = 5
  Overlap = TRUE
SPECIFICATION Spec
INVARIANT ValidationTimerArmed
CHECK_DEADLOCK FALSE
