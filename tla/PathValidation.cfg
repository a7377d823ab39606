CONSTANTS
  MaxChallenges = 5
  Overlap = FALSE
SPECIFICATION Spec
INVARIANT TypeOK
INVARIANT ChallengeLimit
INVARIANT ValidationTimerArmed

CHECK_DEADLOCK FALSE
