CONSTANTS
  MaxChallenges = 5
  Overlap = FALSE
SPECIFICATION Spec
INVARIANT ActivePathValidated
CHECK_DEADLOCK FALSE
