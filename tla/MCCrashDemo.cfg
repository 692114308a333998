\* Specialists of up to three activities, two slow attempts, one kill.
SPECIFICATION FairSpec
CONSTANTS
  FANOUT_STEPS <- MCSteps
  None = None
  MaxTurns = 3
  MaxAttempts = 2
  MaxSlow = 2
INVARIANTS
  CrashCostsOneAttempt
PROPERTIES
  FinishedWorkIsNotRepeated
  InterruptionIsReal
  DemoEnds
CHECK_DEADLOCK FALSE
