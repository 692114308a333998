\* Do the counts of the final comparison count executions?
SPECIFICATION Spec
CONSTANTS
  FANOUT_STEPS <- MCSteps
  None = None
  MaxTurns = 2
  MaxAttempts = 2
  MaxSlow = 0
INVARIANT
  CountsAreExecutions
CHECK_DEADLOCK FALSE
