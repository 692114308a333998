\* The limits of the source, and a model that may say anything.
SPECIFICATION FairSpec
CONSTANTS
  ToolSets <- MCToolSets
  UnknownTools = {"search_web"}
  MAX_TURNS = 6
  ModelMaxAttempts = 5
  ToolMaxAttempts = 3
INVARIANTS
  IInv
  EveryCallIsAnswered
  CostIsBounded
PROPERTY
  LoopEnds
CHECK_DEADLOCK FALSE
