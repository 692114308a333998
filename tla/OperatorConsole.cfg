\* One outage of the worker, one lost connection and one change to another
\* run, at any moment.
SPECIFICATION FairSpec
CONSTANTS
  None = None
  MaxOutages = 1
  MaxDrops = 1
  MaxOnWire = 2
  MaxStarts = 1
INVARIANTS
  LastPayloadIsFinal
  ViewIsPastOrPresent
  LockIsExplained
PROPERTIES
  ViewNeverGoesBack
  ClosedIsShown
CHECK_DEADLOCK FALSE
