\* One worker that may come back as another, one edit, a request and its repetition.
SPECIFICATION FairSpec
CONSTANTS
  None = None
  Workers = {w1}
  Api = api
  Shipped <- MCShipped
  Amended <- MCAmended
  Demands <- MCDemands
  Requests <- MCRequests
  ScenarioThreshold = 4
  Orders <- MCOrders
  Runs = {1, 2}
  MaxEdits = 1
  AttemptBound = 2
INVARIANTS UpIsConnected AnsweredIsStarted LimitsAreSettledAtStart
PROPERTIES VerdictsAgreeWithHealth RunsAreServed
CHECK_DEADLOCK FALSE
