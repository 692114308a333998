\* Any two different tool calls, any answers.
SPECIFICATION Spec
CONSTANTS
  None = None
  Names <- MCNames
  Fold <- MCFold
  Norm <- MCNorm
  Blank = ""
  Inside <- MCInside
  Registries <- MCRegistries
  PurchaseOrders <- MCOrders
  Clauses = {"1.3"}
  MaxCalls = 2
INVARIANTS ToolsTellOneVendor GuardrailVendorIsFound ConcernsAreHeard
CHECK_DEADLOCK FALSE
