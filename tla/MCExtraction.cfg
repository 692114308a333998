SPECIFICATION Spec
CONSTANTS
  Totals <- MCTotals
  Quantities <- MCQuantities
  Prices <- MCPrices
  Amounts <- MCAmounts
  MaxLines = 2
  MaxAttempts = 5
  SdkRetries = 1
  None = None
INVARIANTS
  CostIsBounded
  GuardrailsSeeTheOrder
CHECK_DEADLOCK FALSE
