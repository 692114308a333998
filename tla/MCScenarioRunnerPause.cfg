\* One amount below and one above the approval threshold; two polls.
SPECIFICATION RunnerSpec
CONSTANTS
  None = None
  Reviewers = {cli, other}
  Cli = cli
  MaxPolls = 2
  Vendors = {"acme", "staples"}
  Canonical <- MCCanonical
  EmptyVendor = ""
  BlockedVendors = {"acme"}
  Amounts = {1, 2}
  ApprovalThreshold = 1
  HardThreshold = 3
  ThresholdOverrides = {}
  SeededFailures = {0, 1}
  ErpMaxAttempts = {0, 1, 2}
  AttemptBound = 2
INVARIANTS
  PauseGetsTheDecision
CHECK_DEADLOCK FALSE
