\* Does a failed execution ever report a failure?
SPECIFICATION Spec
CONSTANTS
  None = None
  Reviewers = {r1, r2}
  Vendors = {"ACME ", "acme", "staples", " "}
  Canonical <- MCCanonical
  EmptyVendor = ""
  BlockedVendors = {"acme"}
  Amounts = {2}
  ApprovalThreshold = 1
  HardThreshold = 3
  ThresholdOverrides = {3}
  SeededFailures = {0, 1}
  ErpMaxAttempts = {2}
  AttemptBound = 2
INVARIANT
  FailureIsReported
CHECK_DEADLOCK FALSE
