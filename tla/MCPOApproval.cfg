\* Thresholds 1 and 3, amounts on both sides of each, an override at the
\* hard limit so that the rules overlap; one, three or any number of ERP attempts.
SPECIFICATION Spec
CONSTANTS
  None = None
  Reviewers = {r1, r2}
  Vendors = {"ACME ", "acme", "staples", " "}
  Canonical <- MCCanonical
  EmptyVendor = ""
  BlockedVendors = {"acme"}
  Amounts = {1, 2, 3, 4}
  ApprovalThreshold = 1
  HardThreshold = 3
  ThresholdOverrides = {0, 3, 5}
  SeededFailures = {0, 1, 3}
  ErpMaxAttempts = {0, 1, 3}
  AttemptBound = 3
INVARIANTS
  IInv
  BookedOnlyIfCleared
  OutcomeIsJustified
  LedgerAgreesWithOutcome
  CurrentStepIsInProgress
  ReplyIsTheCallersOwn
  ConfirmationIsTheLatest
PROPERTIES
  ImplementsContract
CHECK_DEADLOCK FALSE
