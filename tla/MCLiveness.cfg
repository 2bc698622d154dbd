SPECIFICATION FairSpec
CONSTANTS
  Receivables = {"a", "b"}
  Terms = {"t"}
  References = {"r1", "r2"}
  Signatures = {"pay", "shared", "late"}
  Timed = {"pay", "shared", "late"}
  Anomalies = {"wrong_recipient", "duplicate_signature", "reference_reused"}
  Evidence <- MCEvidence
  Reasons = {"rounding"}
  Quotes = {}
  Months = {}
  Artifacts = {}
  Receipts = {"telegram"}
  None = None
  Workers = {"bg"}
  Kind <- MCKind
  Verdict <- AllOutcomes
  Unreadable = {"late"}
  MaxOpen = 1
  MaxCandidates = 2
  MaxNotices = 1
  Polls = 2
  OperatorActions = {"ignore_candidate_and_reopen", "cancel_unpaid"}
  MaxFaults = 2
  Orphan = Orphan
PROPERTIES
  PaymentsAreNoticed
  ConfirmableNoticesAreDelivered
CHECK_DEADLOCK FALSE
