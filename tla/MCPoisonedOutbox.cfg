SPECIFICATION FairSpec
CONSTANTS
  Receivables = {"a"}
  Terms = {"t"}
  References = {"r1"}
  Signatures = {"short"}
  Timed = {"short"}
  Anomalies = {"wrong_recipient", "duplicate_signature", "reference_reused"}
  Evidence <- MCEvidence
  Reasons = {"rounding"}
  Quotes = {}
  Months = {}
  Artifacts = {}
  Receipts = {"telegram"}
  None = None
  Workers = {"bg"}
  Kind <- MCKind
  Verdict <- AllOutcomes
  Unreadable = {}
  MaxOpen = 2
  MaxCandidates = 2
  MaxNotices = 3
  Polls = 2
  OperatorActions = {"ignore_candidate_and_reopen"}
  MaxFaults = 0
  Orphan = Orphan
PROPERTIES
  NoticesAreDelivered
CHECK_DEADLOCK FALSE
