SPECIFICATION Spec
CONSTANTS
  Receivables = {"a", "b"}
  Terms = {"t"}
  References = {"r1", "r2"}
  Signatures = {"shared", "pay", "short"}
  Timed = {"shared", "pay", "short"}
  Anomalies = {"wrong_recipient", "duplicate_signature", "reference_reused"}
  Evidence <- MCEvidence
  Reasons = {"rounding"}
  Quotes = {}
  Months = {}
  Artifacts = {}
  Receipts = {"telegram"}
  None = None
  Workers = {"watch", "check"}
  Kind <- MCKind
  Verdict <- AllOutcomes
  Unreadable = {}
  MaxOpen = 2
  MaxCandidates = 2
  MaxNotices = 3
  Polls = 2
  OperatorActions = {"ignore_candidate_and_reopen", "cancel_unpaid", "accept_underpayment_with_variance"}
  MaxFaults = 0
  Orphan = Orphan
INVARIANTS
  WorkersOK
PROPERTIES
  ExactPaymentWins
CHECK_DEADLOCK FALSE
