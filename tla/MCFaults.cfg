SPECIFICATION Spec
CONSTANTS
  Receivables = {"a"}
  Terms = {"t"}
  References = {"r1"}
  Signatures = {"pay", "short"}
  Timed = {"pay"}
  Anomalies = {"wrong_recipient", "duplicate_signature", "reference_reused"}
  Evidence <- MCEvidence
  Reasons = {"rounding"}
  Quotes = {"q"}
  Months = {}
  Artifacts = {}
  Receipts = {"telegram"}
  None = None
  Workers = {"bg", "hot"}
  Kind <- MCKind
  Verdict <- AllOutcomes
  Unreadable = {}
  MaxOpen = 2
  MaxCandidates = 2
  MaxNotices = 3
  Polls = 2
  OperatorActions = {"ignore_candidate_and_reopen", "cancel_unpaid", "accept_underpayment_with_variance"}
  MaxFaults = 1
  Orphan = Orphan
INVARIANTS
  MessagesAreTrue
  ReceiptsFollowMessages
PROPERTIES
  LeaseIsRespected
CHECK_DEADLOCK FALSE
