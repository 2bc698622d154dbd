SPECIFICATION LedgerSpec
CONSTANTS
  Receivables = {"a", "b"}
  Terms = {"t"}
  References = {"r1", "r2"}
  Signatures = {"shared", "short", "odd"}
  Timed = {"short", "shared"}
  Anomalies = {"wrong_recipient"}
  Evidence <- MCEvidence
  Reasons = {"rounding"}
  Quotes = {"q1", "q2"}
  Months = {"m"}
  Artifacts = {"x", "y"}
  Receipts = {"telegram"}
  None = None
INVARIANTS
  TypeOK
  OnePaymentPerReceivable
  StateMatchesSettlement
  ReviewNamesTheCandidate
  AuditExplainsLedger
  OutboxMatchesLedger
  CheckpointIsCurrent
  RetriesSucceed
PROPERTIES
  DispositionsAreFinal
  LifecyclePromise
CHECK_DEADLOCK FALSE
