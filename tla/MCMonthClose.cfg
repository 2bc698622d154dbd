SPECIFICATION Spec
CONSTANTS
  Receivables = {"a"}
  Terms = {"t"}
  References = {"r1"}
  Signatures = {"pay"}
  Timed = {"pay"}
  Anomalies = {}
  Evidence <- MCEvidence
  Reasons = {"rounding"}
  Quotes = {q1, q2}
  Months = {"m"}
  Artifacts <- Evidences
  Receipts = {}
  None = None
  Exporters = {"close", "any"}
  Modes <- MCModes
  MonthOf <- MCMonthOf
  PendingReasons = {"quote_unavailable"}
  MaxFaults = 1
  Orphan = Orphan
INVARIANTS
  RevisionsAddUp
  ReportsAreBacked
PROPERTIES
  RevisionsAreTrue
SYMMETRY Symmetry
CHECK_DEADLOCK FALSE
