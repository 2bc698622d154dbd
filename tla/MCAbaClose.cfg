SPECIFICATION Spec
CONSTANTS
  Receivables = {"a"}
  Terms = {"t"}
  References = {"r1"}
  Signatures = {"pay"}
  Timed = {"pay"}
  Anomalies = {}
  Evidence <- MCEvidence
  Reasons = {"rounding"}
  Quotes = {}
  Months = {"m"}
  Artifacts <- Evidences
  Receipts = {}
  None = None
  Exporters = {"close"}
  Modes <- MCModes
  MonthOf <- MCMonthOf
  PendingReasons = {"quote_unavailable", "source_unavailable"}
  MaxFaults = 0
  Orphan = Orphan
PROPERTIES
  ChangedSnapshotsAreAppended
CHECK_DEADLOCK FALSE
