SPECIFICATION Spec
CONSTANTS
  Processes = {"server", "job"}
  Receivables = {"a"}
  Months = {"m"}
  Releases = {"phase_two"}
  MaxCrashes = 0
  None = None
INVARIANTS
  OpenedStoresAdmitEveryState
