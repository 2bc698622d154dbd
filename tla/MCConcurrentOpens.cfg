SPECIFICATION Spec
CONSTANTS
  Processes = {"server", "job"}
  Receivables = {"a"}
  Months = {"m"}
  Releases = {"current"}
  MaxCrashes = 0
  None = None
INVARIANTS
  ConcurrentOpensSucceed
