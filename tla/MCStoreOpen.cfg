SPECIFICATION FairSpec
CONSTANTS
  Processes = {"server", "job"}
  Receivables = {"a"}
  Months = {"m"}
  Releases <- MCReleases
  MaxCrashes = 1
  None = None
INVARIANTS
  TypeOK
  LoneOpensSucceed
  OpenedStoresAreCurrent
PROPERTIES
  OnlyStaleRebuildsLoseEvidence
  OpenersGetIn
