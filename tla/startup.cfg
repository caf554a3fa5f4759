SPECIFICATION FairSpec
CONSTANTS
  Chain <- Revisions
  Models <- MCModels
  Releases <- MCReleases
  Schemas <- MCSchemas
  Dialects = {"sqlite", "postgresql"}
  MaxRetries = 2
INVARIANTS HeadIsWhole UpgradeIsAccepted RollbackRestores
PROPERTIES ChangesAreFlagged ServesWholeSchema ReaderDecides
