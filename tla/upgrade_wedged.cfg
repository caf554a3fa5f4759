SPECIFICATION Spec
CONSTANTS
  Chain <- Revisions
  Models <- MCModels
  Releases <- MCReleases
  Schemas <- MCSchemas
  Dialects = {"sqlite"}
  MaxRetries = 2
INVARIANT UpgradeIsUnattended
