SPECIFICATION FairSpec
CONSTANTS
  PageCount = 2
  MaxCommits = 3
INVARIANTS BackupIsFaithful SweepIsApart
PROPERTIES CleanupGetsDone
