SPECIFICATION FairSpec
CONSTANTS
  c1 = c1  c2 = c2  b1 = b1  b2 = b2  b3 = b3  p1 = p1
  old = old  new = new  broken = broken
  Torn = Torn
  None = None
  Commands <- TwoCommands
  Profiles <- OneProfile
  Documents <- AllDocuments
  Valid <- ValidDocuments
  BackupIds <- ThreeBackups
  MaximumBackups = 2
  MaxEdits = 1
  MaxLosses = 1
CHECK_DEADLOCK FALSE
INVARIANTS WholeDocument Reversible
PROPERTIES ExitTellsTruth ReplacesWhatItBackedUp EveryCommandEnds
