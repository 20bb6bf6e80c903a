CONSTANTS
  u = u
  x = x
  Lines <- MCLines
  Mine <- MCMine
  Theirs <- MCTheirs
  Instances = {"given"}
  NoText = NoText
  Unread = Unread
  Failed = Failed
  NoBackup = NoBackup
  MaxRevision = 3
  MaxHolders = 1
  MaxSaves = 1
  MaxExternal = 0
  MaxCrashes = 1
  BusyWhileSaving = TRUE
  RunLoopInGroups = FALSE
SPECIFICATION MCSpec
CHECK_DEADLOCK FALSE
INVARIANTS
  RestoredAfterCrash
