CONSTANTS
  u = u
  x = x
  Lines <- MCLines
  Mine <- MCMine
  Theirs <- MCTheirs
  Instances = {"given"}
  NoText = NoText
  Unread = Unread
  Failed = Failed
  NoBackup = NoBackup
  MaxRevision = 3
  MaxHolders = 1
  MaxSaves = 0
  MaxExternal = 0
  MaxCrashes = 1
  BusyWhileSaving = FALSE
  RunLoopInGroups = TRUE
SPECIFICATION MCSpec
CHECK_DEADLOCK FALSE
INVARIANTS
  RestoredAfterCrash
