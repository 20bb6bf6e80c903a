\* The given instance: two lines, one that only the user changes and one that
\* only other programs change, twice; one revision of the user beside undo, a
\* save and a crash.
\* The user may stop working.
CONSTANTS
  u = u
  x = x
  Lines <- MCLines
  Mine <- MCMine
  Theirs <- MCTheirs
  Instances = {"given", "clients", "import"}
  NoText = NoText
  Unread = Unread
  Failed = Failed
  NoBackup = NoBackup
  MaxRevision = 2
  MaxHolders = 1
  MaxSaves = 1
  MaxExternal = 2
  MaxCrashes = 1
  BusyWhileSaving = FALSE
  RunLoopInGroups = FALSE
SPECIFICATION MCSpec
CHECK_DEADLOCK FALSE
INVARIANTS
  TypeOK
  OpensAreOwed
  ObservedIsOpen
  CleanSaved
  Restored
PROPERTY
  ImportsKeepMine
