\* Two clients of a working copy with two changes; two bundles, two launches
\* and three file system events.
\* Bounds run out, and services have nothing to do.
CONSTANTS
  Clients = {c1, c2}
  MaxFiles = 2
  f1 = f1
  f2 = f2
  Idle = Idle
  None = None
  NoName = NoName
  Star = Star
  Aux = Aux
  Dirs = {1, 2}
  MaxClock = 3
  MaxLaunches = 2
  MaxEvents = 3
  NoDir = NoDir
  ChangeWhileOpening = FALSE
SPECIFICATION PartSpec
CHECK_DEADLOCK FALSE
INVARIANTS
  StatusReaches
  BundlesCurrent
  ScopesMatch
  LinesParse
  SettingsHold
  TextsConvert
