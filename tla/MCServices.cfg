SPECIFICATION Spec
CONSTANTS
  Size = 2
  Limit = 5
  Request = {r1, r2}
  Attempts = 2
  Entity = {e1, e2, e3, e4}
  Local = {e2}
  Unscannable = {e4}
  Channel = {c1, c2}
  Build = {b1, b2, b3}
  MaxVersion = 1
  extra = b3
  Viewer = {v1, v2}
  Duration = 5
  MaxClock = 3
  MaxCalls = 2
  MaxSessions = 2
  MaxChanges = 1
  MaxCrashes = 1
INVARIANTS
  TypeOK
  WaitingIsTracked
  LocksAreScans
  ReturnedIsFresh
  CountsPlayedTimeOnce
PROPERTIES
  IndexComesBack
  AddedScansEnd
  EveryBuildEnds
  UnwatchedIsPaused
CHECK_DEADLOCK FALSE
