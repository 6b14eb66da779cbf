SPECIFICATION Spec
CONSTANTS
  Viewer = {v1, v2}
  Duration = 5
  MaxClock = 3
  MaxCalls = 2
  MaxSessions = 1
  MaxChanges = 0
  MaxCrashes = 0
INVARIANTS
  PositionIsPlayed
CHECK_DEADLOCK FALSE
