SPECIFICATION FewSpec
CONSTANTS
  Scope = {s1, s2}
  JobId = {j1, j2}
  Runner = {r1, r2}
  FindingKey = {k1}
  Items = 2
  MaxAttempts = 2
  MaxCrashes = 1
  NoJob = NoJob
INVARIANTS
  TypeOK
  RunningHasOneRunner
  CountsEachItemOnce
PROPERTIES
  TerminalIsFrozen
  ImplementsLedger
  EveryJobEnds
CHECK_DEADLOCK FALSE
