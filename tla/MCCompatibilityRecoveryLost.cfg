SPECIFICATION SpecRecovery
CONSTANTS
  Subject = s1
  Scope = {s1}
  JobId = {j1, j2}
  Runner = {r1}
  FindingKey = {}
  Items = 1
  MaxAttempts = 2
  MaxCrashes = 0
  NoJob = NoJob
  Writer = {w1, w2}
  MaxInFlight = 1
  MaxFaults = 0
INVARIANTS
  DetectedDivergenceIsRepaired
CHECK_DEADLOCK FALSE
