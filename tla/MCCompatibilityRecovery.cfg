SPECIFICATION FairRecovery
CONSTANTS
  Subject = s1
  Scope = {s1}
  JobId = {j1, j2}
  Runner = {r1}
  FindingKey = {}
  Items = 1
  MaxAttempts = 2
  MaxCrashes = 1
  NoJob = NoJob
  Writer = {w1, w2}
  MaxInFlight = 2
  MaxFaults = 0
PROPERTIES
  RequestIsAnswered
CHECK_DEADLOCK FALSE
