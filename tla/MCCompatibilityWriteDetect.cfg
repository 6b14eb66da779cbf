SPECIFICATION Spec
CONSTANTS
  Writer = {w1, w2}
  MaxInFlight = 1
  MaxFaults = 0
  MaxCrashes = 1
INVARIANTS
  DivergenceIsDetectable
CHECK_DEADLOCK FALSE
