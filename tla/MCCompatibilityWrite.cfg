SPECIFICATION MixedSpec
CONSTANTS
  Writer = {w1, w2, w3, w4}
  MaxInFlight = 3
  MaxFaults = 2
  MaxCrashes = 2
SYMMETRY Symmetry
INVARIANTS
  TypeOK
  NoSilentDivergence
  DivergenceIsRequested
  LinkedIsDegraded
  SerialCurrentIsExact
CHECK_DEADLOCK FALSE
