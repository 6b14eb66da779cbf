SPECIFICATION Spec
CONSTANTS
  Request = {q1, q2}
  Ender = {e}
  None = None
  Idle = Idle
SYMMETRY Symmetry
INVARIANTS
  TypeOK
  NoOrphan
  ErrorIsShutDown
PROPERTIES
  LeavesByOwnStop
CHECK_DEADLOCK FALSE
