SPECIFICATION Spec
CONSTANTS
  Request = {q1}
  Ender = {e}
  None = None
  Idle = Idle
INVARIANTS
  StoppedTranscodesNothing
CHECK_DEADLOCK FALSE
