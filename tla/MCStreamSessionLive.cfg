SPECIFICATION LiveSpec
CONSTANTS
  Request = {q1, q2}
  Ender = {e}
  None = None
  Idle = Idle
PROPERTIES
  EveryRequestIsAnswered
  AbandonedIsRemoved
CHECK_DEADLOCK FALSE
