SPECIFICATION Spec
CONSTANTS
  p1 = p1  p2 = p2  p3 = p3  p4 = p4
  a = a  b = b
  Proc = {p1, p2, p3, p4}
  Count = 3
  Sum = {a, b}
  NoSum = NoSum
  Last <- OldAndNew
  SumOf <- Edited
PROPERTIES
  OlderBuildRejectsNewerSchema
CHECK_DEADLOCK FALSE
