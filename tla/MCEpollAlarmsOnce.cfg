SPECIFICATION Spec
CONSTANTS
  QuicAlarms = {q1}
  PlainAlarms = {p1}
  Nodes = {n1, n2, n3}
  NoNode = none
  MaxTime = 1
CHECK_DEADLOCK FALSE
PROPERTY FiresOncePerRound
