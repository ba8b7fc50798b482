SPECIFICATION Spec
CONSTANTS
  QuicAlarms = {q1, q2}
  PlainAlarms = {p1}
  Nodes = {n1, n2, n3, n4}
  NoNode = none
  MaxTime = 3
SYMMETRY Symmetry
CHECK_DEADLOCK FALSE
INVARIANTS
  TypeOK RegistrationAgrees IteratorValid
  DueAlarmsFire
