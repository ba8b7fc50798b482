SPECIFICATION Spec
CONSTANTS
  Alarms = {a1, a2}
  Timeouts <- MCTimeouts
  Ms = 2
  IntLimit = 4
  MaxTime = 11
SYMMETRY Symmetry
INVARIANTS
  NoOversleep
  NoBusyWait
  ApproximationError
