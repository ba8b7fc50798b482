SPECIFICATION Spec
CONSTANTS
  ConnectionIds = {a, b, c}
  TimeWaitManager = twlm
  TimeWaitPeriod = 3
  MaxConnections = 2
  MaxTime = 7
  MaxPackets = 5
  MaxPending = 2
SYMMETRY Symmetry
INVARIANTS
  TypeOK ListInOrder NoneOutlivesThePeriod
  ExponentialBackOff QueuedMeansListed
PROPERTIES LeavesOnlyWhenDue AlarmIsSetForLater
