SPECIFICATION FairSpec
CONSTANTS
  ConnectionIds = {a, b}
  Sessions = {s1, s2, s3}
  NoSession = null
  TimeWaitManager = twlm
  TimeWaitPeriod = 2
  MaxConnections = 1
  MaxTime = 4
  MaxPackets = 2
  MaxPending = 1
INVARIANTS
  TypeOK SessionOrTimeWait SessionsOwnedOnce NoStaleWriter
  ClosedSessionsAreDeleted BlockedWritersWillBeResumed OneChanceEach
PROPERTIES
  ImplementsLifecycle EveryWriterIsResumed ShutdownEnds
