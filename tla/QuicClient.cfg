SPECIFICATION FairSpec
CONSTANTS
  FDs = {f1, f2}
  NoFD = nofd
  Sessions = {s1, s2}
  NoSession = null
  MaxBuffered = 3
INVARIANTS
  SocketOwned PacketsAreNoticed
PROPERTIES BlockedWriterIsCalled ConnectEnds
