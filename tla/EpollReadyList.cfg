SPECIFICATION FairSpec
CONSTANTS
  FDs = {f1, f2}
  NoFD = nofd
  Callbacks = {c1, c2}
  NoCallback = null
  Unwatched = unwatched
  Events = {IN}
  ErrorEvents = {ERR}
CHECK_DEADLOCK FALSE
INVARIANTS
  TypeOK ReadyListAgrees RunningNodeSurvives
  InterestAgrees
PROPERTIES RoundEnds ReadyIsServed
