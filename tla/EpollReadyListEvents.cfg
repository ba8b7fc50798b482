SPECIFICATION Spec
CONSTANTS
  FDs = {f1, f2}
  NoFD = nofd
  Callbacks = {c1}
  NoCallback = null
  Unwatched = unwatched
  Events = {IN, OUT}
  ErrorEvents = {ERR}
CHECK_DEADLOCK FALSE
PROPERTY OnlyOwnEvents
