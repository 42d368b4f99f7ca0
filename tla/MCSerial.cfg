CONSTANTS
  w = w
  r = r
  x = x
  nl = nl
  cr = cr
  NONE = NONE
  QUEUELEN = 2
  Tasks = {w, r}
  Char = {x, nl, cr}
  Newline = nl
  Return = cr
  Writes <- ShortWrites
  Reads <- ShortReads
  Incoming = {x, nl}

SPECIFICATION Spec

INVARIANTS
  TypeOK
  SleepersHaveCause

PROPERTIES
  SendqKeepsMoving
  StreamsKept

CHECK_DEADLOCK FALSE
