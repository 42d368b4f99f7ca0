CONSTANTS
  w = w
  r = r
  x = x
  nl = nl
  cr = cr
  NONE = NONE
  QUEUELEN = 80
  Tasks = {w, r}
  Char = {x, nl, cr}
  Newline = nl
  Return = cr
  Writes <- LongWrites
  Reads = {}
  Incoming = {}

SPECIFICATION Spec

PROPERTY StreamsKept

CHECK_DEADLOCK FALSE
