CONSTANTS
  main = main
  a = a
  b = b
  c = c
  bg = bg
  m = m
  e = e
  f = f
  Tasks = {main, bg}
  Main = main
  Mutexes = {m}
  ReadyList = ReadyList
  WaitList = WaitList
  NULL = NULL
  Prios = {0, 1}
  Events = {e, f}
  INTF_VERTB = e
  Calls <- NotifyLoopCalls
  IsrCalls <- NoCalls
  MaxNest = 1
  MaxIntr = 1

SPECIFICATION FairSpec

PROPERTY NotifyEnds
