CONSTANTS
  main = main
  a = a
  b = b
  c = c
  bg = bg
  m = m
  e = e
  f = f
  Tasks = {main, a, b}
  Main = main
  Mutexes = {m}
  ReadyList = ReadyList
  WaitList = WaitList
  NULL = NULL
  Prios = {0, 1}
  Events = {e}
  INTF_VERTB = e
  Calls <- IdleCalls
  IsrCalls <- IdleIsrCalls
  MaxNest = 1
  MaxIntr = 1

SPECIFICATION Spec

INVARIANT StateMatchesLists
