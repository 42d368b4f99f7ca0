CONSTANTS
  main = main
  a = a
  b = b
  c = c
  bg = bg
  m = m
  e = e
  f = f
  Tasks = {main, bg}
  Main = main
  Mutexes = {m}
  ReadyList = ReadyList
  WaitList = WaitList
  NULL = NULL
  Prios = {0, 1}
  Events = {e}
  INTF_VERTB = e
  Calls <- VBlankCalls
  IsrCalls <- NoCalls
  MaxNest = 1
  MaxIntr = 2

SPECIFICATION FairSpec

INVARIANT VBlankSleepersAnnounced

PROPERTY VBlankWaitReturns
