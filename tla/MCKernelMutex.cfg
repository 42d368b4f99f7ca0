CONSTANTS
  main = main
  a = a
  b = b
  c = c
  bg = bg
  m = m
  e = e
  f = f
  Tasks = {main, a, b, c}
  Main = main
  Mutexes = {m}
  ReadyList = ReadyList
  WaitList = WaitList
  NULL = NULL
  Prios = {0, 1}
  Events = {e}
  INTF_VERTB = e
  Calls <- MutexCalls
  IsrCalls <- MutexIsrCalls
  MaxNest = 1
  MaxIntr = 2

SPECIFICATION Spec

INVARIANTS
  TypeOK
  ListsSound
  StateMatchesLists
  MaskMatchesNesting
  HighestPriorityRuns
  MutualExclusion
  NoSleepOnFreeMutex
