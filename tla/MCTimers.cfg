SPECIFICATION Spec
CONSTANTS
  Programs <- MCPrograms
  Level <- MCLevel
  Prio <- MCPrio
INVARIANTS
  ChainsServed
  NoNullTimeout
  WaitsDelay
PROPERTIES
  SleepEnds
  KeysHandled
  TicksServed
