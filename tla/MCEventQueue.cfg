CONSTANTS
  gui = gui
  main = main
  key = key
  mouse = mouse
  QUEUELEN = 3
  EventT = {key, mouse}
  Tasks = {main, gui}
  Levels <- DriverLevels

SPECIFICATION Spec

INVARIANT TypeOK

PROPERTY RefinesFifo
