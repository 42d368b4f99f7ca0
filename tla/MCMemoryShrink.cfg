CONSTANTS
  t1 = t1
  t2 = t2
  Tasks = {t1}
  NULL = NULL
  Layouts <- SmallMachine
  EndTags <- UsedOrFree
  Sizes = {8, 24}
  Attributes <- Requests

SPECIFICATION FairSpec

PROPERTY CallsReturn

CHECK_DEADLOCK FALSE
