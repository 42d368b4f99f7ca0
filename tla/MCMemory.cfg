CONSTANTS
  t1 = t1
  t2 = t2
  Tasks = {t1, t2}
  NULL = NULL
  Layouts <- Machines
  EndTags <- UsedOrFree
  Sizes = {8, 24}
  Attributes <- Requests

SYMMETRY TaskSymmetry

SPECIFICATION Spec

INVARIANTS
  TypeOK
  TagsSound
  FreeListSound
  BlocksOwned
  PayloadKept

CHECK_DEADLOCK FALSE
