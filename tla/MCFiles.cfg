CONSTANTS
  a = a
  b = b
  Tasks = {a, b}
  Entries <- SomeEntries
  RootDirLen = 2
  SECTOR_SIZE = 2
  NSECTORS = 1
  NTRACKS = 8
  Sizes = {1, 3}
  Offsets <- BackAndForth
  Whences <- SetCur
  NONE = NONE
  EINVAL <- BadArgument
  OneCaller = TRUE

SPECIFICATION Spec

INVARIANTS
  TypeOK
  HeadsKnown
  BufferHoldsTrack

PROPERTY BehavesLikeUnix

CHECK_DEADLOCK FALSE
