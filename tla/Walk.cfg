SPECIFICATION Spec
CONSTANTS
  r = r
  d = d
  e = e
  a = a
  b = b
  Dirs <- MCDirs
  RootDir = r
  Nowhere = Nowhere
  Names <- MCNames
  NameBytes <- MCNameBytes
  Walks <- MCWalks
  UsizeMax = 20
  MaxOthers = 1
  MaxFaults = 1
INVARIANTS FramesAreSound EachEntryOnce
PROPERTIES WalkEnds
CHECK_DEADLOCK FALSE
