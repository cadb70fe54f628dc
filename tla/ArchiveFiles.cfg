SPECIFICATION Spec
CONSTANTS
  a = a
  b = b
  Contents = {a, b}
  PageCount <- MCPageCount
  Requests = {r1, r2, r3}
  Archives <- MCArchives
  MaxFiles = 2
SYMMETRY Symmetry
CHECK_DEADLOCK FALSE
INVARIANTS
  LostOnlyByOverlap
  OneHome
  ReadersRemain
  OriginalKept
PROPERTIES
  NothingOverwritten
  LifeOfContents
