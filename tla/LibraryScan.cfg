SPECIFICATION FairSpec
CONSTANTS
  Paths = {p1, p2}
  Contents = {c1, c2}
  Triggers = {t1}
  Scanners = {s1, s2}
  Ingesters = {i1}
  MaxScan = 1
  Budget = 2
  None = None
CHECK_DEADLOCK FALSE
INVARIANTS
  RefsNameRows
  FreshHash
PROPERTIES
  EveryFileSettles
