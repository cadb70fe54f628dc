SPECIFICATION Spec
CONSTANTS
  Paths = {p1, p2}
  Contents = {c1, c2}
  Triggers = {t1}
  Scanners = {s1, s2}
  Ingesters = {i1}
  MaxScan = 0
  Budget = 3
  None = None
SYMMETRY Symmetry
CHECK_DEADLOCK FALSE
INVARIANTS
  HashedIsRead
