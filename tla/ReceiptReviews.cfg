SPECIFICATION FairSpec
CONSTANTS
  a = a
  b = b
  c = c
  s1 = s1
  Sources = {a, b, c}
  Unprocessed = {c}
  Results = {1, 2}
  Sweepers = {s1}
  Pairs <- MCPairs
  MaxReviews = 2
  Budget = 1
  Configured = TRUE
CHECK_DEADLOCK FALSE
INVARIANTS
  HiddenIsUndoable
  PurchaseStaysVisible
  CountedOnce
PROPERTIES
  ReceiptsSettle
