SPECIFICATION Spec
CONSTANTS
  Assets = {1, 2}
  Syncs = {s1}
  PageSize = 1
  Overlap = 3
  MaxLag = 1
  MaxTime = 5
  MaxVersion = 2
CHECK_DEADLOCK FALSE
INVARIANT PagingLosesNothing
