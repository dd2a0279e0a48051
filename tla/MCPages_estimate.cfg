SPECIFICATION FairSpec
CONSTANTS
  p1 = p1  e1 = e1  r1 = r1  r2 = r2  i1 = i1  b1 = b1  n1 = n1
  Page = {p1}
  Source = {e1, r1, r2, i1, b1}
  TaskOf <- MCTaskOf
  Total <- MCTotal
  Typed <- MCTyped
  Mount <- MCMountEstimates
  Number = {n1}
  NoSource = NoSource
  Blank = Blank
  MaxAmount = 2
  MaxReads = 1
  MaxOpen = 2
  MaxKey = 2
  MaxPost = 2
  MaxElsewhere = 1
PROPERTY EveryRetryFindsDocument
CHECK_DEADLOCK FALSE
