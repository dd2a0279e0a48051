SPECIFICATION AssistantSpec
CONSTANTS
  t1 = t1  t2 = t2  s1 = s1  s2 = s2  i1 = i1  None = None
  c1 = c1  c2 = c2  p1 = p1  p2 = p2
  Tab = {t1, t2}  First = t1
  Scope = {s1, s2}
  Item = {i1}
  Customer = {c1, c2}  Product = {p1, p2}
  MaxQuantity = 2
  Budgets <- MCBudgets
INVARIANTS PostedAsShown AnnouncedWasPosted PreparedAsViewed
PROPERTIES BusyEnds AskedIsAnswered
CHECK_DEADLOCK FALSE
