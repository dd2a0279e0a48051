SPECIFICATION Spec
CONSTANTS
  t1 = t1  t2 = t2  s1 = s1  s2 = s2  i1 = i1  i2 = i2  None = None
  Tab = {t1, t2}  First = t1
  Scope = {s1, s2}
  Item = {i1}
  Budgets <- MCBudgets

PROPERTY ReplacedIsNotPosted
CHECK_DEADLOCK FALSE
