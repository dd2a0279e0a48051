SPECIFICATION Spec
CONSTANTS
  u1 = u1  u2 = u2  w1 = w1  w2 = w2  None = None
  Tab = {t1}
  User = {u1, u2}
  Place = {w1, w2}
  Home = w1
  Granted <- MCGranted
  Budgets <- MCBudgets
  Samples <- MCSamples
INVARIANTS WorkspaceOfAccount WriteWasGranted
CHECK_DEADLOCK FALSE
