SPECIFICATION ReportsSpec
CONSTANTS
  Content = {c1, c2}
  Within <- MCWithin
  New = 0
  None = None
  Limit = 1
  Budgets <- MCBudgets
  Document <- MCDocument
  Movement <- MCMovement
  Reading <- MCReading
  LedgerPage = 2
  StockPage = 1
  DaysInMonth = 2
  Months = 2
INVARIANTS
  ListIsExact
  ReadsOwnWrites
  SavedAsOpened
  FiguresAreTrue
CHECK_DEADLOCK FALSE
