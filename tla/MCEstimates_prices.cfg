SPECIFICATION DepotSpec
CONSTANTS
  List = {1, 2}
  Product = {1}
  Quantity = {1, 2}
  Number = {1, 2}
  None = None
  Tables <- MCTables
  Prices <- MCPrices
  Scope <- MCScope
  SalePrice <- MCSalePrice
  Source <- MCSource
  Budgets <- MCBudgets
INVARIANTS
  ActiveIsNewest
  RatesAreTheLists
  SavedOnce
  DispatchedIsBilledOnce
  MovedWasSold
PROPERTIES
  ConvertedAsReviewed
  ChargedAsApproved
CHECK_DEADLOCK FALSE
