SPECIFICATION Spec
CONSTANTS
  o1 = o1 o2 = o2 b1 = b1 b2 = b2 b3 = b3 ann = ann bob = bob
  cust = cust vend = vend cust2 = cust2 p1 = p1 p2 = p2 p3 = p3
  w1 = w1 w2 = w2 w3 = w3 e1 = e1 k1 = k1 k2 = k2 k3 = k3 k1r = k1r
  n1 = n1 n2 = n2 n3 = n3 pkr = pkr usd = usd Rupee = pkr
  NoEstimate = NoEstimate NoNumber = NoNumber
  Number = {n1, n2, n3} Currency = {pkr, usd} Key = {k1, k2, k3, k1r}
  Actor = {ann, bob} Estimate = {}
  Floor <- MCFloor ReceiptKey <- MCReceiptKey InitialGrants <- AllGrants
  Org = {o1, o2} Branch <- ThreeBranches BranchOrg <- TwoOrgs
  Owner <- TwoOwners Party = {cust, cust2, vend} Product = {p1, p2, p3}
  Warehouse = {w1, w2, w3}
  SaleRequest <- RoundSales
  CopilotSaleRequest <- RoundCopilot
  PurchaseRequest <- RoundPurchases
  ReceiptRequest <- RoundReceipts
  ReturnRequest <- RoundReturns
  VendorPaymentRequest <- RoundPayments
  OpeningStock <- RoundStock Revocable <- AnnAtB1 Unit = 5 Fine = 10
INVARIANTS TenantIsolation RoundingStaysSmall
PROPERTIES OnlyAuthorized
