------------------------------- MODULE Posting -------------------------------
(***************************************************************************)
(* The authoritative posting core of MuradERP-AI: the SECURITY DEFINER     *)
(* functions of supabase/migrations/ that are the only writers of          *)
(* invoices, purchases, receipts, credit notes, vendor payments, stock,    *)
(* the party sub-ledgers and the general ledger.  Each runs as one         *)
(* PostgreSQL transaction that locks the rows it decides on, so a call is  *)
(* one action; the interleavings are those of whole calls, sent by several *)
(* API servers in any order, and sent again by a client that has lost the  *)
(* answer.  A function that calls another one in its own transaction       *)
(* composes the two effects, which is why the tables are one record: an    *)
(* XxxAfter operator maps the tables before a call to those after it.      *)
(*                                                                         *)
(* A request is one call with its arguments: [op, key, actor, branch,      *)
(* body].  The body stands for the request fingerprint too: callers hash   *)
(* the canonical body.  The idempotency key stands for the pair of service *)
(* principal and key.  Amounts are multiples of the smallest fraction the  *)
(* numeric type keeps; journal_lines is numeric(20,4) and keeps only the   *)
(* multiples of Unit, and prices are entered in multiples of Fine, so that *)
(* a quotient has more digits than what it is taken of.  A document has up *)
(* to two lines (a line of quantity 0 is absent), and sums the functions   *)
(* take over earlier rows are kept as running totals on the document they  *)
(* are about.                                                              *)
(***************************************************************************)
EXTENDS Integers, Sequences, FiniteSets, FiniteSetsExt

CONSTANTS
  Org, Branch, Actor, Party, Product, Warehouse, Estimate, Key, Number,
  Currency,
  NoEstimate,         \* source_estimate_id of a DIRECT invoice
  NoNumber,           \* a vendor invoice without a number
  BranchOrg,          \* the organization of a branch
  Owner,              \* who owns a party, product, warehouse or estimate
  Floor,              \* the greatest of a product's fixed cost floors: its
                      \* purchase price, baselines and PURCHASE rate lists
  Rupee,              \* the currency of purchases
  ReceiptKey,         \* the key of the receipt inside a copilot sale
  SaleRequest, PurchaseRequest, ReceiptRequest, ReturnRequest,
  VendorPaymentRequest, CopilotSaleRequest,
  OpeningStock,       \* what is in each warehouse when the run starts
  InitialGrants,      \* who may do what where when the run starts
  Revocable,          \* the grants administrators change during the run
  Unit,               \* how many amount units make 0.0001
  Fine                \* how many make the smallest difference of two prices

Op == {"sale", "purchase", "receipt", "return", "vendorPayment"}
Line == 1..2
Account == {"cash", "bank", "other", "ar", "inventory", "tax", "ap", "rent",
            "sales", "cogs"}
Method == {"cash", "bank", "other"}
Cell == Product \X Warehouse

\* The permission each function asks for; both payment functions share one.
Permission == [sale |-> "sales.create", purchase |-> "purchases.create",
               receipt |-> "payments.create", vendorPayment |-> "payments.create",
               return |-> "returns.create"]
\* Active membership, the permission and branch access, held together.
Grant == Actor \X {Permission[o] : o \in Op} \X Branch

Id == Nat \ {0}
Allocation == SUBSET [doc : Id, amount : Nat]
SaleBody ==
  [customer : Party, warehouse : Warehouse, number : Number,
   estimate : Estimate \cup {NoEstimate}, currency : Currency,
   product : [Line -> Product], qty : [Line -> Nat], price : [Line -> Nat],
   cost : [Line -> Nat], off : [Line -> Nat], perLine : BOOLEAN,
   subtotal : Nat, discount : Nat, grand : Nat, rent : Nat, paid : Nat]
PurchaseBody ==
  [vendor : Party, warehouse : Warehouse, number : Number \cup {NoNumber},
   product : [Line -> Product], qty : [Line -> Nat], cost : [Line -> Nat],
   discount : Nat, tax : Nat]
ReceiptBody ==
  [customer : Party, amount : Nat, currency : Currency, method : Method,
   alloc : Allocation]
ReturnBody ==
  [customer : Party, invoice : Id, number : Number, currency : Currency,
   items : [Line -> Nat], warehouse : [Line -> Warehouse]]
VendorPaymentBody ==
  [vendor : Party, amount : Nat, method : Method, alloc : Allocation]
Body == SaleBody \cup PurchaseBody \cup ReceiptBody \cup ReturnBody
          \cup VendorPaymentBody

Call(op, bodies) ==
  [op : {op}, key : Key, actor : Actor, branch : Branch, body : bodies]
Request == SaleRequest \cup PurchaseRequest \cup ReceiptRequest
             \cup ReturnRequest \cup VendorPaymentRequest
             \cup CopilotSaleRequest

ASSUME UnitAssumption == Unit \in Nat \ {0} /\ Fine \in Nat \ {0}

ASSUME OwnershipAssumption ==
  /\ BranchOrg \in [Branch -> Org]
  /\ Owner \in [Party \cup Product \cup Warehouse \cup Estimate -> Org]
  /\ NoEstimate \notin Estimate
  /\ Floor \in [Product -> Nat]
  /\ ReceiptKey \in [Key -> Key]
  /\ OpeningStock \in [Cell -> Nat]
  /\ InitialGrants \subseteq Grant /\ Revocable \subseteq Grant

\* Only a copilot sale, or the conversion of an estimate, fixes the discount
\* of each line; only a copilot sale takes money at once.  Its fingerprint is
\* an md5 of the payload, never one of the SHA-256 fingerprints of the API.
ASSUME RequestAssumption ==
  /\ SaleRequest \subseteq Call("sale", SaleBody)
  /\ PurchaseRequest \subseteq Call("purchase", PurchaseBody)
  /\ ReceiptRequest \subseteq Call("receipt", ReceiptBody)
  /\ ReturnRequest \subseteq Call("return", ReturnBody)
  /\ VendorPaymentRequest \subseteq Call("vendorPayment", VendorPaymentBody)
  /\ CopilotSaleRequest \subseteq Call("copilotSale", SaleBody)
  /\ \A r \in SaleRequest :
       r.body.paid = 0 /\ (r.body.perLine => r.body.estimate # NoEstimate)
  /\ \A r \in CopilotSaleRequest : r.body.perLine
  /\ \A r \in SaleRequest, c \in CopilotSaleRequest : r.body # c.body

ASSUME PriceAssumption ==
  \A r \in SaleRequest \cup CopilotSaleRequest, l \in Line :
    r.body.price[l] % Fine = 0

\* A conversion takes over the discounts of all lines of its estimate, which
\* are the discount of the invoice.
ASSUME DiscountAssumption ==
  \A r \in SaleRequest :
    r.body.perLine => r.body.off[1] + r.body.off[2] = r.body.discount

VARIABLES
  db,      \* the tables, see Tables
  grants,  \* the grants in force
  answer   \* what the last execution of each request returned

vars == <<db, grants, answer>>

-----------------------------------------------------------------------------
(* Amounts *)

\* numeric(20,4): rounded to the nearest 0.0001, half away from zero.
Post4(x) == Unit * ((2 * x + Unit) \div (2 * Unit))
\* The quotient of two numerics, rounded at the smallest fraction.
Quotient(a, b) == IF b = 0 THEN 0 ELSE (2 * a + b) \div (2 * b)
Both(f) == f[1] + f[2]
Cost(qty, rate) == Both([l \in Line |-> qty[l] * rate[l]])
Present(qty) == {l \in Line : qty[l] > 0}

Zero == [a \in Account |-> 0]
SideTotal(f) == f["cash"] + f["bank"] + f["other"] + f["ar"] + f["inventory"]
                  + f["tax"] + f["ap"] + f["rent"] + f["sales"] + f["cogs"]
\* The lines as journal_lines stores them.
Posted(f) == [a \in Account |-> Post4(f[a])]

\* assert_journal_entry_balanced, and the one-sided check of a line, which a
\* positive amount that rounds to zero breaks.
Postable(dr, cr) ==
  /\ \A a \in Account : /\ dr[a] > 0 => Post4(dr[a]) > 0
                        /\ cr[a] > 0 => Post4(cr[a]) > 0
  /\ SideTotal(Posted(dr)) = SideTotal(Posted(cr))
  /\ SideTotal(Posted(dr)) > 0

-----------------------------------------------------------------------------
(* Reading a request against the tables *)

\* Mutant: the permission in any branch will do.
AuthorizedAnywhere(r) ==
  \E b \in Branch : <<r.actor, Permission[r.op], b>> \in grants
Authorized(r) == <<r.actor, Permission[r.op], r.branch>> \in grants
\* Mutant: a thing of any organization will do.
OwnsAny(r, things) == \A x \in things : Owner[x] \in Org
Owns(r, things) == \A x \in things : Owner[x] = BranchOrg[r.branch]

SameScope(k, r) == /\ k.op = r.op
                   /\ k.key = r.key
                   /\ BranchOrg[k.branch] = BranchOrg[r.branch]
SameCall(k, r) == /\ k.fingerprint = r.body
                  /\ k.actor = r.actor
                  /\ k.branch = r.branch
\* Mutant: another call may use the key again.
FreshCall(t, r) == \A k \in t.keys : ~(SameScope(k, r) /\ SameCall(k, r))
Fresh(t, r) == \A k \in t.keys : ~SameScope(k, r)
\* The key row of a repeated call, whose journal entry must still be there.
Original(t, r) ==
  {k \in t.keys : /\ SameScope(k, r)
                  /\ SameCall(k, r)
                  /\ \E e \in t.journal : e.source = <<k.op, k.doc>>}

Stamp(r, doc) == [op |-> r.op, key |-> r.key, actor |-> r.actor,
                  branch |-> r.branch, fingerprint |-> r.body, doc |-> doc]
Entry(r, doc, dr, cr) ==
  [source |-> <<r.op, doc>>, stamp |-> Stamp(r, doc),
   dr |-> Posted(dr), cr |-> Posted(cr)]
SubEntry(r, doc, party, debit, credit) ==
  [source |-> <<r.op, doc>>, branch |-> r.branch, party |-> party,
   debit |-> debit, credit |-> credit]

\* What a document moves in one inventory row, over both of its lines.
Demand(product, warehouse, qty, c) ==
  Both([l \in Line |-> IF <<product[l], warehouse[l]>> = c
                         THEN qty[l] ELSE 0])
\* Mutant: every movement is booked as goods coming in.
MovementsIn(r, doc, product, warehouse, qty, sign) ==
  {[source |-> <<r.op, doc>>, branch |-> r.branch, line |-> l,
    cell |-> <<product[l], warehouse[l]>>, qty |-> qty[l]]
     : l \in Present(qty)}
Movements(r, doc, product, warehouse, qty, sign) ==
  {[source |-> <<r.op, doc>>, branch |-> r.branch, line |-> l,
    cell |-> <<product[l], warehouse[l]>>, qty |-> sign * qty[l]]
     : l \in Present(qty)}

AllocatedTo(alloc, doc) ==
  IF \E x \in alloc : x.doc = doc
    THEN (CHOOSE x \in alloc : x.doc = doc).amount ELSE 0
\* Every document once, with a positive amount, the amounts adding up.
WellAllocated(alloc, amount, docs) ==
  /\ alloc # {}
  /\ \A x, y \in alloc : x.doc = y.doc => x = y
  /\ \A x \in alloc : x.amount > 0 /\ x.doc \in docs
  /\ SumFunction([x \in alloc |-> x.amount]) = amount

-----------------------------------------------------------------------------
(* post_invoice_atomic *)

Here(b) == [l \in Line |-> b.warehouse]
Billed(b) == b.grand + b.rent

\* Mutant: an estimate can be converted again.
ConvertibleAgain(t, r) ==
  r.body.estimate # NoEstimate =>
    Owns(r, {r.body.estimate}) /\ t.estimate[r.body.estimate] # "DRAFT"
Convertible(t, r) ==
  r.body.estimate # NoEstimate =>
    Owns(r, {r.body.estimate}) /\ t.estimate[r.body.estimate] = "READY"

\* Everything the function checks before it looks at the idempotency row.
SaleAdmitted(t, r) ==
  LET b == r.body IN
  /\ Authorized(r)
  /\ b.discount <= b.subtotal
  /\ b.grand = b.subtotal - b.discount
  /\ b.grand > 0
  /\ Present(b.qty) # {}
  /\ Owns(r, {b.customer, b.warehouse})
  /\ Convertible(t, r)

SaleEntry(r, doc) ==
  LET b == r.body
      cogs == Cost(b.qty, b.cost)
  IN  Entry(r, doc,
        [Zero EXCEPT !["ar"] = Billed(b), !["cogs"] = cogs],
        [Zero EXCEPT !["sales"] = b.grand, !["inventory"] = cogs,
                     !["rent"] = b.rent])

\* Mutant: each line is checked on its own.
InStockByLine(t, b) ==
  \A l \in Line : b.qty[l] <= t.stock[<<b.product[l], b.warehouse>>]
InStock(t, b) ==
  \A c \in Cell : Demand(b.product, Here(b), b.qty, c) <= t.stock[c]

SalePosts(t, r) ==
  LET b == r.body
      cogs == Cost(b.qty, b.cost)
  IN  /\ SaleAdmitted(t, r)
      /\ Fresh(t, r)
      /\ Owns(r, {b.product[l] : l \in Present(b.qty)})
      /\ Cost(b.qty, b.price) = b.subtotal
      /\ b.perLine => \A l \in Line : b.off[l] <= b.qty[l] * b.price[l]
      /\ InStock(t, b)
      /\ \A i \in DOMAIN t.invoices :
           ~ /\ BranchOrg[t.invoices[i].branch] = BranchOrg[r.branch]
             /\ t.invoices[i].body.number = b.number
      /\ Postable([Zero EXCEPT !["ar"] = Billed(b), !["cogs"] = cogs],
                  [Zero EXCEPT !["sales"] = b.grand, !["inventory"] = cogs,
                               !["rent"] = b.rent])

SaleAfter(t, r) ==
  LET b == r.body
      doc == Len(t.invoices) + 1
  IN  [t EXCEPT
        !.invoices = Append(@, [branch |-> r.branch, body |-> b, paid |-> 0,
                                credited |-> 0, returned |-> [l \in Line |-> 0],
                                status |-> "POSTED"]),
        !.stock = [c \in Cell |-> @[c] - Demand(b.product, Here(b), b.qty, c)],
        !.moves = @ \cup Movements(r, doc, b.product, Here(b), b.qty, -1),
        !.subledger = @ \cup {SubEntry(r, doc, b.customer, Billed(b), 0)},
        !.journal = @ \cup {SaleEntry(r, doc)},
        !.estimate = [e \in Estimate |-> IF e = b.estimate THEN "CONVERTED"
                                                           ELSE @[e]],
        !.keys = @ \cup {Stamp(r, doc)}]

-----------------------------------------------------------------------------
(* record_purchase *)

PurchaseGoods(b) == Cost(b.qty, b.cost) - b.discount
PurchaseTotal(b) == PurchaseGoods(b) + b.tax

PurchaseAdmitted(r) ==
  LET b == r.body IN
  /\ Authorized(r)
  /\ Present(b.qty) # {}
  /\ Owns(r, {b.vendor, b.warehouse} \cup {b.product[l] : l \in Present(b.qty)})
  /\ b.discount <= Cost(b.qty, b.cost)
  /\ PurchaseTotal(b) > 0

PurchaseDebits(b) ==
  [Zero EXCEPT !["inventory"] = PurchaseGoods(b), !["tax"] = b.tax]
PurchaseCredits(b) == [Zero EXCEPT !["ap"] = PurchaseTotal(b)]

PurchasePosts(t, r) ==
  LET b == r.body IN
  /\ PurchaseAdmitted(r)
  /\ Fresh(t, r)
  /\ b.number # NoNumber =>
       \A i \in DOMAIN t.purchases :
         ~ /\ t.purchases[i].body.vendor = b.vendor
           /\ t.purchases[i].body.number = b.number
  /\ Postable(PurchaseDebits(b), PurchaseCredits(b))

PurchaseAfter(t, r) ==
  LET b == r.body
      doc == Len(t.purchases) + 1
  IN  [t EXCEPT
        !.purchases = Append(@, [branch |-> r.branch, body |-> b, paid |-> 0]),
        !.stock = [c \in Cell |-> @[c] + Demand(b.product, Here(b), b.qty, c)],
        !.moves = @ \cup Movements(r, doc, b.product, Here(b), b.qty, 1),
        !.subledger = @ \cup {SubEntry(r, doc, b.vendor, 0, PurchaseTotal(b))},
        !.journal = @ \cup {Entry(r, doc, PurchaseDebits(b), PurchaseCredits(b))},
        !.keys = @ \cup {Stamp(r, doc)}]

-----------------------------------------------------------------------------
(* record_customer_payment *)

Outstanding(i) == Billed(i.body) - i.paid - i.credited

\* Mutant: asked of a repeated receipt too, which has paid the invoice.
PayableNow(t, r) ==
  \A x \in r.body.alloc :
    /\ t.invoices[x.doc].body.customer = r.body.customer
    /\ t.invoices[x.doc].branch = r.branch
    /\ x.amount <= Outstanding(t.invoices[x.doc])
OwnInvoices(t, r) ==
  \A x \in r.body.alloc :
    /\ t.invoices[x.doc].body.customer = r.body.customer
    /\ t.invoices[x.doc].branch = r.branch

ReceiptAdmitted(t, r) ==
  LET b == r.body IN
  /\ Authorized(r)
  /\ b.amount > 0
  /\ Owns(r, {b.customer})
  /\ WellAllocated(b.alloc, b.amount, DOMAIN t.invoices)
  /\ OwnInvoices(t, r)

ReceiptDebits(b) == [Zero EXCEPT ![b.method] = b.amount]
ReceiptCredits(b) == [Zero EXCEPT !["ar"] = b.amount]

\* Mutant: what was paid before is not taken off.
WithinUncredited(t, alloc) ==
  \A x \in alloc : x.amount <= Billed(t.invoices[x.doc].body)
                                - t.invoices[x.doc].credited
WithinOutstanding(t, alloc) ==
  \A x \in alloc : x.amount <= Outstanding(t.invoices[x.doc])

ReceiptPosts(t, r) ==
  LET b == r.body IN
  /\ ReceiptAdmitted(t, r)
  /\ Fresh(t, r)
  /\ WithinOutstanding(t, b.alloc)
  /\ Postable(ReceiptDebits(b), ReceiptCredits(b))

\* The receivable a receipt allocates to, with its status worked out again.
Settled(i, amount) ==
  LET settled == i.paid + amount + i.credited
  IN  [i EXCEPT !.paid = @ + amount,
                !.status = IF settled >= Billed(i.body) THEN "PAID"
                                                        ELSE "PARTIALLY_PAID"]

ReceiptAfter(t, r) ==
  LET b == r.body
      doc == Len(t.receipts) + 1
  IN  [t EXCEPT
        !.receipts = Append(@, [branch |-> r.branch, body |-> b]),
        !.invoices = [i \in DOMAIN @ |->
                        IF \E x \in b.alloc : x.doc = i
                          THEN Settled(@[i], AllocatedTo(b.alloc, i))
                          ELSE @[i]],
        !.subledger = @ \cup {SubEntry(r, doc, b.customer, 0, b.amount)},
        !.journal = @ \cup {Entry(r, doc, ReceiptDebits(b), ReceiptCredits(b))},
        !.keys = @ \cup {Stamp(r, doc)}]

-----------------------------------------------------------------------------
(* record_sales_return *)

\* Mutant: the discount is not taken off.
NetRateGross(b, l) == b.price[l]
\* copilot_invoice_net_rate: what one unit of an invoice line was sold for.
\* Of a discount on the whole invoice it multiplies the rounded ratio.
NetRate(b, l) ==
  IF b.perLine THEN Quotient(b.qty[l] * b.price[l] - b.off[l], b.qty[l])
  ELSE IF b.discount > 0 /\ b.subtotal > 0
         THEN (b.price[l] \div Fine) * Quotient(b.grand * Fine, b.subtotal)
  ELSE b.price[l]

CreditValue(i, b) ==
  Cost(b.items, [l \in Line |-> NetRate(i.body, l)])
CreditCogs(i, b) == Cost(b.items, i.body.cost)

ReturnAdmitted(t, r) ==
  LET b == r.body
      i == t.invoices[b.invoice]
  IN  /\ Authorized(r)
      /\ Owns(r, {b.customer})
      /\ b.invoice \in DOMAIN t.invoices
      /\ i.body.customer = b.customer
      /\ i.branch = r.branch
      /\ i.body.currency = b.currency
      /\ Present(b.items) # {}
      /\ Present(b.items) \subseteq Present(i.body.qty)
      /\ Owns(r, {b.warehouse[l] : l \in Present(b.items)}
                   \cup {i.body.product[l] : l \in Present(b.items)})

ReturnDebits(i, b) == [Zero EXCEPT !["sales"] = CreditValue(i, b),
                                   !["inventory"] = CreditCogs(i, b)]
ReturnCredits(i, b) == [Zero EXCEPT !["ar"] = CreditValue(i, b),
                                    !["cogs"] = CreditCogs(i, b)]

\* The trigger on credit_notes asks for a posted invoice.
ReturnPosts(t, r) ==
  LET b == r.body
      i == t.invoices[b.invoice]
  IN  /\ ReturnAdmitted(t, r)
      /\ Fresh(t, r)
      /\ \A l \in Line : i.returned[l] + b.items[l] <= i.body.qty[l]
      /\ CreditValue(i, b) + CreditCogs(i, b) > 0
      /\ i.status \in {"POSTED", "PARTIALLY_PAID", "PAID"}
      /\ \A n \in DOMAIN t.creditNotes :
           ~ /\ BranchOrg[t.creditNotes[n].branch] = BranchOrg[r.branch]
             /\ t.creditNotes[n].body.number = b.number
      /\ Postable(ReturnDebits(i, b), ReturnCredits(i, b))

\* Mutant: the invoice is credited at its gross price.
CreditedGross(i, b) ==
  [i EXCEPT !.credited = @ + Cost(b.items, i.body.price),
            !.returned = [l \in Line |-> @[l] + b.items[l]]]
\* The invoice keeps its status: only a receipt works it out again.
Credited(i, b) ==
  [i EXCEPT !.credited = @ + CreditValue(i, b),
            !.returned = [l \in Line |-> @[l] + b.items[l]]]

ReturnAfter(t, r) ==
  LET b == r.body
      i == t.invoices[b.invoice]
      doc == Len(t.creditNotes) + 1
  IN  [t EXCEPT
        !.creditNotes = Append(@, [branch |-> r.branch, body |-> b]),
        !.invoices = [@ EXCEPT ![b.invoice] = Credited(i, b)],
        !.stock = [c \in Cell |->
                     @[c] + Demand(i.body.product, b.warehouse, b.items, c)],
        !.moves = @ \cup Movements(r, doc, i.body.product, b.warehouse,
                                   b.items, 1),
        !.subledger =
           @ \cup {SubEntry(r, doc, b.customer, 0, CreditValue(i, b))},
        !.journal =
           @ \cup {Entry(r, doc, ReturnDebits(i, b), ReturnCredits(i, b))},
        !.keys = @ \cup {Stamp(r, doc)}]

-----------------------------------------------------------------------------
(* record_vendor_payment *)

VendorPaymentAdmitted(t, r) ==
  LET b == r.body IN
  /\ Authorized(r)
  /\ b.amount > 0
  /\ Owns(r, {b.vendor})
  /\ WellAllocated(b.alloc, b.amount, DOMAIN t.purchases)
  /\ \A x \in b.alloc : /\ t.purchases[x.doc].body.vendor = b.vendor
                        /\ t.purchases[x.doc].branch = r.branch

VendorPaymentDebits(b) == [Zero EXCEPT !["ap"] = b.amount]
\* Mutant: the method is not looked at.
VendorPaymentCash(b) == [Zero EXCEPT !["cash"] = b.amount]
VendorPaymentCredits(b) == [Zero EXCEPT ![b.method] = b.amount]

\* Mutant: earlier payments are not taken off.
UnpaidTotal(p) == PurchaseTotal(p.body)
Unpaid(p) == PurchaseTotal(p.body) - p.paid

VendorPaymentPosts(t, r) ==
  LET b == r.body IN
  /\ VendorPaymentAdmitted(t, r)
  /\ Fresh(t, r)
  /\ \A x \in b.alloc : x.amount <= Unpaid(t.purchases[x.doc])
  /\ Postable(VendorPaymentDebits(b), VendorPaymentCredits(b))

\* Mutant: a payment replaces the earlier ones.
PayingOver(p, amount) == [p EXCEPT !.paid = IF amount > 0 THEN amount ELSE @]
Paying(p, amount) == [p EXCEPT !.paid = @ + amount]

VendorPaymentAfter(t, r) ==
  LET b == r.body
      doc == Len(t.vendorPayments) + 1
  IN  [t EXCEPT
        !.vendorPayments = Append(@, [branch |-> r.branch, body |-> b]),
        !.purchases = [p \in DOMAIN @ |->
                         Paying(@[p], AllocatedTo(b.alloc, p))],
        !.subledger = @ \cup {SubEntry(r, doc, b.vendor, b.amount, 0)},
        !.journal = @ \cup {Entry(r, doc, VendorPaymentDebits(b),
                                  VendorPaymentCredits(b))},
        !.keys = @ \cup {Stamp(r, doc)}]

-----------------------------------------------------------------------------
(* commit_copilot_sale: an invoice and, if money was taken, its receipt, in *)
(* one transaction.  The two keys are used by nothing else and commit       *)
(* together, so both calls inside post or both replay.                      *)

SaleCall(r) == [r EXCEPT !.op = "sale"]
ReceiptCall(r, doc) ==
  [op |-> "receipt", key |-> ReceiptKey[r.key], actor |-> r.actor,
   branch |-> r.branch,
   body |-> [customer |-> r.body.customer, amount |-> r.body.paid,
             currency |-> r.body.currency, method |-> "cash",
             alloc |-> {[doc |-> doc, amount |-> r.body.paid]}]]

\* copilot_purchase_floor: beside its fixed floors, what a unit of the product cost
\* net on the last line it was bought on.  Purchases are dated as they are posted.
BoughtOn(x, t, r, product) ==
  LET purchase == t.purchases[x[1]] IN
  /\ BranchOrg[purchase.branch] = BranchOrg[r.branch]
  /\ purchase.body.product[x[2]] = product /\ purchase.body.qty[x[2]] > 0
Bought(t, r, product) ==
  {x \in (DOMAIN t.purchases) \X Line : BoughtOn(x, t, r, product)}
Latest(lines) ==
  {x \in lines : \A y \in lines : x[1] > y[1] \/ (x[1] = y[1] /\ x[2] >= y[2])}
\* A line's unit cost bears its share of the discount and the tax of its purchase.
CoversPurchase(b, qty, net, l) ==
  net * Cost(b.qty, b.cost) >= qty * b.cost[l] * PurchaseTotal(b)

\* The line discounts add up and leave every line above its cost floor, which is
\* worked out anew on every call.
AboveFloor(t, r) ==
  LET b == r.body IN
  /\ Both(b.off) = b.discount
  /\ \A l \in Present(b.qty) :
       LET net == b.qty[l] * b.price[l] - b.off[l] IN
       /\ b.off[l] <= b.qty[l] * b.price[l]
       /\ net >= b.qty[l] * Floor[b.product[l]]
       /\ net >= b.qty[l] * b.cost[l]
       /\ b.currency = Rupee =>
            \A x \in Latest(Bought(t, r, b.product[l])) :
              CoversPurchase(t.purchases[x[1]].body, b.qty[l], net, x[2])

CopilotSalePosts(t, r) ==
  LET doc == Len(t.invoices) + 1 IN
  /\ AboveFloor(t, r)
  /\ SalePosts(t, SaleCall(r))
  /\ r.body.paid > 0 =>
       ReceiptPosts(SaleAfter(t, SaleCall(r)), ReceiptCall(r, doc))

CopilotSaleAfter(t, r) ==
  LET doc == Len(t.invoices) + 1
      sold == SaleAfter(t, SaleCall(r))
  IN  IF r.body.paid > 0 THEN ReceiptAfter(sold, ReceiptCall(r, doc)) ELSE sold

\* Mutant: the receipt inside is posted again.
CopilotSaleUnpaid(t, r) ==
  {k \in Original(t, SaleCall(r)) : r.body.paid = 0}
CopilotSaleOriginal(t, r) ==
  {k \in Original(t, SaleCall(r)) :
     r.body.paid > 0 =>
       LET receipt == ReceiptCall(r, k.doc)
       IN  ReceiptAdmitted(t, receipt) /\ Original(t, receipt) # {}}

-----------------------------------------------------------------------------
(* Calls and their answers *)

Done(doc) == [status |-> "done", doc |-> doc]
None == [status |-> "none", doc |-> 0]
Refused == [status |-> "refused", doc |-> 0]

Posts(t, r) ==
  \/ r.op = "sale" /\ SalePosts(t, r)
  \/ r.op = "purchase" /\ PurchasePosts(t, r)
  \/ r.op = "receipt" /\ ReceiptPosts(t, r)
  \/ r.op = "return" /\ ReturnPosts(t, r)
  \/ r.op = "vendorPayment" /\ VendorPaymentPosts(t, r)
  \/ r.op = "copilotSale" /\ CopilotSalePosts(t, r)

\* The key rows whose document a repeated call is answered with.
Replays(t, r) ==
  {k \in t.keys :
     \/ r.op = "sale" /\ SaleAdmitted(t, r) /\ k \in Original(t, r)
     \/ r.op = "purchase" /\ PurchaseAdmitted(r) /\ k \in Original(t, r)
     \/ r.op = "receipt" /\ ReceiptAdmitted(t, r) /\ k \in Original(t, r)
     \/ r.op = "return" /\ ReturnAdmitted(t, r) /\ k \in Original(t, r)
     \/ r.op = "vendorPayment" /\ VendorPaymentAdmitted(t, r)
          /\ k \in Original(t, r)
     \/ /\ r.op = "copilotSale"
        /\ AboveFloor(t, r)
        /\ SaleAdmitted(t, SaleCall(r))
        /\ k \in CopilotSaleOriginal(t, r)}

Answer(r, a) == /\ answer' = [answer EXCEPT ![r] = a]
                /\ UNCHANGED grants

PostSale(r) ==
  /\ SalePosts(db, r)
  /\ db' = SaleAfter(db, r)
  /\ Answer(r, Done(Len(db.invoices) + 1))

PostPurchase(r) ==
  /\ PurchasePosts(db, r)
  /\ db' = PurchaseAfter(db, r)
  /\ Answer(r, Done(Len(db.purchases) + 1))

PostReceipt(r) ==
  /\ ReceiptPosts(db, r)
  /\ db' = ReceiptAfter(db, r)
  /\ Answer(r, Done(Len(db.receipts) + 1))

PostReturn(r) ==
  /\ ReturnPosts(db, r)
  /\ db' = ReturnAfter(db, r)
  /\ Answer(r, Done(Len(db.creditNotes) + 1))

PostVendorPayment(r) ==
  /\ VendorPaymentPosts(db, r)
  /\ db' = VendorPaymentAfter(db, r)
  /\ Answer(r, Done(Len(db.vendorPayments) + 1))

PostCopilotSale(r) ==
  /\ CopilotSalePosts(db, r)
  /\ db' = CopilotSaleAfter(db, r)
  /\ Answer(r, Done(Len(db.invoices) + 1))

Replay(r) ==
  /\ \E k \in Replays(db, r) : Answer(r, Done(k.doc))
  /\ UNCHANGED db

\* Anything else is rolled back.
Refuse(r) ==
  /\ ~Posts(db, r)
  /\ Replays(db, r) = {}
  /\ Answer(r, Refused)
  /\ UNCHANGED db

-----------------------------------------------------------------------------
(* What happens around the calls *)

\* commit_depot_action makes an estimate ready for conversion when it creates
\* the dispatch of its goods.
MarkReady(e) ==
  /\ db.estimate[e] = "DRAFT"
  /\ db' = [db EXCEPT !.estimate[e] = "READY"]
  /\ UNCHANGED <<grants, answer>>

Revoke(g) ==
  /\ g \in grants
  /\ grants' = grants \ {g}
  /\ UNCHANGED <<db, answer>>

Regrant(g) ==
  /\ g \notin grants
  /\ grants' = grants \cup {g}
  /\ UNCHANGED <<db, answer>>

-----------------------------------------------------------------------------
Init ==
  /\ db = [invoices |-> <<>>, purchases |-> <<>>, receipts |-> <<>>,
           creditNotes |-> <<>>, vendorPayments |-> <<>>, journal |-> {},
           subledger |-> {}, moves |-> {}, keys |-> {}, stock |-> OpeningStock,
           estimate |-> [e \in Estimate |-> "DRAFT"]]
  /\ grants = InitialGrants
  /\ answer = [r \in Request |-> None]

Next ==
  \/ \E r \in SaleRequest : PostSale(r)
  \/ \E r \in PurchaseRequest : PostPurchase(r)
  \/ \E r \in ReceiptRequest : PostReceipt(r)
  \/ \E r \in ReturnRequest : PostReturn(r)
  \/ \E r \in VendorPaymentRequest : PostVendorPayment(r)
  \/ \E r \in CopilotSaleRequest : PostCopilotSale(r)
  \/ \E r \in Request : Replay(r) \/ Refuse(r)
  \/ \E e \in Estimate : MarkReady(e)
  \/ \E g \in Revocable : Revoke(g) \/ Regrant(g)

Spec == Init /\ [][Next]_vars

=============================================================================
