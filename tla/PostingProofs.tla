---------------------------- MODULE PostingProofs ----------------------------
(***************************************************************************)
(* Proofs about the posting core, for any organizations, documents and     *)
(* amounts.  What is inductive is SoundIn: the tables have their types,    *)
(* the discount of a line never exceeds the line (or a return would credit *)
(* a negative amount), and nothing is settled or returned beyond what was  *)
(* billed or sold.  Each function has one lemma for the types of what it   *)
(* writes and one for SoundIn; a copilot sale, which calls two of them in  *)
(* one transaction, composes theirs.  FateIn adds what the statuses of     *)
(* invoices and estimates tell.                                            *)
(*                                                                         *)
(* Idempotency: a call makes one document, one key row and one journal     *)
(* entry, and whoever is told "done" was told of their own.                *)
(* OneDocumentPerCall is inductive with the types: a document is numbered  *)
(* after all that its table has, so no key row and no entry can be about   *)
(* it yet.  Authority and tenancy: nothing is posted without a grant held  *)
(* then, and no document meets a document, party, product or warehouse of  *)
(* others.                                                                 *)
(*                                                                         *)
(* Reconciliation, last.  The sum that the library's fold works out is     *)
(* found by counting, so that one more row adds its amount and one changed *)
(* row changes it.  A posting adds one journal entry, one row of a party's *)
(* ledger and the movements of its goods, all named after the document it  *)
(* makes, and moves the documents by what the entry says: accounts,        *)
(* ledgers, documents and goods move in step, so that what agrees before   *)
(* agrees after.                                                           *)
(*                                                                         *)
(* Rounding, at the end, for every unit and every fraction that a net rate *)
(* keeps.  An entry has a row of its own with the amount that was rounded  *)
(* to make it, and what an invoice has credited is what came back of it at *)
(* its net rates: each is a quotient within half of the smallest fraction  *)
(* of what it stands for, line by line or by the ratio of the invoice.     *)
(***************************************************************************)
EXTENDS PostingProperties, FiniteSetTheorems, WellFoundedInduction, TLAPS

-----------------------------------------------------------------------------
(* Amounts and rows *)

\* Division of natural numbers stays natural.
LEMMA DivNat == ASSUME NEW a \in Nat, NEW b \in Nat \ {0} PROVE a \div b \in Nat
  BY SMT

\* So does multiplication.
LEMMA TimesNat == ASSUME NEW a \in Nat, NEW b \in Nat PROVE a * b \in Nat
  BY SMT

\* Rounding an amount to what journal_lines keeps never makes it negative.
LEMMA Post4Nat == ASSUME NEW x \in Nat PROVE Post4(x) \in Nat
<1>1. 2 * x + Unit \in Nat /\ 2 * Unit \in Nat \ {0}
  BY UnitAssumption
<1>2. (2 * x + Unit) \div (2 * Unit) \in Nat
  BY <1>1, DivNat
<1>. QED
  BY <1>2, TimesNat, UnitAssumption DEF Post4

\* A rounded quotient of amounts is an amount.
LEMMA QuotientNat ==
  ASSUME NEW a \in Nat, NEW b \in Nat PROVE Quotient(a, b) \in Nat
<1>1. CASE b = 0
  BY <1>1 DEF Quotient
<1>2. CASE b # 0
  <2>1. 2 * a + b \in Nat /\ 2 * b \in Nat \ {0}
    BY <1>2
  <2>. QED
    BY <2>1, <1>2, DivNat DEF Quotient
<1>. QED
  BY <1>1, <1>2

\* Two lines of quantities at a rate come to an amount.
LEMMA CostNat ==
  ASSUME NEW qty \in [Line -> Nat], NEW rate \in [Line -> Nat]
  PROVE  Cost(qty, rate) \in Nat
<1>1. \A l \in Line : qty[l] * rate[l] \in Nat
  BY TimesNat
<1>2. 1 \in Line /\ 2 \in Line
  BY DEF Line
<1>. QED
  BY <1>1, <1>2 DEF Cost, Both

\* A document moves a natural quantity in each inventory row.
LEMMA DemandNat ==
  ASSUME NEW product, NEW warehouse, NEW qty \in [Line -> Nat], NEW c
  PROVE  Demand(product, warehouse, qty, c) \in Nat
  BY DEF Demand, Both, Line

\* The stored lines of an entry are lines.
LEMMA LinesType == ASSUME NEW f \in Lines PROVE Posted(f) \in Lines
  BY Post4Nat DEF Posted, Lines

\* The key row of a call.
LEMMA StampType ==
  ASSUME NEW o \in Op, NEW r, r \in Call(o, Body), NEW doc \in Id
  PROVE  Stamp(r, doc) \in KeyRow
  BY DEF Stamp, KeyRow, Call, Op

\* The journal entry of a call.
LEMMA EntryType ==
  ASSUME NEW o \in Op, NEW r, r \in Call(o, Body), NEW doc \in Id,
         NEW dr \in Lines, NEW cr \in Lines
  PROVE  Entry(r, doc, dr, cr) \in
           JournalEntry
<1>1. Stamp(r, doc) \in KeyRow
  BY StampType
<1>2. <<r.op, doc>> \in Source
  BY DEF Source, Call
<1>. QED
  BY <1>1, <1>2, LinesType DEF Entry, JournalEntry

\* The stock movements of a call, in (sign 1) or out (sign -1).
LEMMA MovementsType ==
  ASSUME NEW o \in Op, NEW r, r \in Call(o, Body), NEW doc \in Id,
         NEW product \in [Line -> Product], NEW warehouse \in [Line -> Warehouse],
         NEW qty \in [Line -> Nat], NEW sign \in Int
  PROVE  Movements(r, doc, product, warehouse, qty, sign) \subseteq Movement
<1>. SUFFICES ASSUME NEW l \in Line
              PROVE [source |-> <<r.op, doc>>, branch |-> r.branch, line |-> l,
                     cell |-> <<product[l], warehouse[l]>>,
                     qty |-> sign * qty[l]]
                      \in Movement
  BY DEF Movements, Present
<1>1. sign * qty[l] \in Int
  OBVIOUS
<1>2. <<r.op, doc>> \in Source /\ r.branch \in Branch
  BY DEF Source, Call
<1>3. <<product[l], warehouse[l]>> \in Cell
  BY DEF Cell
<1>. QED
  BY <1>1, <1>2, <1>3 DEF Movement

\* The party ledger row of a call.
LEMMA SubEntryType ==
  ASSUME NEW o \in Op, NEW r, r \in Call(o, Body), NEW doc \in Id,
         NEW party \in Party, NEW debit \in Nat, NEW credit \in Nat
  PROVE  SubEntry(r, doc, party, debit, credit) \in SubledgerEntry
  BY DEF SubEntry, SubledgerEntry, Source, Call

\* A sale keeps the types: it takes no more than the stock there is.
LEMMA SaleAfterType ==
  ASSUME NEW t \in Tables, NEW r \in Call("sale", SaleBody), SalePosts(t, r)
  PROVE  SaleAfter(t, r) \in Tables
<1>. DEFINE b == r.body
            doc == Len(t.invoices) + 1
            cogs == Cost(b.qty, b.cost)
<1>b. b \in SaleBody /\ r \in Call("sale", Body) /\ "sale" \in Op
  BY DEF Call, Body, Op
<1>t. /\ t.invoices \in Seq(Invoice)
      /\ t.stock \in [Cell -> Nat]
      /\ t.estimate \in [Estimate -> EstimateStatus]
  BY DEF Tables
<1>d. doc \in Id
  BY <1>t DEF Id
<1>f. /\ b.qty \in [Line -> Nat] /\ b.cost \in [Line -> Nat]
      /\ b.product \in [Line -> Product] /\ b.warehouse \in Warehouse
      /\ b.customer \in Party /\ b.grand \in Nat /\ b.rent \in Nat
  BY <1>b DEF SaleBody
<1>c. cogs \in Nat /\ Billed(b) \in Nat
  BY <1>f, CostNat DEF Billed
<1>h. Here(b) \in [Line -> Warehouse]
  BY <1>f DEF Here
<1>1. Append(t.invoices, [branch |-> r.branch, body |-> b, paid |-> 0,
                          credited |-> 0, returned |-> [l \in Line |-> 0],
                          status |-> "POSTED"]) \in Seq(Invoice)
  <2>1. [branch |-> r.branch, body |-> b, paid |-> 0, credited |-> 0,
         returned |-> [l \in Line |-> 0], status |-> "POSTED"] \in Invoice
    BY <1>b DEF Invoice, Call
  <2>. QED
    BY <2>1, <1>t
<1>2. [c \in Cell |-> t.stock[c] - Demand(b.product, Here(b), b.qty, c)]
        \in [Cell -> Nat]
  <2>. SUFFICES ASSUME NEW c \in Cell
                PROVE t.stock[c] - Demand(b.product, Here(b), b.qty, c) \in Nat
    OBVIOUS
  <2>1. Demand(b.product, Here(b), b.qty, c) <= t.stock[c]
    BY DEF SalePosts, InStock
  <2>2. Demand(b.product, Here(b), b.qty, c) \in Nat
    BY <1>f, DemandNat
  <2>. QED
    BY <2>1, <2>2, <1>t
<1>3. Movements(r, doc, b.product, Here(b), b.qty, -1) \subseteq Movement
  <2>1. -1 \in Int
    OBVIOUS
  <2>. QED
    BY <2>1, <1>b, <1>d, <1>f, <1>h, MovementsType
<1>4. SubEntry(r, doc, b.customer, Billed(b), 0) \in SubledgerEntry
  BY <1>b, <1>d, <1>f, <1>c, SubEntryType
<1>5. SaleEntry(r, doc) \in JournalEntry
  <2>1. [Zero EXCEPT !["ar"] = Billed(b), !["cogs"] = cogs] \in Lines
    BY <1>c DEF Zero, Lines
  <2>2. [Zero EXCEPT !["sales"] = b.grand, !["inventory"] = cogs,
                     !["rent"] = b.rent] \in Lines
    BY <1>c, <1>f DEF Zero, Lines
  <2>. QED
    BY <2>1, <2>2, <1>b, <1>d, EntryType DEF SaleEntry
<1>6. [e \in Estimate |-> IF e = b.estimate THEN "CONVERTED" ELSE t.estimate[e]]
        \in [Estimate -> EstimateStatus]
  BY <1>t DEF EstimateStatus
<1>7. Stamp(r, doc) \in KeyRow
  BY <1>b, <1>d, StampType
<1>. QED
  BY <1>1, <1>2, <1>3, <1>4, <1>5, <1>6, <1>7 DEF SaleAfter, Tables

\* A purchase that is admitted has a goods value and a total.
LEMMA PurchaseAmounts ==
  ASSUME NEW r \in Call("purchase", PurchaseBody), PurchaseAdmitted(r)
  PROVE  /\ PurchaseGoods(r.body) \in Nat
         /\ PurchaseTotal(r.body) \in Nat
<1>1. r.body \in PurchaseBody
  BY DEF Call
<1>2. /\ r.body.qty \in [Line -> Nat] /\ r.body.cost \in [Line -> Nat]
      /\ r.body.discount \in Nat /\ r.body.tax \in Nat
  BY <1>1 DEF PurchaseBody
<1>3. Cost(r.body.qty, r.body.cost) \in Nat
  BY <1>2, CostNat
<1>4. r.body.discount <= Cost(r.body.qty, r.body.cost)
  BY DEF PurchaseAdmitted
<1>. QED
  BY <1>2, <1>3, <1>4 DEF PurchaseGoods, PurchaseTotal

\* A purchase keeps the types.
LEMMA PurchaseAfterType ==
  ASSUME NEW t \in Tables, NEW r \in Call("purchase", PurchaseBody),
         PurchasePosts(t, r)
  PROVE  PurchaseAfter(t, r) \in Tables
<1>. DEFINE b == r.body
            doc == Len(t.purchases) + 1
<1>b. b \in PurchaseBody /\ r \in Call("purchase", Body) /\ "purchase" \in Op
  BY DEF Call, Body, Op
<1>t. t.purchases \in Seq(Purchase) /\ t.stock \in [Cell -> Nat]
  BY DEF Tables
<1>d. doc \in Id
  BY <1>t DEF Id
<1>f. /\ b.qty \in [Line -> Nat] /\ b.product \in [Line -> Product]
      /\ b.warehouse \in Warehouse /\ b.vendor \in Party /\ b.tax \in Nat
  BY <1>b DEF PurchaseBody
<1>c. PurchaseGoods(b) \in Nat /\ PurchaseTotal(b) \in Nat
  BY PurchaseAmounts DEF PurchasePosts
<1>h. Here(b) \in [Line -> Warehouse]
  BY <1>f DEF Here
<1>1. Append(t.purchases, [branch |-> r.branch, body |-> b, paid |-> 0])
        \in Seq(Purchase)
  <2>1. [branch |-> r.branch, body |-> b, paid |-> 0] \in Purchase
    BY <1>b DEF Purchase, Call
  <2>. QED
    BY <2>1, <1>t
<1>2. [c \in Cell |-> t.stock[c] + Demand(b.product, Here(b), b.qty, c)]
        \in [Cell -> Nat]
  <2>. SUFFICES ASSUME NEW c \in Cell
                PROVE t.stock[c] + Demand(b.product, Here(b), b.qty, c) \in Nat
    OBVIOUS
  <2>1. Demand(b.product, Here(b), b.qty, c) \in Nat
    BY <1>f, DemandNat
  <2>. QED
    BY <2>1, <1>t
<1>3. Movements(r, doc, b.product, Here(b), b.qty, 1) \subseteq Movement
  <2>1. 1 \in Int
    OBVIOUS
  <2>. QED
    BY <2>1, <1>b, <1>d, <1>f, <1>h, MovementsType
<1>4. SubEntry(r, doc, b.vendor, 0, PurchaseTotal(b)) \in SubledgerEntry
  BY <1>b, <1>d, <1>f, <1>c, SubEntryType
<1>5. Entry(r, doc, PurchaseDebits(b), PurchaseCredits(b)) \in JournalEntry
  <2>1. PurchaseDebits(b) \in Lines /\ PurchaseCredits(b) \in Lines
    BY <1>c, <1>f DEF PurchaseDebits, PurchaseCredits, Zero, Lines
  <2>. QED
    BY <2>1, <1>b, <1>d, EntryType
<1>6. Stamp(r, doc) \in KeyRow
  BY <1>b, <1>d, StampType
<1>. QED
  BY <1>1, <1>2, <1>3, <1>4, <1>5, <1>6 DEF PurchaseAfter, Tables

\* What an allocation gives to a document is an amount.
LEMMA AllocatedNat ==
  ASSUME NEW alloc \in Allocation, NEW doc
  PROVE  AllocatedTo(alloc, doc) \in Nat
<1>1. CASE \E x \in alloc : x.doc = doc
  <2>1. (CHOOSE x \in alloc : x.doc = doc) \in alloc
    BY <1>1
  <2>. QED
    BY <2>1, <1>1 DEF AllocatedTo, Allocation
<1>2. CASE ~ \E x \in alloc : x.doc = doc
  BY <1>2 DEF AllocatedTo
<1>. QED
  BY <1>1, <1>2

\* A settled receivable is a receivable.
LEMMA SettledType ==
  ASSUME NEW i \in Invoice, NEW amount \in Nat
  PROVE  Settled(i, amount) \in Invoice
<1>1. i.paid + amount \in Nat
  BY DEF Invoice
<1>2. \A p \in Nat, s \in {"PAID", "PARTIALLY_PAID"} :
        [i EXCEPT !.paid = p, !.status = s] \in Invoice
  BY DEF Invoice
<1>. QED
  BY <1>1, <1>2 DEF Settled

\* A receipt keeps the types.
LEMMA ReceiptAfterType ==
  ASSUME NEW t \in Tables, NEW r \in Call("receipt", ReceiptBody)
  PROVE  ReceiptAfter(t, r) \in Tables
<1>. DEFINE b == r.body
            doc == Len(t.receipts) + 1
<1>b. b \in ReceiptBody /\ r \in Call("receipt", Body) /\ "receipt" \in Op
  BY DEF Call, Body, Op
<1>t. /\ t.receipts \in Seq([branch : Branch, body : ReceiptBody])
      /\ t.invoices \in Seq(Invoice)
  BY DEF Tables
<1>d. doc \in Id
  BY <1>t DEF Id
<1>f. /\ b.customer \in Party /\ b.amount \in Nat /\ b.method \in Method
      /\ b.alloc \in Allocation
  BY <1>b DEF ReceiptBody
<1>1. Append(t.receipts, [branch |-> r.branch, body |-> b])
        \in Seq([branch : Branch, body : ReceiptBody])
  <2>1. [branch |-> r.branch, body |-> b] \in [branch : Branch, body : ReceiptBody]
    BY <1>b DEF Call
  <2>. QED
    BY <2>1, <1>t
<1>2. [i \in DOMAIN t.invoices |->
         IF \E x \in b.alloc : x.doc = i
           THEN Settled(t.invoices[i], AllocatedTo(b.alloc, i))
           ELSE t.invoices[i]] \in Seq(Invoice)
  <2>1. \A i \in DOMAIN t.invoices :
          /\ t.invoices[i] \in Invoice
          /\ Settled(t.invoices[i], AllocatedTo(b.alloc, i)) \in Invoice
    BY <1>t, <1>f, AllocatedNat, SettledType
  <2>2. DOMAIN t.invoices = 1..Len(t.invoices) /\ Len(t.invoices) \in Nat
    BY <1>t
  <2>. QED
    BY <2>1, <2>2
<1>3. SubEntry(r, doc, b.customer, 0, b.amount) \in SubledgerEntry
  BY <1>b, <1>d, <1>f, SubEntryType
<1>4. Entry(r, doc, ReceiptDebits(b), ReceiptCredits(b)) \in JournalEntry
  <2>1. ReceiptDebits(b) \in Lines /\ ReceiptCredits(b) \in Lines
    BY <1>f DEF ReceiptDebits, ReceiptCredits, Zero, Lines
  <2>. QED
    BY <2>1, <1>b, <1>d, EntryType
<1>5. Stamp(r, doc) \in KeyRow
  BY <1>b, <1>d, StampType
<1>. QED
  BY <1>1, <1>2, <1>3, <1>4, <1>5 DEF ReceiptAfter, Tables

-----------------------------------------------------------------------------
\* What the value of a return rests on: a discount given line by line is
\* never more than the line, in any invoice on the books.
LineTermsIn(t) ==
  \A i \in DOMAIN t.invoices :
    LET b == t.invoices[i].body
    IN  b.perLine => \A l \in Line : b.off[l] <= b.qty[l] * b.price[l]

\* The net rate of a line whose discount is within the line is an amount.
LEMMA NetRateNat ==
  ASSUME NEW b \in SaleBody, NEW l \in Line,
         b.perLine => b.off[l] <= b.qty[l] * b.price[l]
  PROVE  NetRate(b, l) \in Nat
<1>1. /\ b.qty[l] \in Nat /\ b.price[l] \in Nat /\ b.off[l] \in Nat
      /\ b.grand \in Nat /\ b.subtotal \in Nat /\ b.perLine \in BOOLEAN
  BY DEF SaleBody
<1>2. b.qty[l] * b.price[l] \in Nat /\ b.grand * Fine \in Nat
  BY <1>1, TimesNat, UnitAssumption
<1>3. b.perLine => b.qty[l] * b.price[l] - b.off[l] \in Nat
  BY <1>1, <1>2
<1>4. (b.price[l] \div Fine) * Quotient(b.grand * Fine, b.subtotal) \in Nat
  <2>1. Quotient(b.grand * Fine, b.subtotal) \in Nat
    BY <1>1, <1>2, QuotientNat
  <2>2. b.price[l] \div Fine \in Nat
    BY <1>1, DivNat, UnitAssumption
  <2>. QED BY <2>1, <2>2, TimesNat
<1>5. b.perLine => Quotient(b.qty[l] * b.price[l] - b.off[l], b.qty[l]) \in Nat
  BY <1>1, <1>3, QuotientNat
<1>. QED
  BY <1>1, <1>4, <1>5 DEF NetRate

\* So are the value and the cost of what is returned.
LEMMA CreditNat ==
  ASSUME NEW t \in Tables, LineTermsIn(t), NEW d \in DOMAIN t.invoices,
         NEW b \in ReturnBody
  PROVE  /\ t.invoices[d] \in Invoice
         /\ CreditValue(t.invoices[d], b) \in Nat
         /\ CreditCogs(t.invoices[d], b) \in Nat
<1>1. t.invoices[d] \in Invoice
  BY DEF Tables
<1>2. t.invoices[d].body \in SaleBody /\ t.invoices[d].body.cost \in [Line -> Nat]
  BY <1>1 DEF Invoice, SaleBody
<1>3. b.items \in [Line -> Nat]
  BY DEF ReturnBody
<1>4. [l \in Line |-> NetRate(t.invoices[d].body, l)] \in [Line -> Nat]
  BY <1>2, NetRateNat DEF LineTermsIn
<1>. QED
  BY <1>1, <1>2, <1>3, <1>4, CostNat DEF CreditValue, CreditCogs

\* A credited receivable is a receivable.
LEMMA CreditedType ==
  ASSUME NEW i \in Invoice, NEW b \in ReturnBody, CreditValue(i, b) \in Nat
  PROVE  Credited(i, b) \in Invoice
<1>1. i.credited + CreditValue(i, b) \in Nat
  BY DEF Invoice
<1>2. [l \in Line |-> i.returned[l] + b.items[l]] \in [Line -> Nat]
  BY DEF Invoice, ReturnBody
<1>3. \A c \in Nat, f \in [Line -> Nat] :
        [i EXCEPT !.credited = c, !.returned = f] \in Invoice
  BY DEF Invoice
<1>. QED
  BY <1>1, <1>2, <1>3 DEF Credited

\* A return keeps the types.
LEMMA ReturnAfterType ==
  ASSUME NEW t \in Tables, LineTermsIn(t), NEW r \in Call("return", ReturnBody),
         ReturnPosts(t, r)
  PROVE  ReturnAfter(t, r) \in Tables
<1>. DEFINE b == r.body
            i == t.invoices[b.invoice]
            doc == Len(t.creditNotes) + 1
<1>b. b \in ReturnBody /\ r \in Call("return", Body) /\ "return" \in Op
  BY DEF Call, Body, Op
<1>t. /\ t.creditNotes \in Seq([branch : Branch, body : ReturnBody])
      /\ t.invoices \in Seq(Invoice) /\ t.stock \in [Cell -> Nat]
  BY DEF Tables
<1>d. doc \in Id /\ b.invoice \in DOMAIN t.invoices
  <2>1. doc \in Id
    BY <1>t DEF Id
  <2>. QED
    BY <2>1 DEF ReturnPosts, ReturnAdmitted
<1>f. /\ b.customer \in Party /\ b.items \in [Line -> Nat]
      /\ b.warehouse \in [Line -> Warehouse]
  BY <1>b DEF ReturnBody
<1>i. /\ i \in Invoice /\ CreditValue(i, b) \in Nat /\ CreditCogs(i, b) \in Nat
      /\ i.body.product \in [Line -> Product]
  BY <1>b, <1>d, CreditNat DEF Invoice, SaleBody
<1>1. Append(t.creditNotes, [branch |-> r.branch, body |-> b])
        \in Seq([branch : Branch, body : ReturnBody])
  <2>1. [branch |-> r.branch, body |-> b] \in [branch : Branch, body : ReturnBody]
    BY <1>b DEF Call
  <2>. QED
    BY <2>1, <1>t
<1>2. [t.invoices EXCEPT ![b.invoice] = Credited(i, b)] \in Seq(Invoice)
  BY <1>b, <1>i, <1>t, <1>d, CreditedType
<1>3. [c \in Cell |-> t.stock[c] + Demand(i.body.product, b.warehouse, b.items, c)]
        \in [Cell -> Nat]
  <2>1. \A c \in Cell :
          Demand(i.body.product, b.warehouse, b.items, c) \in Nat
    BY <1>f, DemandNat
  <2>. QED
    BY <2>1, <1>t
<1>4. Movements(r, doc, i.body.product, b.warehouse, b.items, 1) \subseteq Movement
  <2>1. 1 \in Int
    OBVIOUS
  <2>. QED
    BY <2>1, <1>b, <1>d, <1>f, <1>i, MovementsType
<1>5. SubEntry(r, doc, b.customer, 0, CreditValue(i, b)) \in SubledgerEntry
  BY <1>b, <1>d, <1>f, <1>i, SubEntryType
<1>6. Entry(r, doc, ReturnDebits(i, b), ReturnCredits(i, b)) \in JournalEntry
  <2>1. ReturnDebits(i, b) \in Lines /\ ReturnCredits(i, b) \in Lines
    BY <1>i DEF ReturnDebits, ReturnCredits, Zero, Lines
  <2>. QED
    BY <2>1, <1>b, <1>d, EntryType
<1>7. Stamp(r, doc) \in KeyRow
  BY <1>b, <1>d, StampType
<1>. QED
  BY <1>1, <1>2, <1>3, <1>4, <1>5, <1>6, <1>7 DEF ReturnAfter, Tables

\* A purchase that is paid is a purchase.
LEMMA PayingType ==
  ASSUME NEW p \in Purchase, NEW amount \in Nat
  PROVE  Paying(p, amount) \in Purchase
  BY DEF Paying, Purchase

\* A vendor payment keeps the types.
LEMMA VendorPaymentAfterType ==
  ASSUME NEW t \in Tables, NEW r \in Call("vendorPayment", VendorPaymentBody)
  PROVE  VendorPaymentAfter(t, r) \in Tables
<1>. DEFINE b == r.body
            doc == Len(t.vendorPayments) + 1
<1>b. /\ b \in VendorPaymentBody /\ r \in Call("vendorPayment", Body)
      /\ "vendorPayment" \in Op
  BY DEF Call, Body, Op
<1>t. /\ t.vendorPayments \in Seq([branch : Branch, body : VendorPaymentBody])
      /\ t.purchases \in Seq(Purchase)
  BY DEF Tables
<1>d. doc \in Id
  BY <1>t DEF Id
<1>f. /\ b.vendor \in Party /\ b.amount \in Nat /\ b.method \in Method
      /\ b.alloc \in Allocation
  BY <1>b DEF VendorPaymentBody
<1>1. Append(t.vendorPayments, [branch |-> r.branch, body |-> b])
        \in Seq([branch : Branch, body : VendorPaymentBody])
  <2>1. [branch |-> r.branch, body |-> b]
          \in [branch : Branch, body : VendorPaymentBody]
    BY <1>b DEF Call
  <2>. QED
    BY <2>1, <1>t
<1>2. [p \in DOMAIN t.purchases |->
         Paying(t.purchases[p], AllocatedTo(b.alloc, p))]
        \in Seq(Purchase)
  <2>1. \A p \in DOMAIN t.purchases :
          Paying(t.purchases[p], AllocatedTo(b.alloc, p)) \in Purchase
    BY <1>t, <1>f, AllocatedNat, PayingType
  <2>2. DOMAIN t.purchases = 1..Len(t.purchases) /\ Len(t.purchases) \in Nat
    BY <1>t
  <2>. QED
    BY <2>1, <2>2
<1>3. SubEntry(r, doc, b.vendor, b.amount, 0) \in SubledgerEntry
  BY <1>b, <1>d, <1>f, SubEntryType
<1>4. Entry(r, doc, VendorPaymentDebits(b), VendorPaymentCredits(b)) \in JournalEntry
  <2>1. VendorPaymentDebits(b) \in Lines /\ VendorPaymentCredits(b) \in Lines
    BY <1>f DEF VendorPaymentDebits, VendorPaymentCredits, Zero, Lines
  <2>. QED
    BY <2>1, <1>b, <1>d, EntryType
<1>5. Stamp(r, doc) \in KeyRow
  BY <1>b, <1>d, StampType
<1>. QED
  BY <1>1, <1>2, <1>3, <1>4, <1>5 DEF VendorPaymentAfter, Tables

-----------------------------------------------------------------------------
\* SettledWithinBilled and PurchasePaidWithinTotal of any tables.
SettledIn(t) ==
  \A i \in DOMAIN t.invoices :
    /\ t.invoices[i].paid <= Billed(t.invoices[i].body)
    /\ \A l \in Line : t.invoices[i].returned[l] <= t.invoices[i].body.qty[l]
PaidIn(t) ==
  \A p \in DOMAIN t.purchases :
    t.purchases[p].paid <= PurchaseTotal(t.purchases[p].body)

\* The part of the inductive invariant that speaks of the tables.
SoundIn(t) == t \in Tables /\ LineTermsIn(t) /\ SettledIn(t) /\ PaidIn(t)

\* A document that is allocated to gets the amount of its row.
LEMMA AllocatedRow ==
  ASSUME NEW alloc, NEW doc, \E x \in alloc : x.doc = doc
  PROVE  \E x \in alloc : x.doc = doc /\ AllocatedTo(alloc, doc) = x.amount
  BY DEF AllocatedTo

\* A sale keeps the tables sound: the new invoice has settled nothing.
LEMMA SaleSound ==
  ASSUME NEW t, SoundIn(t), NEW r \in Call("sale", SaleBody), SalePosts(t, r)
  PROVE  SoundIn(SaleAfter(t, r))
<1>. DEFINE b == r.body
            new == [branch |-> r.branch, body |-> b, paid |-> 0, credited |-> 0,
                    returned |-> [l \in Line |-> 0], status |-> "POSTED"]
            u == SaleAfter(t, r)
<1>1. u \in Tables
  BY SaleAfterType DEF SoundIn
<1>2. t \in Tables /\ t.invoices \in Seq(Invoice)
  BY DEF SoundIn, Tables
<1>3. u.invoices = Append(t.invoices, new) /\ u.purchases = t.purchases
  BY <1>2 DEF SaleAfter, Tables
<1>4. \A i \in DOMAIN u.invoices :
        \/ i \in DOMAIN t.invoices /\ u.invoices[i] = t.invoices[i]
        \/ u.invoices[i] = new
  BY <1>2, <1>3
<1>5. /\ b.perLine => \A l \in Line : b.off[l] <= b.qty[l] * b.price[l]
      /\ b \in SaleBody
  BY DEF SalePosts, Call
<1>6. LineTermsIn(u)
  BY <1>4, <1>5 DEF LineTermsIn, SoundIn
<1>7. new.paid <= Billed(new.body)
      /\ \A l \in Line : new.returned[l] <= new.body.qty[l]
  BY <1>5 DEF Billed, SaleBody
<1>8. SettledIn(u)
  BY <1>4, <1>7 DEF SettledIn, SoundIn
<1>9. PaidIn(u)
  BY <1>3 DEF PaidIn, SoundIn
<1>. QED
  BY <1>1, <1>6, <1>8, <1>9 DEF SoundIn

\* A purchase keeps the tables sound.
LEMMA PurchaseSound ==
  ASSUME NEW t, SoundIn(t), NEW r \in Call("purchase", PurchaseBody),
         PurchasePosts(t, r)
  PROVE  SoundIn(PurchaseAfter(t, r))
<1>. DEFINE u == PurchaseAfter(t, r)
            new == [branch |-> r.branch, body |-> r.body, paid |-> 0]
<1>1. u \in Tables
  BY PurchaseAfterType DEF SoundIn
<1>2. t \in Tables /\ t.purchases \in Seq(Purchase)
  BY DEF SoundIn, Tables
<1>3. u.purchases = Append(t.purchases, new) /\ u.invoices = t.invoices
  BY <1>2 DEF PurchaseAfter, Tables
<1>4. \A p \in DOMAIN u.purchases :
        \/ p \in DOMAIN t.purchases /\ u.purchases[p] = t.purchases[p]
        \/ u.purchases[p] = new
  BY <1>2, <1>3
<1>5. new.paid <= PurchaseTotal(new.body)
  BY PurchaseAmounts DEF PurchasePosts
<1>6. PaidIn(u)
  BY <1>4, <1>5 DEF PaidIn, SoundIn
<1>7. LineTermsIn(u) /\ SettledIn(u)
  BY <1>3 DEF LineTermsIn, SettledIn, SoundIn
<1>. QED
  BY <1>1, <1>6, <1>7 DEF SoundIn

\* A receipt allocates within what is outstanding of each invoice.
LEMMA ReceiptSound ==
  ASSUME NEW t, SoundIn(t), NEW r \in Call("receipt", ReceiptBody),
         ReceiptPosts(t, r)
  PROVE  SoundIn(ReceiptAfter(t, r))
<1>. DEFINE u == ReceiptAfter(t, r)
            alloc == r.body.alloc
<1>1. u \in Tables
  BY ReceiptAfterType DEF SoundIn
<1>2. t \in Tables /\ t.invoices \in Seq(Invoice) /\ alloc \in Allocation
  BY DEF SoundIn, Tables, Call, ReceiptBody
<1>3. /\ u.invoices = [i \in DOMAIN t.invoices |->
                         IF \E x \in alloc : x.doc = i
                           THEN Settled(t.invoices[i], AllocatedTo(alloc, i))
                           ELSE t.invoices[i]]
      /\ u.purchases = t.purchases
  BY <1>2 DEF ReceiptAfter, Tables
<1>4. ASSUME NEW i \in DOMAIN u.invoices
      PROVE  /\ i \in DOMAIN t.invoices
             /\ u.invoices[i].body = t.invoices[i].body
             /\ u.invoices[i].returned = t.invoices[i].returned
             /\ u.invoices[i].paid <= Billed(u.invoices[i].body)
  <2>1. i \in DOMAIN t.invoices
    BY <1>3
  <2>2. t.invoices[i] \in Invoice
        /\ t.invoices[i].paid <= Billed(t.invoices[i].body)
    BY <2>1, <1>2 DEF SoundIn, SettledIn
  <2>3. CASE ~ \E x \in alloc : x.doc = i
    BY <2>1, <2>2, <2>3, <1>3
  <2>4. CASE \E x \in alloc : x.doc = i
    <3>1. PICK x \in alloc : x.doc = i /\ AllocatedTo(alloc, i) = x.amount
      BY <2>4, AllocatedRow
    <3>2. x.amount <= Outstanding(t.invoices[i]) /\ x.amount \in Nat
      BY <3>1, <1>2 DEF ReceiptPosts, WithinOutstanding, Allocation
    <3>3. u.invoices[i] = Settled(t.invoices[i], x.amount)
      BY <2>1, <2>4, <3>1, <1>3
    <3>4. /\ u.invoices[i].body = t.invoices[i].body
          /\ u.invoices[i].returned = t.invoices[i].returned
          /\ u.invoices[i].paid = t.invoices[i].paid + x.amount
      BY <3>3, <2>2 DEF Settled, Invoice
    <3>5. Billed(t.invoices[i].body) \in Nat
      BY <2>2 DEF Invoice, SaleBody, Billed
    <3>. QED
      BY <2>1, <2>2, <3>2, <3>4, <3>5 DEF Outstanding, Invoice
  <2>. QED
    BY <2>3, <2>4
<1>5. LineTermsIn(u)
  BY <1>4 DEF LineTermsIn, SoundIn
<1>6. SettledIn(u)
  BY <1>4 DEF SettledIn, SoundIn
<1>7. PaidIn(u)
  BY <1>3 DEF PaidIn, SoundIn
<1>. QED
  BY <1>1, <1>5, <1>6, <1>7 DEF SoundIn

\* A return brings back no more than was sold and not yet returned.
LEMMA ReturnSound ==
  ASSUME NEW t, SoundIn(t), NEW r \in Call("return", ReturnBody),
         ReturnPosts(t, r)
  PROVE  SoundIn(ReturnAfter(t, r))
<1>. DEFINE u == ReturnAfter(t, r)
            b == r.body
            d == b.invoice
<1>1. u \in Tables
  BY ReturnAfterType DEF SoundIn
<1>2. t \in Tables /\ t.invoices \in Seq(Invoice) /\ b \in ReturnBody
  BY DEF SoundIn, Tables, Call
<1>3. d \in DOMAIN t.invoices
  BY DEF ReturnPosts, ReturnAdmitted
<1>4. /\ u.invoices = [t.invoices EXCEPT ![d] = Credited(t.invoices[d], b)]
      /\ u.purchases = t.purchases
  BY <1>2 DEF ReturnAfter, Tables
<1>5. ASSUME NEW i \in DOMAIN u.invoices
      PROVE  /\ i \in DOMAIN t.invoices
             /\ u.invoices[i].body = t.invoices[i].body
             /\ u.invoices[i].paid = t.invoices[i].paid
             /\ \A l \in Line :
                  u.invoices[i].returned[l] <= u.invoices[i].body.qty[l]
  <2>1. i \in DOMAIN t.invoices
    BY <1>4
  <2>2. t.invoices[i] \in Invoice
    BY <2>1, <1>2
  <2>3. CASE i # d
    BY <2>1, <2>3, <1>4 DEF SoundIn, SettledIn
  <2>4. CASE i = d
    <3>1. u.invoices[i] = Credited(t.invoices[i], b)
      BY <2>1, <2>4, <1>4
    <3>2. /\ u.invoices[i].body = t.invoices[i].body
          /\ u.invoices[i].paid = t.invoices[i].paid
          /\ u.invoices[i].returned
               = [l \in Line |-> t.invoices[i].returned[l] + b.items[l]]
      BY <3>1, <2>2 DEF Credited, Invoice
    <3>3. \A l \in Line :
            t.invoices[i].returned[l] + b.items[l] <= t.invoices[i].body.qty[l]
      BY <2>4 DEF ReturnPosts
    <3>. QED
      BY <2>1, <3>2, <3>3
  <2>. QED
    BY <2>3, <2>4
<1>6. LineTermsIn(u)
  BY <1>5 DEF LineTermsIn, SoundIn
<1>7. SettledIn(u)
  BY <1>5 DEF SettledIn, SoundIn
<1>8. PaidIn(u)
  BY <1>4 DEF PaidIn, SoundIn
<1>. QED
  BY <1>1, <1>6, <1>7, <1>8 DEF SoundIn

\* The total of a purchase on the books is a number.
LEMMA PurchaseTotals ==
  ASSUME NEW t \in Tables, NEW p \in DOMAIN t.purchases
  PROVE  PurchaseTotal(t.purchases[p].body) \in Int
<1>1. t.purchases \in Seq(Purchase)
  BY DEF Tables
<1>2. t.purchases[p].body \in PurchaseBody
  <2>1. t.purchases[p] \in Purchase
    BY <1>1
  <2>. QED
    BY <2>1 DEF Purchase
<1>3. Cost(t.purchases[p].body.qty, t.purchases[p].body.cost) \in Nat
  BY <1>2, CostNat DEF PurchaseBody
<1>. QED
  BY <1>2, <1>3 DEF PurchaseTotal, PurchaseGoods, PurchaseBody

\* A vendor payment allocates within what is unpaid of each purchase.
LEMMA VendorPaymentSound ==
  ASSUME NEW t, SoundIn(t), NEW r \in Call("vendorPayment", VendorPaymentBody),
         VendorPaymentPosts(t, r)
  PROVE  SoundIn(VendorPaymentAfter(t, r))
<1>. DEFINE u == VendorPaymentAfter(t, r)
            alloc == r.body.alloc
<1>1. u \in Tables
  BY VendorPaymentAfterType DEF SoundIn
<1>2. t \in Tables /\ t.purchases \in Seq(Purchase) /\ alloc \in Allocation
  BY DEF SoundIn, Tables, Call, VendorPaymentBody
<1>3. /\ u.purchases = [p \in DOMAIN t.purchases |->
                          Paying(t.purchases[p], AllocatedTo(alloc, p))]
      /\ u.invoices = t.invoices
  BY <1>2 DEF VendorPaymentAfter, Tables
<1>4. ASSUME NEW p \in DOMAIN u.purchases
      PROVE  u.purchases[p].paid <= PurchaseTotal(u.purchases[p].body)
  <2>1. p \in DOMAIN t.purchases
    BY <1>3
  <2>2. /\ t.purchases[p] \in Purchase
        /\ t.purchases[p].paid <= PurchaseTotal(t.purchases[p].body)
    BY <2>1, <1>2 DEF SoundIn, PaidIn
  <2>3. /\ u.purchases[p].body = t.purchases[p].body
        /\ u.purchases[p].paid = t.purchases[p].paid + AllocatedTo(alloc, p)
    BY <2>1, <2>2, <1>3 DEF Paying, Purchase
  <2>4. CASE ~ \E x \in alloc : x.doc = p
    <3>1. AllocatedTo(alloc, p) = 0
      BY <2>4 DEF AllocatedTo
    <3>. QED
      BY <3>1, <2>2, <2>3 DEF Purchase
  <2>5. CASE \E x \in alloc : x.doc = p
    <3>1. PICK x \in alloc : x.doc = p /\ AllocatedTo(alloc, p) = x.amount
      BY <2>5, AllocatedRow
    <3>2. /\ x.amount <= PurchaseTotal(t.purchases[p].body) - t.purchases[p].paid
          /\ x.amount \in Nat
      BY <3>1, <1>2 DEF VendorPaymentPosts, Unpaid, Allocation
    <3>3. PurchaseTotal(t.purchases[p].body) \in Int
      BY <2>1, <1>2, PurchaseTotals
    <3>. QED
      BY <3>1, <3>2, <3>3, <2>2, <2>3 DEF Purchase
  <2>. QED
    BY <2>4, <2>5
<1>5. PaidIn(u)
  BY <1>4 DEF PaidIn
<1>6. LineTermsIn(u) /\ SettledIn(u)
  BY <1>3 DEF LineTermsIn, SettledIn, SoundIn
<1>. QED
  BY <1>1, <1>5, <1>6 DEF SoundIn

\* The receipt inside a copilot sale is a receipt call.
LEMMA ReceiptCallType ==
  ASSUME NEW r \in Call("copilotSale", SaleBody), NEW doc \in Id
  PROVE  ReceiptCall(r, doc) \in Call("receipt", ReceiptBody)
<1>1. {[doc |-> doc, amount |-> r.body.paid]} \in Allocation
  BY DEF Call, SaleBody, Allocation
<1>2. ReceiptKey[r.key] \in Key
  BY OwnershipAssumption DEF Call
<1>3. "cash" \in Method
  BY DEF Method
<1>. QED
  BY <1>1, <1>2, <1>3 DEF ReceiptCall, Call, ReceiptBody, SaleBody

\* A copilot sale is a sale, then a receipt on its invoice.
LEMMA CopilotSaleSound ==
  ASSUME NEW t, SoundIn(t), NEW r \in Call("copilotSale", SaleBody),
         CopilotSalePosts(t, r)
  PROVE  SoundIn(CopilotSaleAfter(t, r))
<1>. DEFINE doc == Len(t.invoices) + 1
            sold == SaleAfter(t, SaleCall(r))
<1>1. SaleCall(r) \in Call("sale", SaleBody)
  BY DEF SaleCall, Call
<1>2. SoundIn(sold)
  BY <1>1, SaleSound DEF CopilotSalePosts
<1>3. doc \in Id
  BY DEF SoundIn, Tables, Id
<1>4. ReceiptCall(r, doc) \in Call("receipt", ReceiptBody)
  BY <1>3, ReceiptCallType
<1>5. CASE r.body.paid > 0
  <2>1. ReceiptPosts(sold, ReceiptCall(r, doc))
    BY <1>5 DEF CopilotSalePosts
  <2>2. SoundIn(ReceiptAfter(sold, ReceiptCall(r, doc)))
    BY <1>2, <1>4, <2>1, ReceiptSound
  <2>. QED
    BY <1>5, <2>2 DEF CopilotSaleAfter
<1>6. CASE ~(r.body.paid > 0)
  BY <1>2, <1>6 DEF CopilotSaleAfter
<1>. QED
  BY <1>5, <1>6

-----------------------------------------------------------------------------
\* The inductive invariant: settlement is sound only together with the types
\* of the rows it is worked out from.
IInv == TypeOK /\ SoundIn(db)

\* The invariant holds of the empty books.
LEMMA InitSound == Init => IInv
<1>. SUFFICES ASSUME Init PROVE IInv
  OBVIOUS
<1>1. db \in Tables
  BY OwnershipAssumption DEF Init, Tables, EstimateStatus
<1>2. answer \in [Request -> [status : {"none", "done", "refused"}, doc : Nat]]
  BY DEF Init, None
<1>3. grants \in SUBSET Grant
  BY OwnershipAssumption DEF Init
<1>4. db.invoices = <<>> /\ db.purchases = <<>>
  BY DEF Init
<1>5. LineTermsIn(db) /\ SettledIn(db) /\ PaidIn(db)
  BY <1>4 DEF LineTermsIn, SettledIn, PaidIn
<1>. QED
  BY <1>1, <1>2, <1>3, <1>5 DEF IInv, TypeOK, SoundIn

\* What a call may do to the grants and to the answers.
AnswersKept ==
  /\ grants' \in SUBSET Grant
  /\ answer' \in [Request -> [status : {"none", "done", "refused"}, doc : Nat]]

\* An answer has its type, and giving it leaves the grants alone.
LEMMA AnswerType ==
  ASSUME TypeOK, NEW r, NEW d \in Nat,
         Answer(r, Done(d)) \/ Answer(r, Refused)
  PROVE  AnswersKept
<1>1. /\ Done(d) \in [status : {"none", "done", "refused"}, doc : Nat]
      /\ Refused \in [status : {"none", "done", "refused"}, doc : Nat]
  BY DEF Done, Refused
<1>. QED
  BY <1>1 DEF Answer, TypeOK, AnswersKept

\* Every call, and every change around the calls, keeps the invariant.
LEMMA NextSound == IInv /\ [Next]_vars => IInv'
<1>. SUFFICES ASSUME IInv, [Next]_vars PROVE SoundIn(db') /\ AnswersKept
  BY DEF IInv, TypeOK, SoundIn, AnswersKept, LineTermsIn, SettledIn, PaidIn
<1>i. TypeOK /\ SoundIn(db) /\ db \in Tables
  BY DEF IInv, SoundIn
<1>l. /\ Len(db.invoices) + 1 \in Nat /\ Len(db.purchases) + 1 \in Nat
      /\ Len(db.receipts) + 1 \in Nat /\ Len(db.creditNotes) + 1 \in Nat
      /\ Len(db.vendorPayments) + 1 \in Nat
  BY <1>i DEF Tables
<1>g. UNCHANGED <<grants, answer>> => AnswersKept
  BY <1>i DEF TypeOK, AnswersKept
<1>1. ASSUME NEW r \in SaleRequest, PostSale(r)
      PROVE  SoundIn(db') /\ AnswersKept
  BY <1>1, <1>i, <1>l, SaleSound, AnswerType, RequestAssumption DEF PostSale
<1>2. ASSUME NEW r \in PurchaseRequest, PostPurchase(r)
      PROVE  SoundIn(db') /\ AnswersKept
  BY <1>2, <1>i, <1>l, PurchaseSound, AnswerType, RequestAssumption
     DEF PostPurchase
<1>3. ASSUME NEW r \in ReceiptRequest, PostReceipt(r)
      PROVE  SoundIn(db') /\ AnswersKept
  BY <1>3, <1>i, <1>l, ReceiptSound, AnswerType, RequestAssumption
     DEF PostReceipt
<1>4. ASSUME NEW r \in ReturnRequest, PostReturn(r)
      PROVE  SoundIn(db') /\ AnswersKept
  BY <1>4, <1>i, <1>l, ReturnSound, AnswerType, RequestAssumption
     DEF PostReturn
<1>5. ASSUME NEW r \in VendorPaymentRequest, PostVendorPayment(r)
      PROVE  SoundIn(db') /\ AnswersKept
  BY <1>5, <1>i, <1>l, VendorPaymentSound, AnswerType, RequestAssumption
     DEF PostVendorPayment
<1>6. ASSUME NEW r \in CopilotSaleRequest, PostCopilotSale(r)
      PROVE  SoundIn(db') /\ AnswersKept
  BY <1>6, <1>i, <1>l, CopilotSaleSound, AnswerType, RequestAssumption
     DEF PostCopilotSale
<1>7. ASSUME NEW r \in Request, Replay(r)
      PROVE  SoundIn(db') /\ AnswersKept
  <2>1. PICK k \in Replays(db, r) : Answer(r, Done(k.doc))
    BY <1>7 DEF Replay
  <2>2. k.doc \in Nat
    BY <2>1, <1>i DEF Replays, Tables, KeyRow, Id
  <2>. QED
    BY <2>1, <2>2, <1>7, <1>i, AnswerType DEF Replay
<1>8. ASSUME NEW r \in Request, Refuse(r)
      PROVE  SoundIn(db') /\ AnswersKept
  BY <1>8, <1>i, AnswerType DEF Refuse
<1>9. ASSUME NEW e \in Estimate, MarkReady(e)
      PROVE  SoundIn(db') /\ AnswersKept
  <2>1. db' = [db EXCEPT !.estimate[e] = "READY"]
    BY <1>9 DEF MarkReady
  <2>2. db' \in Tables
    BY <2>1, <1>i DEF Tables, EstimateStatus
  <2>3. db'.invoices = db.invoices /\ db'.purchases = db.purchases
    BY <2>1, <1>i DEF Tables
  <2>4. LineTermsIn(db') /\ SettledIn(db') /\ PaidIn(db')
    BY <2>3, <1>i DEF SoundIn, LineTermsIn, SettledIn, PaidIn
  <2>. QED
    BY <2>2, <2>4, <1>9, <1>g DEF SoundIn, MarkReady
<1>10. ASSUME NEW g \in Revocable, Revoke(g) \/ Regrant(g)
       PROVE  SoundIn(db') /\ AnswersKept
  BY <1>10, <1>i, OwnershipAssumption DEF Revoke, Regrant, TypeOK, AnswersKept
<1>11. CASE UNCHANGED vars
  BY <1>11, <1>i, <1>g DEF vars
<1>. QED
  BY <1>1, <1>2, <1>3, <1>4, <1>5, <1>6, <1>7, <1>8, <1>9, <1>10, <1>11
     DEF Next

\* The invariant holds in every behaviour.
LEMMA SpecSound == Spec => []IInv
  BY InitSound, NextSound, PTL DEF Spec

\* Whatever is posted, in whatever order, every table keeps its types: no
\* inventory row, settlement or ledger amount becomes negative.
THEOREM TypeCorrect == Spec => []TypeOK
  BY SpecSound, PTL DEF IInv

\* An invoice is never collected beyond its bill, nor returned beyond what
\* was sold, by any number of receipts and returns in any order.
THEOREM SettlementSound == Spec => []SettledWithinBilled
<1>1. IInv => SettledWithinBilled
  BY DEF IInv, SoundIn, SettledIn, SettledWithinBilled
<1>. QED
  BY <1>1, SpecSound, PTL

\* A purchase is never paid beyond its total.
THEOREM PaymentSound == Spec => []PurchasePaidWithinTotal
<1>1. IInv => PurchasePaidWithinTotal
  BY DEF IInv, SoundIn, PaidIn, PurchasePaidWithinTotal
<1>. QED
  BY <1>1, SpecSound, PTL

-----------------------------------------------------------------------------
(* What a status tells.  Besides SoundIn, which makes what a return credits *)
(* an amount, this needs only itself to be inductive.                       *)

\* The status of an invoice follows what was paid and credited of it.
StatusIn(t) ==
  \A i \in DOMAIN t.invoices :
    /\ t.invoices[i].status = "PAID" => Outstanding(t.invoices[i]) <= 0
    /\ t.invoices[i].status = "POSTED" <=> t.invoices[i].paid = 0
\* The invoices made of an estimate.
MadeOf(t, e) == {i \in DOMAIN t.invoices : t.invoices[i].body.estimate = e}
\* One invoice is made of an estimate that is CONVERTED, and none of another.
ConvertedIn(t) ==
  \A e \in Estimate : IF t.estimate[e] = "CONVERTED"
                        THEN \E i : MadeOf(t, e) = {i}
                        ELSE MadeOf(t, e) = {}
FateIn(t) == SoundIn(t) /\ StatusIn(t) /\ ConvertedIn(t)

\* A function that leaves the estimates alone, and the bodies of the invoices,
\* converts nothing.
LEMMA ConvertedKept ==
  ASSUME NEW t, ConvertedIn(t), NEW u, u.estimate = t.estimate,
         DOMAIN u.invoices = DOMAIN t.invoices,
         \A i \in DOMAIN t.invoices : u.invoices[i].body = t.invoices[i].body
  PROVE  ConvertedIn(u)
<1>1. \A e : MadeOf(u, e) = MadeOf(t, e)
  BY DEF MadeOf
<1>. QED
  BY <1>1 DEF ConvertedIn

\* A sale makes a POSTED invoice, the only one of the estimate it converts.
LEMMA SaleFate ==
  ASSUME NEW t, FateIn(t), NEW r \in Call("sale", SaleBody), SalePosts(t, r)
  PROVE  FateIn(SaleAfter(t, r))
<1>. DEFINE b == r.body
            doc == Len(t.invoices) + 1
            new == [branch |-> r.branch, body |-> b, paid |-> 0, credited |-> 0,
                    returned |-> [l \in Line |-> 0], status |-> "POSTED"]
            u == SaleAfter(t, r)
<1>1. SoundIn(u)
  BY SaleSound DEF FateIn
<1>2. t \in Tables /\ t.invoices \in Seq(Invoice)
      /\ t.estimate \in [Estimate -> EstimateStatus]
  BY DEF FateIn, SoundIn, Tables
<1>3. /\ u.invoices = Append(t.invoices, new)
      /\ u.estimate = [e \in Estimate |-> IF e = b.estimate THEN "CONVERTED"
                                                            ELSE t.estimate[e]]
  BY <1>2 DEF SaleAfter, Tables
<1>4. /\ DOMAIN u.invoices = DOMAIN t.invoices \cup {doc}
      /\ doc \notin DOMAIN t.invoices
      /\ \A i \in DOMAIN t.invoices : u.invoices[i] = t.invoices[i]
      /\ u.invoices[doc] = new
  BY <1>2, <1>3
<1>5. StatusIn(u)
  BY <1>4 DEF StatusIn, FateIn
<1>6. ConvertedIn(u)
  <2>. SUFFICES ASSUME NEW e \in Estimate
                PROVE IF u.estimate[e] = "CONVERTED"
                        THEN \E i : MadeOf(u, e) = {i}
                        ELSE MadeOf(u, e) = {}
    BY DEF ConvertedIn
  <2>1. CASE e # b.estimate
    <3>1. MadeOf(u, e) = MadeOf(t, e) /\ u.estimate[e] = t.estimate[e]
      BY <2>1, <1>3, <1>4 DEF MadeOf
    <3>. QED
      BY <3>1 DEF FateIn, ConvertedIn
  <2>2. CASE e = b.estimate
    <3>1. t.estimate[e] = "READY"
      BY <2>2, OwnershipAssumption DEF SalePosts, SaleAdmitted, Convertible
    <3>2. MadeOf(t, e) = {}
      BY <3>1 DEF FateIn, ConvertedIn
    <3>3. MadeOf(u, e) = {doc} /\ u.estimate[e] = "CONVERTED"
      BY <2>2, <3>2, <1>3, <1>4 DEF MadeOf
    <3>. QED
      BY <3>3
  <2>. QED
    BY <2>1, <2>2
<1>. QED
  BY <1>1, <1>5, <1>6 DEF FateIn

\* A purchase or a vendor payment touches neither invoices nor estimates.
LEMMA PurchaseFate ==
  ASSUME NEW t, FateIn(t), NEW u, SoundIn(u),
         u.invoices = t.invoices, u.estimate = t.estimate
  PROVE  FateIn(u)
<1>1. StatusIn(u)
  BY DEF StatusIn, FateIn
<1>2. ConvertedIn(u)
  BY ConvertedKept DEF FateIn
<1>. QED
  BY <1>1, <1>2 DEF FateIn

\* A receipt pays something of every invoice it allocates to, and works out
\* the status of each.
LEMMA ReceiptFate ==
  ASSUME NEW t, FateIn(t), NEW r \in Call("receipt", ReceiptBody),
         ReceiptPosts(t, r)
  PROVE  FateIn(ReceiptAfter(t, r))
<1>. DEFINE u == ReceiptAfter(t, r)
            alloc == r.body.alloc
<1>1. SoundIn(u)
  BY ReceiptSound DEF FateIn
<1>2. t \in Tables /\ t.invoices \in Seq(Invoice) /\ alloc \in Allocation
  BY DEF FateIn, SoundIn, Tables, Call, ReceiptBody
<1>3. /\ u.invoices = [i \in DOMAIN t.invoices |->
                         IF \E x \in alloc : x.doc = i
                           THEN Settled(t.invoices[i], AllocatedTo(alloc, i))
                           ELSE t.invoices[i]]
      /\ u.estimate = t.estimate
  BY <1>2 DEF ReceiptAfter, Tables
<1>4. ASSUME NEW i \in DOMAIN t.invoices
      PROVE  /\ u.invoices[i].body = t.invoices[i].body
             /\ u.invoices[i].status = "PAID" => Outstanding(u.invoices[i]) <= 0
             /\ u.invoices[i].status = "POSTED" <=> u.invoices[i].paid = 0
  <2>1. t.invoices[i] \in Invoice
    BY <1>2
  <2>2. CASE ~ \E x \in alloc : x.doc = i
    BY <2>2, <1>3 DEF FateIn, StatusIn
  <2>3. CASE \E x \in alloc : x.doc = i
    <3>1. PICK x \in alloc : x.doc = i /\ AllocatedTo(alloc, i) = x.amount
      BY <2>3, AllocatedRow
    <3>2. x.amount \in Nat /\ x.amount > 0
      BY <1>2 DEF ReceiptPosts, ReceiptAdmitted, WellAllocated, Allocation
    <3>3. u.invoices[i] = Settled(t.invoices[i], x.amount)
      BY <2>3, <3>1, <1>3
    <3>4. /\ u.invoices[i].body = t.invoices[i].body
          /\ u.invoices[i].credited = t.invoices[i].credited
          /\ u.invoices[i].paid = t.invoices[i].paid + x.amount
          /\ u.invoices[i].status =
               IF t.invoices[i].paid + x.amount + t.invoices[i].credited
                    >= Billed(t.invoices[i].body)
                 THEN "PAID" ELSE "PARTIALLY_PAID"
      BY <3>3, <2>1 DEF Settled, Invoice
    <3>5. /\ Billed(t.invoices[i].body) \in Nat /\ t.invoices[i].paid \in Nat
          /\ t.invoices[i].credited \in Nat
      BY <2>1 DEF Invoice, SaleBody, Billed
    <3>. QED
      BY <3>2, <3>4, <3>5 DEF Outstanding
  <2>. QED
    BY <2>2, <2>3
<1>5. DOMAIN u.invoices = DOMAIN t.invoices
  BY <1>3
<1>6. StatusIn(u)
  BY <1>4, <1>5 DEF StatusIn
<1>7. ConvertedIn(u)
  BY <1>3, <1>4, <1>5, ConvertedKept DEF FateIn
<1>. QED
  BY <1>1, <1>6, <1>7 DEF FateIn

\* A return credits an amount, so a PAID invoice stays without a balance; it
\* pays nothing and keeps the status.
LEMMA ReturnFate ==
  ASSUME NEW t, FateIn(t), NEW r \in Call("return", ReturnBody),
         ReturnPosts(t, r)
  PROVE  FateIn(ReturnAfter(t, r))
<1>. DEFINE u == ReturnAfter(t, r)
            b == r.body
            d == b.invoice
<1>1. SoundIn(u)
  BY ReturnSound DEF FateIn
<1>2. t \in Tables /\ t.invoices \in Seq(Invoice) /\ b \in ReturnBody
  BY DEF FateIn, SoundIn, Tables, Call
<1>3. d \in DOMAIN t.invoices
  BY DEF ReturnPosts, ReturnAdmitted
<1>4. /\ u.invoices = [t.invoices EXCEPT ![d] = Credited(t.invoices[d], b)]
      /\ u.estimate = t.estimate
  BY <1>2 DEF ReturnAfter, Tables
<1>5. t.invoices[d] \in Invoice /\ CreditValue(t.invoices[d], b) \in Nat
  BY <1>2, <1>3, CreditNat DEF FateIn, SoundIn
<1>6. /\ u.invoices[d].body = t.invoices[d].body
      /\ u.invoices[d].paid = t.invoices[d].paid
      /\ u.invoices[d].status = t.invoices[d].status
      /\ u.invoices[d].credited
           = t.invoices[d].credited + CreditValue(t.invoices[d], b)
  <2>1. u.invoices[d] = Credited(t.invoices[d], b)
    BY <1>3, <1>4
  <2>. QED
    BY <2>1, <1>5 DEF Credited, Invoice
<1>7. /\ Billed(t.invoices[d].body) \in Nat /\ t.invoices[d].paid \in Nat
      /\ t.invoices[d].credited \in Nat
  BY <1>5 DEF Invoice, SaleBody, Billed
<1>8. Outstanding(t.invoices[d]) <= 0 => Outstanding(u.invoices[d]) <= 0
  BY <1>5, <1>6, <1>7 DEF Outstanding
<1>9. /\ DOMAIN u.invoices = DOMAIN t.invoices
      /\ \A i \in DOMAIN t.invoices :
           i # d => u.invoices[i] = t.invoices[i]
  BY <1>4
<1>10. StatusIn(u)
  BY <1>6, <1>8, <1>9 DEF FateIn, StatusIn
<1>11. ConvertedIn(u)
  BY <1>4, <1>6, <1>9, ConvertedKept DEF FateIn
<1>. QED
  BY <1>1, <1>10, <1>11 DEF FateIn

\* A copilot sale is a sale, then a receipt on its invoice.
LEMMA CopilotSaleFate ==
  ASSUME NEW t, FateIn(t), NEW r \in Call("copilotSale", SaleBody),
         CopilotSalePosts(t, r)
  PROVE  FateIn(CopilotSaleAfter(t, r))
<1>. DEFINE doc == Len(t.invoices) + 1
            sold == SaleAfter(t, SaleCall(r))
<1>1. SaleCall(r) \in Call("sale", SaleBody)
  BY DEF SaleCall, Call
<1>2. FateIn(sold)
  BY <1>1, SaleFate DEF CopilotSalePosts
<1>3. doc \in Id
  BY DEF FateIn, SoundIn, Tables, Id
<1>4. ReceiptCall(r, doc) \in Call("receipt", ReceiptBody)
  BY <1>3, ReceiptCallType
<1>5. CASE r.body.paid > 0
  <2>1. ReceiptPosts(sold, ReceiptCall(r, doc))
    BY <1>5 DEF CopilotSalePosts
  <2>2. FateIn(ReceiptAfter(sold, ReceiptCall(r, doc)))
    BY <1>2, <1>4, <2>1, ReceiptFate
  <2>. QED
    BY <1>5, <2>2 DEF CopilotSaleAfter
<1>6. CASE ~(r.body.paid > 0)
  BY <1>2, <1>6 DEF CopilotSaleAfter
<1>. QED
  BY <1>5, <1>6

\* The statuses tell the truth of the empty books.
LEMMA InitFate == Init => FateIn(db)
<1>. SUFFICES ASSUME Init PROVE FateIn(db)
  OBVIOUS
<1>1. SoundIn(db)
  BY InitSound DEF IInv
<1>2. db.invoices = <<>> /\ db.estimate = [e \in Estimate |-> "DRAFT"]
  BY DEF Init
<1>3. StatusIn(db) /\ ConvertedIn(db)
  BY <1>2 DEF StatusIn, ConvertedIn, MadeOf
<1>. QED
  BY <1>1, <1>3 DEF FateIn

\* Every call, and the marking of an estimate as READY, keeps them true.
LEMMA NextFate == IInv /\ FateIn(db) /\ [Next]_vars => FateIn(db)'
<1>. SUFFICES ASSUME IInv, FateIn(db), [Next]_vars PROVE FateIn(db')
  BY DEF FateIn, StatusIn, ConvertedIn, MadeOf, SoundIn, LineTermsIn, SettledIn,
         PaidIn
<1>i. SoundIn(db) /\ db \in Tables
  BY DEF FateIn, SoundIn
<1>n. SoundIn(db')
  <2>1. IInv'
    BY NextSound
  <2>. QED
    BY <2>1 DEF IInv, SoundIn, LineTermsIn, SettledIn, PaidIn
<1>k. db'.invoices = db.invoices /\ db'.estimate = db.estimate => FateIn(db')
  BY <1>n, PurchaseFate
<1>1. ASSUME NEW r \in SaleRequest, PostSale(r) PROVE FateIn(db')
  BY <1>1, SaleFate, RequestAssumption DEF PostSale
<1>2. ASSUME NEW r \in PurchaseRequest, PostPurchase(r) PROVE FateIn(db')
  BY <1>2, <1>k, <1>i DEF PostPurchase, PurchaseAfter, Tables
<1>3. ASSUME NEW r \in ReceiptRequest, PostReceipt(r) PROVE FateIn(db')
  BY <1>3, ReceiptFate, RequestAssumption DEF PostReceipt
<1>4. ASSUME NEW r \in ReturnRequest, PostReturn(r) PROVE FateIn(db')
  BY <1>4, ReturnFate, RequestAssumption DEF PostReturn
<1>5. ASSUME NEW r \in VendorPaymentRequest, PostVendorPayment(r)
      PROVE  FateIn(db')
  BY <1>5, <1>k, <1>i DEF PostVendorPayment, VendorPaymentAfter, Tables
<1>6. ASSUME NEW r \in CopilotSaleRequest, PostCopilotSale(r) PROVE FateIn(db')
  BY <1>6, CopilotSaleFate, RequestAssumption DEF PostCopilotSale
<1>7. ASSUME NEW r \in Request, Replay(r) \/ Refuse(r) PROVE FateIn(db')
  BY <1>7 DEF Replay, Refuse
<1>8. ASSUME NEW e \in Estimate, MarkReady(e) PROVE FateIn(db')
  <2>1. /\ db'.invoices = db.invoices
        /\ db.estimate[e] = "DRAFT"
        /\ db'.estimate = [db.estimate EXCEPT ![e] = "READY"]
        /\ db.estimate \in [Estimate -> EstimateStatus]
    BY <1>8, <1>i DEF MarkReady, Tables
  <2>2. \A x : MadeOf(db', x) = MadeOf(db, x)
    BY <2>1 DEF MadeOf
  <2>3. ConvertedIn(db')
    BY <2>1, <2>2 DEF FateIn, ConvertedIn
  <2>4. StatusIn(db')
    BY <2>1 DEF FateIn, StatusIn
  <2>. QED
    BY <1>n, <2>3, <2>4 DEF FateIn
<1>9. ASSUME NEW g \in Revocable, Revoke(g) \/ Regrant(g) PROVE FateIn(db')
  BY <1>9 DEF Revoke, Regrant
<1>10. CASE UNCHANGED vars
  BY <1>10 DEF vars
<1>. QED
  BY <1>1, <1>2, <1>3, <1>4, <1>5, <1>6, <1>7, <1>8, <1>9, <1>10 DEF Next

\* An invoice shown PAID has nothing outstanding and one shown POSTED has had
\* no receipt, whatever was paid and returned in whatever order; and of a
\* CONVERTED estimate exactly one invoice came.
THEOREM StatusIsFate == Spec => []StatusTellsFate
<1>1. FateIn(db) => StatusTellsFate
  <2>. SUFFICES ASSUME FateIn(db) PROVE StatusTellsFate
    OBVIOUS
  <2>1. ASSUME NEW e \in Estimate
        PROVE  Cardinality(MadeOf(db, e))
                 = IF db.estimate[e] = "CONVERTED" THEN 1 ELSE 0
    BY FS_EmptySet, FS_Singleton DEF FateIn, ConvertedIn
  <2>. QED
    BY <2>1 DEF FateIn, StatusIn, MadeOf, StatusTellsFate
<1>. QED
  BY <1>1, InitFate, NextFate, SpecSound, PTL DEF Spec

-----------------------------------------------------------------------------
(* Idempotency: the invariant, of any tables *)

DocumentsIn(t, op) ==
  CASE op = "sale" -> t.invoices
    [] op = "purchase" -> t.purchases
    [] op = "receipt" -> t.receipts
    [] op = "return" -> t.creditNotes
    [] op = "vendorPayment" -> t.vendorPayments

KeysOnce(t) ==
  /\ \A k, l \in t.keys : SameScope(k, l) => k = l
  /\ \A k, l \in t.keys : k.op = l.op /\ k.doc = l.doc => k = l
KeysMeanDocuments(t) ==
  /\ \A k \in t.keys : /\ k.doc \in DOMAIN DocumentsIn(t, k.op)
                       /\ DocumentsIn(t, k.op)[k.doc].branch = k.branch
                       /\ DocumentsIn(t, k.op)[k.doc].body = k.fingerprint
  /\ \A o \in Op : \A d \in DOMAIN DocumentsIn(t, o) :
       \E k \in t.keys : k.op = o /\ k.doc = d
JournalOnce(t) ==
  /\ {e.stamp : e \in t.journal} = t.keys
  /\ \A e, f \in t.journal : e.source = f.source => e = f
  /\ \A e \in t.journal : e.source = <<e.stamp.op, e.stamp.doc>>
OnceIn(t) == KeysOnce(t) /\ KeysMeanDocuments(t) /\ JournalOnce(t)

AnsweredIn(t, told) ==
  \A r \in Request : told[r].status = "done" =>
    \E k \in t.keys : /\ SameScope(k, Inner(r))
                      /\ SameCall(k, Inner(r))
                      /\ k.doc = told[r].doc

-----------------------------------------------------------------------------
(* What one call does to them *)

\* The call makes document doc of its table; the others keep their branch and
\* their body.
MakesDocument(t, u, r, doc) ==
  /\ \A o \in Op : \A d \in DOMAIN DocumentsIn(t, o) :
       /\ d \in DOMAIN DocumentsIn(u, o)
       /\ DocumentsIn(u, o)[d].branch = DocumentsIn(t, o)[d].branch
       /\ DocumentsIn(u, o)[d].body = DocumentsIn(t, o)[d].body
  /\ \A o \in Op : \A d \in DOMAIN DocumentsIn(u, o) :
       d \in DOMAIN DocumentsIn(t, o) \/ (o = r.op /\ d = doc)
  /\ doc \notin DOMAIN DocumentsIn(t, r.op)
  /\ doc \in DOMAIN DocumentsIn(u, r.op)
  /\ DocumentsIn(u, r.op)[doc].branch = r.branch
  /\ DocumentsIn(u, r.op)[doc].body = r.body
\* It records it under its key and books it in entry e.
BooksDocument(t, u, r, doc, e) ==
  /\ u.keys = t.keys \cup {Stamp(r, doc)}
  /\ u.journal = t.journal \cup {e}
  /\ e.source = <<r.op, doc>>
  /\ e.stamp = Stamp(r, doc)

\* Nothing is lost: documents keep their branch and body, keys and entries
\* stay.
Grows(t, u) ==
  /\ \A o \in Op : \A d \in DOMAIN DocumentsIn(t, o) :
       /\ d \in DOMAIN DocumentsIn(u, o)
       /\ DocumentsIn(u, o)[d].branch = DocumentsIn(t, o)[d].branch
       /\ DocumentsIn(u, o)[d].body = DocumentsIn(t, o)[d].body
  /\ t.keys \subseteq u.keys
  /\ t.journal \subseteq u.journal
\* And the call that made doc will be known again.
Recorded(t, u, r, doc) ==
  Grows(t, u) /\ Stamp(r, doc) \in Original(u, r)

\* A call that does both, with a key nobody used, keeps everything in step.
LEMMA CallOnce ==
  ASSUME NEW t \in Tables, NEW u, NEW r, NEW doc, NEW e, OnceIn(t),
         r.op \in Op, Fresh(t, r), MakesDocument(t, u, r, doc),
         BooksDocument(t, u, r, doc, e)
  PROVE  OnceIn(u) /\ Recorded(t, u, r, doc)
<1>. DEFINE new == Stamp(r, doc)
<1>n. /\ new.op = r.op /\ new.key = r.key /\ new.branch = r.branch
      /\ new.doc = doc /\ new.fingerprint = r.body
  BY DEF Stamp
<1>k. \A k \in t.keys : k.op \in Op
  BY DEF Tables, KeyRow
<1>u. u.keys = t.keys \cup {new}
  BY DEF BooksDocument
<1>. HIDE DEF new
<1>1. KeysOnce(u)
  <2>1. \A k \in t.keys : ~SameScope(k, new) /\ ~SameScope(new, k)
    BY <1>n DEF Fresh, SameScope
  <2>2. \A k \in t.keys : ~(k.op = new.op /\ k.doc = new.doc)
    BY <1>n DEF OnceIn, KeysMeanDocuments, MakesDocument
  <2>. QED
    BY <2>1, <2>2, <1>u DEF OnceIn, KeysOnce
<1>2. KeysMeanDocuments(u)
  <2>1. ASSUME NEW k \in u.keys
        PROVE  /\ k.doc \in DOMAIN DocumentsIn(u, k.op)
               /\ DocumentsIn(u, k.op)[k.doc].branch = k.branch
               /\ DocumentsIn(u, k.op)[k.doc].body = k.fingerprint
    <3>1. CASE k \in t.keys
      BY <3>1, <1>k DEF OnceIn, KeysMeanDocuments, MakesDocument
    <3>2. CASE k = new
      BY <3>2, <1>n DEF MakesDocument
    <3>. QED
      BY <3>1, <3>2, <1>u
  <2>2. ASSUME NEW o \in Op, NEW d \in DOMAIN DocumentsIn(u, o)
        PROVE  \E k \in u.keys : k.op = o /\ k.doc = d
    <3>1. CASE d \in DOMAIN DocumentsIn(t, o)
      BY <3>1, <1>u DEF OnceIn, KeysMeanDocuments
    <3>2. CASE o = r.op /\ d = doc
      BY <3>2, <1>n, <1>u
    <3>. QED
      BY <3>1, <3>2 DEF MakesDocument
  <2>. QED
    BY <2>1, <2>2 DEF KeysMeanDocuments
<1>3. JournalOnce(u)
  <2>1. /\ u.journal = t.journal \cup {e}
        /\ e.source = <<r.op, doc>>
        /\ e.stamp = new
    BY DEF BooksDocument, new
  <2>2. {f.stamp : f \in t.journal} = t.keys
    BY DEF OnceIn, JournalOnce
  <2>3. {f.stamp : f \in u.journal} = u.keys
    BY <2>1, <2>2, <1>u
  <2>4. ASSUME NEW f \in t.journal PROVE f.source # e.source
    <3>1. f.stamp \in t.keys /\ f.source = <<f.stamp.op, f.stamp.doc>>
      BY <2>2 DEF OnceIn, JournalOnce
    <3>2. ~(f.stamp.op = r.op /\ f.stamp.doc = doc)
      BY <3>1 DEF OnceIn, KeysMeanDocuments, MakesDocument
    <3>. QED
      BY <3>1, <3>2, <2>1
  <2>5. \A f, g \in u.journal : f.source = g.source => f = g
    BY <2>1, <2>4 DEF OnceIn, JournalOnce
  <2>6. \A f \in u.journal : f.source = <<f.stamp.op, f.stamp.doc>>
    BY <2>1, <1>n DEF OnceIn, JournalOnce
  <2>. QED
    BY <2>3, <2>5, <2>6 DEF JournalOnce
<1>4. Grows(t, u)
  BY DEF Grows, MakesDocument, BooksDocument
<1>5. new \in Original(u, r)
  <2>1. SameScope(new, r) /\ SameCall(new, r)
    BY DEF new, Stamp, SameScope, SameCall
  <2>2. e \in u.journal /\ e.source = <<new.op, new.doc>> /\ new \in u.keys
    BY <1>n, <1>u DEF BooksDocument
  <2>. QED
    BY <2>1, <2>2 DEF Original
<1>. QED
  BY <1>1, <1>2, <1>3, <1>4, <1>5 DEF OnceIn, Recorded, new

\* A table whose documents were settled or credited, not replaced.
Revised(docs, later) ==
  /\ DOMAIN later = DOMAIN docs
  /\ \A d \in DOMAIN docs : /\ later[d].branch = docs[d].branch
                            /\ later[d].body = docs[d].body

\* A row appended to one table, the others at most revised, is a document.
LEMMA MakesNext ==
  ASSUME NEW t, NEW u, NEW r, NEW S, NEW docs \in Seq(S), NEW new,
         docs = DocumentsIn(t, r.op),
         DocumentsIn(u, r.op) = Append(docs, new),
         new.branch = r.branch, new.body = r.body,
         \A o \in Op \ {r.op} : Revised(DocumentsIn(t, o), DocumentsIn(u, o))
  PROVE  MakesDocument(t, u, r, Len(docs) + 1)
<1>. DEFINE doc == Len(docs) + 1
<1>1. /\ \A d \in DOMAIN docs : /\ d \in DOMAIN Append(docs, new)
                                /\ Append(docs, new)[d] = docs[d]
      /\ \A d \in DOMAIN Append(docs, new) : d \in DOMAIN docs \/ d = doc
      /\ doc \notin DOMAIN docs
      /\ doc \in DOMAIN Append(docs, new)
      /\ Append(docs, new)[doc] = new
  OBVIOUS
<1>. HIDE DEF doc
<1>2. ASSUME NEW o \in Op, NEW d \in DOMAIN DocumentsIn(t, o)
      PROVE  /\ d \in DOMAIN DocumentsIn(u, o)
             /\ DocumentsIn(u, o)[d].branch = DocumentsIn(t, o)[d].branch
             /\ DocumentsIn(u, o)[d].body = DocumentsIn(t, o)[d].body
  <2>1. CASE o = r.op
    BY <2>1, <1>1
  <2>2. CASE o # r.op
    BY <2>2 DEF Revised
  <2>. QED
    BY <2>1, <2>2
<1>3. ASSUME NEW o \in Op, NEW d \in DOMAIN DocumentsIn(u, o)
      PROVE  d \in DOMAIN DocumentsIn(t, o) \/ (o = r.op /\ d = doc)
  <2>1. CASE o = r.op
    BY <2>1, <1>1
  <2>2. CASE o # r.op
    BY <2>2 DEF Revised
  <2>. QED
    BY <2>1, <2>2
<1>. QED
  BY <1>1, <1>2, <1>3 DEF MakesDocument, doc

\* A sale makes an invoice.
LEMMA SaleOnce ==
  ASSUME NEW t \in Tables, OnceIn(t), NEW r \in Call("sale", SaleBody),
         SalePosts(t, r)
  PROVE  /\ OnceIn(SaleAfter(t, r))
         /\ Recorded(t, SaleAfter(t, r), r, Len(t.invoices) + 1)
<1>. DEFINE u == SaleAfter(t, r)
            doc == Len(t.invoices) + 1
            new == [branch |-> r.branch, body |-> r.body, paid |-> 0,
                    credited |-> 0, returned |-> [l \in Line |-> 0],
                    status |-> "POSTED"]
<1>r. r.op = "sale" /\ r.op \in Op
  BY DEF Call, Op
<1>1. /\ u.invoices = Append(t.invoices, new) /\ u.purchases = t.purchases
      /\ u.receipts = t.receipts /\ u.creditNotes = t.creditNotes
      /\ u.vendorPayments = t.vendorPayments
      /\ u.keys = t.keys \cup {Stamp(r, doc)}
      /\ u.journal = t.journal \cup {SaleEntry(r, doc)}
  BY DEF SaleAfter, Tables
<1>2. BooksDocument(t, u, r, doc, SaleEntry(r, doc))
  BY <1>1 DEF BooksDocument, SaleEntry, Entry
<1>3. MakesDocument(t, u, r, doc)
  <2>1. t.invoices \in Seq(Invoice) /\ new.branch = r.branch /\ new.body = r.body
    BY DEF Tables
  <2>. HIDE DEF new, u
  <2>2. \A o \in Op \ {"sale"} : Revised(DocumentsIn(t, o), DocumentsIn(u, o))
    BY <1>1 DEF Revised, DocumentsIn, Op
  <2>3. /\ DocumentsIn(t, "sale") = t.invoices
        /\ DocumentsIn(u, "sale") = Append(t.invoices, new)
    BY <1>1 DEF DocumentsIn
  <2>. QED
    BY <1>r, <2>1, <2>2, <2>3, MakesNext
<1>. QED
  BY <1>r, <1>2, <1>3, CallOnce DEF SalePosts

\* A purchase makes a bill.
LEMMA PurchaseOnce ==
  ASSUME NEW t \in Tables, OnceIn(t), NEW r \in Call("purchase", PurchaseBody),
         PurchasePosts(t, r)
  PROVE  /\ OnceIn(PurchaseAfter(t, r))
         /\ Recorded(t, PurchaseAfter(t, r), r, Len(t.purchases) + 1)
<1>. DEFINE u == PurchaseAfter(t, r)
            doc == Len(t.purchases) + 1
            new == [branch |-> r.branch, body |-> r.body, paid |-> 0]
            entry == Entry(r, doc, PurchaseDebits(r.body), PurchaseCredits(r.body))
<1>r. r.op = "purchase" /\ r.op \in Op
  BY DEF Call, Op
<1>1. /\ u.purchases = Append(t.purchases, new) /\ u.invoices = t.invoices
      /\ u.receipts = t.receipts /\ u.creditNotes = t.creditNotes
      /\ u.vendorPayments = t.vendorPayments
      /\ u.keys = t.keys \cup {Stamp(r, doc)}
      /\ u.journal = t.journal \cup {entry}
  BY DEF PurchaseAfter, Tables
<1>2. BooksDocument(t, u, r, doc, entry)
  BY <1>1 DEF BooksDocument, Entry
<1>3. MakesDocument(t, u, r, doc)
  <2>1. t.purchases \in Seq(Purchase) /\ new.branch = r.branch /\ new.body = r.body
    BY DEF Tables
  <2>. HIDE DEF new, u
  <2>2. \A o \in Op \ {"purchase"} :
          Revised(DocumentsIn(t, o), DocumentsIn(u, o))
    BY <1>1 DEF Revised, DocumentsIn, Op
  <2>3. /\ DocumentsIn(t, "purchase") = t.purchases
        /\ DocumentsIn(u, "purchase") = Append(t.purchases, new)
    BY <1>1 DEF DocumentsIn
  <2>. QED
    BY <1>r, <2>1, <2>2, <2>3, MakesNext
<1>. QED
  BY <1>r, <1>2, <1>3, CallOnce DEF PurchasePosts

\* A receipt revises the invoices it settles.
LEMMA ReceiptOnce ==
  ASSUME NEW t \in Tables, OnceIn(t), NEW r \in Call("receipt", ReceiptBody),
         ReceiptPosts(t, r)
  PROVE  /\ OnceIn(ReceiptAfter(t, r))
         /\ Recorded(t, ReceiptAfter(t, r), r, Len(t.receipts) + 1)
<1>. DEFINE u == ReceiptAfter(t, r)
            b == r.body
            doc == Len(t.receipts) + 1
            new == [branch |-> r.branch, body |-> b]
            entry == Entry(r, doc, ReceiptDebits(b), ReceiptCredits(b))
<1>r. r.op = "receipt" /\ r.op \in Op
  BY DEF Call, Op
<1>1. /\ u.purchases = t.purchases
      /\ u.receipts = Append(t.receipts, new) /\ u.creditNotes = t.creditNotes
      /\ u.vendorPayments = t.vendorPayments
      /\ u.keys = t.keys \cup {Stamp(r, doc)}
      /\ u.journal = t.journal \cup {entry}
      /\ u.invoices = [i \in DOMAIN t.invoices |->
                         IF \E x \in b.alloc : x.doc = i
                           THEN Settled(t.invoices[i], AllocatedTo(b.alloc, i))
                           ELSE t.invoices[i]]
  BY DEF ReceiptAfter, Tables
<1>2. BooksDocument(t, u, r, doc, entry)
  BY <1>1 DEF BooksDocument, Entry
<1>3. Revised(t.invoices, u.invoices)
  <2>1. \A i \in DOMAIN t.invoices : t.invoices[i] \in Invoice
    BY DEF Tables
  <2>2. \A i \in DOMAIN t.invoices :
          LET s == Settled(t.invoices[i], AllocatedTo(b.alloc, i))
          IN  s.branch = t.invoices[i].branch /\ s.body = t.invoices[i].body
    BY <2>1 DEF Settled, Invoice
  <2>3. \A i \in DOMAIN t.invoices :
          /\ u.invoices[i].branch = t.invoices[i].branch
          /\ u.invoices[i].body = t.invoices[i].body
    BY <1>1, <2>2
  <2>4. DOMAIN u.invoices = DOMAIN t.invoices
    BY <1>1
  <2>. QED
    BY <2>3, <2>4 DEF Revised
<1>4. MakesDocument(t, u, r, doc)
  <2>. DEFINE Row == [branch : Branch, body : ReceiptBody]
  <2>1. t.receipts \in Seq(Row) /\ new.branch = r.branch /\ new.body = r.body
    BY DEF Tables
  <2>. HIDE DEF new, u, Row
  <2>2. \A o \in Op \ {"receipt"} : Revised(DocumentsIn(t, o), DocumentsIn(u, o))
    BY <1>1, <1>3 DEF Revised, DocumentsIn, Op
  <2>3. /\ DocumentsIn(t, "receipt") = t.receipts
        /\ DocumentsIn(u, "receipt") = Append(t.receipts, new)
    BY <1>1 DEF DocumentsIn
  <2>. QED
    BY <1>r, <2>1, <2>2, <2>3, MakesNext
<1>. QED
  BY <1>r, <1>2, <1>4, CallOnce DEF ReceiptPosts

\* A return makes a credit note and revises its invoice.
LEMMA ReturnOnce ==
  ASSUME NEW t \in Tables, OnceIn(t), NEW r \in Call("return", ReturnBody),
         ReturnPosts(t, r)
  PROVE  /\ OnceIn(ReturnAfter(t, r))
         /\ Recorded(t, ReturnAfter(t, r), r, Len(t.creditNotes) + 1)
<1>. DEFINE u == ReturnAfter(t, r)
            b == r.body
            i == t.invoices[b.invoice]
            doc == Len(t.creditNotes) + 1
            new == [branch |-> r.branch, body |-> b]
            entry == Entry(r, doc, ReturnDebits(i, b), ReturnCredits(i, b))
<1>r. r.op = "return" /\ r.op \in Op
  BY DEF Call, Op
<1>1. /\ u.purchases = t.purchases /\ u.receipts = t.receipts
      /\ u.creditNotes = Append(t.creditNotes, new)
      /\ u.vendorPayments = t.vendorPayments
      /\ u.keys = t.keys \cup {Stamp(r, doc)}
      /\ u.journal = t.journal \cup {entry}
      /\ u.invoices = [t.invoices EXCEPT ![b.invoice] = Credited(i, b)]
  BY DEF ReturnAfter, Tables
<1>2. BooksDocument(t, u, r, doc, entry)
  BY <1>1 DEF BooksDocument, Entry
<1>3. Revised(t.invoices, u.invoices)
  <2>1. b.invoice \in DOMAIN t.invoices
    BY DEF ReturnPosts, ReturnAdmitted
  <2>2. i \in Invoice
    BY <2>1 DEF Tables
  <2>3. Credited(i, b).branch = i.branch /\ Credited(i, b).body = i.body
    BY <2>2 DEF Credited, Invoice
  <2>. QED
    BY <1>1, <2>3 DEF Revised
<1>4. MakesDocument(t, u, r, doc)
  <2>. DEFINE Row == [branch : Branch, body : ReturnBody]
  <2>1. t.creditNotes \in Seq(Row) /\ new.branch = r.branch /\ new.body = r.body
    BY DEF Tables
  <2>. HIDE DEF new, u, Row
  <2>2. \A o \in Op \ {"return"} : Revised(DocumentsIn(t, o), DocumentsIn(u, o))
    BY <1>1, <1>3 DEF Revised, DocumentsIn, Op
  <2>3. /\ DocumentsIn(t, "return") = t.creditNotes
        /\ DocumentsIn(u, "return") = Append(t.creditNotes, new)
    BY <1>1 DEF DocumentsIn
  <2>. QED
    BY <1>r, <2>1, <2>2, <2>3, MakesNext
<1>. QED
  BY <1>r, <1>2, <1>4, CallOnce DEF ReturnPosts

\* A vendor payment revises the purchases it pays.
LEMMA VendorPaymentOnce ==
  ASSUME NEW t \in Tables, OnceIn(t),
         NEW r \in Call("vendorPayment", VendorPaymentBody),
         VendorPaymentPosts(t, r)
  PROVE  /\ OnceIn(VendorPaymentAfter(t, r))
         /\ Recorded(t, VendorPaymentAfter(t, r), r, Len(t.vendorPayments) + 1)
<1>. DEFINE u == VendorPaymentAfter(t, r)
            b == r.body
            doc == Len(t.vendorPayments) + 1
            new == [branch |-> r.branch, body |-> b]
            entry == Entry(r, doc, VendorPaymentDebits(b),
                           VendorPaymentCredits(b))
<1>r. r.op = "vendorPayment" /\ r.op \in Op
  BY DEF Call, Op
<1>1. /\ u.invoices = t.invoices /\ u.receipts = t.receipts
      /\ u.creditNotes = t.creditNotes
      /\ u.vendorPayments = Append(t.vendorPayments, new)
      /\ u.keys = t.keys \cup {Stamp(r, doc)}
      /\ u.journal = t.journal \cup {entry}
      /\ u.purchases = [p \in DOMAIN t.purchases |->
                          Paying(t.purchases[p], AllocatedTo(b.alloc, p))]
  BY DEF VendorPaymentAfter, Tables
<1>2. BooksDocument(t, u, r, doc, entry)
  BY <1>1 DEF BooksDocument, Entry
<1>3. Revised(t.purchases, u.purchases)
  <2>1. \A p \in DOMAIN t.purchases : t.purchases[p] \in Purchase
    BY DEF Tables
  <2>2. \A p \in DOMAIN t.purchases :
          LET s == Paying(t.purchases[p], AllocatedTo(b.alloc, p))
          IN  s.branch = t.purchases[p].branch /\ s.body = t.purchases[p].body
    BY <2>1 DEF Paying, Purchase
  <2>3. \A p \in DOMAIN t.purchases :
          /\ u.purchases[p].branch = t.purchases[p].branch
          /\ u.purchases[p].body = t.purchases[p].body
    BY <1>1, <2>2
  <2>4. DOMAIN u.purchases = DOMAIN t.purchases
    BY <1>1
  <2>. QED
    BY <2>3, <2>4 DEF Revised
<1>4. MakesDocument(t, u, r, doc)
  <2>. DEFINE Row == [branch : Branch, body : VendorPaymentBody]
  <2>1. /\ t.vendorPayments \in Seq(Row)
        /\ new.branch = r.branch /\ new.body = r.body
    BY DEF Tables
  <2>. HIDE DEF new, u, Row
  <2>2. \A o \in Op \ {"vendorPayment"} :
          Revised(DocumentsIn(t, o), DocumentsIn(u, o))
    BY <1>1, <1>3 DEF Revised, DocumentsIn, Op
  <2>3. /\ DocumentsIn(t, "vendorPayment") = t.vendorPayments
        /\ DocumentsIn(u, "vendorPayment") = Append(t.vendorPayments, new)
    BY <1>1 DEF DocumentsIn
  <2>. QED
    BY <1>r, <2>1, <2>2, <2>3, MakesNext
<1>. QED
  BY <1>r, <1>2, <1>4, CallOnce DEF VendorPaymentPosts

LEMMA GrowsTwice ==
  ASSUME NEW t, NEW u, NEW v, Grows(t, u), Grows(u, v) PROVE Grows(t, v)
  BY DEF Grows
LEMMA OriginalKept ==
  ASSUME NEW t, NEW u, Grows(t, u), NEW r
  PROVE  Original(t, r) \subseteq Original(u, r)
  BY DEF Grows, Original

\* A copilot sale is two calls, the sale and then its receipt; both are known
\* again.
LEMMA CopilotSaleOnce ==
  ASSUME NEW t, SoundIn(t), OnceIn(t),
         NEW r \in Call("copilotSale", SaleBody), CopilotSalePosts(t, r)
  PROVE  LET doc == Len(t.invoices) + 1
             u == CopilotSaleAfter(t, r)
         IN  /\ OnceIn(u)
             /\ Recorded(t, u, SaleCall(r), doc)
             /\ r.body.paid > 0 => Original(u, ReceiptCall(r, doc)) # {}
<1>. DEFINE doc == Len(t.invoices) + 1
            sold == SaleAfter(t, SaleCall(r))
            receipt == ReceiptCall(r, doc)
            u == CopilotSaleAfter(t, r)
<1>1. SaleCall(r) \in Call("sale", SaleBody)
  BY DEF SaleCall, Call
<1>2. t \in Tables /\ doc \in Id
  BY DEF SoundIn, Tables, Id
<1>3. sold \in Tables /\ OnceIn(sold) /\ Recorded(t, sold, SaleCall(r), doc)
  BY <1>1, <1>2, SaleSound, SaleOnce DEF CopilotSalePosts, SoundIn
<1>4. CASE r.body.paid > 0
  <2>1. receipt \in Call("receipt", ReceiptBody) /\ ReceiptPosts(sold, receipt)
    BY <1>2, <1>4, ReceiptCallType DEF CopilotSalePosts
  <2>2. u = ReceiptAfter(sold, receipt)
    BY <1>4 DEF CopilotSaleAfter
  <2>3. OnceIn(u) /\ Recorded(sold, u, receipt, Len(sold.receipts) + 1)
    BY <1>3, <2>1, <2>2, ReceiptOnce
  <2>4. Recorded(t, u, SaleCall(r), doc)
    BY <1>3, <2>3, GrowsTwice, OriginalKept DEF Recorded
  <2>. QED
    BY <2>3, <2>4 DEF Recorded
<1>5. CASE ~(r.body.paid > 0)
  BY <1>3, <1>5 DEF CopilotSaleAfter
<1>. QED
  BY <1>4, <1>5

-----------------------------------------------------------------------------
(* What the callers are told *)

\* The key row k says what request r is told.
Tells(k, r) == SameScope(k, Inner(r)) /\ SameCall(k, Inner(r))

\* A call records itself.
LEMMA StampTells ==
  ASSUME NEW r, NEW doc, r.op # "copilotSale"
  PROVE  Tells(Stamp(r, doc), r) /\ Stamp(r, doc).doc = doc
  BY DEF Tells, Inner, Stamp, SameScope, SameCall
LEMMA StampTellsCopilot ==
  ASSUME NEW r \in Call("copilotSale", SaleBody), NEW doc
  PROVE  /\ Tells(Stamp(SaleCall(r), doc), r)
         /\ Stamp(SaleCall(r), doc).doc = doc
  BY DEF Tells, Inner, Stamp, SameScope, SameCall, SaleCall, Call

\* Earlier answers stay true while keys stay, and one more is when a key row
\* says so.
LEMMA AnsweredMore ==
  ASSUME TypeOK, AnsweredIn(db, answer), db.keys \subseteq db'.keys,
         NEW r \in Request, NEW k \in db'.keys, Tells(k, r),
         Answer(r, Done(k.doc))
  PROVE  AnsweredIn(db', answer')
<1>1. answer' = [answer EXCEPT ![r] = Done(k.doc)]
  BY DEF Answer
<1>2. answer'[r].doc = k.doc /\ \A q \in Request \ {r} : answer'[q] = answer[q]
  BY <1>1 DEF TypeOK, Done
<1>3. ASSUME NEW q \in Request, answer'[q].status = "done"
      PROVE  \E l \in db'.keys : /\ SameScope(l, Inner(q))
                                 /\ SameCall(l, Inner(q))
                                 /\ l.doc = answer'[q].doc
  <2>1. CASE q = r
    BY <2>1, <1>2 DEF Tells
  <2>2. CASE q # r
    BY <2>2, <1>2, <1>3 DEF AnsweredIn
  <2>. QED
    BY <2>1, <2>2
<1>. QED
  BY <1>3 DEF AnsweredIn

\* So do they when a call is refused.
LEMMA AnsweredRefused ==
  ASSUME TypeOK, AnsweredIn(db, answer), db' = db, NEW r \in Request,
         Answer(r, Refused)
  PROVE  AnsweredIn(db', answer')
<1>1. answer' = [answer EXCEPT ![r] = Refused]
  BY DEF Answer
<1>2. /\ answer'[r].status = "refused"
      /\ \A q \in Request \ {r} : answer'[q] = answer[q]
  BY <1>1 DEF TypeOK, Refused
<1>3. ASSUME NEW q \in Request, answer'[q].status = "done"
      PROVE  \E l \in db'.keys : /\ SameScope(l, Inner(q))
                                 /\ SameCall(l, Inner(q))
                                 /\ l.doc = answer'[q].doc
  <2>1. q # r
    BY <1>2, <1>3
  <2>. QED
    BY <2>1, <1>2, <1>3 DEF AnsweredIn
<1>. QED
  BY <1>3 DEF AnsweredIn

\* A repeated call is told what its own key row says.
LEMMA ReplayTells ==
  ASSUME NEW t, NEW r, NEW k \in Replays(t, r)
  PROVE  k \in t.keys /\ Tells(k, r)
<1>1. CASE r.op = "copilotSale"
  <2>1. k \in Original(t, SaleCall(r)) /\ Inner(r) = SaleCall(r)
    BY <1>1 DEF Replays, CopilotSaleOriginal, Inner
  <2>. QED
    BY <2>1 DEF Original, Tells
<1>2. CASE r.op # "copilotSale"
  <2>1. k \in Original(t, r) /\ Inner(r) = r
    BY <1>2 DEF Replays, Inner
  <2>. QED
    BY <2>1 DEF Original, Tells
<1>. QED
  BY <1>1, <1>2

-----------------------------------------------------------------------------
OnceInv == OnceIn(db) /\ AnsweredIn(db, answer)

\* Every step keeps documents, keys, entries and answers in step.
LEMMA NextOnce == IInv /\ OnceInv /\ [Next]_vars => OnceInv'
<1>. SUFFICES ASSUME IInv, OnceInv, [Next]_vars
              PROVE OnceIn(db') /\ AnsweredIn(db', answer')
  BY DEF OnceInv, OnceIn, AnsweredIn, KeysOnce, KeysMeanDocuments, JournalOnce,
         DocumentsIn, SameScope
<1>i. /\ TypeOK /\ db \in Tables /\ SoundIn(db)
      /\ OnceIn(db) /\ AnsweredIn(db, answer)
  BY DEF IInv, SoundIn, OnceInv
<1>1. ASSUME NEW r \in SaleRequest, PostSale(r)
      PROVE  OnceIn(db') /\ AnsweredIn(db', answer')
  <2>. DEFINE doc == Len(db.invoices) + 1
  <2>1. r \in Call("sale", SaleBody) /\ r \in Request
    BY RequestAssumption DEF Request
  <2>2. db' = SaleAfter(db, r) /\ SalePosts(db, r) /\ Answer(r, Done(doc))
    BY <1>1 DEF PostSale
  <2>3. OnceIn(db') /\ Recorded(db, db', r, doc)
    BY <2>1, <2>2, <1>i, SaleOnce
  <2>4. r.op # "copilotSale"
    BY <2>1 DEF Call
  <2>5. AnsweredIn(db', answer')
    BY <2>1, <2>2, <2>3, <2>4, <1>i, StampTells, AnsweredMore
       DEF Recorded, Grows, Original
  <2>. QED
    BY <2>3, <2>5
<1>2. ASSUME NEW r \in PurchaseRequest, PostPurchase(r)
      PROVE  OnceIn(db') /\ AnsweredIn(db', answer')
  <2>. DEFINE doc == Len(db.purchases) + 1
  <2>1. r \in Call("purchase", PurchaseBody) /\ r \in Request
    BY RequestAssumption DEF Request
  <2>2. /\ db' = PurchaseAfter(db, r) /\ PurchasePosts(db, r)
        /\ Answer(r, Done(doc))
    BY <1>2 DEF PostPurchase
  <2>3. OnceIn(db') /\ Recorded(db, db', r, doc)
    BY <2>1, <2>2, <1>i, PurchaseOnce
  <2>4. r.op # "copilotSale"
    BY <2>1 DEF Call
  <2>5. AnsweredIn(db', answer')
    BY <2>1, <2>2, <2>3, <2>4, <1>i, StampTells, AnsweredMore
       DEF Recorded, Grows, Original
  <2>. QED
    BY <2>3, <2>5
<1>3. ASSUME NEW r \in ReceiptRequest, PostReceipt(r)
      PROVE  OnceIn(db') /\ AnsweredIn(db', answer')
  <2>. DEFINE doc == Len(db.receipts) + 1
  <2>1. r \in Call("receipt", ReceiptBody) /\ r \in Request
    BY RequestAssumption DEF Request
  <2>2. /\ db' = ReceiptAfter(db, r) /\ ReceiptPosts(db, r)
        /\ Answer(r, Done(doc))
    BY <1>3 DEF PostReceipt
  <2>3. OnceIn(db') /\ Recorded(db, db', r, doc)
    BY <2>1, <2>2, <1>i, ReceiptOnce
  <2>4. r.op # "copilotSale"
    BY <2>1 DEF Call
  <2>5. AnsweredIn(db', answer')
    BY <2>1, <2>2, <2>3, <2>4, <1>i, StampTells, AnsweredMore
       DEF Recorded, Grows, Original
  <2>. QED
    BY <2>3, <2>5
<1>4. ASSUME NEW r \in ReturnRequest, PostReturn(r)
      PROVE  OnceIn(db') /\ AnsweredIn(db', answer')
  <2>. DEFINE doc == Len(db.creditNotes) + 1
  <2>1. r \in Call("return", ReturnBody) /\ r \in Request
    BY RequestAssumption DEF Request
  <2>2. /\ db' = ReturnAfter(db, r) /\ ReturnPosts(db, r)
        /\ Answer(r, Done(doc))
    BY <1>4 DEF PostReturn
  <2>3. OnceIn(db') /\ Recorded(db, db', r, doc)
    BY <2>1, <2>2, <1>i, ReturnOnce
  <2>4. r.op # "copilotSale"
    BY <2>1 DEF Call
  <2>5. AnsweredIn(db', answer')
    BY <2>1, <2>2, <2>3, <2>4, <1>i, StampTells, AnsweredMore
       DEF Recorded, Grows, Original
  <2>. QED
    BY <2>3, <2>5
<1>5. ASSUME NEW r \in VendorPaymentRequest, PostVendorPayment(r)
      PROVE  OnceIn(db') /\ AnsweredIn(db', answer')
  <2>. DEFINE doc == Len(db.vendorPayments) + 1
  <2>1. r \in Call("vendorPayment", VendorPaymentBody) /\ r \in Request
    BY RequestAssumption DEF Request
  <2>2. /\ db' = VendorPaymentAfter(db, r) /\ VendorPaymentPosts(db, r)
        /\ Answer(r, Done(doc))
    BY <1>5 DEF PostVendorPayment
  <2>3. OnceIn(db') /\ Recorded(db, db', r, doc)
    BY <2>1, <2>2, <1>i, VendorPaymentOnce
  <2>4. r.op # "copilotSale"
    BY <2>1 DEF Call
  <2>5. AnsweredIn(db', answer')
    BY <2>1, <2>2, <2>3, <2>4, <1>i, StampTells, AnsweredMore
       DEF Recorded, Grows, Original
  <2>. QED
    BY <2>3, <2>5
<1>6. ASSUME NEW r \in CopilotSaleRequest, PostCopilotSale(r)
      PROVE  OnceIn(db') /\ AnsweredIn(db', answer')
  <2>. DEFINE doc == Len(db.invoices) + 1
  <2>1. r \in Call("copilotSale", SaleBody) /\ r \in Request
    BY RequestAssumption DEF Request
  <2>2. /\ db' = CopilotSaleAfter(db, r) /\ CopilotSalePosts(db, r)
        /\ Answer(r, Done(doc))
    BY <1>6 DEF PostCopilotSale
  <2>3. OnceIn(db') /\ Recorded(db, db', SaleCall(r), doc)
    BY <2>1, <2>2, <1>i, CopilotSaleOnce
  <2>4. AnsweredIn(db', answer')
    BY <2>1, <2>2, <2>3, <1>i, StampTellsCopilot, AnsweredMore
       DEF Recorded, Grows, Original
  <2>. QED
    BY <2>3, <2>4
<1>7. ASSUME NEW r \in Request, Replay(r)
      PROVE  OnceIn(db') /\ AnsweredIn(db', answer')
  <2>1. PICK k \in Replays(db, r) : Answer(r, Done(k.doc))
    BY <1>7 DEF Replay
  <2>2. db' = db
    BY <1>7 DEF Replay
  <2>. QED
    BY <2>1, <2>2, <1>i, ReplayTells, AnsweredMore
<1>8. ASSUME NEW r \in Request, Refuse(r)
      PROVE  OnceIn(db') /\ AnsweredIn(db', answer')
  BY <1>8, <1>i, AnsweredRefused DEF Refuse
<1>9. ASSUME NEW e \in Estimate, MarkReady(e)
      PROVE  OnceIn(db') /\ AnsweredIn(db', answer')
  <2>1. db' = [db EXCEPT !.estimate[e] = "READY"] /\ answer' = answer
    BY <1>9 DEF MarkReady
  <2>2. /\ db'.invoices = db.invoices /\ db'.purchases = db.purchases
        /\ db'.receipts = db.receipts /\ db'.creditNotes = db.creditNotes
        /\ db'.vendorPayments = db.vendorPayments
        /\ db'.keys = db.keys /\ db'.journal = db.journal
    BY <2>1, <1>i DEF Tables
  <2>3. KeysOnce(db') /\ JournalOnce(db')
    BY <2>2, <1>i DEF OnceIn, KeysOnce, JournalOnce
  <2>4. \A o : DocumentsIn(db', o) = DocumentsIn(db, o)
    BY <2>2 DEF DocumentsIn
  <2>5. KeysMeanDocuments(db')
    BY <2>2, <2>4, <1>i DEF OnceIn, KeysMeanDocuments
  <2>. QED
    BY <2>1, <2>2, <2>3, <2>5, <1>i DEF OnceIn, AnsweredIn
<1>10. ASSUME UNCHANGED <<db, answer>>
       PROVE  OnceIn(db') /\ AnsweredIn(db', answer')
  BY <1>10, <1>i
<1>. QED
  BY <1>1, <1>2, <1>3, <1>4, <1>5, <1>6, <1>7, <1>8, <1>9, <1>10
     DEF Next, Revoke, Regrant, vars

\* Before the first call there is nothing to be out of step.
LEMMA InitOnce == Init => OnceInv
<1>. SUFFICES ASSUME Init PROVE OnceInv
  OBVIOUS
<1>1. /\ db.keys = {} /\ db.journal = {}
      /\ \A o \in Op : DocumentsIn(db, o) = <<>>
  BY DEF Init, DocumentsIn, Op
<1>2. OnceIn(db)
  BY <1>1 DEF OnceIn, KeysOnce, KeysMeanDocuments, JournalOnce
<1>3. AnsweredIn(db, answer)
  BY DEF Init, AnsweredIn, None
<1>. QED
  BY <1>2, <1>3 DEF OnceInv

\* However often requests are sent and in whatever order, a call makes one
\* document with one entry in the journal, and a caller told that its request
\* is done is told of the document of its own arguments.
THEOREM CallsOnce == Spec => []OneDocumentPerCall
<1>1. OnceInv => OneDocumentPerCall
  <2>1. \A o : DocumentsIn(db, o) = Documents(o)
    BY DEF DocumentsIn, Documents
  <2>. QED
    BY <2>1 DEF OnceInv, OnceIn, KeysOnce, KeysMeanDocuments, JournalOnce,
                AnsweredIn, OneDocumentPerCall
<1>. QED
  BY <1>1, InitOnce, NextOnce, SpecSound, PTL DEF Spec

-----------------------------------------------------------------------------
(* A call sent again.  What a call was admitted by stays true of it, but    *)
(* for its grant: what it says of itself does not change, and the documents *)
(* it is about keep their branch, their party and their lines.              *)

SaleStands(r) ==
  LET b == r.body IN
  /\ b.discount <= b.subtotal
  /\ b.grand = b.subtotal - b.discount
  /\ b.grand > 0
  /\ Present(b.qty) # {}
  /\ Owns(r, {b.customer, b.warehouse})
PurchaseStands(r) ==
  LET b == r.body IN
  /\ Present(b.qty) # {}
  /\ Owns(r, {b.vendor, b.warehouse} \cup {b.product[l] : l \in Present(b.qty)})
  /\ b.discount <= Cost(b.qty, b.cost)
  /\ PurchaseTotal(b) > 0
ReceiptStands(t, r) ==
  LET b == r.body IN
  /\ b.amount > 0
  /\ Owns(r, {b.customer})
  /\ WellAllocated(b.alloc, b.amount, DOMAIN t.invoices)
  /\ OwnInvoices(t, r)
\* What a return asks of itself and of the sale it is about.
ReturnFits(r, sale) ==
  LET b == r.body
  IN  /\ Owns(r, {b.customer})
      /\ sale.customer = b.customer
      /\ sale.currency = b.currency
      /\ Present(b.items) # {}
      /\ Present(b.items) \subseteq Present(sale.qty)
      /\ Owns(r, {b.warehouse[l] : l \in Present(b.items)}
                   \cup {sale.product[l] : l \in Present(b.items)})
ReturnStands(t, r) ==
  /\ r.body.invoice \in DOMAIN t.invoices
  /\ t.invoices[r.body.invoice].branch = r.branch
  /\ ReturnFits(r, t.invoices[r.body.invoice].body)
VendorPaymentStands(t, r) ==
  LET b == r.body IN
  /\ b.amount > 0
  /\ Owns(r, {b.vendor})
  /\ WellAllocated(b.alloc, b.amount, DOMAIN t.purchases)
  /\ \A x \in b.alloc : /\ t.purchases[x.doc].body.vendor = b.vendor
                        /\ t.purchases[x.doc].branch = r.branch

\* Each of these is the admission of its call without the grant.
LEMMA AdmittedStands ==
  ASSUME NEW t, NEW r
  PROVE  /\ SaleAdmitted(t, r)
              <=> Authorized(r) /\ SaleStands(r) /\ Convertible(t, r)
         /\ PurchaseAdmitted(r) <=> Authorized(r) /\ PurchaseStands(r)
         /\ ReceiptAdmitted(t, r) <=> Authorized(r) /\ ReceiptStands(t, r)
         /\ ReturnAdmitted(t, r) <=> Authorized(r) /\ ReturnStands(t, r)
         /\ VendorPaymentAdmitted(t, r)
              <=> Authorized(r) /\ VendorPaymentStands(t, r)
<1>1. SaleAdmitted(t, r) <=> Authorized(r) /\ SaleStands(r) /\ Convertible(t, r)
  BY DEF SaleAdmitted, SaleStands
<1>2. PurchaseAdmitted(r) <=> Authorized(r) /\ PurchaseStands(r)
  BY DEF PurchaseAdmitted, PurchaseStands
<1>3. ReceiptAdmitted(t, r) <=> Authorized(r) /\ ReceiptStands(t, r)
  BY DEF ReceiptAdmitted, ReceiptStands
<1>4. ReturnAdmitted(t, r) <=> Authorized(r) /\ ReturnStands(t, r)
  BY DEF ReturnAdmitted, ReturnStands, ReturnFits
<1>5. VendorPaymentAdmitted(t, r) <=> Authorized(r) /\ VendorPaymentStands(t, r)
  BY DEF VendorPaymentAdmitted, VendorPaymentStands
<1>. QED
  BY <1>1, <1>2, <1>3, <1>4, <1>5

\* Request r can be sent again: its key row is there and it still stands.  The
\* cost floor of a copilot sale is not part of it: a purchase may raise it.
Repeatable(t, r) ==
  \/ r.op = "sale" /\ SaleStands(r) /\ Original(t, r) # {}
  \/ r.op = "purchase" /\ PurchaseStands(r) /\ Original(t, r) # {}
  \/ r.op = "receipt" /\ ReceiptStands(t, r) /\ Original(t, r) # {}
  \/ r.op = "return" /\ ReturnStands(t, r) /\ Original(t, r) # {}
  \/ r.op = "vendorPayment" /\ VendorPaymentStands(t, r) /\ Original(t, r) # {}
  \/ /\ r.op = "copilotSale"
     /\ SaleStands(SaleCall(r))
     /\ \E k \in Original(t, SaleCall(r)) :
          r.body.paid > 0 => /\ ReceiptStands(t, ReceiptCall(r, k.doc))
                             /\ Original(t, ReceiptCall(r, k.doc)) # {}

\* What a call stands on is kept while the tables grow.
LEMMA StandsKept ==
  ASSUME NEW t, NEW u, Grows(t, u), NEW r
  PROVE  /\ ReceiptStands(t, r) => ReceiptStands(u, r)
         /\ ReturnStands(t, r) => ReturnStands(u, r)
         /\ VendorPaymentStands(t, r) => VendorPaymentStands(u, r)
<1>1. \A d \in DOMAIN t.invoices : /\ d \in DOMAIN u.invoices
                                   /\ u.invoices[d].branch = t.invoices[d].branch
                                   /\ u.invoices[d].body = t.invoices[d].body
  <2>1. /\ "sale" \in Op /\ DocumentsIn(t, "sale") = t.invoices
        /\ DocumentsIn(u, "sale") = u.invoices
    BY DEF Op, DocumentsIn
  <2>. QED
    BY <2>1 DEF Grows
<1>2. \A d \in DOMAIN t.purchases :
        /\ d \in DOMAIN u.purchases
        /\ u.purchases[d].branch = t.purchases[d].branch
        /\ u.purchases[d].body = t.purchases[d].body
  <2>1. /\ "purchase" \in Op /\ DocumentsIn(t, "purchase") = t.purchases
        /\ DocumentsIn(u, "purchase") = u.purchases
    BY DEF Op, DocumentsIn
  <2>. QED
    BY <2>1 DEF Grows
<1>3. ASSUME ReceiptStands(t, r) PROVE ReceiptStands(u, r)
  <2>1. WellAllocated(r.body.alloc, r.body.amount, DOMAIN u.invoices)
    BY <1>1, <1>3 DEF ReceiptStands, WellAllocated
  <2>2. \A x \in r.body.alloc : x.doc \in DOMAIN t.invoices
    BY <1>3 DEF ReceiptStands, WellAllocated
  <2>3. OwnInvoices(u, r)
    BY <1>1, <1>3, <2>2 DEF ReceiptStands, OwnInvoices
  <2>. QED
    BY <1>3, <2>1, <2>3 DEF ReceiptStands
<1>4. ASSUME ReturnStands(t, r) PROVE ReturnStands(u, r)
  <2>. DEFINE d == r.body.invoice
  <2>1. /\ d \in DOMAIN u.invoices
        /\ u.invoices[d].branch = t.invoices[d].branch
        /\ u.invoices[d].body = t.invoices[d].body
    BY <1>1, <1>4 DEF ReturnStands
  <2>. QED
    BY <1>4, <2>1 DEF ReturnStands
<1>5. ASSUME VendorPaymentStands(t, r) PROVE VendorPaymentStands(u, r)
  <2>1. WellAllocated(r.body.alloc, r.body.amount, DOMAIN u.purchases)
    BY <1>2, <1>5 DEF VendorPaymentStands, WellAllocated
  <2>2. \A x \in r.body.alloc : x.doc \in DOMAIN t.purchases
    BY <1>5 DEF VendorPaymentStands, WellAllocated
  <2>. QED
    BY <1>2, <1>5, <2>1, <2>2 DEF VendorPaymentStands
<1>. QED
  BY <1>3, <1>4, <1>5

\* So a request that can be sent again can always be.
LEMMA RepeatableKept ==
  ASSUME NEW t, NEW u, Grows(t, u), NEW r, Repeatable(t, r)
  PROVE  Repeatable(u, r)
<1>1. \A c : Original(t, c) \subseteq Original(u, c)
  BY OriginalKept
<1>2. CASE r.op = "sale" /\ SaleStands(r) /\ Original(t, r) # {}
  BY <1>1, <1>2 DEF Repeatable
<1>3. CASE r.op = "purchase" /\ PurchaseStands(r) /\ Original(t, r) # {}
  BY <1>1, <1>3 DEF Repeatable
<1>4. CASE r.op = "receipt" /\ ReceiptStands(t, r) /\ Original(t, r) # {}
  BY <1>1, <1>4, StandsKept DEF Repeatable
<1>5. CASE r.op = "return" /\ ReturnStands(t, r) /\ Original(t, r) # {}
  BY <1>1, <1>5, StandsKept DEF Repeatable
<1>6. CASE /\ r.op = "vendorPayment"
           /\ VendorPaymentStands(t, r)
           /\ Original(t, r) # {}
  BY <1>1, <1>6, StandsKept DEF Repeatable
<1>7. CASE r.op = "copilotSale"
  <2>1. PICK k \in Original(t, SaleCall(r)) :
          r.body.paid > 0 => /\ ReceiptStands(t, ReceiptCall(r, k.doc))
                             /\ Original(t, ReceiptCall(r, k.doc)) # {}
    BY <1>7 DEF Repeatable
  <2>2. r.body.paid > 0 => /\ ReceiptStands(u, ReceiptCall(r, k.doc))
                           /\ Original(u, ReceiptCall(r, k.doc)) # {}
    BY <1>1, <2>1, StandsKept
  <2>3. k \in Original(u, SaleCall(r))
    BY <1>1
  <2>. QED
    BY <1>7, <2>2, <2>3 DEF Repeatable
<1>. QED
  BY <1>2, <1>3, <1>4, <1>5, <1>6, <1>7 DEF Repeatable

\* A repeated call was repeatable.
LEMMA ReplayRepeatable ==
  ASSUME NEW t, NEW r, NEW k \in Replays(t, r) PROVE Repeatable(t, r)
<1>1. CASE r.op = "copilotSale"
  <2>1. SaleAdmitted(t, SaleCall(r)) /\ k \in CopilotSaleOriginal(t, r)
    BY <1>1 DEF Replays
  <2>2. /\ k \in Original(t, SaleCall(r))
        /\ r.body.paid > 0 => /\ ReceiptAdmitted(t, ReceiptCall(r, k.doc))
                              /\ Original(t, ReceiptCall(r, k.doc)) # {}
    BY <2>1 DEF CopilotSaleOriginal
  <2>3. /\ SaleStands(SaleCall(r))
        /\ r.body.paid > 0 => ReceiptStands(t, ReceiptCall(r, k.doc))
    BY <2>1, <2>2, AdmittedStands
  <2>. QED
    BY <1>1, <2>1, <2>2, <2>3 DEF Repeatable
<1>2. CASE r.op # "copilotSale"
  <2>1. /\ k \in Original(t, r)
        /\ \/ r.op = "sale" /\ SaleAdmitted(t, r)
           \/ r.op = "purchase" /\ PurchaseAdmitted(r)
           \/ r.op = "receipt" /\ ReceiptAdmitted(t, r)
           \/ r.op = "return" /\ ReturnAdmitted(t, r)
           \/ r.op = "vendorPayment" /\ VendorPaymentAdmitted(t, r)
    BY <1>2 DEF Replays
  <2>2. \/ r.op = "sale" /\ SaleStands(r)
        \/ r.op = "purchase" /\ PurchaseStands(r)
        \/ r.op = "receipt" /\ ReceiptStands(t, r)
        \/ r.op = "return" /\ ReturnStands(t, r)
        \/ r.op = "vendorPayment" /\ VendorPaymentStands(t, r)
    BY <2>1, AdmittedStands
  <2>. QED
    BY <2>1, <2>2 DEF Repeatable
<1>. QED
  BY <1>1, <1>2

\* And it is repeated whenever its sender may: an estimate and the cost floor of a
\* copilot sale apart.
LEMMA RepeatableReplays ==
  ASSUME NEW t, NEW r \in Request, Repeatable(t, r), Authorized(Inner(r)),
         Inner(r).op = "sale" => Convertible(t, Inner(r)),
         r.op = "copilotSale" =>
           /\ <<r.actor, "payments.create", r.branch>> \in grants
           /\ AboveFloor(t, r)
  PROVE  Replays(t, r) # {}
<1>1. CASE r.op = "copilotSale"
  <2>0. Inner(r) = SaleCall(r) /\ SaleCall(r).op = "sale"
    BY <1>1, RequestAssumption DEF Inner, SaleCall, Request, Call
  <2>1. PICK k \in Original(t, SaleCall(r)) :
          r.body.paid > 0 => /\ ReceiptStands(t, ReceiptCall(r, k.doc))
                             /\ Original(t, ReceiptCall(r, k.doc)) # {}
    BY <1>1 DEF Repeatable
  <2>2. Authorized(ReceiptCall(r, k.doc))
    BY <1>1 DEF Authorized, ReceiptCall, Permission
  <2>3. k \in CopilotSaleOriginal(t, r)
    BY <2>1, <2>2, AdmittedStands DEF CopilotSaleOriginal
  <2>4. AboveFloor(t, r) /\ SaleAdmitted(t, SaleCall(r))
    BY <1>1, <2>0, AdmittedStands DEF Repeatable
  <2>5. k \in t.keys
    BY <2>1 DEF Original
  <2>. QED
    BY <1>1, <2>3, <2>4, <2>5 DEF Replays
<1>2. CASE r.op # "copilotSale"
  <2>1. Inner(r) = r /\ Original(t, r) # {}
    BY <1>2 DEF Inner, Repeatable
  <2>2. PICK k \in Original(t, r) : TRUE
    BY <2>1
  <2>3. \/ r.op = "sale" /\ SaleStands(r)
        \/ r.op = "purchase" /\ PurchaseStands(r)
        \/ r.op = "receipt" /\ ReceiptStands(t, r)
        \/ r.op = "return" /\ ReturnStands(t, r)
        \/ r.op = "vendorPayment" /\ VendorPaymentStands(t, r)
    BY <1>2 DEF Repeatable
  <2>4. \/ r.op = "sale" /\ SaleAdmitted(t, r)
        \/ r.op = "purchase" /\ PurchaseAdmitted(r)
        \/ r.op = "receipt" /\ ReceiptAdmitted(t, r)
        \/ r.op = "return" /\ ReturnAdmitted(t, r)
        \/ r.op = "vendorPayment" /\ VendorPaymentAdmitted(t, r)
    BY <2>1, <2>3, AdmittedStands
  <2>5. k \in Replays(t, r)
    <3>1. k \in t.keys
      BY <2>2 DEF Original
    <3>. QED
      BY <2>2, <2>4, <3>1 DEF Replays
  <2>. QED
    BY <2>5
<1>. QED
  BY <1>1, <1>2

\* What a call adds when it posts: the tables grow and its request can be
\* sent again.
LEMMA PostRepeatable ==
  ASSUME IInv, OnceInv, NEW r \in Request,
         \/ r \in SaleRequest /\ PostSale(r)
         \/ r \in PurchaseRequest /\ PostPurchase(r)
         \/ r \in ReceiptRequest /\ PostReceipt(r)
         \/ r \in ReturnRequest /\ PostReturn(r)
         \/ r \in VendorPaymentRequest /\ PostVendorPayment(r)
         \/ r \in CopilotSaleRequest /\ PostCopilotSale(r)
  PROVE  /\ Grows(db, db')
         /\ Repeatable(db', r)
         /\ Fresh(db, Inner(r))
         /\ \E d \in Nat : Answer(r, Done(d))
<1>i. db \in Tables /\ SoundIn(db) /\ OnceIn(db)
  BY DEF IInv, SoundIn, OnceInv
<1>l. /\ Len(db.invoices) + 1 \in Nat /\ Len(db.purchases) + 1 \in Nat
      /\ Len(db.receipts) + 1 \in Nat /\ Len(db.creditNotes) + 1 \in Nat
      /\ Len(db.vendorPayments) + 1 \in Nat
  BY <1>i DEF Tables
<1>1. CASE r \in SaleRequest /\ PostSale(r)
  <2>1. /\ r \in Call("sale", SaleBody) /\ SalePosts(db, r)
        /\ db' = SaleAfter(db, r)
    BY <1>1, RequestAssumption DEF PostSale
  <2>2. Recorded(db, db', r, Len(db.invoices) + 1)
    BY <2>1, <1>i, SaleOnce
  <2>3. r.op = "sale" /\ Inner(r) = r
    BY <2>1 DEF Call, Inner
  <2>4. SaleStands(r) /\ Fresh(db, r)
    BY <2>1, AdmittedStands DEF SalePosts
  <2>. QED
    BY <2>2, <2>3, <2>4, <1>1, <1>l DEF Recorded, Repeatable, PostSale
<1>2. CASE r \in PurchaseRequest /\ PostPurchase(r)
  <2>1. /\ r \in Call("purchase", PurchaseBody) /\ PurchasePosts(db, r)
        /\ db' = PurchaseAfter(db, r)
    BY <1>2, RequestAssumption DEF PostPurchase
  <2>2. Recorded(db, db', r, Len(db.purchases) + 1)
    BY <2>1, <1>i, PurchaseOnce
  <2>3. r.op = "purchase" /\ Inner(r) = r
    BY <2>1 DEF Call, Inner
  <2>4. PurchaseStands(r) /\ Fresh(db, r)
    BY <2>1, AdmittedStands DEF PurchasePosts
  <2>. QED
    BY <2>2, <2>3, <2>4, <1>2, <1>l DEF Recorded, Repeatable, PostPurchase
<1>3. CASE r \in ReceiptRequest /\ PostReceipt(r)
  <2>1. /\ r \in Call("receipt", ReceiptBody) /\ ReceiptPosts(db, r)
        /\ db' = ReceiptAfter(db, r)
    BY <1>3, RequestAssumption DEF PostReceipt
  <2>2. Recorded(db, db', r, Len(db.receipts) + 1)
    BY <2>1, <1>i, ReceiptOnce
  <2>3. r.op = "receipt" /\ Inner(r) = r
    BY <2>1 DEF Call, Inner
  <2>4. ReceiptStands(db, r) /\ Fresh(db, r)
    BY <2>1, AdmittedStands DEF ReceiptPosts
  <2>5. ReceiptStands(db', r)
    BY <2>2, <2>4, StandsKept DEF Recorded
  <2>. QED
    BY <2>2, <2>3, <2>4, <2>5, <1>3, <1>l DEF Recorded, Repeatable, PostReceipt
<1>4. CASE r \in ReturnRequest /\ PostReturn(r)
  <2>1. /\ r \in Call("return", ReturnBody) /\ ReturnPosts(db, r)
        /\ db' = ReturnAfter(db, r)
    BY <1>4, RequestAssumption DEF PostReturn
  <2>2. Recorded(db, db', r, Len(db.creditNotes) + 1)
    BY <2>1, <1>i, ReturnOnce
  <2>3. r.op = "return" /\ Inner(r) = r
    BY <2>1 DEF Call, Inner
  <2>4. ReturnStands(db, r) /\ Fresh(db, r)
    BY <2>1, AdmittedStands DEF ReturnPosts
  <2>5. ReturnStands(db', r)
    BY <2>2, <2>4, StandsKept DEF Recorded
  <2>. QED
    BY <2>2, <2>3, <2>4, <2>5, <1>4, <1>l DEF Recorded, Repeatable, PostReturn
<1>5. CASE r \in VendorPaymentRequest /\ PostVendorPayment(r)
  <2>1. /\ r \in Call("vendorPayment", VendorPaymentBody)
        /\ VendorPaymentPosts(db, r)
        /\ db' = VendorPaymentAfter(db, r)
    BY <1>5, RequestAssumption DEF PostVendorPayment
  <2>2. Recorded(db, db', r, Len(db.vendorPayments) + 1)
    BY <2>1, <1>i, VendorPaymentOnce
  <2>3. r.op = "vendorPayment" /\ Inner(r) = r
    BY <2>1 DEF Call, Inner
  <2>4. VendorPaymentStands(db, r) /\ Fresh(db, r)
    BY <2>1, AdmittedStands DEF VendorPaymentPosts
  <2>5. VendorPaymentStands(db', r)
    BY <2>2, <2>4, StandsKept DEF Recorded
  <2>. QED
    BY <2>2, <2>3, <2>4, <2>5, <1>5, <1>l
       DEF Recorded, Repeatable, PostVendorPayment
<1>6. CASE r \in CopilotSaleRequest /\ PostCopilotSale(r)
  <2>. DEFINE doc == Len(db.invoices) + 1
              sold == SaleAfter(db, SaleCall(r))
              receipt == ReceiptCall(r, doc)
              key == Stamp(SaleCall(r), doc)
  <2>1. /\ r \in Call("copilotSale", SaleBody) /\ CopilotSalePosts(db, r)
        /\ db' = CopilotSaleAfter(db, r)
    BY <1>6, RequestAssumption DEF PostCopilotSale
  <2>2. /\ Recorded(db, db', SaleCall(r), doc)
        /\ r.body.paid > 0 => Original(db', receipt) # {}
    BY <2>1, <1>i, CopilotSaleOnce
  <2>3. r.op = "copilotSale" /\ Inner(r) = SaleCall(r)
    BY <2>1 DEF Call, Inner
  <2>4. SaleStands(SaleCall(r)) /\ Fresh(db, SaleCall(r))
    BY <2>1, AdmittedStands DEF CopilotSalePosts, SalePosts
  <2>5. key \in Original(db', SaleCall(r)) /\ key.doc = doc
    BY <2>2 DEF Recorded, Stamp
  <2>6. r.body.paid > 0 => ReceiptStands(db', receipt)
    <3>. SUFFICES ASSUME r.body.paid > 0 PROVE ReceiptStands(db', receipt)
      OBVIOUS
    <3>1. SaleCall(r) \in Call("sale", SaleBody) /\ SalePosts(db, SaleCall(r))
      BY <2>1 DEF SaleCall, Call, CopilotSalePosts
    <3>2. sold \in Tables /\ OnceIn(sold)
      BY <3>1, <1>i, SaleSound, SaleOnce DEF SoundIn
    <3>3. doc \in Id
      BY <1>i DEF Tables, Id
    <3>4. receipt \in Call("receipt", ReceiptBody) /\ ReceiptPosts(sold, receipt)
      BY <2>1, <3>3, ReceiptCallType DEF CopilotSalePosts
    <3>5. db' = ReceiptAfter(sold, receipt)
      BY <2>1 DEF CopilotSaleAfter
    <3>6. Grows(sold, db')
      BY <3>2, <3>4, <3>5, ReceiptOnce DEF Recorded
    <3>7. ReceiptStands(sold, receipt)
      BY <3>4, AdmittedStands DEF ReceiptPosts
    <3>. QED
      BY <3>6, <3>7, StandsKept
  <2>7. Repeatable(db', r)
    BY <2>2, <2>3, <2>4, <2>5, <2>6 DEF Repeatable
  <2>. QED
    BY <2>2, <2>3, <2>4, <2>7, <1>6, <1>l DEF Recorded, PostCopilotSale
<1>. QED
  BY <1>1, <1>2, <1>3, <1>4, <1>5, <1>6

\* Whoever was told "done" can be told again.
RepeatInv ==
  \A r \in Request : answer[r].status = "done" => Repeatable(db, r)

\* Every step is a call of some request that posts, is repeated or refused,
\* or leaves keys, documents, entries and answers as they are.
LEMMA StepOfRequest ==
  ASSUME IInv, OnceInv, [Next]_vars
  PROVE  \/ \E r \in Request : /\ Grows(db, db')
                               /\ Repeatable(db', r)
                               /\ Fresh(db, Inner(r))
                               /\ \E d \in Nat : Answer(r, Done(d))
         \/ \E r \in Request : Replay(r) \/ Refuse(r)
         \/ Grows(db, db') /\ answer' = answer
<1>i. db \in Tables
  BY DEF IInv, SoundIn
<1>0. /\ SaleRequest \subseteq Request /\ PurchaseRequest \subseteq Request
      /\ ReceiptRequest \subseteq Request /\ ReturnRequest \subseteq Request
      /\ VendorPaymentRequest \subseteq Request
      /\ CopilotSaleRequest \subseteq Request
  BY DEF Request
<1>1. ASSUME NEW r \in Request,
             \/ r \in SaleRequest /\ PostSale(r)
             \/ r \in PurchaseRequest /\ PostPurchase(r)
             \/ r \in ReceiptRequest /\ PostReceipt(r)
             \/ r \in ReturnRequest /\ PostReturn(r)
             \/ r \in VendorPaymentRequest /\ PostVendorPayment(r)
             \/ r \in CopilotSaleRequest /\ PostCopilotSale(r)
      PROVE  /\ Grows(db, db') /\ Repeatable(db', r) /\ Fresh(db, Inner(r))
             /\ \E d \in Nat : Answer(r, Done(d))
  BY <1>1, PostRepeatable
<1>2. UNCHANGED <<db, answer>> => Grows(db, db') /\ answer' = answer
  BY DEF Grows
<1>3. ASSUME NEW e \in Estimate, MarkReady(e)
      PROVE  Grows(db, db') /\ answer' = answer
  <2>1. db' = [db EXCEPT !.estimate[e] = "READY"] /\ answer' = answer
    BY <1>3 DEF MarkReady
  <2>2. /\ db'.invoices = db.invoices /\ db'.purchases = db.purchases
        /\ db'.receipts = db.receipts /\ db'.creditNotes = db.creditNotes
        /\ db'.vendorPayments = db.vendorPayments
        /\ db'.keys = db.keys /\ db'.journal = db.journal
    BY <2>1, <1>i DEF Tables
  <2>3. \A o : DocumentsIn(db', o) = DocumentsIn(db, o)
    BY <2>2 DEF DocumentsIn
  <2>. QED
    BY <2>1, <2>2, <2>3 DEF Grows
<1>4. ASSUME NEW g \in Revocable, Revoke(g) \/ Regrant(g)
      PROVE  UNCHANGED <<db, answer>>
  BY <1>4 DEF Revoke, Regrant
<1>5. CASE UNCHANGED vars
  BY <1>2, <1>5 DEF vars
<1>6. CASE Next
  BY <1>0, <1>1, <1>2, <1>3, <1>4, <1>6 DEF Next
<1>. QED
  BY <1>5, <1>6

\* An answer is that of its request alone.
LEMMA AnswerAlone ==
  ASSUME TypeOK, NEW r \in Request, NEW a, Answer(r, a)
  PROVE  answer'[r] = a /\ \A q \in Request \ {r} : answer'[q] = answer[q]
  BY DEF Answer, TypeOK

\* Every step keeps it.
LEMMA NextRepeat ==
  IInv /\ OnceInv /\ RepeatInv /\ [Next]_vars => RepeatInv'
<1>. SUFFICES ASSUME IInv, OnceInv, RepeatInv, [Next]_vars
              PROVE  \A q \in Request : answer'[q].status = "done"
                                          => Repeatable(db', q)
  BY DEF RepeatInv, Repeatable, ReceiptStands, ReturnStands,
         VendorPaymentStands, OwnInvoices, Original
<1>. SUFFICES ASSUME NEW q \in Request, answer'[q].status = "done"
              PROVE  Repeatable(db', q)
  OBVIOUS
<1>t. TypeOK
  BY DEF IInv
<1>1. ASSUME NEW r \in Request, Grows(db, db'), Repeatable(db', r),
             NEW d \in Nat, Answer(r, Done(d))
      PROVE  Repeatable(db', q)
  <2>1. CASE q = r
    BY <1>1, <2>1
  <2>2. CASE q # r
    <3>1. answer[q].status = "done"
      BY <1>1, <1>t, <2>2, AnswerAlone
    <3>. QED
      BY <1>1, <3>1, RepeatableKept DEF RepeatInv
  <2>. QED
    BY <2>1, <2>2
<1>2. ASSUME NEW r \in Request, Replay(r) PROVE Repeatable(db', q)
  <2>1. PICK k \in Replays(db, r) : Answer(r, Done(k.doc))
    BY <1>2 DEF Replay
  <2>2. db' = db
    BY <1>2 DEF Replay
  <2>3. CASE q = r
    BY <2>2, <2>3, ReplayRepeatable
  <2>4. CASE q # r
    <3>1. answer[q].status = "done"
      BY <1>t, <2>1, <2>4, AnswerAlone
    <3>. QED
      BY <2>2, <3>1 DEF RepeatInv
  <2>. QED
    BY <2>3, <2>4
<1>3. ASSUME NEW r \in Request, Refuse(r) PROVE Repeatable(db', q)
  <2>1. db' = db /\ Answer(r, Refused)
    BY <1>3 DEF Refuse
  <2>2. q # r /\ answer[q].status = "done"
    BY <1>t, <2>1, AnswerAlone DEF Refused
  <2>. QED
    BY <2>1, <2>2 DEF RepeatInv
<1>4. ASSUME Grows(db, db'), answer' = answer PROVE Repeatable(db', q)
  BY <1>4, RepeatableKept DEF RepeatInv
<1>. QED
  BY <1>1, <1>2, <1>3, <1>4, StepOfRequest

\* A call that is not the conversion of an estimate needs no estimate.
LEMMA NoConversion ==
  ASSUME NEW t, NEW r \in Request, ~FromEstimate(r),
         Inner(r).op = "sale"
  PROVE  Convertible(t, Inner(r))
<1>1. r \in SaleRequest \cup CopilotSaleRequest
  BY RequestAssumption DEF Request, Inner, Call
<1>2. Inner(r).body = r.body
  BY <1>1, RequestAssumption DEF Inner, SaleCall, Call
<1>. QED
  BY <1>1, <1>2 DEF FromEstimate, Convertible

\* A step that answers a request done before, asked by one who still may,
\* gives the answer it had.
LEMMA AnsweredTwice ==
  ASSUME IInv, OnceInv, RepeatInv, [Next]_vars, NEW q \in Request,
         answer[q].status = "done", ~FromEstimate(q), Authorized(Inner(q)),
         q \in CopilotSaleRequest =>
           /\ <<q.actor, "payments.create", q.branch>> \in grants
           /\ AboveFloor(db, q)
  PROVE  answer'[q] = answer[q]
<1>t. TypeOK /\ KeysOnce(db) /\ AnsweredIn(db, answer)
  BY DEF IInv, OnceInv, OnceIn
<1>k. PICK l \in db.keys : Tells(l, q) /\ l.doc = answer[q].doc
  BY <1>t DEF AnsweredIn, Tells
<1>a. answer[q] = Done(answer[q].doc)
  BY <1>t DEF TypeOK, Done
<1>1. ASSUME NEW r \in Request, Fresh(db, Inner(r)), NEW d \in Nat,
             Answer(r, Done(d))
      PROVE  answer'[q] = answer[q]
  <2>1. q # r
    BY <1>1, <1>k DEF Fresh, Tells
  <2>. QED
    BY <1>1, <1>t, <2>1, AnswerAlone
<1>2. ASSUME NEW r \in Request, Replay(r) PROVE answer'[q] = answer[q]
  <2>1. PICK k \in Replays(db, r) : Answer(r, Done(k.doc))
    BY <1>2 DEF Replay
  <2>2. CASE q # r
    BY <1>t, <2>1, <2>2, AnswerAlone
  <2>3. CASE q = r
    <3>1. k \in db.keys /\ Tells(k, q)
      BY <2>3, ReplayTells
    <3>2. SameScope(k, l)
      BY <1>k, <3>1 DEF Tells, SameScope
    <3>3. k = l
      BY <1>k, <1>t, <3>1, <3>2 DEF KeysOnce
    <3>4. answer'[q] = Done(k.doc)
      BY <1>t, <2>1, <2>3, AnswerAlone
    <3>. QED
      BY <1>a, <1>k, <3>3, <3>4
  <2>. QED
    BY <2>2, <2>3
<1>3. ASSUME NEW r \in Request, Refuse(r) PROVE answer'[q] = answer[q]
  <2>1. Answer(r, Refused) /\ Replays(db, r) = {}
    BY <1>3 DEF Refuse
  <2>2. q # r
    <3>. SUFFICES ASSUME q = r PROVE FALSE
      OBVIOUS
    <3>1. Repeatable(db, q)
      BY DEF RepeatInv
    <3>2. Inner(q).op = "sale" => Convertible(db, Inner(q))
      BY NoConversion
    <3>3. q.op = "copilotSale" => q \in CopilotSaleRequest
      BY RequestAssumption DEF Request, Call
    <3>4. Replays(db, q) # {}
      BY <3>1, <3>2, <3>3, RepeatableReplays
    <3>. QED
      BY <2>1, <3>4
  <2>. QED
    BY <1>t, <2>1, <2>2, AnswerAlone
<1>. QED
  BY <1>1, <1>2, <1>3, StepOfRequest

\* A request that was answered "done" and is sent again is answered the same,
\* for as long as its sender may make it, whatever was collected, returned, revoked
\* and granted in between, and whatever was posted: conversions of an estimate
\* apart, and sales of the copilot that are by now below the cost floor.  Of those
\* the code keeps no such promise: commit_copilot_sale works the floor out before
\* its key row is looked up, and refuses what it posted.
THEOREM RepeatsGiveFirstAnswer == Spec => ReplayReturnsOriginal
<1>1. Init => RepeatInv
  BY DEF Init, RepeatInv, None
<1>2. IInv /\ OnceInv /\ RepeatInv /\ [Next]_vars
        => [\A r \in Request :
              /\ answer[r].status = "done"
              /\ ~FromEstimate(r)
              /\ Authorized(Inner(r))
              /\ r \in CopilotSaleRequest =>
                   /\ <<r.actor, "payments.create", r.branch>> \in grants
                   /\ AboveFloor(db, r)
              => answer'[r] = answer[r]]_vars
  BY AnsweredTwice
<1>. QED
  BY <1>1, <1>2, InitOnce, NextOnce, NextRepeat, SpecSound, PTL
     DEF Spec, ReplayReturnsOriginal

-----------------------------------------------------------------------------
(* Who posted what *)

\* What a call adds to the journal says whose call it was.
PostedBy(t, u, r) ==
  \A e \in u.journal \ t.journal :
    /\ e.stamp.op = r.op
    /\ e.stamp.actor = r.actor
    /\ e.stamp.branch = r.branch

\* Each function posts for its caller.
LEMMA SalePostedBy ==
  ASSUME NEW t \in Tables, NEW r PROVE PostedBy(t, SaleAfter(t, r), r)
BY DEF PostedBy, SaleAfter, SaleEntry, Entry, Stamp, Tables
LEMMA PurchasePostedBy ==
  ASSUME NEW t \in Tables, NEW r PROVE PostedBy(t, PurchaseAfter(t, r), r)
BY DEF PostedBy, PurchaseAfter, Entry, Stamp, Tables
LEMMA ReceiptPostedBy ==
  ASSUME NEW t \in Tables, NEW r PROVE PostedBy(t, ReceiptAfter(t, r), r)
BY DEF PostedBy, ReceiptAfter, Entry, Stamp, Tables
LEMMA ReturnPostedBy ==
  ASSUME NEW t \in Tables, NEW r PROVE PostedBy(t, ReturnAfter(t, r), r)
BY DEF PostedBy, ReturnAfter, Entry, Stamp, Tables
LEMMA VendorPaymentPostedBy ==
  ASSUME NEW t \in Tables, NEW r PROVE PostedBy(t, VendorPaymentAfter(t, r), r)
BY DEF PostedBy, VendorPaymentAfter, Entry, Stamp, Tables

\* What is new in the journal has its grant.
Granted(t, u) ==
  \A e \in u.journal \ t.journal :
    <<e.stamp.actor, Permission[e.stamp.op], e.stamp.branch>> \in grants
LEMMA AuthorizedGrants ==
  ASSUME NEW t, NEW u, NEW r, PostedBy(t, u, r), Authorized(r)
  PROVE  Granted(t, u)
BY DEF PostedBy, Authorized, Granted

\* A copilot sale asks for the grant of the sale and for that of the receipt.
LEMMA CopilotSaleGranted ==
  ASSUME NEW t, SoundIn(t), NEW r \in Call("copilotSale", SaleBody),
         CopilotSalePosts(t, r)
  PROVE  Granted(t, CopilotSaleAfter(t, r))
<1>. DEFINE doc == Len(t.invoices) + 1
            sold == SaleAfter(t, SaleCall(r))
            receipt == ReceiptCall(r, doc)
<1>1. SaleCall(r) \in Call("sale", SaleBody)
  BY DEF SaleCall, Call
<1>2. sold \in Tables
  BY <1>1, SaleSound DEF CopilotSalePosts, SoundIn
<1>3. Granted(t, sold)
  <2>1. Authorized(SaleCall(r))
    BY DEF CopilotSalePosts, SalePosts, SaleAdmitted
  <2>. QED
    BY <2>1, SalePostedBy, AuthorizedGrants DEF SoundIn
<1>4. CASE r.body.paid > 0
  <2>1. Authorized(receipt)
    BY <1>4 DEF CopilotSalePosts, ReceiptPosts, ReceiptAdmitted
  <2>2. Granted(sold, ReceiptAfter(sold, receipt))
    BY <1>2, <2>1, ReceiptPostedBy, AuthorizedGrants
  <2>. QED
    BY <1>3, <1>4, <2>2 DEF Granted, CopilotSaleAfter
<1>5. CASE ~(r.body.paid > 0)
  BY <1>3, <1>5 DEF CopilotSaleAfter
<1>. QED
  BY <1>4, <1>5

\* Every step that adds to the journal holds the grants for what it adds.
LEMMA NextGranted == IInv /\ [Next]_vars => Granted(db, db')
<1>. SUFFICES ASSUME IInv, [Next]_vars PROVE Granted(db, db')
  OBVIOUS
<1>i. db \in Tables /\ SoundIn(db)
  BY DEF IInv, SoundIn
<1>1. ASSUME NEW r \in SaleRequest, PostSale(r) PROVE Granted(db, db')
  BY <1>1, <1>i, SalePostedBy, AuthorizedGrants
     DEF PostSale, SalePosts, SaleAdmitted
<1>2. ASSUME NEW r \in PurchaseRequest, PostPurchase(r) PROVE Granted(db, db')
  BY <1>2, <1>i, PurchasePostedBy, AuthorizedGrants
     DEF PostPurchase, PurchasePosts, PurchaseAdmitted
<1>3. ASSUME NEW r \in ReceiptRequest, PostReceipt(r) PROVE Granted(db, db')
  BY <1>3, <1>i, ReceiptPostedBy, AuthorizedGrants
     DEF PostReceipt, ReceiptPosts, ReceiptAdmitted
<1>4. ASSUME NEW r \in ReturnRequest, PostReturn(r) PROVE Granted(db, db')
  BY <1>4, <1>i, ReturnPostedBy, AuthorizedGrants
     DEF PostReturn, ReturnPosts, ReturnAdmitted
<1>5. ASSUME NEW r \in VendorPaymentRequest, PostVendorPayment(r)
      PROVE  Granted(db, db')
  BY <1>5, <1>i, VendorPaymentPostedBy, AuthorizedGrants
     DEF PostVendorPayment, VendorPaymentPosts, VendorPaymentAdmitted
<1>6. ASSUME NEW r \in CopilotSaleRequest, PostCopilotSale(r)
      PROVE  Granted(db, db')
  BY <1>6, <1>i, CopilotSaleGranted, RequestAssumption DEF PostCopilotSale
<1>7. ASSUME db'.journal = db.journal PROVE Granted(db, db')
  BY <1>7 DEF Granted
<1>8. ASSUME NEW e \in Estimate, MarkReady(e) PROVE db'.journal = db.journal
  BY <1>8, <1>i DEF MarkReady, Tables
<1>. QED
  BY <1>1, <1>2, <1>3, <1>4, <1>5, <1>6, <1>7, <1>8
     DEF Next, Replay, Refuse, Revoke, Regrant, vars

\* Nothing is posted without a grant its actor holds at that moment, by any of
\* the functions, nor by the receipt inside a copilot sale.
THEOREM PostingAuthorized == Spec => OnlyAuthorized
<1>1. IInv /\ [Next]_vars
        => [\A e \in db'.journal \ db.journal :
              <<e.stamp.actor, Permission[e.stamp.op], e.stamp.branch>> \in grants]_vars
  BY NextGranted DEF Granted
<1>. QED
  BY <1>1, SpecSound, PTL DEF Spec, OnlyAuthorized

-----------------------------------------------------------------------------
(* Whose documents, goods and parties meet *)

GoodsOwn(moves) ==
  \A m \in moves : /\ Owner[m.cell[1]] = BranchOrg[m.branch]
                   /\ Owner[m.cell[2]] = BranchOrg[m.branch]
PartiesOwn(rows) == \A s \in rows : Owner[s.party] = BranchOrg[s.branch]
\* Payments are on documents there are, of their own branch.
PaysOwn(payments, docs) ==
  \A i \in DOMAIN payments : \A x \in payments[i].body.alloc :
    x.doc \in DOMAIN docs /\ docs[x.doc].branch = payments[i].branch
ReturnsOwn(notes, docs) ==
  \A i \in DOMAIN notes :
    /\ notes[i].body.invoice \in DOMAIN docs
    /\ docs[notes[i].body.invoice].branch = notes[i].branch

\* TenantIsolation of any tables, and inductive: a payment or return of a
\* document that is not there could meet a stranger's when it is posted.
IsolatedIn(t) ==
  /\ GoodsOwn(t.moves)
  /\ PartiesOwn(t.subledger)
  /\ PaysOwn(t.receipts, t.invoices)
  /\ PaysOwn(t.vendorPayments, t.purchases)
  /\ ReturnsOwn(t.creditNotes, t.invoices)

\* Documents stay, with the branch they were posted in.
BranchesKept(docs, later) ==
  \A i \in DOMAIN docs : i \in DOMAIN later /\ later[i].branch = docs[i].branch

LEMMA AppendKept ==
  ASSUME NEW S, NEW docs \in Seq(S), NEW new
  PROVE  BranchesKept(docs, Append(docs, new))
BY DEF BranchesKept

\* Payments and returns stay on their own branch's documents.
LEMMA OwnKept ==
  ASSUME NEW docs, NEW later, BranchesKept(docs, later), NEW links
  PROVE  /\ PaysOwn(links, docs) => PaysOwn(links, later)
         /\ ReturnsOwn(links, docs) => ReturnsOwn(links, later)
BY DEF BranchesKept, PaysOwn, ReturnsOwn

\* So does one more of them.
LEMMA PaysAppended ==
  ASSUME NEW S, NEW payments \in Seq(S), NEW docs, PaysOwn(payments, docs),
         NEW new \in S,
         \A x \in new.body.alloc :
           x.doc \in DOMAIN docs /\ docs[x.doc].branch = new.branch
  PROVE  PaysOwn(Append(payments, new), docs)
BY DEF PaysOwn
LEMMA ReturnsAppended ==
  ASSUME NEW S, NEW notes \in Seq(S), NEW docs, ReturnsOwn(notes, docs),
         NEW new \in S, new.body.invoice \in DOMAIN docs,
         docs[new.body.invoice].branch = new.branch
  PROVE  ReturnsOwn(Append(notes, new), docs)
BY DEF ReturnsOwn

\* The goods of a document whose products and warehouses are its branch's.
LEMMA MovementsOwn ==
  ASSUME NEW r, NEW doc, NEW product, NEW warehouse, NEW qty, NEW sign,
         \A l \in Present(qty) : /\ Owner[product[l]] = BranchOrg[r.branch]
                                 /\ Owner[warehouse[l]] = BranchOrg[r.branch]
  PROVE  GoodsOwn(Movements(r, doc, product, warehouse, qty, sign))
BY DEF GoodsOwn, Movements

\* The party of a document, once checked to be of its organization.
LEMMA PartyOwn ==
  ASSUME NEW r, NEW doc, NEW party, NEW debit, NEW credit,
         Owner[party] = BranchOrg[r.branch]
  PROVE  PartiesOwn({SubEntry(r, doc, party, debit, credit)})
BY DEF PartiesOwn, SubEntry

\* A sale takes its goods and its customer from its own organization.
LEMMA SaleIsolated ==
  ASSUME NEW t \in Tables, IsolatedIn(t), NEW r \in Call("sale", SaleBody),
         SalePosts(t, r)
  PROVE  IsolatedIn(SaleAfter(t, r))
<1>. DEFINE b == r.body
            doc == Len(t.invoices) + 1
            moved == Movements(r, doc, b.product, Here(b), b.qty, -1)
            row == SubEntry(r, doc, b.customer, Billed(b), 0)
            u == SaleAfter(t, r)
<1>1. /\ u.moves = t.moves \cup moved
      /\ u.subledger = t.subledger \cup {row}
      /\ u.receipts = t.receipts /\ u.creditNotes = t.creditNotes
      /\ u.vendorPayments = t.vendorPayments /\ u.purchases = t.purchases
  BY DEF SaleAfter, Tables
<1>2. BranchesKept(t.invoices, u.invoices)
  <2>1. t.invoices \in Seq(Invoice)
    BY DEF Tables
  <2>2. \E new : u.invoices = Append(t.invoices, new)
    BY DEF SaleAfter, Tables
  <2>. QED
    BY <2>1, <2>2, AppendKept
<1>3. GoodsOwn(moved)
  <2>1. \A l \in Present(b.qty) :
          /\ Owner[b.product[l]] = BranchOrg[r.branch]
          /\ Owner[Here(b)[l]] = BranchOrg[r.branch]
    BY DEF SalePosts, SaleAdmitted, Owns, Here, Present
  <2>. QED
    BY <2>1, MovementsOwn
<1>4. PartiesOwn({row})
  BY PartyOwn DEF SalePosts, SaleAdmitted, Owns
<1>5. GoodsOwn(u.moves) /\ PartiesOwn(u.subledger)
  BY <1>1, <1>3, <1>4 DEF IsolatedIn, GoodsOwn, PartiesOwn
<1>. QED
  BY <1>1, <1>2, <1>5, OwnKept DEF IsolatedIn

\* So does a purchase.
LEMMA PurchaseIsolated ==
  ASSUME NEW t \in Tables, IsolatedIn(t),
         NEW r \in Call("purchase", PurchaseBody), PurchasePosts(t, r)
  PROVE  IsolatedIn(PurchaseAfter(t, r))
<1>. DEFINE b == r.body
            doc == Len(t.purchases) + 1
            moved == Movements(r, doc, b.product, Here(b), b.qty, 1)
            row == SubEntry(r, doc, b.vendor, 0, PurchaseTotal(b))
            u == PurchaseAfter(t, r)
<1>1. /\ u.moves = t.moves \cup moved
      /\ u.subledger = t.subledger \cup {row}
      /\ u.receipts = t.receipts /\ u.creditNotes = t.creditNotes
      /\ u.vendorPayments = t.vendorPayments /\ u.invoices = t.invoices
  BY DEF PurchaseAfter, Tables
<1>2. BranchesKept(t.purchases, u.purchases)
  <2>1. t.purchases \in Seq(Purchase)
    BY DEF Tables
  <2>2. \E new : u.purchases = Append(t.purchases, new)
    BY DEF PurchaseAfter, Tables
  <2>. QED
    BY <2>1, <2>2, AppendKept
<1>3. GoodsOwn(moved)
  <2>1. \A l \in Present(b.qty) :
          /\ Owner[b.product[l]] = BranchOrg[r.branch]
          /\ Owner[Here(b)[l]] = BranchOrg[r.branch]
    BY DEF PurchasePosts, PurchaseAdmitted, Owns, Here, Present
  <2>. QED
    BY <2>1, MovementsOwn
<1>4. PartiesOwn({row})
  BY PartyOwn DEF PurchasePosts, PurchaseAdmitted, Owns
<1>5. GoodsOwn(u.moves) /\ PartiesOwn(u.subledger)
  BY <1>1, <1>3, <1>4 DEF IsolatedIn, GoodsOwn, PartiesOwn
<1>. QED
  BY <1>1, <1>2, <1>5, OwnKept DEF IsolatedIn

\* A receipt is on invoices of its own branch, and leaves them there.
LEMMA ReceiptIsolated ==
  ASSUME NEW t \in Tables, IsolatedIn(t),
         NEW r \in Call("receipt", ReceiptBody), ReceiptPosts(t, r)
  PROVE  IsolatedIn(ReceiptAfter(t, r))
<1>. DEFINE b == r.body
            doc == Len(t.receipts) + 1
            new == [branch |-> r.branch, body |-> b]
            row == SubEntry(r, doc, b.customer, 0, b.amount)
            u == ReceiptAfter(t, r)
<1>1. /\ u.moves = t.moves
      /\ u.subledger = t.subledger \cup {row}
      /\ u.receipts = Append(t.receipts, new) /\ u.creditNotes = t.creditNotes
      /\ u.vendorPayments = t.vendorPayments /\ u.purchases = t.purchases
      /\ u.invoices = [i \in DOMAIN t.invoices |->
                         IF \E x \in b.alloc : x.doc = i
                           THEN Settled(t.invoices[i], AllocatedTo(b.alloc, i))
                           ELSE t.invoices[i]]
  BY DEF ReceiptAfter, Tables
<1>2. BranchesKept(t.invoices, u.invoices)
  <2>1. \A i \in DOMAIN t.invoices : t.invoices[i] \in Invoice
    BY DEF Tables
  <2>2. \A i \in DOMAIN t.invoices :
          Settled(t.invoices[i], AllocatedTo(b.alloc, i)).branch
            = t.invoices[i].branch
    BY <2>1 DEF Settled, Invoice
  <2>3. \A i \in DOMAIN t.invoices :
          u.invoices[i].branch = t.invoices[i].branch
    BY <1>1, <2>2
  <2>4. DOMAIN u.invoices = DOMAIN t.invoices
    BY <1>1
  <2>. QED
    BY <2>3, <2>4 DEF BranchesKept
<1>3. PartiesOwn({row})
  BY PartyOwn DEF ReceiptPosts, ReceiptAdmitted, Owns
<1>4. PaysOwn(u.receipts, t.invoices)
  <2>. DEFINE Row == [branch : Branch, body : ReceiptBody]
  <2>1. t.receipts \in Seq(Row)
    BY DEF Tables
  <2>2. new \in Row
    BY DEF Call
  <2>3. \A x \in new.body.alloc :
          x.doc \in DOMAIN t.invoices /\ t.invoices[x.doc].branch = new.branch
    BY DEF ReceiptPosts, ReceiptAdmitted, WellAllocated, OwnInvoices
  <2>4. PaysOwn(t.receipts, t.invoices)
    BY DEF IsolatedIn
  <2>5. PaysOwn(Append(t.receipts, new), t.invoices)
    <3>. HIDE DEF new, Row
    <3>. QED
      BY <2>1, <2>2, <2>3, <2>4, PaysAppended
  <2>. QED
    BY <1>1, <2>5
<1>5. PartiesOwn(u.subledger)
  BY <1>1, <1>3 DEF IsolatedIn, PartiesOwn
<1>. QED
  BY <1>1, <1>2, <1>4, <1>5, OwnKept DEF IsolatedIn

\* A return is of an invoice of its own branch; the goods go back to a
\* warehouse of its own organization.
LEMMA ReturnIsolated ==
  ASSUME NEW t \in Tables, IsolatedIn(t),
         NEW r \in Call("return", ReturnBody), ReturnPosts(t, r)
  PROVE  IsolatedIn(ReturnAfter(t, r))
<1>. DEFINE b == r.body
            i == t.invoices[b.invoice]
            doc == Len(t.creditNotes) + 1
            new == [branch |-> r.branch, body |-> b]
            moved == Movements(r, doc, i.body.product, b.warehouse, b.items, 1)
            row == SubEntry(r, doc, b.customer, 0, CreditValue(i, b))
            u == ReturnAfter(t, r)
<1>1. /\ u.moves = t.moves \cup moved
      /\ u.subledger = t.subledger \cup {row}
      /\ u.receipts = t.receipts /\ u.creditNotes = Append(t.creditNotes, new)
      /\ u.vendorPayments = t.vendorPayments /\ u.purchases = t.purchases
      /\ u.invoices = [t.invoices EXCEPT ![b.invoice] = Credited(i, b)]
  BY DEF ReturnAfter, Tables
<1>2. b.invoice \in DOMAIN t.invoices /\ i.branch = r.branch
  BY DEF ReturnPosts, ReturnAdmitted
<1>3. BranchesKept(t.invoices, u.invoices)
  <2>1. i \in Invoice
    BY <1>2 DEF Tables
  <2>2. Credited(i, b).branch = i.branch
    BY <2>1 DEF Credited, Invoice
  <2>. QED
    BY <1>1, <2>2 DEF BranchesKept
<1>4. GoodsOwn(moved)
  <2>1. \A l \in Present(b.items) :
          /\ Owner[i.body.product[l]] = BranchOrg[r.branch]
          /\ Owner[b.warehouse[l]] = BranchOrg[r.branch]
    BY DEF ReturnPosts, ReturnAdmitted, Owns
  <2>. QED
    BY <2>1, MovementsOwn
<1>5. PartiesOwn({row})
  BY PartyOwn DEF ReturnPosts, ReturnAdmitted, Owns
<1>6. ReturnsOwn(u.creditNotes, t.invoices)
  <2>1. t.creditNotes \in Seq([branch : Branch, body : ReturnBody])
    BY DEF Tables
  <2>2. new \in [branch : Branch, body : ReturnBody]
    BY DEF Call
  <2>3. ReturnsOwn(t.creditNotes, t.invoices)
    BY DEF IsolatedIn
  <2>4. /\ new.body.invoice \in DOMAIN t.invoices
        /\ t.invoices[new.body.invoice].branch = new.branch
    BY <1>2
  <2>5. ReturnsOwn(Append(t.creditNotes, new), t.invoices)
    <3>. HIDE DEF new
    <3>. QED
      BY <2>1, <2>2, <2>3, <2>4, ReturnsAppended
  <2>. QED
    BY <1>1, <2>5
<1>7. GoodsOwn(u.moves) /\ PartiesOwn(u.subledger)
  BY <1>1, <1>4, <1>5 DEF IsolatedIn, GoodsOwn, PartiesOwn
<1>. QED
  BY <1>1, <1>3, <1>6, <1>7, OwnKept DEF IsolatedIn

\* A vendor payment is on purchases of its own branch.
LEMMA VendorPaymentIsolated ==
  ASSUME NEW t \in Tables, IsolatedIn(t),
         NEW r \in Call("vendorPayment", VendorPaymentBody),
         VendorPaymentPosts(t, r)
  PROVE  IsolatedIn(VendorPaymentAfter(t, r))
<1>. DEFINE b == r.body
            doc == Len(t.vendorPayments) + 1
            new == [branch |-> r.branch, body |-> b]
            row == SubEntry(r, doc, b.vendor, b.amount, 0)
            u == VendorPaymentAfter(t, r)
<1>1. /\ u.moves = t.moves
      /\ u.subledger = t.subledger \cup {row}
      /\ u.receipts = t.receipts /\ u.creditNotes = t.creditNotes
      /\ u.vendorPayments = Append(t.vendorPayments, new)
      /\ u.invoices = t.invoices
      /\ u.purchases = [p \in DOMAIN t.purchases |->
                          Paying(t.purchases[p], AllocatedTo(b.alloc, p))]
  BY DEF VendorPaymentAfter, Tables
<1>2. BranchesKept(t.purchases, u.purchases)
  <2>1. \A p \in DOMAIN t.purchases : t.purchases[p] \in Purchase
    BY DEF Tables
  <2>2. \A p \in DOMAIN t.purchases :
          Paying(t.purchases[p], AllocatedTo(b.alloc, p)).branch
            = t.purchases[p].branch
    BY <2>1 DEF Paying, Purchase
  <2>3. \A p \in DOMAIN t.purchases :
          u.purchases[p].branch = t.purchases[p].branch
    BY <1>1, <2>2
  <2>4. DOMAIN u.purchases = DOMAIN t.purchases
    BY <1>1
  <2>. QED
    BY <2>3, <2>4 DEF BranchesKept
<1>3. PartiesOwn({row})
  BY PartyOwn DEF VendorPaymentPosts, VendorPaymentAdmitted, Owns
<1>4. PaysOwn(u.vendorPayments, t.purchases)
  <2>. DEFINE Row == [branch : Branch, body : VendorPaymentBody]
  <2>1. t.vendorPayments \in Seq(Row)
    BY DEF Tables
  <2>2. new \in Row
    BY DEF Call
  <2>3. \A x \in new.body.alloc :
          x.doc \in DOMAIN t.purchases /\ t.purchases[x.doc].branch = new.branch
    BY DEF VendorPaymentPosts, VendorPaymentAdmitted, WellAllocated
  <2>4. PaysOwn(t.vendorPayments, t.purchases)
    BY DEF IsolatedIn
  <2>5. PaysOwn(Append(t.vendorPayments, new), t.purchases)
    <3>. HIDE DEF new, Row
    <3>. QED
      BY <2>1, <2>2, <2>3, <2>4, PaysAppended
  <2>. QED
    BY <1>1, <2>5
<1>5. PartiesOwn(u.subledger)
  BY <1>1, <1>3 DEF IsolatedIn, PartiesOwn
<1>. QED
  BY <1>1, <1>2, <1>4, <1>5, OwnKept DEF IsolatedIn

\* A copilot sale is a sale, then a receipt on its invoice.
LEMMA CopilotSaleIsolated ==
  ASSUME NEW t, SoundIn(t), IsolatedIn(t),
         NEW r \in Call("copilotSale", SaleBody), CopilotSalePosts(t, r)
  PROVE  IsolatedIn(CopilotSaleAfter(t, r))
<1>. DEFINE doc == Len(t.invoices) + 1
            sold == SaleAfter(t, SaleCall(r))
            receipt == ReceiptCall(r, doc)
<1>1. SaleCall(r) \in Call("sale", SaleBody) /\ t \in Tables /\ doc \in Id
  <2>1. SaleCall(r) \in Call("sale", SaleBody)
    BY DEF SaleCall, Call
  <2>2. t \in Tables /\ doc \in Id
    BY DEF SoundIn, Tables, Id
  <2>. QED
    BY <2>1, <2>2
<1>2. sold \in Tables /\ IsolatedIn(sold)
  BY <1>1, SaleSound, SaleIsolated DEF CopilotSalePosts, SoundIn
<1>3. CASE r.body.paid > 0
  <2>1. receipt \in Call("receipt", ReceiptBody) /\ ReceiptPosts(sold, receipt)
    BY <1>1, <1>3, ReceiptCallType DEF CopilotSalePosts
  <2>2. IsolatedIn(ReceiptAfter(sold, receipt))
    BY <1>2, <2>1, ReceiptIsolated
  <2>. QED
    BY <1>3, <2>2 DEF CopilotSaleAfter
<1>4. CASE ~(r.body.paid > 0)
  BY <1>2, <1>4 DEF CopilotSaleAfter
<1>. QED
  BY <1>3, <1>4

\* Every step keeps the tables isolated.
LEMMA NextIsolated == IInv /\ IsolatedIn(db) /\ [Next]_vars => IsolatedIn(db)'
<1>. SUFFICES ASSUME IInv, IsolatedIn(db), [Next]_vars PROVE IsolatedIn(db')
  BY DEF IsolatedIn, GoodsOwn, PartiesOwn, PaysOwn, ReturnsOwn
<1>i. db \in Tables /\ SoundIn(db)
  BY DEF IInv, SoundIn
<1>1. ASSUME NEW r \in SaleRequest, PostSale(r) PROVE IsolatedIn(db')
  BY <1>1, <1>i, SaleIsolated, RequestAssumption DEF PostSale
<1>2. ASSUME NEW r \in PurchaseRequest, PostPurchase(r) PROVE IsolatedIn(db')
  BY <1>2, <1>i, PurchaseIsolated, RequestAssumption DEF PostPurchase
<1>3. ASSUME NEW r \in ReceiptRequest, PostReceipt(r) PROVE IsolatedIn(db')
  BY <1>3, <1>i, ReceiptIsolated, RequestAssumption DEF PostReceipt
<1>4. ASSUME NEW r \in ReturnRequest, PostReturn(r) PROVE IsolatedIn(db')
  BY <1>4, <1>i, ReturnIsolated, RequestAssumption DEF PostReturn
<1>5. ASSUME NEW r \in VendorPaymentRequest, PostVendorPayment(r)
      PROVE  IsolatedIn(db')
  BY <1>5, <1>i, VendorPaymentIsolated, RequestAssumption DEF PostVendorPayment
<1>6. ASSUME NEW r \in CopilotSaleRequest, PostCopilotSale(r)
      PROVE  IsolatedIn(db')
  BY <1>6, <1>i, CopilotSaleIsolated, RequestAssumption DEF PostCopilotSale
<1>7. ASSUME NEW e \in Estimate, MarkReady(e) PROVE IsolatedIn(db')
  <2>1. db' = [db EXCEPT !.estimate[e] = "READY"]
    BY <1>7 DEF MarkReady
  <2>2. /\ db'.moves = db.moves /\ db'.subledger = db.subledger
        /\ db'.receipts = db.receipts /\ db'.invoices = db.invoices
        /\ db'.vendorPayments = db.vendorPayments
        /\ db'.purchases = db.purchases /\ db'.creditNotes = db.creditNotes
    BY <2>1, <1>i DEF Tables
  <2>. QED
    BY <2>2 DEF IsolatedIn
<1>8. ASSUME UNCHANGED db PROVE IsolatedIn(db')
  BY <1>8
<1>. QED
  BY <1>1, <1>2, <1>3, <1>4, <1>5, <1>6, <1>7, <1>8
     DEF Next, Replay, Refuse, Revoke, Regrant, vars

\* No document ever meets a party, product, warehouse or document of another
\* organization or branch, whatever is asked, revoked and granted meanwhile.
THEOREM TenancySound == Spec => []TenantIsolation
<1>1. Init => IsolatedIn(db)
  BY DEF Init, IsolatedIn, GoodsOwn, PartiesOwn, PaysOwn, ReturnsOwn
<1>2. IsolatedIn(db) => TenantIsolation
  BY DEF IsolatedIn, TenantIsolation, GoodsOwn, PartiesOwn, PaysOwn, ReturnsOwn
<1>. QED
  BY <1>1, <1>2, NextIsolated, SpecSound, PTL DEF Spec

-----------------------------------------------------------------------------
(* Sums over finite sets *)

\* What holds of the empty set, and of a set and one more if of the set, holds
\* of all finite sets: with the set of the sets it holds of for a predicate.
LEMMA SetInduction ==
  ASSUME NEW S, IsFiniteSet(S), NEW Good, {} \in Good,
         \A T \in SUBSET S : \A x \in S \ T : T \in Good => T \cup {x} \in Good
  PROVE  S \in Good
<1>. DEFINE Bad == {T \in SUBSET S : T \notin Good}
<1>1. SUFFICES ASSUME Bad # {} PROVE FALSE
  OBVIOUS
<1>2. Bad \subseteq FiniteSubsetsOf(S)
  BY FS_FiniteSubsetsOfFinite
<1>3. PICK T \in Bad : \A U \in Bad : <<U, T>> \notin StrictSubsetOrdering(S)
  BY <1>1, <1>2, FS_StrictSubsetOrderingWellFounded, WFMin
<1>4. PICK x : x \in T
  OBVIOUS
<1>5. T \ {x} \notin Bad
  <2>1. <<T \ {x}, T>> \in StrictSubsetOrdering(S)
    BY <1>4 DEF StrictSubsetOrdering
  <2>. QED
    BY <1>3, <2>1
<1>6. (T \ {x}) \cup {x} = T /\ x \in S \ (T \ {x}) /\ T \ {x} \in SUBSET S
  BY <1>4
<1>. QED
  BY <1>5, <1>6

\* A sum of natural numbers counts as many things as each of them says.
Things(f, S) == {p \in S \X Nat : p[2] \in 1 .. f[p[1]]}

\* One more of them has its own.
LEMMA ThingsAdd ==
  ASSUME NEW S, IsFiniteSet(S), NEW f, \A x \in S : f[x] \in Int, NEW x \in S,
         IsFiniteSet(Things(f, S \ {x}))
  PROVE  /\ IsFiniteSet(Things(f, S))
         /\ Cardinality(Things(f, S)) =
              Cardinality(Things(f, S \ {x})) + IF f[x] > 0 THEN f[x] ELSE 0
<1>. DEFINE own == {x} \X (1 .. f[x])
            N == IF f[x] > 0 THEN f[x] ELSE 0
<1>1. f[x] \in Int
  OBVIOUS
<1>2. IsFiniteSet(1 .. f[x]) /\ Cardinality(1 .. f[x]) = N
  <2>1. PICK n \in Int : n = f[x]
    BY <1>1
  <2>2. IsFiniteSet(1 .. n) /\ Cardinality(1 .. n) = IF 1 > n THEN 0 ELSE n - 1 + 1
    BY FS_Interval
  <2>. QED
    BY <2>1, <2>2
<1>3. IsFiniteSet(own) /\ Cardinality(own) = N
  <2>1. IsFiniteSet({x}) /\ Cardinality({x}) = 1
    BY FS_Singleton
  <2>2. IsFiniteSet(own) /\ Cardinality(own) = 1 * Cardinality(1 .. f[x])
    BY <1>2, <2>1, FS_Product
  <2>. QED
    BY <1>1, <1>2, <2>2
<1>4. Things(f, S) = Things(f, S \ {x}) \cup own
  BY <1>1 DEF Things
<1>5. Things(f, S \ {x}) \cap own = {}
  BY DEF Things
<1>6. Cardinality({}) = 0
  BY FS_EmptySet
<1>7. /\ IsFiniteSet(Things(f, S \ {x}) \cup own)
      /\ Cardinality(Things(f, S \ {x}) \cup own) =
           Cardinality(Things(f, S \ {x})) + Cardinality(own)
             - Cardinality(Things(f, S \ {x}) \cap own)
  <2>. HIDE DEF own
  <2>. QED
    BY <1>3, FS_Union
<1>8. Cardinality(Things(f, S \ {x})) \in Nat /\ N \in Nat
  BY <1>1, FS_CardinalityType
<1>9. Cardinality(Things(f, S \ {x}) \cap own) = 0
  BY <1>5, <1>6
<1>. HIDE DEF own, N
<1>10. Cardinality(Things(f, S)) = Cardinality(Things(f, S \ {x})) + N
  BY <1>3, <1>4, <1>7, <1>8, <1>9
<1>11. IsFiniteSet(Things(f, S))
  BY <1>4, <1>7
<1>. QED
  BY <1>10, <1>11 DEF N

\* They are finitely many.
LEMMA ThingsFinite ==
  ASSUME NEW S, IsFiniteSet(S), NEW f, \A x \in S : f[x] \in Int
  PROVE  \A T \in SUBSET S : IsFiniteSet(Things(f, T))
<1>. DEFINE Good == {T \in SUBSET S : IsFiniteSet(Things(f, T))}
<1>0. SUFFICES ASSUME NEW T \in SUBSET S PROVE IsFiniteSet(Things(f, T))
  OBVIOUS
<1>1. IsFiniteSet(T)
  BY FS_Subset
<1>2. {} \in Good
  <2>1. Things(f, {}) = {}
    BY DEF Things
  <2>. QED
    BY <2>1, FS_EmptySet
<1>3. ASSUME NEW U \in SUBSET T, NEW x \in T \ U, U \in Good PROVE U \cup {x} \in Good
  <2>1. U = (U \cup {x}) \ {x} /\ U \cup {x} \in SUBSET S /\ x \in U \cup {x}
    OBVIOUS
  <2>2. IsFiniteSet(U \cup {x})
    BY <2>1, FS_Subset
  <2>. QED
    BY <1>3, <2>1, <2>2, ThingsAdd
<1>4. T \in Good
  <2>. HIDE DEF Good
  <2>. QED
    BY <1>1, <1>2, <1>3, SetInduction
<1>. QED
  BY <1>4

\* The sum that the fold of the library works out, which is the only one.
LEMMA SumIsFound ==
  ASSUME NEW S, IsFiniteSet(S), NEW f, \A x \in S : f[x] \in Int
  PROVE  SumFunctionOnSet(f, S) =
           Cardinality(Things(f, S)) - Cardinality(Things([x \in S |-> -f[x]], S))
<1>. DEFINE minus == [x \in S |-> -f[x]]
            Def(h) == h = [s \in SUBSET S |-> IF s = {} THEN 0
              ELSE f[CHOOSE x \in s : TRUE] + h[s \ {CHOOSE x \in s : TRUE}]]
            count == [s \in SUBSET S |->
                        Cardinality(Things(f, s)) - Cardinality(Things(minus, s))]
<1>0. \A x \in S : minus[x] \in Int
  OBVIOUS
<1>1. SumFunctionOnSet(f, S) = (CHOOSE h : Def(h))[S]
  BY DEF SumFunctionOnSet, FoldFunctionOnSet, MapThenFoldSet
<1>2. /\ \A s \in SUBSET S : IsFiniteSet(Things(f, s)) /\ Cardinality(Things(f, s)) \in Nat
      /\ \A s \in SUBSET S : IsFiniteSet(Things(minus, s)) /\ Cardinality(Things(minus, s)) \in Nat
  <2>. HIDE DEF minus
  <2>. QED
    BY <1>0, ThingsFinite, FS_CardinalityType
<1>3. count[{}] = 0
  <2>1. Things(f, {}) = {} /\ Things(minus, {}) = {}
    BY DEF Things
  <2>. QED
    BY <2>1, FS_EmptySet
<1>4. ASSUME NEW s \in SUBSET S, NEW x \in s
      PROVE  count[s] = f[x] + count[s \ {x}]
  <2>1. IsFiniteSet(s)
    BY FS_Subset
  <2>2. Cardinality(Things(f, s)) =
          Cardinality(Things(f, s \ {x})) + IF f[x] > 0 THEN f[x] ELSE 0
    BY <1>2, <2>1, ThingsAdd
  <2>3. Cardinality(Things(minus, s)) =
          Cardinality(Things(minus, s \ {x})) + IF minus[x] > 0 THEN minus[x] ELSE 0
    <3>. HIDE DEF minus
    <3>. QED
      BY <1>0, <1>2, <2>1, ThingsAdd
  <2>4. minus[x] = -f[x] /\ f[x] \in Int /\ s \ {x} \in SUBSET S
    OBVIOUS
  <2>5. /\ Cardinality(Things(f, s \ {x})) \in Nat
        /\ Cardinality(Things(minus, s \ {x})) \in Nat
    BY <1>2, <2>4
  <2>6. /\ count[s] = Cardinality(Things(f, s)) - Cardinality(Things(minus, s))
        /\ count[s \ {x}] =
             Cardinality(Things(f, s \ {x})) - Cardinality(Things(minus, s \ {x}))
    BY <2>4
  <2>. HIDE DEF minus, count
  <2>. QED
    BY <2>2, <2>3, <2>4, <2>5, <2>6
<1>5. Def(count)
  <2>1. \A s \in SUBSET S : s # {} =>
          count[s] = f[CHOOSE x \in s : TRUE] + count[s \ {CHOOSE x \in s : TRUE}]
    <3>. HIDE DEF count
    <3>. QED
      BY <1>4
  <2>2. count = [s \in SUBSET S |-> count[s]]
    OBVIOUS
  <2>. HIDE DEF count
  <2>. QED
    BY <1>3, <2>1, <2>2
<1>6. PICK h : Def(h) /\ h = CHOOSE g : Def(g)
  <2>. HIDE DEF Def, count
  <2>. QED
    BY <1>5
<1>7. h[S] = count[S]
  <2>. DEFINE Good == {T \in SUBSET S : h[T] = count[T]}
  <2>1. {} \in Good
    BY <1>3, <1>6
  <2>2. \A T \in SUBSET S : T # {} =>
          \E x \in T : h[T] = f[x] + h[T \ {x}] /\ count[T] = f[x] + count[T \ {x}]
    <3>. SUFFICES ASSUME NEW T \in SUBSET S, T # {}
                  PROVE \E x \in T : h[T] = f[x] + h[T \ {x}]
                                     /\ count[T] = f[x] + count[T \ {x}]
      OBVIOUS
    <3>1. PICK x : x = CHOOSE y \in T : TRUE
      OBVIOUS
    <3>2. x \in T /\ h[T] = f[x] + h[T \ {x}]
      BY <1>6, <3>1
    <3>. HIDE DEF count
    <3>. QED
      BY <1>4, <3>2
  <2>. DEFINE Bad == {T \in SUBSET S : T \notin Good}
  <2>3. Bad = {}
    <3>. SUFFICES ASSUME Bad # {} PROVE FALSE
      OBVIOUS
    <3>1. Bad \subseteq FiniteSubsetsOf(S)
      BY FS_FiniteSubsetsOfFinite
    <3>2. PICK T \in Bad : \A U \in Bad : <<U, T>> \notin StrictSubsetOrdering(S)
      BY <3>1, FS_StrictSubsetOrderingWellFounded, WFMin
    <3>3. T \in SUBSET S /\ T # {}
      BY <2>1
    <3>4. PICK x \in T : h[T] = f[x] + h[T \ {x}] /\ count[T] = f[x] + count[T \ {x}]
      BY <2>2, <3>3
    <3>5. <<T \ {x}, T>> \in StrictSubsetOrdering(S) /\ T \ {x} \in SUBSET S
      BY <3>3 DEF StrictSubsetOrdering
    <3>6. h[T \ {x}] = count[T \ {x}]
      BY <3>2, <3>5
    <3>. QED
      BY <3>3, <3>4, <3>6
  <2>. QED
    BY <2>3
<1>. QED
  BY <1>1, <1>6, <1>7

\* A sum of integers is one, and one of nothing, or of nothing but 0, is 0.
LEMMA SumType ==
  ASSUME NEW S, IsFiniteSet(S), NEW F \in [S -> Int]
  PROVE  /\ SumFunction(F) \in Int
         /\ (\A x \in S : F[x] = 0) => SumFunction(F) = 0
<1>. DEFINE minus == [x \in S |-> -F[x]]
<1>1. SumFunction(F) = SumFunctionOnSet(F, S)
  BY DEF SumFunction
<1>2. SumFunctionOnSet(F, S) = Cardinality(Things(F, S)) - Cardinality(Things(minus, S))
  BY SumIsFound
<1>3. \A x \in S : minus[x] \in Int
  OBVIOUS
<1>4. Cardinality(Things(F, S)) \in Nat /\ Cardinality(Things(minus, S)) \in Nat
  <2>. HIDE DEF minus
  <2>. QED
    BY <1>3, ThingsFinite, FS_CardinalityType
<1>5. ASSUME \A x \in S : F[x] = 0 PROVE SumFunction(F) = 0
  <2>1. Things(F, S) = {} /\ Things(minus, S) = {}
    BY <1>5 DEF Things
  <2>2. Cardinality({}) = 0
    BY FS_EmptySet
  <2>. QED
    BY <1>1, <1>2, <2>1, <2>2
<1>. QED
  BY <1>1, <1>2, <1>4, <1>5

\* A sum over one more adds that one.
LEMMA SumAdd ==
  ASSUME NEW S, IsFiniteSet(S), NEW F \in [S -> Int], NEW x, x \notin S,
         NEW G \in [S \cup {x} -> Int], \A y \in S : G[y] = F[y]
  PROVE  SumFunction(G) = SumFunction(F) + G[x]
<1>. DEFINE T == S \cup {x}
            minusF == [y \in S |-> -F[y]]
            minusG == [y \in T |-> -G[y]]
<1>1. IsFiniteSet(T) /\ x \in T /\ T \ {x} = S
  BY FS_AddElement
<1>2. /\ SumFunction(F) = Cardinality(Things(F, S)) - Cardinality(Things(minusF, S))
      /\ SumFunction(G) = Cardinality(Things(G, T)) - Cardinality(Things(minusG, T))
  BY <1>1, SumIsFound DEF SumFunction
<1>3. /\ Things(G, S) = Things(F, S)
      /\ Things(minusG, S) = Things(minusF, S)
  BY DEF Things
<1>4. (\A y \in T : minusG[y] \in Int) /\ (\A y \in S : minusF[y] \in Int)
      /\ (\A y \in T : G[y] \in Int) /\ G[x] \in Int /\ minusG[x] = -G[x]
  OBVIOUS
<1>. HIDE DEF minusF, minusG, T
<1>5. /\ IsFiniteSet(Things(F, S)) /\ IsFiniteSet(Things(minusF, S))
      /\ Cardinality(Things(F, S)) \in Nat
      /\ Cardinality(Things(minusF, S)) \in Nat
  BY <1>4, ThingsFinite, FS_CardinalityType
<1>6. Cardinality(Things(G, T)) =
        Cardinality(Things(F, S)) + IF G[x] > 0 THEN G[x] ELSE 0
  BY <1>1, <1>3, <1>4, <1>5, ThingsAdd
<1>7. Cardinality(Things(minusG, T)) =
        Cardinality(Things(minusF, S)) + IF minusG[x] > 0 THEN minusG[x] ELSE 0
  BY <1>1, <1>3, <1>4, <1>5, ThingsAdd
<1>. QED
  BY <1>2, <1>4, <1>5, <1>6, <1>7

\* The other way round: one may be taken out of a sum.
LEMMA SumSplit ==
  ASSUME NEW S, IsFiniteSet(S), NEW F \in [S -> Int], NEW x \in S
  PROVE  /\ SumFunction(F) = SumFunction([y \in S \ {x} |-> F[y]]) + F[x]
         /\ SumFunction([y \in S \ {x} |-> F[y]]) \in Int
<1>. DEFINE T == S \ {x}
            rest == [y \in T |-> F[y]]
<1>1. IsFiniteSet(T) /\ x \notin T /\ T \cup {x} = S /\ rest \in [T -> Int]
      /\ \A y \in T : F[y] = rest[y]
  BY FS_Subset
<1>. HIDE DEF T, rest
<1>2. SumFunction(F) = SumFunction(rest) + F[x] /\ SumFunction(rest) \in Int
  BY <1>1, SumAdd, SumType
<1>. QED
  BY <1>2 DEF T, rest

\* A sum in which one thing changes, changes by as much.
LEMMA SumChange ==
  ASSUME NEW S, IsFiniteSet(S), NEW F \in [S -> Int], NEW G \in [S -> Int],
         NEW x \in S, \A y \in S \ {x} : G[y] = F[y]
  PROVE  SumFunction(G) = SumFunction(F) + G[x] - F[x]
<1>1. [y \in S \ {x} |-> F[y]] = [y \in S \ {x} |-> G[y]]
  OBVIOUS
<1>. DEFINE rest == SumFunction([y \in S \ {x} |-> F[y]])
<1>2. SumFunction(F) = rest + F[x] /\ rest \in Int
  BY SumSplit
<1>3. SumFunction(G) = SumFunction([y \in S \ {x} |-> G[y]]) + G[x]
  BY SumSplit
<1>4. SumFunction(G) = rest + G[x]
  BY <1>1, <1>3
<1>5. F[x] \in Int /\ G[x] \in Int
  OBVIOUS
<1>. HIDE DEF rest
<1>. QED
  BY <1>2, <1>4, <1>5

\* A sum over a part, and over one more.
LEMMA SumOn ==
  ASSUME NEW S, IsFiniteSet(S), NEW f, NEW x, x \notin S, \A y \in S \cup {x} : f[y] \in Int
  PROVE  /\ SumFunction([y \in S \cup {x} |-> f[y]]) = SumFunction([y \in S |-> f[y]]) + f[x]
         /\ SumFunction([y \in S |-> f[y]]) \in Int
<1>1. PICK some : some = [y \in S |-> f[y]]
  OBVIOUS
<1>2. PICK more : more = [y \in S \cup {x} |-> f[y]]
  OBVIOUS
<1>3. /\ some \in [S -> Int] /\ more \in [S \cup {x} -> Int]
      /\ \A y \in S : more[y] = some[y]
      /\ more[x] = f[x]
  BY <1>1, <1>2
<1>4. SumFunction(some) \in Int
  BY <1>3, SumType
<1>5. SumFunction(more) = SumFunction(some) + more[x]
  BY <1>3, SumAdd
<1>. QED
  BY <1>1, <1>2, <1>3, <1>4, <1>5

\* The sum of sums.
LEMMA SumPlus ==
  ASSUME NEW S, IsFiniteSet(S), NEW F \in [S -> Int], NEW G \in [S -> Int],
         NEW H \in [S -> Int], \A x \in S : H[x] = F[x] + G[x]
  PROVE  SumFunction(H) = SumFunction(F) + SumFunction(G)
<1>. DEFINE On(f, T) == SumFunction([x \in T |-> f[x]])
            Good == {T \in SUBSET S : On(H, T) = On(F, T) + On(G, T)}
<1>1. {} \in Good
  <2>1. /\ [x \in {} |-> F[x]] \in [{} -> Int]
        /\ [x \in {} |-> G[x]] \in [{} -> Int]
        /\ [x \in {} |-> H[x]] \in [{} -> Int] /\ IsFiniteSet({})
    BY FS_EmptySet
  <2>2. On(F, {}) = 0 /\ On(G, {}) = 0 /\ On(H, {}) = 0
    BY <2>1, SumType
  <2>. QED
    BY <2>2
<1>2. ASSUME NEW T \in SUBSET S, NEW x \in S \ T, T \in Good PROVE T \cup {x} \in Good
  <2>1. IsFiniteSet(T)
    BY FS_Subset
  <2>2. ASSUME NEW f \in [S -> Int]
        PROVE  /\ On(f, T \cup {x}) = On(f, T) + f[x]
               /\ On(f, T) \in Int
    <3>1. x \notin T /\ \A y \in T \cup {x} : f[y] \in Int
      OBVIOUS
    <3>. QED
      BY ONLY <2>1, <3>1, SumOn
  <2>3. On(H, T) = On(F, T) + On(G, T)
    BY <1>2
  <2>4. H[x] = F[x] + G[x] /\ F[x] \in Int /\ G[x] \in Int
    OBVIOUS
  <2>5. T \cup {x} \in SUBSET S
    OBVIOUS
  <2>. HIDE DEF On
  <2>. QED
    BY <2>2, <2>3, <2>4, <2>5
<1>3. S \in Good
  <2>. HIDE DEF Good
  <2>. QED
    BY <1>1, <1>2, SetInduction
<1>. QED
  <2>1. [x \in S |-> F[x]] = F /\ [x \in S |-> G[x]] = G /\ [x \in S |-> H[x]] = H
    OBVIOUS
  <2>. QED
    BY <1>3, <2>1

\* A sum is moved along a one-to-one mapping, what is not reached counting 0.
Carries(m, S, F, T, G) ==
  /\ IsFiniteSet(S) /\ F \in [S -> Int]
  /\ IsFiniteSet(T) /\ G \in [T -> Int] /\ m \in [S -> T]
  /\ \A x, y \in S : m[x] = m[y] => x = y
  /\ \A x \in S : G[m[x]] = F[x]
  /\ \A y \in T : (\A x \in S : m[x] # y) => G[y] = 0
\* Such a sum is the same.
LEMMA SumMoved ==
  ASSUME NEW m, NEW S, NEW F, NEW T, NEW G, Carries(m, S, F, T, G)
  PROVE  SumFunction(G) = SumFunction(F)
<1>0. /\ IsFiniteSet(S) /\ F \in [S -> Int]
      /\ IsFiniteSet(T) /\ G \in [T -> Int] /\ m \in [S -> T]
      /\ \A x, y \in S : m[x] = m[y] => x = y
      /\ \A x \in S : G[m[x]] = F[x]
      /\ \A y \in T : (\A x \in S : m[x] # y) => G[y] = 0
  BY DEF Carries
<1>. DEFINE Part(U) == [y \in T |-> IF \E x \in U : m[x] = y THEN G[y] ELSE 0]
            Some(U) == [x \in U |-> F[x]]
            Good == {U \in SUBSET S : SumFunction(Part(U)) = SumFunction(Some(U))}
<1>1. {} \in Good
  <2>1. SumFunction(Some({})) = 0
    <3>1. Some({}) \in [{} -> Int] /\ IsFiniteSet({})
      BY FS_EmptySet
    <3>. QED
      BY <3>1, SumType
  <2>2. SumFunction(Part({})) = 0
    <3>1. Part({}) \in [T -> Int] /\ \A y \in T : Part({})[y] = 0
      BY <1>0
    <3>. HIDE DEF Part
    <3>. QED
      BY <1>0, <3>1, SumType
  <2>. QED
    BY <2>1, <2>2
<1>2. ASSUME NEW U \in SUBSET S, NEW x \in S \ U, U \in Good PROVE U \cup {x} \in Good
  <2>1. IsFiniteSet(U) /\ F[x] \in Int /\ m[x] \in T
    BY <1>0, FS_Subset
  <2>2. /\ Part(U) \in [T -> Int] /\ Part(U \cup {x}) \in [T -> Int]
        /\ \A y \in T \ {m[x]} : Part(U \cup {x})[y] = Part(U)[y]
        /\ Part(U)[m[x]] = 0 /\ Part(U \cup {x})[m[x]] = F[x]
    BY <1>0
  <2>3. SumFunction(Part(U)) = SumFunction(Some(U)) /\ U \cup {x} \in SUBSET S
    BY <1>2
  <2>4. IsFiniteSet(T) /\ x \notin U
    BY <1>0
  <2>5. PICK before : before = Part(U)
    OBVIOUS
  <2>6. PICK after : after = Part(U \cup {x})
    OBVIOUS
  <2>7. SumFunction(after) = SumFunction(before) + after[m[x]] - before[m[x]]
    <3>1. /\ before \in [T -> Int] /\ after \in [T -> Int] /\ m[x] \in T
          /\ \A y \in T \ {m[x]} : after[y] = before[y]
      BY <2>1, <2>2, <2>5, <2>6
    <3>. QED
      BY ONLY <2>4, <3>1, SumChange
  <2>8. /\ SumFunction(Some(U \cup {x})) = SumFunction(Some(U)) + F[x]
        /\ SumFunction(Some(U)) \in Int
    <3>1. \A y \in U \cup {x} : F[y] \in Int
      BY <1>0
    <3>. QED
      BY ONLY <2>1, <2>4, <3>1, SumOn
  <2>9. before[m[x]] = 0 /\ after[m[x]] = F[x]
    BY <2>2, <2>5, <2>6
  <2>. QED
    BY <2>1, <2>3, <2>5, <2>6, <2>7, <2>8, <2>9
<1>3. S \in Good
  <2>. HIDE DEF Good
  <2>. QED
    BY <1>0, <1>1, <1>2, SetInduction
<1>4. Part(S) = G /\ Some(S) = F
  BY <1>0
<1>. QED
  BY <1>3, <1>4

-----------------------------------------------------------------------------
(* Tallies: what is counted under a key *)

\* The sum of the values under one key.
Tally(v, key, k) == SumFunction([i \in {j \in DOMAIN v : key[j] = k} |-> v[i]])

\* It is a number, and 0 if every value under the key is.
LEMMA TallyType ==
  ASSUME NEW S, IsFiniteSet(S), NEW v \in [S -> Int], NEW key, NEW k
  PROVE  /\ Tally(v, key, k) \in Int
         /\ (\A i \in S : key[i] = k => v[i] = 0) => Tally(v, key, k) = 0
<1>. DEFINE T == {j \in S : key[j] = k}
            f == [i \in T |-> v[i]]
<1>1. IsFiniteSet(T) /\ f \in [T -> Int] /\ Tally(v, key, k) = SumFunction(f)
  <2>1. IsFiniteSet(T)
    BY FS_Subset
  <2>2. DOMAIN v = S
    OBVIOUS
  <2>. QED
    BY <2>1, <2>2 DEF Tally
<1>2. (\A i \in S : key[i] = k => v[i] = 0) => \A i \in T : f[i] = 0
  OBVIOUS
<1>. HIDE DEF T, f
<1>. QED
  BY <1>1, <1>2, SumType

\* One more value counts under its key.
Adds(S, x, v, w, key, lock) ==
  /\ IsFiniteSet(S) /\ x \notin S
  /\ v \in [S -> Int] /\ w \in [S \cup {x} -> Int]
  /\ \A i \in S : w[i] = v[i] /\ lock[i] = key[i]

\* The sum under its key grows by it.
LEMMA TallyAdd ==
  ASSUME NEW S, NEW x, NEW v, NEW w, NEW key, NEW lock,
         Adds(S, x, v, w, key, lock), NEW k
  PROVE  /\ Tally(w, lock, k) =
              Tally(v, key, k) + IF lock[x] = k THEN w[x] ELSE 0
         /\ Tally(v, key, k) \in Int
<1>0. /\ IsFiniteSet(S) /\ x \notin S
      /\ v \in [S -> Int] /\ w \in [S \cup {x} -> Int]
      /\ \A i \in S : w[i] = v[i] /\ lock[i] = key[i]
  BY DEF Adds
<1>. DEFINE T == {j \in S : key[j] = k}
<1>1. Tally(v, key, k) = SumFunction([i \in T |-> w[i]])
  <2>1. DOMAIN v = S /\ [i \in T |-> v[i]] = [i \in T |-> w[i]]
    BY <1>0
  <2>. QED
    BY <1>0, <2>1 DEF Tally
<1>2. IsFiniteSet(T) /\ x \notin T /\ \A y \in T \cup {x} : w[y] \in Int
  BY <1>0, FS_Subset
<1>3. DOMAIN w = S \cup {x}
  BY <1>0
<1>t. Tally(v, key, k) \in Int
  BY <1>0, TallyType
<1>4. CASE lock[x] = k
  <2>1. {j \in S \cup {x} : lock[j] = k} = T \cup {x}
    BY <1>0, <1>4
  <2>2. Tally(w, lock, k) = SumFunction([i \in T \cup {x} |-> w[i]])
    BY <1>3, <2>1 DEF Tally
  <2>. HIDE DEF T
  <2>3. SumFunction([i \in T \cup {x} |-> w[i]]) = SumFunction([i \in T |-> w[i]]) + w[x]
    BY ONLY <1>2, SumOn
  <2>. QED
    BY <1>t, <1>1, <1>4, <2>2, <2>3
<1>5. CASE lock[x] # k
  <2>1. {j \in S \cup {x} : lock[j] = k} = T
    BY <1>0, <1>5
  <2>2. Tally(w, lock, k) = SumFunction([i \in T |-> w[i]])
    BY <1>3, <2>1 DEF Tally
  <2>3. SumFunction([i \in T |-> w[i]]) \in Int
    <3>. HIDE DEF T
    <3>. QED
      BY ONLY <1>2, SumOn
  <2>. HIDE DEF T
  <2>. QED
    BY <1>t, <1>1, <1>5, <2>2, <2>3
<1>. QED
  BY <1>4, <1>5

\* A change of the values changes the sum by the changes under the key.
Moves(S, v, w, d, key, lock) ==
  /\ IsFiniteSet(S)
  /\ v \in [S -> Int] /\ w \in [S -> Int] /\ d \in [S -> Int]
  /\ \A i \in S : w[i] = v[i] + d[i]
  /\ \A i \in S : lock[i] = key[i]

\* So does the sum under every key.
LEMMA TallyPlus ==
  ASSUME NEW S, NEW v, NEW w, NEW d, NEW key, NEW lock,
         Moves(S, v, w, d, key, lock), NEW k
  PROVE  /\ Tally(w, lock, k) = Tally(v, key, k) + Tally(d, key, k)
         /\ Tally(v, key, k) \in Int /\ Tally(d, key, k) \in Int
<1>0. /\ IsFiniteSet(S)
      /\ v \in [S -> Int] /\ w \in [S -> Int] /\ d \in [S -> Int]
      /\ \A i \in S : w[i] = v[i] + d[i]
      /\ \A i \in S : lock[i] = key[i]
  BY DEF Moves
<1>. DEFINE T == {j \in S : key[j] = k}
<1>1. IsFiniteSet(T)
  BY <1>0, FS_Subset
<1>2. PICK f, g, h : /\ f = [i \in T |-> v[i]]
                     /\ g = [i \in T |-> d[i]]
                     /\ h = [i \in T |-> w[i]]
  OBVIOUS
<1>3. /\ f \in [T -> Int] /\ g \in [T -> Int] /\ h \in [T -> Int]
      /\ \A i \in T : h[i] = f[i] + g[i]
  BY <1>0, <1>2
<1>4. /\ Tally(v, key, k) = SumFunction(f)
      /\ Tally(d, key, k) = SumFunction(g)
      /\ Tally(w, lock, k) = SumFunction(h)
  <2>1. /\ DOMAIN v = S /\ DOMAIN d = S /\ DOMAIN w = S
        /\ {j \in S : lock[j] = k} = T
    BY <1>0
  <2>. QED
    BY <1>2, <2>1 DEF Tally
<1>. HIDE DEF T
<1>5. SumFunction(h) = SumFunction(f) + SumFunction(g)
  BY ONLY <1>1, <1>3, SumPlus
<1>6. Tally(v, key, k) \in Int /\ Tally(d, key, k) \in Int
  BY <1>0, TallyType
<1>. QED
  BY <1>4, <1>5, <1>6

\* One value that changes.
Differs(S, x, v, w, key, lock) ==
  /\ IsFiniteSet(S) /\ x \in S
  /\ v \in [S -> Int] /\ w \in [S -> Int]
  /\ \A i \in S \ {x} : w[i] = v[i]
  /\ \A i \in S : lock[i] = key[i]

\* The sum under its key changes by as much.
LEMMA TallyChange ==
  ASSUME NEW S, NEW x, NEW v, NEW w, NEW key, NEW lock,
         Differs(S, x, v, w, key, lock), NEW k
  PROVE  /\ Tally(w, lock, k) =
              Tally(v, key, k) + IF key[x] = k THEN w[x] - v[x] ELSE 0
         /\ Tally(v, key, k) \in Int
<1>0. /\ IsFiniteSet(S) /\ x \in S
      /\ v \in [S -> Int] /\ w \in [S -> Int]
      /\ \A i \in S \ {x} : w[i] = v[i]
      /\ \A i \in S : lock[i] = key[i]
  BY DEF Differs
<1>. DEFINE T == {j \in S : key[j] = k}
<1>1. IsFiniteSet(T)
  BY <1>0, FS_Subset
<1>2. PICK f, h : f = [i \in T |-> v[i]] /\ h = [i \in T |-> w[i]]
  OBVIOUS
<1>3. Tally(v, key, k) = SumFunction(f) /\ Tally(w, lock, k) = SumFunction(h)
  <2>1. DOMAIN v = S /\ DOMAIN w = S /\ {j \in S : lock[j] = k} = T
    BY <1>0
  <2>. QED
    BY <1>2, <2>1 DEF Tally
<1>4. f \in [T -> Int] /\ h \in [T -> Int] /\ \A i \in T \ {x} : h[i] = f[i]
  BY <1>0, <1>2
<1>5. SumFunction(f) \in Int
  BY <1>1, <1>4, SumType
<1>6. CASE key[x] = k
  <2>1. x \in T /\ f[x] = v[x] /\ h[x] = w[x]
    BY <1>0, <1>2, <1>6
  <2>2. SumFunction(h) = SumFunction(f) + h[x] - f[x]
    <3>. HIDE DEF T
    <3>. QED
      BY ONLY <1>1, <1>4, <2>1, SumChange
  <2>3. v[x] \in Int /\ w[x] \in Int
    BY <1>0
  <2>. HIDE DEF T
  <2>. QED
    BY <1>3, <1>5, <1>6, <2>1, <2>2, <2>3
<1>7. CASE key[x] # k
  <2>1. f = h
    BY <1>0, <1>2, <1>7
  <2>. QED
    BY <1>3, <1>5, <1>7, <2>1
<1>. QED
  BY <1>6, <1>7

-----------------------------------------------------------------------------
(* The sums of the books, as tallies *)

\* What an account has in a branch.
Balance(journal, a, b) ==
  Tally([e \in journal |-> e.dr[a] - e.cr[a]],
        [e \in journal |-> e.stamp.branch], b)
\* What a party owes by its ledger.
Owed(subledger, p, b) ==
  Tally([s \in subledger |-> s.debit - s.credit],
        [s \in subledger |-> <<s.party, s.branch>>], <<p, b>>)
\* What its invoices have outstanding, and what its purchases have unpaid.
Collectable(invoices, p, b) ==
  Tally([i \in DOMAIN invoices |-> Outstanding(invoices[i])],
        [i \in DOMAIN invoices |->
           <<invoices[i].body.customer, invoices[i].branch>>], <<p, b>>)
Due(purchases, p, b) ==
  Tally([i \in DOMAIN purchases |-> Unpaid(purchases[i])],
        [i \in DOMAIN purchases |->
           <<purchases[i].body.vendor, purchases[i].branch>>], <<p, b>>)
\* What payments, of customers or to vendors, moved by one method.
Paid(payments, m, b) ==
  Tally([i \in DOMAIN payments |-> payments[i].body.amount],
        [i \in DOMAIN payments |-> <<payments[i].body.method, payments[i].branch>>],
        <<m, b>>)
\* What the goods gone have cost.
CostGone(invoices, b) ==
  Tally([i \in DOMAIN invoices |-> CostOut(invoices[i])],
        [i \in DOMAIN invoices |-> invoices[i].branch], b)
\* What goods moved.
Moved(moves, c) ==
  Tally([m \in moves |-> m.qty], [m \in moves |-> m.cell], c)

\* The reconciliation, of the tables.
BooksIn(t) ==
  /\ \A b \in Branch :
       /\ Balance(t.journal, "ar", b) =
            SumFunction([p \in Party |-> Collectable(t.invoices, p, b)])
       /\ - Balance(t.journal, "ap", b) =
            SumFunction([p \in Party |-> Due(t.purchases, p, b)])
       /\ \A p \in Party : Owed(t.subledger, p, b) =
            Collectable(t.invoices, p, b) - Due(t.purchases, p, b)
       /\ \A m \in Method : Balance(t.journal, m, b) =
            Paid(t.receipts, m, b) - Paid(t.vendorPayments, m, b)
       /\ Balance(t.journal, "cogs", b) = CostGone(t.invoices, b)
  /\ \A c \in Cell : t.stock[c] = OpeningStock[c] + Moved(t.moves, c)

\* It is the one the runs check.
LEMMA BooksAreThese == BooksIn(db) => BooksReconcile
<1>1. ASSUME NEW a, NEW b PROVE GlBalance(a, b) = Balance(db.journal, a, b)
  <2>. DEFINE v == [e \in db.journal |-> e.dr[a] - e.cr[a]]
              key == [e \in db.journal |-> e.stamp.branch]
              T == {e \in db.journal : e.stamp.branch = b}
  <2>1. {j \in DOMAIN v : key[j] = b} = T
    OBVIOUS
  <2>2. [i \in T |-> v[i]] = [e \in T |-> e.dr[a] - e.cr[a]]
    OBVIOUS
  <2>3. Tally(v, key, b) = SumFunction([i \in T |-> v[i]])
    BY <2>1 DEF Tally
  <2>. QED
    BY <2>2, <2>3 DEF GlBalance, Total, Balance
<1>2. ASSUME NEW p, NEW b PROVE SubBalance(p, b) = Owed(db.subledger, p, b)
  <2>. DEFINE v == [s \in db.subledger |-> s.debit - s.credit]
              key == [s \in db.subledger |-> <<s.party, s.branch>>]
              T == {s \in db.subledger : s.party = p /\ s.branch = b}
  <2>1. {j \in DOMAIN v : key[j] = <<p, b>>} = T
    OBVIOUS
  <2>2. [i \in T |-> v[i]] = [s \in T |-> s.debit - s.credit]
    OBVIOUS
  <2>3. Tally(v, key, <<p, b>>) = SumFunction([i \in T |-> v[i]])
    BY <2>1 DEF Tally
  <2>. QED
    BY <2>2, <2>3 DEF SubBalance, Total, Owed
<1>3. ASSUME NEW p, NEW b PROVE Receivable(p, b) = Collectable(db.invoices, p, b)
  <2>. DEFINE v == [i \in DOMAIN db.invoices |-> Outstanding(db.invoices[i])]
              key == [i \in DOMAIN db.invoices |->
                        <<db.invoices[i].body.customer, db.invoices[i].branch>>]
              T == InvoicesOf(p, b)
  <2>1. {j \in DOMAIN v : key[j] = <<p, b>>} = T
    BY DEF InvoicesOf
  <2>2. [i \in T |-> v[i]] = [i \in T |-> Outstanding(db.invoices[i])]
    BY DEF InvoicesOf
  <2>3. Tally(v, key, <<p, b>>) = SumFunction([i \in T |-> v[i]])
    BY <2>1 DEF Tally
  <2>. QED
    BY <2>2, <2>3 DEF Receivable, Total, Collectable
<1>4. ASSUME NEW p, NEW b PROVE Payable(p, b) = Due(db.purchases, p, b)
  <2>. DEFINE v == [i \in DOMAIN db.purchases |-> Unpaid(db.purchases[i])]
              key == [i \in DOMAIN db.purchases |->
                        <<db.purchases[i].body.vendor, db.purchases[i].branch>>]
              T == PurchasesOf(p, b)
  <2>1. {j \in DOMAIN v : key[j] = <<p, b>>} = T
    BY DEF PurchasesOf
  <2>2. [i \in T |-> v[i]] =
          [i \in T |-> PurchaseTotal(db.purchases[i].body) - db.purchases[i].paid]
    BY DEF PurchasesOf, Unpaid
  <2>3. Tally(v, key, <<p, b>>) = SumFunction([i \in T |-> v[i]])
    BY <2>1 DEF Tally
  <2>. QED
    BY <2>2, <2>3 DEF Payable, Total, Due
<1>5. ASSUME NEW payments, NEW m, NEW b
      PROVE  Paid(payments, m, b) =
               SumFunction([i \in {i \in DOMAIN payments :
                                     /\ payments[i].branch = b
                                     /\ payments[i].body.method = m} |->
                              payments[i].body.amount])
  <2>. DEFINE v == [i \in DOMAIN payments |-> payments[i].body.amount]
              key == [i \in DOMAIN payments |->
                        <<payments[i].body.method, payments[i].branch>>]
              T == {i \in DOMAIN payments : /\ payments[i].branch = b
                                            /\ payments[i].body.method = m}
  <2>1. {j \in DOMAIN v : key[j] = <<m, b>>} = T
    OBVIOUS
  <2>2. [i \in T |-> v[i]] = [i \in T |-> payments[i].body.amount]
    OBVIOUS
  <2>3. Tally(v, key, <<m, b>>) = SumFunction([i \in T |-> v[i]])
    BY <2>1 DEF Tally
  <2>. QED
    BY <2>2, <2>3 DEF Paid
<1>6. ASSUME NEW m, NEW b
      PROVE  MoneyIn(m, b) - MoneyOut(m, b) =
               Paid(db.receipts, m, b) - Paid(db.vendorPayments, m, b)
  BY <1>5 DEF MoneyIn, MoneyOut, Total
<1>7. ASSUME NEW b
      PROVE  CostGone(db.invoices, b) =
               Total(LAMBDA i : CostOut(db.invoices[i]),
                     {i \in DOMAIN db.invoices : db.invoices[i].branch = b})
  <2>. DEFINE v == [i \in DOMAIN db.invoices |-> CostOut(db.invoices[i])]
              key == [i \in DOMAIN db.invoices |-> db.invoices[i].branch]
              T == {i \in DOMAIN db.invoices : db.invoices[i].branch = b}
  <2>1. {j \in DOMAIN v : key[j] = b} = T
    OBVIOUS
  <2>2. [i \in T |-> v[i]] = [i \in T |-> CostOut(db.invoices[i])]
    OBVIOUS
  <2>3. Tally(v, key, b) = SumFunction([i \in T |-> v[i]])
    BY <2>1 DEF Tally
  <2>. QED
    BY <2>2, <2>3 DEF Total, CostGone
<1>8. ASSUME NEW c
      PROVE  Moved(db.moves, c) = Total(LAMBDA m : m.qty, {m \in db.moves : m.cell = c})
  <2>. DEFINE v == [m \in db.moves |-> m.qty]
              key == [m \in db.moves |-> m.cell]
              T == {m \in db.moves : m.cell = c}
  <2>1. {j \in DOMAIN v : key[j] = c} = T
    OBVIOUS
  <2>2. [i \in T |-> v[i]] = [m \in T |-> m.qty]
    OBVIOUS
  <2>3. Tally(v, key, c) = SumFunction([i \in T |-> v[i]])
    BY <2>1 DEF Tally
  <2>. QED
    BY <2>2, <2>3 DEF Total, Moved
<1>. QED
  BY <1>1, <1>2, <1>3, <1>4, <1>6, <1>7, <1>8 DEF BooksIn, BooksReconcile, Total

-----------------------------------------------------------------------------
(* What a row adds to the sums of its table *)

\* One more journal entry.
AddsEntry(journal, e) ==
  /\ journal \in SUBSET JournalEntry /\ IsFiniteSet(journal)
  /\ e \in JournalEntry /\ e \notin journal
\* What it adds to an account.
Net(e, a) == e.dr[a] - e.cr[a]

\* The balance of its branch grows by that.
LEMMA EntryBooked ==
  ASSUME NEW journal, NEW e, AddsEntry(journal, e), NEW a \in Account, NEW b
  PROVE  /\ Balance(journal \cup {e}, a, b) =
              Balance(journal, a, b) + IF e.stamp.branch = b THEN Net(e, a) ELSE 0
         /\ Balance(journal, a, b) \in Int /\ Net(e, a) \in Int
<1>0. /\ journal \in SUBSET JournalEntry /\ IsFiniteSet(journal)
      /\ e \in JournalEntry /\ e \notin journal
  BY DEF AddsEntry
<1>1. PICK v : v = [x \in journal |-> x.dr[a] - x.cr[a]]
  OBVIOUS
<1>2. PICK w : w = [x \in journal \cup {e} |-> x.dr[a] - x.cr[a]]
  OBVIOUS
<1>3. PICK key : key = [x \in journal |-> x.stamp.branch]
  OBVIOUS
<1>4. PICK lock : lock = [x \in journal \cup {e} |-> x.stamp.branch]
  OBVIOUS
<1>5. \A x \in journal \cup {e} : x.dr[a] - x.cr[a] \in Int
  BY <1>0 DEF JournalEntry, Lines
<1>6. Adds(journal, e, v, w, key, lock)
  BY <1>0, <1>1, <1>2, <1>3, <1>4, <1>5 DEF Adds
<1>7. /\ Tally(w, lock, b) = Tally(v, key, b) + IF lock[e] = b THEN w[e] ELSE 0
      /\ Tally(v, key, b) \in Int
  BY <1>6, TallyAdd
<1>8. lock[e] = e.stamp.branch /\ w[e] = Net(e, a)
  BY <1>2, <1>4 DEF Net
<1>9. Net(e, a) \in Int
  BY <1>5 DEF Net
<1>. QED
  BY <1>1, <1>2, <1>3, <1>4, <1>7, <1>8, <1>9 DEF Balance

\* One more row of the sub-ledgers.
LEMMA PartyBooked ==
  ASSUME NEW subledger \in SUBSET SubledgerEntry, IsFiniteSet(subledger),
         NEW s \in SubledgerEntry, s \notin subledger, NEW p, NEW b
  PROVE  /\ Owed(subledger \cup {s}, p, b) =
              Owed(subledger, p, b)
                + IF s.party = p /\ s.branch = b THEN s.debit - s.credit ELSE 0
         /\ Owed(subledger, p, b) \in Int
<1>1. PICK v : v = [x \in subledger |-> x.debit - x.credit]
  OBVIOUS
<1>2. PICK w : w = [x \in subledger \cup {s} |-> x.debit - x.credit]
  OBVIOUS
<1>3. PICK key : key = [x \in subledger |-> <<x.party, x.branch>>]
  OBVIOUS
<1>4. PICK lock : lock = [x \in subledger \cup {s} |-> <<x.party, x.branch>>]
  OBVIOUS
<1>5. \A x \in subledger \cup {s} : x.debit - x.credit \in Int
  BY DEF SubledgerEntry
<1>6. Adds(subledger, s, v, w, key, lock)
  BY <1>1, <1>2, <1>3, <1>4, <1>5 DEF Adds
<1>7. /\ Tally(w, lock, <<p, b>>) =
           Tally(v, key, <<p, b>>) + IF lock[s] = <<p, b>> THEN w[s] ELSE 0
      /\ Tally(v, key, <<p, b>>) \in Int
  BY <1>6, TallyAdd
<1>8. /\ w[s] = s.debit - s.credit
      /\ lock[s] = <<p, b>> <=> s.party = p /\ s.branch = b
  BY <1>2, <1>4
<1>. QED
  BY <1>1, <1>2, <1>3, <1>4, <1>7, <1>8 DEF Owed

\* One more movement.
LEMMA MoveBooked ==
  ASSUME NEW moves \in SUBSET Movement, IsFiniteSet(moves),
         NEW m \in Movement, m \notin moves, NEW c
  PROVE  /\ Moved(moves \cup {m}, c) =
              Moved(moves, c) + IF m.cell = c THEN m.qty ELSE 0
         /\ Moved(moves, c) \in Int
<1>1. PICK v : v = [x \in moves |-> x.qty]
  OBVIOUS
<1>2. PICK w : w = [x \in moves \cup {m} |-> x.qty]
  OBVIOUS
<1>3. PICK key : key = [x \in moves |-> x.cell]
  OBVIOUS
<1>4. PICK lock : lock = [x \in moves \cup {m} |-> x.cell]
  OBVIOUS
<1>5. \A x \in moves \cup {m} : x.qty \in Int
  BY DEF Movement
<1>6. Adds(moves, m, v, w, key, lock)
  BY <1>1, <1>2, <1>3, <1>4, <1>5 DEF Adds
<1>7. /\ Tally(w, lock, c) = Tally(v, key, c) + IF lock[m] = c THEN w[m] ELSE 0
      /\ Tally(v, key, c) \in Int
  BY <1>6, TallyAdd
<1>8. lock[m] = m.cell /\ w[m] = m.qty
  BY <1>2, <1>4
<1>. QED
  BY <1>1, <1>2, <1>3, <1>4, <1>7, <1>8 DEF Moved

\* The movements of a document move what it has of each product.
Goods(moves, r, doc, product, warehouse, qty, sign) ==
  /\ moves \in SUBSET Movement /\ IsFiniteSet(moves)
  /\ r.op \in Op /\ r.branch \in Branch /\ doc \in Id
  /\ product \in [Line -> Product] /\ warehouse \in [Line -> Warehouse]
  /\ qty \in [Line -> Nat] /\ sign \in {-1, 1}
  /\ \A m \in moves : m.source # <<r.op, doc>>

\* So they do, cell by cell.
LEMMA MovementsBooked ==
  ASSUME NEW moves, NEW r, NEW doc, NEW product, NEW warehouse, NEW qty, NEW sign,
         Goods(moves, r, doc, product, warehouse, qty, sign), NEW c \in Cell
  PROVE  LET more == Movements(r, doc, product, warehouse, qty, sign) IN
         /\ Moved(moves \cup more, c) =
              Moved(moves, c) + sign * Demand(product, warehouse, qty, c)
         /\ IsFiniteSet(moves \cup more)
         /\ Demand(product, warehouse, qty, c) \in Nat
         /\ Moved(moves, c) \in Int
<1>0. /\ moves \in SUBSET Movement /\ IsFiniteSet(moves)
      /\ r.op \in Op /\ r.branch \in Branch /\ doc \in Id
      /\ product \in [Line -> Product] /\ warehouse \in [Line -> Warehouse]
      /\ qty \in [Line -> Nat] /\ sign \in {-1, 1}
      /\ \A m \in moves : m.source # <<r.op, doc>>
  BY DEF Goods
<1>. DEFINE row(l) == [source |-> <<r.op, doc>>, branch |-> r.branch, line |-> l,
                       cell |-> <<product[l], warehouse[l]>>,
                       qty |-> sign * qty[l]]
            of(l) == IF qty[l] > 0 THEN {row(l)} ELSE {}
            part(l) == IF <<product[l], warehouse[l]>> = c THEN qty[l] ELSE 0
            first == moves \cup of(1)
            both == first \cup of(2)
<1>1. both = moves \cup Movements(r, doc, product, warehouse, qty, sign)
  BY DEF Movements, Present, Line
<1>2. \A l \in Line : /\ row(l) \in Movement /\ row(l) \notin moves
                      /\ row(l).cell = <<product[l], warehouse[l]>>
                      /\ row(l).qty = sign * qty[l]
                      /\ sign * qty[l] \in Int /\ qty[l] \in Nat
                      /\ row(l).source = <<r.op, doc>> /\ row(l).line = l
  <2>. TAKE l \in Line
  <2>1. qty[l] \in Nat /\ sign * qty[l] \in Int
    BY <1>0
  <2>2. <<product[l], warehouse[l]>> \in Cell
    BY <1>0 DEF Cell
  <2>3. row(l).source = <<r.op, doc>> /\ row(l).source \in Source
    BY <1>0 DEF Source
  <2>. QED
    BY <1>0, <2>1, <2>2, <2>3 DEF Movement
<1>3. row(2) \notin first
  <2>1. row(2) \notin moves /\ row(1) # row(2)
    BY <1>2 DEF Line
  <2>. QED
    BY <2>1
<1>4. 1 \in Line /\ 2 \in Line
  BY DEF Line
<1>5. Moved(moves, c) \in Int
  BY <1>0, MoveBooked, <1>2, <1>4
<1>6. /\ first \in SUBSET Movement /\ IsFiniteSet(first)
      /\ Moved(first, c) = Moved(moves, c) + sign * part(1)
  <2>1. CASE qty[1] > 0
    <3>1. first = moves \cup {row(1)}
      BY <2>1
    <3>2. row(1) \in Movement /\ row(1) \notin moves
      BY <1>2, <1>4
    <3>3. row(1).cell = <<product[1], warehouse[1]>> /\ row(1).qty = sign * qty[1]
          /\ qty[1] \in Nat
      BY <1>2, <1>4
    <3>4. IsFiniteSet(moves \cup {row(1)})
      BY <1>0, FS_AddElement
    <3>. HIDE DEF row, first
    <3>5. Moved(moves \cup {row(1)}, c) =
            Moved(moves, c) + IF row(1).cell = c THEN row(1).qty ELSE 0
      BY <1>0, <3>2, MoveBooked
    <3>6. part(1) = IF row(1).cell = c THEN qty[1] ELSE 0
      BY <3>3
    <3>. HIDE DEF part
    <3>7. Moved(first, c) = Moved(moves, c) + sign * part(1)
      <4>1. CASE row(1).cell = c
        BY <1>0, <3>1, <3>3, <3>5, <3>6, <4>1
      <4>2. CASE row(1).cell # c
        BY <1>0, <1>5, <3>1, <3>3, <3>5, <3>6, <4>2
      <4>. QED
        BY <4>1, <4>2
    <3>. QED
      BY <1>0, <3>1, <3>2, <3>4, <3>7
  <2>2. CASE ~(qty[1] > 0)
    <3>1. first = moves
      BY <2>2
    <3>2. qty[1] = 0
      BY <1>0, <1>4, <2>2
    <3>. QED
      BY <1>0, <1>5, <3>1, <3>2
  <2>. QED
    BY <2>1, <2>2
<1>7. /\ IsFiniteSet(both)
      /\ Moved(both, c) = Moved(first, c) + sign * part(2)
  <2>0. Moved(first, c) \in Int
    <3>. HIDE DEF first, row
    <3>. QED
      BY <1>6, <1>3, <1>2, <1>4, MoveBooked
  <2>1. CASE qty[2] > 0
    <3>1. both = first \cup {row(2)}
      BY <2>1
    <3>2. row(2) \in Movement /\ row(2) \notin first
      BY <1>2, <1>3, <1>4
    <3>3. row(2).cell = <<product[2], warehouse[2]>> /\ row(2).qty = sign * qty[2]
          /\ qty[2] \in Nat
      BY <1>2, <1>4
    <3>. HIDE DEF row, first, both
    <3>4. IsFiniteSet(first \cup {row(2)})
      BY <1>6, FS_AddElement
    <3>5. Moved(first \cup {row(2)}, c) =
            Moved(first, c) + IF row(2).cell = c THEN row(2).qty ELSE 0
      BY <1>6, <3>2, MoveBooked
    <3>6. part(2) = IF row(2).cell = c THEN qty[2] ELSE 0
      BY <3>3
    <3>. HIDE DEF part
    <3>7. Moved(both, c) = Moved(first, c) + sign * part(2)
      <4>1. CASE row(2).cell = c
        BY <1>0, <3>1, <3>3, <3>5, <3>6, <4>1
      <4>2. CASE row(2).cell # c
        BY <1>0, <2>0, <3>1, <3>3, <3>5, <3>6, <4>2
      <4>. QED
        BY <4>1, <4>2
    <3>. QED
      BY <3>1, <3>4, <3>7
  <2>2. CASE ~(qty[2] > 0)
    <3>1. both = first
      BY <2>2
    <3>2. qty[2] = 0
      BY <1>0, <1>4, <2>2
    <3>. HIDE DEF first, both
    <3>. QED
      BY <1>0, <1>6, <2>0, <3>1, <3>2
  <2>. QED
    BY <2>1, <2>2
<1>8. /\ Demand(product, warehouse, qty, c) = part(1) + part(2)
      /\ part(1) \in Nat /\ part(2) \in Nat
  <2>1. qty[1] \in Nat /\ qty[2] \in Nat
    BY <1>2, <1>4
  <2>. QED
    BY <1>4, <2>1 DEF Demand, Both
<1>. HIDE DEF first, both, part
<1>9. sign * part(1) + sign * part(2) = sign * (part(1) + part(2))
  BY <1>0, <1>8
<1>10. sign * part(1) \in Int /\ sign * part(2) \in Int
  BY <1>0, <1>8
<1>. QED
  BY <1>1, <1>5, <1>6, <1>7, <1>8, <1>9, <1>10

-----------------------------------------------------------------------------
(* What a document adds to the sums of its table *)

\* The documents of a table are finitely many, and one more is numbered next.
LEMMA NextDocument ==
  ASSUME NEW S, NEW docs \in Seq(S), NEW new \in S
  PROVE  LET n == Len(docs) + 1 IN
         /\ IsFiniteSet(DOMAIN docs)
         /\ n \notin DOMAIN docs
         /\ DOMAIN Append(docs, new) = DOMAIN docs \cup {n}
         /\ \A i \in DOMAIN docs : Append(docs, new)[i] = docs[i] /\ docs[i] \in S
         /\ Append(docs, new)[n] = new
<1>1. DOMAIN docs = 1 .. Len(docs) /\ Len(docs) \in Nat
  OBVIOUS
<1>2. IsFiniteSet(DOMAIN docs)
  <2>1. PICK m \in Nat : m = Len(docs)
    BY <1>1
  <2>2. IsFiniteSet(1 .. m)
    BY FS_Interval
  <2>. QED
    BY <1>1, <2>1, <2>2
<1>. QED
  BY <1>1, <1>2

\* What an invoice has outstanding and what its goods cost are numbers.
LEMMA InvoiceAmounts ==
  ASSUME NEW i \in Invoice
  PROVE  /\ Outstanding(i) \in Int
         /\ CostOut(i) \in Int
<1>1. /\ i.body \in SaleBody /\ i.paid \in Nat /\ i.credited \in Nat
      /\ \A l \in Line : i.returned[l] \in Nat
  BY DEF Invoice
<1>2. /\ i.body.grand \in Nat /\ i.body.rent \in Nat
      /\ \A l \in Line : i.body.qty[l] \in Nat /\ i.body.cost[l] \in Nat
  BY <1>1 DEF SaleBody
<1>3. Outstanding(i) \in Int
  BY <1>1, <1>2 DEF Outstanding, Billed
<1>4. 1 \in Line /\ 2 \in Line
  BY DEF Line
<1>5. /\ i.body.qty[1] - i.returned[1] \in Int /\ i.body.cost[1] \in Int
      /\ i.body.qty[2] - i.returned[2] \in Int /\ i.body.cost[2] \in Int
  BY <1>1, <1>2, <1>4
<1>6. CostOut(i) = (i.body.qty[1] - i.returned[1]) * i.body.cost[1]
                     + (i.body.qty[2] - i.returned[2]) * i.body.cost[2]
  BY <1>4 DEF CostOut, Cost, Both
<1>. QED
  BY <1>3, <1>5, <1>6

\* One more invoice.
LEMMA InvoiceBooked ==
  ASSUME NEW invoices \in Seq(Invoice), NEW new \in Invoice, NEW p, NEW b
  PROVE  LET more == Append(invoices, new) IN
         /\ Collectable(more, p, b) =
              Collectable(invoices, p, b)
                + IF new.body.customer = p /\ new.branch = b
                    THEN Outstanding(new) ELSE 0
         /\ CostGone(more, b) =
              CostGone(invoices, b) + IF new.branch = b THEN CostOut(new) ELSE 0
         /\ Collectable(invoices, p, b) \in Int
         /\ CostGone(invoices, b) \in Int
<1>. DEFINE more == Append(invoices, new)
            n == Len(invoices) + 1
            N == DOMAIN invoices
<1>1. /\ IsFiniteSet(N) /\ n \notin N /\ DOMAIN more = N \cup {n}
      /\ \A i \in N : more[i] = invoices[i] /\ invoices[i] \in Invoice
      /\ more[n] = new
  BY NextDocument
<1>2. \A i \in N \cup {n} : Outstanding(more[i]) \in Int /\ CostOut(more[i]) \in Int
  BY <1>1, InvoiceAmounts
<1>. HIDE DEF more, n, N
<1>3. PICK v : v = [i \in N |-> Outstanding(invoices[i])]
  OBVIOUS
<1>4. PICK w : w = [i \in N \cup {n} |-> Outstanding(more[i])]
  OBVIOUS
<1>5. PICK x : x = [i \in N |-> CostOut(invoices[i])]
  OBVIOUS
<1>6. PICK y : y = [i \in N \cup {n} |-> CostOut(more[i])]
  OBVIOUS
<1>7. PICK key : key = [i \in N |-> <<invoices[i].body.customer, invoices[i].branch>>]
  OBVIOUS
<1>8. PICK lock : lock = [i \in N \cup {n} |-> <<more[i].body.customer, more[i].branch>>]
  OBVIOUS
<1>9. PICK at : at = [i \in N |-> invoices[i].branch]
  OBVIOUS
<1>10. PICK by : by = [i \in N \cup {n} |-> more[i].branch]
  OBVIOUS
<1>11. Adds(N, n, v, w, key, lock)
  BY <1>1, <1>2, <1>3, <1>4, <1>7, <1>8 DEF Adds
<1>12. Adds(N, n, x, y, at, by)
  BY <1>1, <1>2, <1>5, <1>6, <1>9, <1>10 DEF Adds
<1>13. /\ Tally(w, lock, <<p, b>>) = Tally(v, key, <<p, b>>)
                                      + IF lock[n] = <<p, b>> THEN w[n] ELSE 0
       /\ Tally(v, key, <<p, b>>) \in Int
  BY <1>11, TallyAdd
<1>14. /\ Tally(y, by, b) = Tally(x, at, b) + IF by[n] = b THEN y[n] ELSE 0
       /\ Tally(x, at, b) \in Int
  BY <1>12, TallyAdd
<1>15. /\ lock[n] = <<p, b>> <=> new.body.customer = p /\ new.branch = b
       /\ w[n] = Outstanding(new) /\ by[n] = new.branch /\ y[n] = CostOut(new)
  BY <1>1, <1>4, <1>6, <1>8, <1>10
<1>16. /\ Collectable(invoices, p, b) = Tally(v, key, <<p, b>>)
       /\ CostGone(invoices, b) = Tally(x, at, b)
  BY <1>3, <1>5, <1>7, <1>9 DEF Collectable, CostGone, N
<1>17. /\ Collectable(more, p, b) = Tally(w, lock, <<p, b>>)
       /\ CostGone(more, b) = Tally(y, by, b)
  BY <1>1, <1>4, <1>6, <1>8, <1>10 DEF Collectable, CostGone
<1>18. /\ Collectable(more, p, b) =
            Collectable(invoices, p, b)
              + IF new.body.customer = p /\ new.branch = b
                  THEN Outstanding(new) ELSE 0
       /\ CostGone(more, b) =
            CostGone(invoices, b) + IF new.branch = b THEN CostOut(new) ELSE 0
  BY <1>13, <1>14, <1>15, <1>16, <1>17
<1>. QED
  BY <1>13, <1>14, <1>16, <1>18 DEF more

\* What a purchase has unpaid is a number.
LEMMA PurchaseUnpaid ==
  ASSUME NEW p \in Purchase
  PROVE  Unpaid(p) \in Int
<1>1. p.body \in PurchaseBody /\ p.paid \in Nat
  BY DEF Purchase
<1>2. Cost(p.body.qty, p.body.cost) \in Nat
  BY <1>1, CostNat DEF PurchaseBody
<1>3. p.body.discount \in Nat /\ p.body.tax \in Nat
  BY <1>1 DEF PurchaseBody
<1>. QED
  BY <1>1, <1>2, <1>3 DEF Unpaid, PurchaseTotal, PurchaseGoods

\* One more purchase.
LEMMA PurchaseBooked ==
  ASSUME NEW purchases \in Seq(Purchase), NEW new \in Purchase, NEW p, NEW b
  PROVE  LET more == Append(purchases, new) IN
         /\ Due(more, p, b) =
              Due(purchases, p, b)
                + IF new.body.vendor = p /\ new.branch = b THEN Unpaid(new) ELSE 0
         /\ Due(purchases, p, b) \in Int
<1>. DEFINE more == Append(purchases, new)
            n == Len(purchases) + 1
            N == DOMAIN purchases
<1>1. /\ IsFiniteSet(N) /\ n \notin N /\ DOMAIN more = N \cup {n}
      /\ \A i \in N : more[i] = purchases[i] /\ purchases[i] \in Purchase
      /\ more[n] = new
  BY NextDocument
<1>2. \A i \in N \cup {n} : Unpaid(more[i]) \in Int
  BY <1>1, PurchaseUnpaid
<1>. HIDE DEF more, n, N
<1>3. PICK v : v = [i \in N |-> Unpaid(purchases[i])]
  OBVIOUS
<1>4. PICK w : w = [i \in N \cup {n} |-> Unpaid(more[i])]
  OBVIOUS
<1>5. PICK key : key = [i \in N |-> <<purchases[i].body.vendor, purchases[i].branch>>]
  OBVIOUS
<1>6. PICK lock : lock = [i \in N \cup {n} |-> <<more[i].body.vendor, more[i].branch>>]
  OBVIOUS
<1>7. Adds(N, n, v, w, key, lock)
  BY <1>1, <1>2, <1>3, <1>4, <1>5, <1>6 DEF Adds
<1>8. /\ Tally(w, lock, <<p, b>>) = Tally(v, key, <<p, b>>)
                                     + IF lock[n] = <<p, b>> THEN w[n] ELSE 0
      /\ Tally(v, key, <<p, b>>) \in Int
  BY <1>7, TallyAdd
<1>9. /\ lock[n] = <<p, b>> <=> new.body.vendor = p /\ new.branch = b
      /\ w[n] = Unpaid(new)
  BY <1>1, <1>4, <1>6
<1>10. Due(purchases, p, b) = Tally(v, key, <<p, b>>)
  BY <1>3, <1>5 DEF Due, N
<1>11. Due(more, p, b) = Tally(w, lock, <<p, b>>)
  BY <1>1, <1>4, <1>6 DEF Due
<1>12. Due(more, p, b) =
         Due(purchases, p, b)
           + IF new.body.vendor = p /\ new.branch = b THEN Unpaid(new) ELSE 0
  BY <1>8, <1>9, <1>10, <1>11
<1>. QED
  BY <1>8, <1>10, <1>12 DEF more

\* One more payment.
LEMMA PaymentBooked ==
  ASSUME NEW S, NEW payments \in Seq(S), NEW new \in S,
         \A x \in S : x.body.amount \in Int, NEW m, NEW b
  PROVE  LET more == Append(payments, new) IN
         /\ Paid(more, m, b) =
              Paid(payments, m, b)
                + IF new.body.method = m /\ new.branch = b
                    THEN new.body.amount ELSE 0
         /\ Paid(payments, m, b) \in Int
<1>. DEFINE more == Append(payments, new)
            n == Len(payments) + 1
            N == DOMAIN payments
<1>1. /\ IsFiniteSet(N) /\ n \notin N /\ DOMAIN more = N \cup {n}
      /\ \A i \in N : more[i] = payments[i] /\ payments[i] \in S
      /\ more[n] = new
  BY NextDocument
<1>2. \A i \in N \cup {n} : more[i].body.amount \in Int
  BY <1>1
<1>. HIDE DEF more, n, N
<1>3. PICK v : v = [i \in N |-> payments[i].body.amount]
  OBVIOUS
<1>4. PICK w : w = [i \in N \cup {n} |-> more[i].body.amount]
  OBVIOUS
<1>5. PICK key : key = [i \in N |-> <<payments[i].body.method, payments[i].branch>>]
  OBVIOUS
<1>6. PICK lock : lock = [i \in N \cup {n} |-> <<more[i].body.method, more[i].branch>>]
  OBVIOUS
<1>7. Adds(N, n, v, w, key, lock)
  BY <1>1, <1>2, <1>3, <1>4, <1>5, <1>6 DEF Adds
<1>8. /\ Tally(w, lock, <<m, b>>) = Tally(v, key, <<m, b>>)
                                     + IF lock[n] = <<m, b>> THEN w[n] ELSE 0
      /\ Tally(v, key, <<m, b>>) \in Int
  BY <1>7, TallyAdd
<1>9. /\ lock[n] = <<m, b>> <=> new.body.method = m /\ new.branch = b
      /\ w[n] = new.body.amount
  BY <1>1, <1>4, <1>6
<1>10. Paid(payments, m, b) = Tally(v, key, <<m, b>>)
  BY <1>3, <1>5 DEF Paid, N
<1>11. Paid(more, m, b) = Tally(w, lock, <<m, b>>)
  BY <1>1, <1>4, <1>6 DEF Paid
<1>12. Paid(more, m, b) =
         Paid(payments, m, b)
           + IF new.body.method = m /\ new.branch = b THEN new.body.amount ELSE 0
  BY <1>8, <1>9, <1>10, <1>11
<1>. QED
  BY <1>8, <1>10, <1>12 DEF more

-----------------------------------------------------------------------------
(* What a payment and a return take off documents *)

\* What is allocated to the documents of one party and branch, who has all that
\* are allocated to, is the amount of the payment.
Settles(alloc, amount, N, d, key, owner) ==
  /\ IsFiniteSet(N) /\ alloc \in Allocation
  /\ WellAllocated(alloc, amount, N)
  /\ d = [i \in N |-> AllocatedTo(alloc, i)]
  /\ \A x \in alloc : key[x.doc] = owner

\* That is all there is under its key.
LEMMA AllocatedSum ==
  ASSUME NEW alloc, NEW amount, NEW N, NEW d, NEW key, NEW owner,
         Settles(alloc, amount, N, d, key, owner), NEW k
  PROVE  Tally(d, key, k) = IF k = owner THEN amount ELSE 0
<1>0. /\ IsFiniteSet(N) /\ alloc \in Allocation
      /\ WellAllocated(alloc, amount, N)
      /\ d = [i \in N |-> AllocatedTo(alloc, i)]
      /\ \A x \in alloc : key[x.doc] = owner
  BY DEF Settles
<1>1. /\ \A x, y \in alloc : x.doc = y.doc => x = y
      /\ \A x \in alloc : x.amount \in Nat /\ x.doc \in N
      /\ SumFunction([x \in alloc |-> x.amount]) = amount
  BY <1>0 DEF WellAllocated, Allocation
<1>2. \A i \in N : AllocatedTo(alloc, i) \in Nat
  BY <1>0, AllocatedNat
<1>3. d = [i \in N |-> AllocatedTo(alloc, i)]
  BY <1>0
<1>4. d \in [N -> Int] /\ DOMAIN d = N
  BY <1>2, <1>3
<1>5. ASSUME k # owner PROVE Tally(d, key, k) = 0
  <2>1. \A i \in N : key[i] = k => d[i] = 0
    BY <1>0, <1>3, <1>5 DEF AllocatedTo
  <2>. QED
    BY <1>0, <1>4, <2>1, TallyType
<1>6. ASSUME k = owner PROVE Tally(d, key, k) = amount
  <2>. DEFINE T == {i \in N : key[i] = k}
  <2>1. PICK m : m = [x \in alloc |-> x.doc]
    OBVIOUS
  <2>2. PICK F : F = [x \in alloc |-> x.amount]
    OBVIOUS
  <2>3. PICK G : G = [i \in T |-> d[i]]
    OBVIOUS
  <2>4. IsFiniteSet(T)
    BY <1>0, FS_Subset
  <2>5. /\ m \in [alloc -> T] /\ \A x, y \in alloc : m[x] = m[y] => x = y
    BY <1>0, <1>1, <1>6, <2>1
  <2>6. IsFiniteSet(alloc)
    <3>1. m \in Injection(alloc, T)
      BY <2>5 DEF Injection, IsInjective
    <3>. HIDE DEF T
    <3>. QED
      BY <2>4, <3>1, FS_Injection
  <2>7. F \in [alloc -> Int] /\ G \in [T -> Int]
    BY <1>1, <1>4, <2>2, <2>3
  <2>8. \A x \in alloc : G[m[x]] = F[x]
    <3>. TAKE x \in alloc
    <3>1. m[x] = x.doc /\ x.doc \in T
      BY <2>1, <2>5
    <3>2. AllocatedTo(alloc, x.doc) = x.amount
      BY <1>1 DEF AllocatedTo
    <3>. QED
      BY <1>3, <2>2, <2>3, <3>1, <3>2
  <2>9. \A y \in T : (\A x \in alloc : m[x] # y) => G[y] = 0
    BY <1>3, <2>1, <2>3 DEF AllocatedTo
  <2>10. Carries(m, alloc, F, T, G)
    BY <2>4, <2>5, <2>6, <2>7, <2>8, <2>9 DEF Carries
  <2>11. SumFunction(G) = SumFunction(F)
    BY <2>10, SumMoved
  <2>12. Tally(d, key, k) = SumFunction(G)
    BY <1>4, <2>3 DEF Tally
  <2>. QED
    BY <1>1, <2>2, <2>11, <2>12
<1>. QED
  BY <1>5, <1>6

\* A receipt takes its amount off what its customer owes, and no goods move.
Receives(invoices, alloc, amount, customer, branch, later) ==
  /\ invoices \in Seq(Invoice) /\ alloc \in Allocation /\ amount \in Nat
  /\ WellAllocated(alloc, amount, DOMAIN invoices)
  /\ \A x \in alloc : /\ invoices[x.doc].body.customer = customer
                      /\ invoices[x.doc].branch = branch
  /\ later = [i \in DOMAIN invoices |->
                IF \E x \in alloc : x.doc = i
                  THEN Settled(invoices[i], AllocatedTo(alloc, i))
                  ELSE invoices[i]]

\* So do the sums.
LEMMA ReceiptBooked ==
  ASSUME NEW invoices, NEW alloc, NEW amount, NEW customer, NEW branch, NEW later,
         Receives(invoices, alloc, amount, customer, branch, later), NEW p, NEW b
  PROVE  /\ Collectable(later, p, b) =
              Collectable(invoices, p, b)
                - IF customer = p /\ branch = b THEN amount ELSE 0
         /\ CostGone(later, b) = CostGone(invoices, b)
         /\ Collectable(invoices, p, b) \in Int
         /\ CostGone(invoices, b) \in Int
<1>0. /\ invoices \in Seq(Invoice) /\ alloc \in Allocation /\ amount \in Nat
      /\ WellAllocated(alloc, amount, DOMAIN invoices)
      /\ \A x \in alloc : /\ invoices[x.doc].body.customer = customer
                          /\ invoices[x.doc].branch = branch
      /\ later = [i \in DOMAIN invoices |->
                    IF \E x \in alloc : x.doc = i
                      THEN Settled(invoices[i], AllocatedTo(alloc, i))
                      ELSE invoices[i]]
  BY DEF Receives
<1>. USE <1>0
<1>. DEFINE N == DOMAIN invoices
<1>1. IsFiniteSet(N) /\ \A i \in N : invoices[i] \in Invoice
  <2>1. N = 1 .. Len(invoices) /\ Len(invoices) \in Nat
    OBVIOUS
  <2>. QED
    BY <2>1, FS_Interval
<1>2. DOMAIN later = N
  OBVIOUS
<1>3. ASSUME NEW i \in N
      PROVE  /\ later[i].branch = invoices[i].branch
             /\ later[i].body = invoices[i].body
             /\ later[i].credited = invoices[i].credited
             /\ later[i].returned = invoices[i].returned
             /\ later[i].paid = invoices[i].paid + AllocatedTo(alloc, i)
  <2>1. invoices[i] \in Invoice /\ invoices[i].paid \in Nat
    BY <1>1 DEF Invoice
  <2>2. CASE \E x \in alloc : x.doc = i
    <3>1. later[i] = Settled(invoices[i], AllocatedTo(alloc, i))
      BY <2>2
    <3>. QED
      BY <2>1, <3>1 DEF Settled, Invoice
  <2>3. CASE ~ \E x \in alloc : x.doc = i
    <3>1. later[i] = invoices[i] /\ AllocatedTo(alloc, i) = 0
      BY <2>3 DEF AllocatedTo
    <3>. QED
      BY <2>1, <3>1
  <2>. QED
    BY <2>2, <2>3
<1>4. \A i \in N : /\ Outstanding(invoices[i]) \in Int
                   /\ CostOut(invoices[i]) \in Int
                   /\ AllocatedTo(alloc, i) \in Nat
  BY <1>1, InvoiceAmounts, AllocatedNat
<1>5. \A i \in N : /\ Outstanding(invoices[i]) =
                        Outstanding(later[i]) + AllocatedTo(alloc, i)
                   /\ Outstanding(later[i]) \in Int
  <2>. TAKE i \in N
  <2>1. /\ invoices[i].paid \in Nat /\ invoices[i].credited \in Nat
        /\ Billed(invoices[i].body) \in Nat
    <3>1. /\ invoices[i].paid \in Nat /\ invoices[i].credited \in Nat
          /\ invoices[i].body \in SaleBody
      BY <1>1 DEF Invoice
    <3>2. invoices[i].body.grand \in Nat /\ invoices[i].body.rent \in Nat
      BY <3>1 DEF SaleBody
    <3>. QED
      BY <3>1, <3>2 DEF Billed
  <2>2. PICK bill : bill = Billed(invoices[i].body)
    OBVIOUS
  <2>3. /\ Outstanding(invoices[i]) = bill - invoices[i].paid - invoices[i].credited
        /\ Outstanding(later[i]) =
             bill - (invoices[i].paid + AllocatedTo(alloc, i)) - invoices[i].credited
        /\ bill \in Nat /\ invoices[i].paid \in Nat /\ invoices[i].credited \in Nat
        /\ AllocatedTo(alloc, i) \in Nat
    BY <1>3, <1>4, <2>1, <2>2 DEF Outstanding
  <2>. QED
    BY ONLY <2>3
<1>6. \A i \in N : CostOut(later[i]) = CostOut(invoices[i])
  BY <1>3 DEF CostOut
<1>8. PICK v : v = [i \in N |-> Outstanding(later[i])]
  OBVIOUS
<1>9. PICK w : w = [i \in N |-> Outstanding(invoices[i])]
  OBVIOUS
<1>10. PICK d : d = [i \in N |-> AllocatedTo(alloc, i)]
  OBVIOUS
<1>11. PICK key : key = [i \in N |-> <<invoices[i].body.customer, invoices[i].branch>>]
  OBVIOUS
<1>12. Moves(N, v, w, d, key, key)
  BY <1>1, <1>4, <1>5, <1>8, <1>9, <1>10 DEF Moves
<1>13. /\ Tally(w, key, <<p, b>>) = Tally(v, key, <<p, b>>) + Tally(d, key, <<p, b>>)
       /\ Tally(v, key, <<p, b>>) \in Int
  BY <1>12, TallyPlus
<1>14. Tally(d, key, <<p, b>>) = IF customer = p /\ branch = b THEN amount ELSE 0
  <2>1. \A x \in alloc : key[x.doc] = <<customer, branch>>
    BY <1>11 DEF WellAllocated
  <2>2. Settles(alloc, amount, N, d, key, <<customer, branch>>)
    BY <1>1, <1>10, <2>1 DEF Settles
  <2>3. Tally(d, key, <<p, b>>) = IF <<p, b>> = <<customer, branch>> THEN amount ELSE 0
    BY ONLY <2>2, AllocatedSum
  <2>. QED
    BY <2>3
<1>15. Collectable(invoices, p, b) = Tally(w, key, <<p, b>>)
  BY <1>9, <1>11 DEF Collectable
<1>16. Collectable(later, p, b) = Tally(v, key, <<p, b>>)
  <2>1. key = [i \in N |-> <<later[i].body.customer, later[i].branch>>]
    BY <1>3, <1>11
  <2>. QED
    BY <1>2, <1>8, <2>1 DEF Collectable
<1>17. CostGone(later, b) = CostGone(invoices, b)
  <2>1. /\ [i \in N |-> CostOut(later[i])] = [i \in N |-> CostOut(invoices[i])]
        /\ [i \in N |-> later[i].branch] = [i \in N |-> invoices[i].branch]
    BY <1>3, <1>6
  <2>. QED
    BY <1>2, <2>1 DEF CostGone
<1>18. CostGone(invoices, b) \in Int
  <2>1. PICK x : x = [i \in N |-> CostOut(invoices[i])]
    OBVIOUS
  <2>2. x \in [N -> Int]
    BY <1>4, <2>1
  <2>. HIDE DEF N
  <2>3. Tally(x, [i \in N |-> invoices[i].branch], b) \in Int
    BY <1>1, <2>2, TallyType
  <2>. QED
    BY <2>1, <2>3 DEF CostGone, N
<1>19. Collectable(later, p, b) =
         Collectable(invoices, p, b) - IF customer = p /\ branch = b THEN amount ELSE 0
  <2>. HIDE DEF N
  <2>. QED
    BY <1>13, <1>14, <1>15, <1>16
<1>20. Collectable(invoices, p, b) \in Int
  BY <1>13, <1>14, <1>15
<1>. QED
  BY <1>17, <1>18, <1>19, <1>20

\* A vendor payment takes its amount off what its vendor is owed.
Pays(purchases, alloc, amount, vendor, branch, later) ==
  /\ purchases \in Seq(Purchase) /\ alloc \in Allocation /\ amount \in Nat
  /\ WellAllocated(alloc, amount, DOMAIN purchases)
  /\ \A x \in alloc : /\ purchases[x.doc].body.vendor = vendor
                      /\ purchases[x.doc].branch = branch
  /\ later = [i \in DOMAIN purchases |->
                Paying(purchases[i], AllocatedTo(alloc, i))]

\* So do the sums.
LEMMA VendorPaymentBooked ==
  ASSUME NEW purchases, NEW alloc, NEW amount, NEW vendor, NEW branch, NEW later,
         Pays(purchases, alloc, amount, vendor, branch, later), NEW p, NEW b
  PROVE  /\ Due(later, p, b) =
              Due(purchases, p, b) - IF vendor = p /\ branch = b THEN amount ELSE 0
         /\ Due(purchases, p, b) \in Int
<1>0. /\ purchases \in Seq(Purchase) /\ alloc \in Allocation /\ amount \in Nat
      /\ WellAllocated(alloc, amount, DOMAIN purchases)
      /\ \A x \in alloc : /\ purchases[x.doc].body.vendor = vendor
                          /\ purchases[x.doc].branch = branch
      /\ later = [i \in DOMAIN purchases |->
                    Paying(purchases[i], AllocatedTo(alloc, i))]
  BY DEF Pays
<1>. USE <1>0
<1>. DEFINE N == DOMAIN purchases
<1>1. IsFiniteSet(N) /\ \A i \in N : purchases[i] \in Purchase
  <2>1. N = 1 .. Len(purchases) /\ Len(purchases) \in Nat
    OBVIOUS
  <2>. QED
    BY <2>1, FS_Interval
<1>2. DOMAIN later = N
  OBVIOUS
<1>3. ASSUME NEW i \in N
      PROVE  /\ later[i].branch = purchases[i].branch
             /\ later[i].body = purchases[i].body
             /\ later[i].paid = purchases[i].paid + AllocatedTo(alloc, i)
             /\ purchases[i].paid \in Nat
  <2>1. purchases[i] \in Purchase /\ purchases[i].paid \in Nat
    BY <1>1 DEF Purchase
  <2>2. later[i] = Paying(purchases[i], AllocatedTo(alloc, i))
    OBVIOUS
  <2>. QED
    BY <2>1, <2>2 DEF Paying, Purchase
<1>4. \A i \in N : Unpaid(purchases[i]) \in Int /\ AllocatedTo(alloc, i) \in Nat
  BY <1>1, PurchaseUnpaid, AllocatedNat
<1>5. \A i \in N : /\ Unpaid(purchases[i]) = Unpaid(later[i]) + AllocatedTo(alloc, i)
                   /\ Unpaid(later[i]) \in Int
  <2>. TAKE i \in N
  <2>1. PurchaseTotal(purchases[i].body) \in Int
    <3>1. purchases[i].body \in PurchaseBody
      BY <1>1 DEF Purchase
    <3>2. Cost(purchases[i].body.qty, purchases[i].body.cost) \in Nat
      BY <3>1, CostNat DEF PurchaseBody
    <3>3. purchases[i].body.discount \in Nat /\ purchases[i].body.tax \in Nat
      BY <3>1 DEF PurchaseBody
    <3>. QED
      BY <3>2, <3>3 DEF PurchaseTotal, PurchaseGoods
  <2>2. PICK total : total = PurchaseTotal(purchases[i].body)
    OBVIOUS
  <2>3. /\ Unpaid(purchases[i]) = total - purchases[i].paid
        /\ Unpaid(later[i]) = total - (purchases[i].paid + AllocatedTo(alloc, i))
        /\ total \in Int /\ purchases[i].paid \in Nat
        /\ AllocatedTo(alloc, i) \in Nat
    BY <1>3, <1>4, <2>1, <2>2 DEF Unpaid
  <2>. HIDE DEF N
  <2>. QED
    BY <2>3
<1>8. PICK v : v = [i \in N |-> Unpaid(later[i])]
  OBVIOUS
<1>9. PICK w : w = [i \in N |-> Unpaid(purchases[i])]
  OBVIOUS
<1>10. PICK d : d = [i \in N |-> AllocatedTo(alloc, i)]
  OBVIOUS
<1>11. PICK key : key = [i \in N |-> <<purchases[i].body.vendor, purchases[i].branch>>]
  OBVIOUS
<1>12. Moves(N, v, w, d, key, key)
  BY <1>1, <1>4, <1>5, <1>8, <1>9, <1>10 DEF Moves
<1>13. /\ Tally(w, key, <<p, b>>) = Tally(v, key, <<p, b>>) + Tally(d, key, <<p, b>>)
       /\ Tally(v, key, <<p, b>>) \in Int
  BY <1>12, TallyPlus
<1>14. Tally(d, key, <<p, b>>) = IF vendor = p /\ branch = b THEN amount ELSE 0
  <2>1. \A x \in alloc : key[x.doc] = <<vendor, branch>>
    BY <1>11 DEF WellAllocated
  <2>2. Settles(alloc, amount, N, d, key, <<vendor, branch>>)
    BY <1>1, <1>10, <2>1 DEF Settles
  <2>3. Tally(d, key, <<p, b>>) = IF <<p, b>> = <<vendor, branch>> THEN amount ELSE 0
    BY ONLY <2>2, AllocatedSum
  <2>. QED
    BY <2>3
<1>15. Due(purchases, p, b) = Tally(w, key, <<p, b>>)
  BY <1>9, <1>11 DEF Due
<1>16. Due(later, p, b) = Tally(v, key, <<p, b>>)
  <2>1. key = [i \in N |-> <<later[i].body.vendor, later[i].branch>>]
    BY <1>3, <1>11
  <2>. QED
    BY <1>2, <1>8, <2>1 DEF Due
<1>. HIDE DEF N
<1>. QED
  BY <1>13, <1>14, <1>15, <1>16

\* Arithmetic the solver is told.
LEMMA LessTimes ==
  ASSUME NEW x \in Int, NEW y \in Int, NEW k \in Int
  PROVE  (x - y) * k = x * k - y * k
  BY SMT

\* What a credited invoice has outstanding, and what of its goods is gone.
LEMMA CreditedAmounts ==
  ASSUME NEW i \in Invoice, NEW b \in ReturnBody, CreditValue(i, b) \in Nat
  PROVE  /\ Outstanding(Credited(i, b)) = Outstanding(i) - CreditValue(i, b)
         /\ CostOut(Credited(i, b)) = CostOut(i) - CreditCogs(i, b)
         /\ Credited(i, b).body = i.body /\ Credited(i, b).branch = i.branch
         /\ CreditCogs(i, b) \in Nat
<1>. DEFINE j == Credited(i, b)
<1>1. /\ j.body = i.body /\ j.branch = i.branch /\ j.paid = i.paid
      /\ j.credited = i.credited + CreditValue(i, b)
      /\ \A l \in Line : j.returned[l] = i.returned[l] + b.items[l]
  BY DEF Credited, Invoice
<1>2. /\ i.paid \in Nat /\ i.credited \in Nat /\ i.body \in SaleBody
      /\ \A l \in Line : i.returned[l] \in Nat /\ b.items[l] \in Nat
  BY DEF Invoice, ReturnBody
<1>3. /\ i.body.grand \in Nat /\ i.body.rent \in Nat
      /\ \A l \in Line : i.body.qty[l] \in Nat /\ i.body.cost[l] \in Nat
  BY <1>2 DEF SaleBody
<1>4. Billed(i.body) \in Nat
  BY <1>3 DEF Billed
<1>5. PICK bill, value : bill = Billed(i.body) /\ value = CreditValue(i, b)
  OBVIOUS
<1>. HIDE DEF j
<1>6. Outstanding(j) = Outstanding(i) - value
  <2>1. /\ Outstanding(j) = bill - i.paid - (i.credited + value)
        /\ Outstanding(i) = bill - i.paid - i.credited
        /\ bill \in Nat /\ value \in Nat /\ i.paid \in Nat /\ i.credited \in Nat
    BY <1>1, <1>2, <1>4, <1>5 DEF Outstanding
  <2>. QED
    BY <2>1
<1>7. 1 \in Line /\ 2 \in Line
  BY DEF Line
<1>8. /\ CostOut(i) = (i.body.qty[1] - i.returned[1]) * i.body.cost[1]
                        + (i.body.qty[2] - i.returned[2]) * i.body.cost[2]
      /\ CreditCogs(i, b) = b.items[1] * i.body.cost[1] + b.items[2] * i.body.cost[2]
  BY <1>7 DEF CostOut, CreditCogs, Cost, Both
<1>9. CostOut(j) = (i.body.qty[1] - (i.returned[1] + b.items[1])) * i.body.cost[1]
                     + (i.body.qty[2] - (i.returned[2] + b.items[2])) * i.body.cost[2]
  BY <1>1, <1>7 DEF CostOut, Cost, Both
<1>10. ASSUME NEW l \in Line
       PROVE  /\ (i.body.qty[l] - (i.returned[l] + b.items[l])) * i.body.cost[l]
                   = (i.body.qty[l] - i.returned[l]) * i.body.cost[l]
                       - b.items[l] * i.body.cost[l]
              /\ (i.body.qty[l] - i.returned[l]) * i.body.cost[l] \in Int
              /\ b.items[l] * i.body.cost[l] \in Nat
  <2>1. PICK q, s, n, c : /\ q = i.body.qty[l] /\ s = i.returned[l]
                          /\ n = b.items[l] /\ c = i.body.cost[l]
    OBVIOUS
  <2>2. q \in Nat /\ s \in Nat /\ n \in Nat /\ c \in Nat
    BY <1>2, <1>3, <2>1
  <2>3. q - (s + n) = (q - s) - n /\ q - s \in Int
    BY ONLY <2>2
  <2>4. (q - (s + n)) * c = (q - s) * c - n * c
    <3>1. ((q - s) - n) * c = (q - s) * c - n * c
      BY <2>2, <2>3, LessTimes
    <3>. QED
      BY <2>3, <3>1
  <2>5. n * c \in Nat
    BY <2>2, TimesNat
  <2>6. (q - s) * c \in Int
    BY ONLY <2>2, <2>3
  <2>. QED
    BY <2>1, <2>4, <2>5, <2>6
<1>11. CostOut(j) = CostOut(i) - CreditCogs(i, b) /\ CreditCogs(i, b) \in Nat
  <2>1. PICK g1, g2, n1, n2 :
          /\ g1 = (i.body.qty[1] - i.returned[1]) * i.body.cost[1]
          /\ g2 = (i.body.qty[2] - i.returned[2]) * i.body.cost[2]
          /\ n1 = b.items[1] * i.body.cost[1]
          /\ n2 = b.items[2] * i.body.cost[2]
    OBVIOUS
  <2>2. /\ CostOut(j) = (g1 - n1) + (g2 - n2)
        /\ CostOut(i) = g1 + g2 /\ CreditCogs(i, b) = n1 + n2
        /\ g1 \in Int /\ g2 \in Int /\ n1 \in Nat /\ n2 \in Nat
    BY <1>7, <1>8, <1>9, <1>10, <2>1
  <2>. QED
    BY ONLY <2>2
<1>. QED
  BY <1>1, <1>5, <1>6, <1>11 DEF j

\* A return takes its credit off what its customer owes and its cost off what
\* the goods that are gone have cost.
Returns(invoices, k, body, later) ==
  /\ invoices \in Seq(Invoice) /\ k \in DOMAIN invoices
  /\ body \in ReturnBody /\ CreditValue(invoices[k], body) \in Nat
  /\ later = [invoices EXCEPT ![k] = Credited(invoices[k], body)]

\* So do the sums.
LEMMA ReturnBooked ==
  ASSUME NEW invoices, NEW k, NEW body, NEW later,
         Returns(invoices, k, body, later), NEW p, NEW b
  PROVE  /\ Collectable(later, p, b) =
              Collectable(invoices, p, b)
                - IF invoices[k].body.customer = p /\ invoices[k].branch = b
                    THEN CreditValue(invoices[k], body) ELSE 0
         /\ CostGone(later, b) =
              CostGone(invoices, b)
                - IF invoices[k].branch = b THEN CreditCogs(invoices[k], body) ELSE 0
         /\ Collectable(invoices, p, b) \in Int
         /\ CostGone(invoices, b) \in Int
<1>0. /\ invoices \in Seq(Invoice) /\ k \in DOMAIN invoices
      /\ body \in ReturnBody /\ CreditValue(invoices[k], body) \in Nat
      /\ later = [invoices EXCEPT ![k] = Credited(invoices[k], body)]
  BY DEF Returns
<1>. USE <1>0
<1>. DEFINE N == DOMAIN invoices
            i == invoices[k]
<1>1. IsFiniteSet(N) /\ k \in N /\ \A n \in N : invoices[n] \in Invoice
  <2>1. /\ N = 1 .. Len(invoices) /\ Len(invoices) \in Nat
        /\ \A n \in N : invoices[n] \in Invoice
    OBVIOUS
  <2>2. IsFiniteSet(N)
    BY ONLY <2>1, FS_Interval
  <2>. QED
    BY <2>1, <2>2
<1>2. /\ DOMAIN later = N /\ later[k] = Credited(i, body)
      /\ \A n \in N \ {k} : later[n] = invoices[n]
  OBVIOUS
<1>3. i \in Invoice
  BY <1>1
<1>4. /\ Outstanding(Credited(i, body)) = Outstanding(i) - CreditValue(i, body)
      /\ CostOut(Credited(i, body)) = CostOut(i) - CreditCogs(i, body)
      /\ Credited(i, body).body = i.body /\ Credited(i, body).branch = i.branch
      /\ CreditCogs(i, body) \in Nat /\ CreditValue(i, body) \in Nat
      /\ Outstanding(i) \in Int /\ CostOut(i) \in Int
  BY <1>3, CreditedAmounts, InvoiceAmounts
<1>5. \A n \in N : /\ Outstanding(invoices[n]) \in Int
                   /\ CostOut(invoices[n]) \in Int
  BY <1>1, InvoiceAmounts
<1>6. PICK value, cogs : value = CreditValue(i, body) /\ cogs = CreditCogs(i, body)
  OBVIOUS
<1>. HIDE DEF N, i
<1>7. \A n \in N : /\ Outstanding(later[n]) \in Int /\ CostOut(later[n]) \in Int
                   /\ later[n].branch = invoices[n].branch
                   /\ later[n].body = invoices[n].body
  <2>. TAKE n \in N
  <2>1. CASE n = k
    <3>1. /\ Outstanding(later[n]) = Outstanding(i) - value
          /\ CostOut(later[n]) = CostOut(i) - cogs
          /\ Outstanding(i) \in Int /\ CostOut(i) \in Int
          /\ value \in Nat /\ cogs \in Nat
      BY <1>2, <1>4, <1>6, <2>1
    <3>2. Outstanding(later[n]) \in Int /\ CostOut(later[n]) \in Int
      BY ONLY <3>1
    <3>. QED
      BY <1>2, <1>4, <2>1, <3>2 DEF i
  <2>2. CASE n # k
    BY <1>2, <1>5, <2>2
  <2>. QED
    BY <2>1, <2>2
<1>8. PICK v : v = [n \in N |-> Outstanding(invoices[n])]
  OBVIOUS
<1>9. PICK w : w = [n \in N |-> Outstanding(later[n])]
  OBVIOUS
<1>10. PICK x : x = [n \in N |-> CostOut(invoices[n])]
  OBVIOUS
<1>11. PICK y : y = [n \in N |-> CostOut(later[n])]
  OBVIOUS
<1>12. PICK key : key = [n \in N |-> <<invoices[n].body.customer, invoices[n].branch>>]
  OBVIOUS
<1>13. PICK at : at = [n \in N |-> invoices[n].branch]
  OBVIOUS
<1>14. Differs(N, k, v, w, key, key)
  BY <1>1, <1>2, <1>5, <1>7, <1>8, <1>9 DEF Differs
<1>15. Differs(N, k, x, y, at, at)
  BY <1>1, <1>2, <1>5, <1>7, <1>10, <1>11 DEF Differs
<1>16. /\ Tally(w, key, <<p, b>>) = Tally(v, key, <<p, b>>)
                                     + IF key[k] = <<p, b>> THEN w[k] - v[k] ELSE 0
       /\ Tally(v, key, <<p, b>>) \in Int
  BY <1>14, TallyChange
<1>17. /\ Tally(y, at, b) = Tally(x, at, b) + IF at[k] = b THEN y[k] - x[k] ELSE 0
       /\ Tally(x, at, b) \in Int
  BY <1>15, TallyChange
<1>18. /\ key[k] = <<p, b>> <=> i.body.customer = p /\ i.branch = b
       /\ at[k] = i.branch
  BY <1>1, <1>12, <1>13 DEF i
<1>19. w[k] - v[k] = - value /\ y[k] - x[k] = - cogs
  <2>1. /\ w[k] = Outstanding(i) - value /\ v[k] = Outstanding(i)
        /\ y[k] = CostOut(i) - cogs /\ x[k] = CostOut(i)
        /\ Outstanding(i) \in Int /\ CostOut(i) \in Int
        /\ value \in Nat /\ cogs \in Nat
    BY <1>1, <1>2, <1>4, <1>6, <1>8, <1>9, <1>10, <1>11 DEF i
  <2>. QED
    BY ONLY <2>1
<1>20. /\ Collectable(invoices, p, b) = Tally(v, key, <<p, b>>)
       /\ CostGone(invoices, b) = Tally(x, at, b)
  BY <1>8, <1>10, <1>12, <1>13 DEF Collectable, CostGone, N
<1>21. /\ Collectable(later, p, b) = Tally(w, key, <<p, b>>)
       /\ CostGone(later, b) = Tally(y, at, b)
  <2>1. /\ key = [n \in N |-> <<later[n].body.customer, later[n].branch>>]
        /\ at = [n \in N |-> later[n].branch]
    BY <1>7, <1>12, <1>13
  <2>. QED
    BY <1>2, <1>9, <1>11, <2>1 DEF Collectable, CostGone
<1>22. value \in Nat /\ cogs \in Nat
  BY <1>4, <1>6
<1>23. /\ Collectable(later, p, b) =
            Collectable(invoices, p, b)
              - IF i.body.customer = p /\ i.branch = b THEN value ELSE 0
       /\ CostGone(later, b) = CostGone(invoices, b) - IF i.branch = b THEN cogs ELSE 0
  <2>1. CASE i.branch = b /\ i.body.customer = p
    BY <1>16, <1>17, <1>18, <1>19, <1>20, <1>21, <1>22, <2>1
  <2>2. CASE i.branch = b /\ i.body.customer # p
    BY <1>16, <1>17, <1>18, <1>19, <1>20, <1>21, <1>22, <2>2
  <2>3. CASE i.branch # b
    BY <1>16, <1>17, <1>18, <1>19, <1>20, <1>21, <1>22, <2>3
  <2>. QED
    BY <2>1, <2>2, <2>3
<1>24. Collectable(invoices, p, b) \in Int /\ CostGone(invoices, b) \in Int
  BY <1>16, <1>17, <1>20
<1>. QED
  BY <1>6, <1>23, <1>24 DEF i

-----------------------------------------------------------------------------
(* What a posting does to the books *)

\* Every sum of the books is a number.
AmountsIn(t) ==
  /\ \A b \in Branch :
       /\ \A a \in Account : Balance(t.journal, a, b) \in Int
       /\ \A p \in Party : /\ Owed(t.subledger, p, b) \in Int
                           /\ Collectable(t.invoices, p, b) \in Int
                           /\ Due(t.purchases, p, b) \in Int
       /\ \A m \in Method : /\ Paid(t.receipts, m, b) \in Int
                            /\ Paid(t.vendorPayments, m, b) \in Int
       /\ CostGone(t.invoices, b) \in Int
  /\ \A c \in Cell : Moved(t.moves, c) \in Int

\* The ledgers have finitely many rows.
FiniteIn(t) ==
  IsFiniteSet(t.journal) /\ IsFiniteSet(t.subledger) /\ IsFiniteSet(t.moves)

\* They are in every state of the tables.
LEMMA AmountsType ==
  ASSUME NEW t \in Tables, FiniteIn(t)
  PROVE  AmountsIn(t)
<1>t. /\ t.journal \in SUBSET JournalEntry /\ t.subledger \in SUBSET SubledgerEntry
      /\ t.moves \in SUBSET Movement /\ t.invoices \in Seq(Invoice)
      /\ t.purchases \in Seq(Purchase)
      /\ t.receipts \in Seq([branch : Branch, body : ReceiptBody])
      /\ t.vendorPayments \in Seq([branch : Branch, body : VendorPaymentBody])
      /\ IsFiniteSet(t.journal) /\ IsFiniteSet(t.subledger) /\ IsFiniteSet(t.moves)
  BY DEF Tables, FiniteIn
<1>1. ASSUME NEW a \in Account, NEW b PROVE Balance(t.journal, a, b) \in Int
  <2>1. PICK v : v = [e \in t.journal |-> e.dr[a] - e.cr[a]]
    OBVIOUS
  <2>2. \A e \in t.journal : e.dr[a] - e.cr[a] \in Int
    BY <1>t DEF JournalEntry, Lines
  <2>3. v \in [t.journal -> Int]
    BY <2>1, <2>2
  <2>4. Tally(v, [e \in t.journal |-> e.stamp.branch], b) \in Int
    BY <1>t, <2>3, TallyType
  <2>. QED
    BY <2>1, <2>4 DEF Balance
<1>2. ASSUME NEW p, NEW b PROVE Owed(t.subledger, p, b) \in Int
  <2>1. PICK v : v = [s \in t.subledger |-> s.debit - s.credit]
    OBVIOUS
  <2>2. \A s \in t.subledger : s.debit - s.credit \in Int
    BY <1>t DEF SubledgerEntry
  <2>3. v \in [t.subledger -> Int]
    BY <2>1, <2>2
  <2>4. Tally(v, [s \in t.subledger |-> <<s.party, s.branch>>], <<p, b>>) \in Int
    BY <1>t, <2>3, TallyType
  <2>. QED
    BY <2>1, <2>4 DEF Owed
<1>3. ASSUME NEW c PROVE Moved(t.moves, c) \in Int
  <2>1. PICK v : v = [m \in t.moves |-> m.qty]
    OBVIOUS
  <2>2. \A m \in t.moves : m.qty \in Int
    BY <1>t DEF Movement
  <2>3. v \in [t.moves -> Int]
    BY <2>1, <2>2
  <2>4. Tally(v, [m \in t.moves |-> m.cell], c) \in Int
    BY <1>t, <2>3, TallyType
  <2>. QED
    BY <2>1, <2>4 DEF Moved
<1>4. ASSUME NEW p, NEW b
      PROVE  Collectable(t.invoices, p, b) \in Int /\ CostGone(t.invoices, b) \in Int
  <2>. DEFINE N == DOMAIN t.invoices
  <2>0. IsFiniteSet(N) /\ \A i \in N : t.invoices[i] \in Invoice
    <3>1. PICK docs \in Seq(Invoice) : docs = t.invoices
      BY <1>t
    <3>2. DOMAIN docs = 1 .. Len(docs) /\ Len(docs) \in Nat
          /\ \A i \in DOMAIN docs : docs[i] \in Invoice
      OBVIOUS
    <3>. QED
      BY <3>1, <3>2, FS_Interval
  <2>1. PICK v : v = [i \in N |-> Outstanding(t.invoices[i])]
    OBVIOUS
  <2>2. PICK x : x = [i \in N |-> CostOut(t.invoices[i])]
    OBVIOUS
  <2>3. v \in [N -> Int] /\ x \in [N -> Int]
    BY <2>0, <2>1, <2>2, InvoiceAmounts
  <2>. HIDE DEF N
  <2>4. /\ Tally(v, [i \in N |->
                      <<t.invoices[i].body.customer, t.invoices[i].branch>>],
                 <<p, b>>) \in Int
        /\ Tally(x, [i \in N |-> t.invoices[i].branch], b) \in Int
    BY <2>0, <2>3, TallyType
  <2>. QED
    BY <2>1, <2>2, <2>4 DEF Collectable, CostGone, N
<1>5. ASSUME NEW p, NEW b PROVE Due(t.purchases, p, b) \in Int
  <2>. DEFINE N == DOMAIN t.purchases
  <2>0. IsFiniteSet(N) /\ \A i \in N : t.purchases[i] \in Purchase
    <3>1. PICK docs \in Seq(Purchase) : docs = t.purchases
      BY <1>t
    <3>2. DOMAIN docs = 1 .. Len(docs) /\ Len(docs) \in Nat
          /\ \A i \in DOMAIN docs : docs[i] \in Purchase
      OBVIOUS
    <3>. QED
      BY <3>1, <3>2, FS_Interval
  <2>1. PICK v : v = [i \in N |-> Unpaid(t.purchases[i])]
    OBVIOUS
  <2>2. v \in [N -> Int]
    BY <2>0, <2>1, PurchaseUnpaid
  <2>. HIDE DEF N
  <2>3. Tally(v, [i \in N |-> <<t.purchases[i].body.vendor, t.purchases[i].branch>>],
              <<p, b>>) \in Int
    BY <2>0, <2>2, TallyType
  <2>. QED
    BY <2>1, <2>3 DEF Due, N
<1>6. ASSUME NEW S, NEW payments \in Seq(S), \A x \in S : x.body.amount \in Int,
             NEW m, NEW b
      PROVE  Paid(payments, m, b) \in Int
  <2>. DEFINE N == DOMAIN payments
  <2>0. IsFiniteSet(N) /\ \A i \in N : payments[i].body.amount \in Int
    <3>1. N = 1 .. Len(payments) /\ Len(payments) \in Nat
      OBVIOUS
    <3>2. \A i \in N : payments[i] \in S
      OBVIOUS
    <3>. QED
      BY <1>6, <3>1, <3>2, FS_Interval
  <2>1. PICK v : v = [i \in N |-> payments[i].body.amount]
    OBVIOUS
  <2>2. v \in [N -> Int]
    BY <2>0, <2>1
  <2>. HIDE DEF N
  <2>3. Tally(v, [i \in N |-> <<payments[i].body.method, payments[i].branch>>],
              <<m, b>>) \in Int
    BY <2>0, <2>2, TallyType
  <2>. QED
    BY <2>1, <2>3 DEF Paid, N
<1>7. ASSUME NEW m, NEW b
      PROVE  Paid(t.receipts, m, b) \in Int /\ Paid(t.vendorPayments, m, b) \in Int
  <2>1. /\ \A x \in [branch : Branch, body : ReceiptBody] : x.body.amount \in Int
        /\ \A x \in [branch : Branch, body : VendorPaymentBody] : x.body.amount \in Int
    BY DEF ReceiptBody, VendorPaymentBody
  <2>. QED
    BY <1>t, <1>6, <2>1
<1>. QED
  BY <1>1, <1>2, <1>3, <1>4, <1>5, <1>7 DEF AmountsIn

\* A posting of branch for party that changes the accounts by d, and the
\* documents, ledgers and goods in step with it.
Shifts(t, u, branch, party, d) ==
  /\ \A b \in Branch :
       /\ \A a \in Account : Balance(u.journal, a, b) =
            Balance(t.journal, a, b) + IF branch = b THEN d[a] ELSE 0
       /\ \A p \in Party :
            /\ Owed(u.subledger, p, b) =
                 Owed(t.subledger, p, b)
                   + IF party = p /\ branch = b THEN d["ar"] + d["ap"] ELSE 0
            /\ Collectable(u.invoices, p, b) =
                 Collectable(t.invoices, p, b)
                   + IF party = p /\ branch = b THEN d["ar"] ELSE 0
            /\ Due(u.purchases, p, b) =
                 Due(t.purchases, p, b)
                   - IF party = p /\ branch = b THEN d["ap"] ELSE 0
       /\ \A m \in Method :
            Paid(u.receipts, m, b) - Paid(u.vendorPayments, m, b) =
              Paid(t.receipts, m, b) - Paid(t.vendorPayments, m, b)
                + IF branch = b THEN d[m] ELSE 0
       /\ CostGone(u.invoices, b) =
            CostGone(t.invoices, b) + IF branch = b THEN d["cogs"] ELSE 0
  /\ \A c \in Cell : u.stock[c] = t.stock[c] + (Moved(u.moves, c) - Moved(t.moves, c))

\* The sum over the parties moves with the one party that does.
MovesOne(F, G, party, x) ==
  /\ IsFiniteSet(Party) /\ party \in Party /\ x \in Int /\ F \in [Party -> Int]
  /\ G = [p \in Party |-> F[p] + IF party = p THEN x ELSE 0]

\* It moves by as much.
LEMMA PartiesSum ==
  ASSUME NEW F, NEW G, NEW party, NEW x, MovesOne(F, G, party, x)
  PROVE  SumFunction(G) = SumFunction(F) + x /\ SumFunction(F) \in Int
<1>0. /\ IsFiniteSet(Party) /\ party \in Party /\ x \in Int /\ F \in [Party -> Int]
      /\ G = [p \in Party |-> F[p] + IF party = p THEN x ELSE 0]
  BY DEF MovesOne
<1>1. G \in [Party -> Int] /\ \A p \in Party \ {party} : G[p] = F[p]
  BY <1>0
<1>2. SumFunction(G) = SumFunction(F) + G[party] - F[party]
  BY ONLY <1>0, <1>1, SumChange
<1>3. SumFunction(F) \in Int
  BY <1>0, SumType
<1>4. G[party] = F[party] + x /\ F[party] \in Int
  BY <1>0
<1>. QED
  BY ONLY <1>2, <1>3, <1>4, <1>0

\* Books that reconcile go on to when accounts, documents, ledgers and goods
\* change in step.
LEMMA Booked ==
  ASSUME IsFiniteSet(Party), NEW t, NEW u, NEW branch \in Branch,
         NEW party \in Party, NEW d \in [Account -> Int],
         AmountsIn(t), BooksIn(t), Shifts(t, u, branch, party, d),
         \A c \in Cell : /\ OpeningStock[c] \in Int
                         /\ Moved(u.moves, c) \in Int
  PROVE  BooksIn(u)
<1>1. ASSUME NEW b \in Branch
      PROVE  /\ Balance(u.journal, "ar", b) =
                  SumFunction([p \in Party |-> Collectable(u.invoices, p, b)])
             /\ - Balance(u.journal, "ap", b) =
                  SumFunction([p \in Party |-> Due(u.purchases, p, b)])
  <2>0. "ar" \in Account /\ "ap" \in Account
    BY DEF Account
  <2>1. PICK x \in Int : x = IF branch = b THEN d["ar"] ELSE 0
    BY <2>0
  <2>2. PICK y \in Int : y = IF branch = b THEN - d["ap"] ELSE 0
    BY <2>0
  <2>3. PICK f : f = [p \in Party |-> Collectable(t.invoices, p, b)]
    OBVIOUS
  <2>4. PICK g : g = [p \in Party |-> Due(t.purchases, p, b)]
    OBVIOUS
  <2>5. f \in [Party -> Int] /\ g \in [Party -> Int]
    <3>1. \A p \in Party : Collectable(t.invoices, p, b) \in Int
                           /\ Due(t.purchases, p, b) \in Int
      BY DEF AmountsIn
    <3>. QED
      BY ONLY <2>3, <2>4, <3>1
  <2>6. PICK ff : ff = [p \in Party |-> f[p] + IF party = p THEN x ELSE 0]
    OBVIOUS
  <2>7. PICK gg : gg = [p \in Party |-> g[p] + IF party = p THEN y ELSE 0]
    OBVIOUS
  <2>8. /\ SumFunction(ff) = SumFunction(f) + x /\ SumFunction(f) \in Int
        /\ SumFunction(gg) = SumFunction(g) + y /\ SumFunction(g) \in Int
    <3>1. IsFiniteSet(Party) /\ party \in Party
      OBVIOUS
    <3>2. SumFunction(ff) = SumFunction(f) + x /\ SumFunction(f) \in Int
      <4>1. MovesOne(f, ff, party, x)
        BY ONLY <2>1, <2>5, <2>6, <3>1 DEF MovesOne
      <4>. QED
        BY ONLY <4>1, PartiesSum
    <3>3. SumFunction(gg) = SumFunction(g) + y /\ SumFunction(g) \in Int
      <4>1. MovesOne(g, gg, party, y)
        BY ONLY <2>2, <2>5, <2>7, <3>1 DEF MovesOne
      <4>. QED
        BY ONLY <4>1, PartiesSum
    <3>. QED
      BY ONLY <3>2, <3>3
  <2>9. /\ [p \in Party |-> Collectable(u.invoices, p, b)] = ff
        /\ [p \in Party |-> Due(u.purchases, p, b)] = gg
    <3>1. ASSUME NEW p \in Party
          PROVE  Collectable(u.invoices, p, b) = ff[p] /\ Due(u.purchases, p, b) = gg[p]
      <4>1. /\ Collectable(u.invoices, p, b) =
                 Collectable(t.invoices, p, b)
                   + IF party = p /\ branch = b THEN d["ar"] ELSE 0
            /\ Due(u.purchases, p, b) =
                 Due(t.purchases, p, b)
                   - IF party = p /\ branch = b THEN d["ap"] ELSE 0
        BY DEF Shifts
      <4>2. /\ ff[p] = Collectable(t.invoices, p, b) + IF party = p THEN x ELSE 0
            /\ gg[p] = Due(t.purchases, p, b) + IF party = p THEN y ELSE 0
        BY ONLY <2>3, <2>4, <2>6, <2>7, p \in Party
      <4>3. Collectable(t.invoices, p, b) \in Int /\ Due(t.purchases, p, b) \in Int
            /\ d["ar"] \in Int /\ d["ap"] \in Int
        BY <2>0 DEF AmountsIn
      <4>. QED
        BY ONLY <2>1, <2>2, <4>1, <4>2, <4>3
    <3>. QED
      BY ONLY <2>6, <2>7, <3>1
  <2>10. /\ Balance(t.journal, "ar", b) = SumFunction(f)
         /\ - Balance(t.journal, "ap", b) = SumFunction(g)
    BY <2>3, <2>4 DEF BooksIn
  <2>11. /\ Balance(u.journal, "ar", b) = Balance(t.journal, "ar", b) + x
         /\ Balance(u.journal, "ap", b) = Balance(t.journal, "ap", b) - y
    <3>1. \A a \in Account : Balance(u.journal, a, b) =
            Balance(t.journal, a, b) + IF branch = b THEN d[a] ELSE 0
      BY DEF Shifts
    <3>2. d["ap"] \in Int /\ Balance(t.journal, "ap", b) \in Int
      BY <2>0 DEF AmountsIn
    <3>. QED
      BY ONLY <2>0, <2>1, <2>2, <3>1, <3>2
  <2>12. Balance(t.journal, "ap", b) \in Int
    BY <2>0 DEF AmountsIn
  <2>. QED
    BY ONLY <2>1, <2>2, <2>8, <2>9, <2>10, <2>11, <2>12
<1>2. ASSUME NEW b \in Branch, NEW p \in Party
      PROVE  Owed(u.subledger, p, b) =
               Collectable(u.invoices, p, b) - Due(u.purchases, p, b)
  <2>1. /\ Owed(u.subledger, p, b) =
             Owed(t.subledger, p, b)
               + IF party = p /\ branch = b THEN d["ar"] + d["ap"] ELSE 0
        /\ Collectable(u.invoices, p, b) =
             Collectable(t.invoices, p, b)
               + IF party = p /\ branch = b THEN d["ar"] ELSE 0
        /\ Due(u.purchases, p, b) =
             Due(t.purchases, p, b) - IF party = p /\ branch = b THEN d["ap"] ELSE 0
    BY DEF Shifts
  <2>2. Owed(t.subledger, p, b) =
          Collectable(t.invoices, p, b) - Due(t.purchases, p, b)
    BY DEF BooksIn
  <2>3. d["ar"] \in Int /\ d["ap"] \in Int
    BY DEF Account
  <2>4. Collectable(t.invoices, p, b) \in Int /\ Due(t.purchases, p, b) \in Int
    BY DEF AmountsIn
  <2>. QED
    BY ONLY <2>1, <2>2, <2>3, <2>4
<1>3. ASSUME NEW b \in Branch, NEW m \in Method
      PROVE  Balance(u.journal, m, b) =
               Paid(u.receipts, m, b) - Paid(u.vendorPayments, m, b)
  <2>1. m \in Account
    BY DEF Method, Account
  <2>2. Balance(u.journal, m, b) =
          Balance(t.journal, m, b) + IF branch = b THEN d[m] ELSE 0
    BY <2>1 DEF Shifts
  <2>3. Paid(u.receipts, m, b) - Paid(u.vendorPayments, m, b) =
          Paid(t.receipts, m, b) - Paid(t.vendorPayments, m, b)
            + IF branch = b THEN d[m] ELSE 0
    BY DEF Shifts
  <2>4. Balance(t.journal, m, b) =
          Paid(t.receipts, m, b) - Paid(t.vendorPayments, m, b)
    BY DEF BooksIn
  <2>. QED
    BY ONLY <2>2, <2>3, <2>4
<1>4. ASSUME NEW b \in Branch
      PROVE  Balance(u.journal, "cogs", b) = CostGone(u.invoices, b)
  <2>1. "cogs" \in Account
    BY DEF Account
  <2>2. Balance(u.journal, "cogs", b) =
          Balance(t.journal, "cogs", b) + IF branch = b THEN d["cogs"] ELSE 0
    BY <2>1 DEF Shifts
  <2>3. CostGone(u.invoices, b) =
          CostGone(t.invoices, b) + IF branch = b THEN d["cogs"] ELSE 0
    BY DEF Shifts
  <2>4. Balance(t.journal, "cogs", b) = CostGone(t.invoices, b)
    BY DEF BooksIn
  <2>. QED
    BY ONLY <2>2, <2>3, <2>4
<1>5. ASSUME NEW c \in Cell
      PROVE  u.stock[c] = OpeningStock[c] + Moved(u.moves, c)
  <2>1. u.stock[c] = t.stock[c] + (Moved(u.moves, c) - Moved(t.moves, c))
    BY DEF Shifts
  <2>2. t.stock[c] = OpeningStock[c] + Moved(t.moves, c)
    BY DEF BooksIn
  <2>3. Moved(t.moves, c) \in Int /\ Moved(u.moves, c) \in Int
        /\ OpeningStock[c] \in Int
    BY DEF AmountsIn
  <2>. QED
    BY ONLY <2>1, <2>2, <2>3
<1>. QED
  BY <1>1, <1>2, <1>3, <1>4, <1>5 DEF BooksIn

-----------------------------------------------------------------------------
(* What every posting has in common *)

\* An amount journal_lines can hold is posted as it is.
LEMMA Post4Exact == ASSUME Unit = 1, NEW x \in Nat PROVE Post4(x) = x
<1>1. Post4(x) = (2 * x + 1) \div 2
  <2>1. Post4(x) = 1 * ((2 * x + 1) \div (2 * 1))
    BY DEF Post4
  <2>2. (2 * x + 1) \div 2 \in Int
    OBVIOUS
  <2>. QED
    BY <2>1, <2>2
<1>2. (2 * x + 1) \div 2 = x
  OBVIOUS
<1>. QED
  BY <1>1, <1>2

\* So a journal entry has the lines it is given.
LEMMA EntryExact ==
  ASSUME Unit = 1, NEW r, NEW doc, NEW dr \in Lines, NEW cr \in Lines
  PROVE  /\ Entry(r, doc, dr, cr).dr = dr
         /\ Entry(r, doc, dr, cr).cr = cr
         /\ Entry(r, doc, dr, cr).source = <<r.op, doc>>
         /\ Entry(r, doc, dr, cr).stamp.branch = r.branch
<1>1. \A f \in Lines : Posted(f) = f
  <2>. SUFFICES ASSUME NEW f \in Lines PROVE Posted(f) = f
    OBVIOUS
  <2>1. \A a \in Account : Post4(f[a]) = f[a]
    BY Post4Exact DEF Lines
  <2>. QED
    BY <2>1 DEF Posted, Lines
<1>. QED
  BY <1>1 DEF Entry, Stamp

\* Every row of the ledgers and of the goods names a document there is.
NumberedIn(t) ==
  \A x \in t.journal \cup t.subledger \cup t.moves :
    /\ x.source[1] \in Op
    /\ x.source[2] \in DOMAIN DocumentsIn(t, x.source[1])

\* The invariant of this section.
BookedIn(t) == FiniteIn(t) /\ NumberedIn(t) /\ BooksIn(t)

\* A posting adds one journal entry, one row of a sub-ledger and movements, all
\* named after the document it makes.
AddsRows(t, u, r, doc, e, s, more) ==
  /\ u.journal = t.journal \cup {e} /\ e \in JournalEntry
  /\ u.subledger = t.subledger \cup {s} /\ s \in SubledgerEntry
  /\ u.moves = t.moves \cup more /\ IsFiniteSet(u.moves)
  /\ \A x \in {e, s} \cup more : x.source = <<r.op, doc>>
  /\ e.stamp.branch = r.branch /\ s.branch = r.branch

\* The document is one there was not.
NewDocument(t, u, r, doc) ==
  OnceIn(u) /\ Recorded(t, u, r, doc) /\ doc \notin DOMAIN DocumentsIn(t, r.op)

\* So the rows are new.
LEMMA RowsNew ==
  ASSUME NEW t, NEW u, NEW r, NEW doc, NumberedIn(t), NewDocument(t, u, r, doc)
  PROVE  \A x \in t.journal \cup t.subledger \cup t.moves : x.source # <<r.op, doc>>
  BY DEF NumberedIn, NewDocument

\* And name a document there is.
LEMMA RowsNumbered ==
  ASSUME NEW t, NEW u, NEW r, NEW doc, NEW e, NEW s, NEW more, r.op \in Op,
         NumberedIn(t), NewDocument(t, u, r, doc), AddsRows(t, u, r, doc, e, s, more)
  PROVE  NumberedIn(u)
<1>0. /\ doc \in DOMAIN DocumentsIn(u, r.op)
      /\ \A o \in Op : \A d \in DOMAIN DocumentsIn(t, o) :
           d \in DOMAIN DocumentsIn(u, o)
  <2>1. Stamp(r, doc) \in u.keys /\ Stamp(r, doc).op = r.op /\ Stamp(r, doc).doc = doc
    BY DEF NewDocument, Recorded, Original, Stamp
  <2>2. doc \in DOMAIN DocumentsIn(u, r.op)
    BY <2>1 DEF NewDocument, OnceIn, KeysMeanDocuments
  <2>. QED
    BY <2>2 DEF NewDocument, Recorded, Grows
<1>1. \A x \in u.journal \cup u.subledger \cup u.moves :
        \/ x \in t.journal \cup t.subledger \cup t.moves
        \/ x.source = <<r.op, doc>>
  BY DEF AddsRows
<1>2. ASSUME NEW x \in t.journal \cup t.subledger \cup t.moves
      PROVE  /\ x.source[1] \in Op
             /\ x.source[2] \in DOMAIN DocumentsIn(u, x.source[1])
  BY <1>0 DEF NumberedIn
<1>3. ASSUME NEW x, x.source = <<r.op, doc>>
      PROVE  /\ x.source[1] \in Op
             /\ x.source[2] \in DOMAIN DocumentsIn(u, x.source[1])
  BY <1>0, <1>3
<1>. QED
  BY <1>1, <1>2, <1>3 DEF NumberedIn

\* And the documents and goods of branch and party move with its lines, d.
DocumentsShift(t, u, branch, party, d) ==
  /\ \A b \in Branch :
       /\ \A p \in Party :
            /\ Collectable(u.invoices, p, b) =
                 Collectable(t.invoices, p, b)
                   + IF party = p /\ branch = b THEN d["ar"] ELSE 0
            /\ Due(u.purchases, p, b) =
                 Due(t.purchases, p, b)
                   - IF party = p /\ branch = b THEN d["ap"] ELSE 0
       /\ \A m \in Method :
            Paid(u.receipts, m, b) - Paid(u.vendorPayments, m, b) =
              Paid(t.receipts, m, b) - Paid(t.vendorPayments, m, b)
                + IF branch = b THEN d[m] ELSE 0
       /\ CostGone(u.invoices, b) =
            CostGone(t.invoices, b) + IF branch = b THEN d["cogs"] ELSE 0
  /\ \A c \in Cell : u.stock[c] = t.stock[c] + (Moved(u.moves, c) - Moved(t.moves, c))

\* Such a posting keeps the invariant.
LEMMA BookedNext ==
  ASSUME IsFiniteSet(Party), NEW t \in Tables, NEW u \in Tables, BookedIn(t),
         NEW r, NEW doc, NEW e, NEW s, NEW more, r.op \in Op, r.branch \in Branch,
         NewDocument(t, u, r, doc), AddsRows(t, u, r, doc, e, s, more),
         NEW d, d = [a \in Account |-> e.dr[a] - e.cr[a]],
         s.debit - s.credit = d["ar"] + d["ap"],
         DocumentsShift(t, u, r.branch, s.party, d)
  PROVE  BookedIn(u)
<1>1. /\ u.journal = t.journal \cup {e} /\ e \in JournalEntry
      /\ u.subledger = t.subledger \cup {s} /\ s \in SubledgerEntry
      /\ e.source = <<r.op, doc>> /\ s.source = <<r.op, doc>>
      /\ e.stamp.branch = r.branch /\ s.branch = r.branch
      /\ IsFiniteSet(u.moves)
  BY DEF AddsRows
<1>2. e \notin t.journal /\ s \notin t.subledger
  BY <1>1, RowsNew DEF BookedIn
<1>3. t.journal \in SUBSET JournalEntry /\ t.subledger \in SUBSET SubledgerEntry
  BY DEF Tables
<1>4. FiniteIn(t) /\ FiniteIn(u)
  <2>1. IsFiniteSet(t.journal) /\ IsFiniteSet(t.subledger) /\ IsFiniteSet(t.moves)
    BY DEF BookedIn, FiniteIn
  <2>2. IsFiniteSet(t.journal \cup {e}) /\ IsFiniteSet(t.subledger \cup {s})
    BY ONLY <2>1, FS_AddElement
  <2>. QED
    BY <1>1, <2>1, <2>2 DEF FiniteIn
<1>5. AmountsIn(t) /\ AmountsIn(u)
  BY <1>4, AmountsType
<1>6. d \in [Account -> Int] /\ s.party \in Party
  BY <1>1 DEF JournalEntry, Lines, SubledgerEntry
<1>7. Shifts(t, u, r.branch, s.party, d)
  <2>1. ASSUME NEW b \in Branch, NEW a \in Account
        PROVE  Balance(u.journal, a, b) =
                 Balance(t.journal, a, b) + IF r.branch = b THEN d[a] ELSE 0
    <3>1. IsFiniteSet(t.journal)
      BY <1>4 DEF FiniteIn
    <3>2. Balance(t.journal \cup {e}, a, b) =
            Balance(t.journal, a, b)
              + IF e.stamp.branch = b THEN Net(e, a) ELSE 0
      <4>0. PICK journal : journal = t.journal
        OBVIOUS
      <4>1. AddsEntry(journal, e)
        BY <1>1, <1>2, <1>3, <3>1, <4>0 DEF AddsEntry
      <4>2. Balance(journal, a, b) \in Int /\ Net(e, a) \in Int
        BY ONLY <4>1, a \in Account, EntryBooked
      <4>3. Balance(journal \cup {e}, a, b) =
              Balance(journal, a, b) + IF e.stamp.branch = b THEN Net(e, a) ELSE 0
        BY ONLY <4>1, <4>2, a \in Account, EntryBooked
      <4>. QED
        BY <4>0, <4>3
    <3>3. d[a] = Net(e, a)
      BY DEF Net
    <3>. QED
      BY <1>1, <3>2, <3>3
  <2>2. ASSUME NEW b \in Branch, NEW p \in Party
        PROVE  Owed(u.subledger, p, b) =
                 Owed(t.subledger, p, b)
                   + IF s.party = p /\ r.branch = b THEN d["ar"] + d["ap"] ELSE 0
    BY <1>1, <1>2, <1>3, <1>4, PartyBooked DEF FiniteIn
  <2>. QED
    BY <2>1, <2>2 DEF Shifts, DocumentsShift
<1>8. \A c \in Cell : OpeningStock[c] \in Int /\ Moved(u.moves, c) \in Int
  BY <1>5, OwnershipAssumption DEF AmountsIn
<1>9. BooksIn(u)
  BY <1>5, <1>6, <1>7, <1>8, Booked DEF BookedIn
<1>10. NumberedIn(u)
  BY RowsNumbered DEF BookedIn
<1>. QED
  BY <1>4, <1>9, <1>10 DEF BookedIn

\* The goods of a document move in every row of the inventory.
LEMMA GoodsMoved ==
  ASSUME NEW moves, NEW r, NEW doc, NEW product, NEW warehouse, NEW qty, NEW sign,
         Goods(moves, r, doc, product, warehouse, qty, sign)
  PROVE  LET more == Movements(r, doc, product, warehouse, qty, sign) IN
         /\ IsFiniteSet(moves \cup more)
         /\ \A c \in Cell :
              /\ Moved(moves \cup more, c) =
                   Moved(moves, c) + sign * Demand(product, warehouse, qty, c)
              /\ Demand(product, warehouse, qty, c) \in Nat
              /\ Moved(moves, c) \in Int
<1>. DEFINE more == Movements(r, doc, product, warehouse, qty, sign)
<1>1. ASSUME NEW c \in Cell
      PROVE  /\ Moved(moves \cup more, c) =
                  Moved(moves, c) + sign * Demand(product, warehouse, qty, c)
             /\ IsFiniteSet(moves \cup more)
             /\ Demand(product, warehouse, qty, c) \in Nat
             /\ Moved(moves, c) \in Int
  <2>1. sign \in Int
    BY DEF Goods
  <2>2. Demand(product, warehouse, qty, c) \in Nat /\ Moved(moves, c) \in Int
        /\ IsFiniteSet(moves \cup more)
    BY MovementsBooked
  <2>. QED
    BY <2>1, <2>2, MovementsBooked
<1>2. <<product[1], warehouse[1]>> \in Cell
  BY DEF Cell, Line, Goods
<1>. QED
  BY <1>1, <1>2

-----------------------------------------------------------------------------
(* The postings, one by one *)

\* A sale books what it bills to the customer and the cost of what it moves.
LEMMA SaleBooks ==
  ASSUME IsFiniteSet(Party), Unit = 1, NEW t \in Tables, OnceIn(t), BookedIn(t),
         NEW r \in Call("sale", SaleBody), SalePosts(t, r)
  PROVE  BookedIn(SaleAfter(t, r))
<1>. DEFINE u == SaleAfter(t, r)
            b == r.body
            doc == Len(t.invoices) + 1
            cogs == Cost(b.qty, b.cost)
            new == [branch |-> r.branch, body |-> b, paid |-> 0,
                    credited |-> 0, returned |-> [l \in Line |-> 0],
                    status |-> "POSTED"]
            e == SaleEntry(r, doc)
            s == SubEntry(r, doc, b.customer, Billed(b), 0)
            more == Movements(r, doc, b.product, Here(b), b.qty, -1)
            dr == [Zero EXCEPT !["ar"] = Billed(b), !["cogs"] = cogs]
            cr == [Zero EXCEPT !["sales"] = b.grand, !["inventory"] = cogs,
                               !["rent"] = b.rent]
<1>r. r.op = "sale" /\ r.op \in Op /\ r.branch \in Branch /\ b \in SaleBody
      /\ r \in Call("sale", Body)
  BY DEF Call, Op, Body
<1>t. /\ t.invoices \in Seq(Invoice) /\ t.stock \in [Cell -> Nat]
      /\ t.moves \in SUBSET Movement
  BY DEF Tables
<1>d. doc \in Id /\ doc \notin DOMAIN t.invoices
  BY <1>t DEF Id
<1>f. /\ b.qty \in [Line -> Nat] /\ b.cost \in [Line -> Nat]
      /\ b.product \in [Line -> Product] /\ b.warehouse \in Warehouse
      /\ b.customer \in Party /\ b.grand \in Nat /\ b.rent \in Nat
  BY <1>r DEF SaleBody
<1>c. cogs \in Nat /\ Billed(b) \in Nat /\ Here(b) \in [Line -> Warehouse]
  BY <1>f, CostNat DEF Billed, Here
<1>1. /\ u.invoices = Append(t.invoices, new) /\ u.purchases = t.purchases
      /\ u.receipts = t.receipts /\ u.vendorPayments = t.vendorPayments
      /\ u.moves = t.moves \cup more
      /\ u.subledger = t.subledger \cup {s} /\ u.journal = t.journal \cup {e}
      /\ u.stock = [c \in Cell |-> t.stock[c] - Demand(b.product, Here(b), b.qty, c)]
  BY <1>t DEF SaleAfter, Tables
<1>2. /\ new \in Invoice /\ new.body = b /\ new.branch = r.branch
      /\ Outstanding(new) = Billed(b) /\ CostOut(new) = cogs
  <2>1. new \in Invoice
    BY <1>r DEF Invoice
  <2>2. Outstanding(new) = Billed(b)
    BY <1>c DEF Outstanding
  <2>3. [l \in Line |-> new.body.qty[l] - new.returned[l]] = b.qty
    BY <1>f
  <2>. QED
    BY <2>1, <2>2, <2>3 DEF CostOut
<1>3. NewDocument(t, u, r, doc)
  BY <1>r, <1>d, SaleOnce DEF NewDocument, DocumentsIn
<1>4. /\ e \in JournalEntry /\ e.dr = dr /\ e.cr = cr /\ e.source = <<r.op, doc>>
      /\ e.stamp.branch = r.branch
  <2>1. dr \in Lines /\ cr \in Lines
    BY <1>c, <1>f DEF Zero, Lines
  <2>2. e = Entry(r, doc, dr, cr)
    BY DEF SaleEntry
  <2>. HIDE DEF dr, cr, e, doc
  <2>3. e \in JournalEntry
    BY <1>r, <1>d, <2>1, <2>2, EntryType
  <2>. QED
    BY <2>1, <2>2, <2>3, EntryExact
<1>5. PICK d : d = [a \in Account |-> e.dr[a] - e.cr[a]]
  OBVIOUS
<1>6. /\ d["ar"] = Billed(b) /\ d["ap"] = 0 /\ d["cogs"] = cogs
      /\ \A m \in Method : d[m] = 0
  <2>1. \A a \in Account : d[a] = dr[a] - cr[a]
    BY <1>4, <1>5
  <2>2. /\ dr["ar"] = Billed(b) /\ dr["ap"] = 0 /\ dr["cogs"] = cogs
        /\ cr["ar"] = 0 /\ cr["ap"] = 0 /\ cr["cogs"] = 0
        /\ \A m \in Method : dr[m] = 0 /\ cr[m] = 0
    BY DEF Zero, Account, Method
  <2>3. Method \subseteq Account /\ {"ar", "ap", "cogs"} \subseteq Account
    BY DEF Method, Account
  <2>. HIDE DEF dr, cr, cogs
  <2>. QED
    BY <1>c, <2>1, <2>2, <2>3
<1>7. /\ s \in SubledgerEntry /\ s.source = <<r.op, doc>> /\ s.branch = r.branch
      /\ s.party = b.customer /\ s.debit - s.credit = d["ar"] + d["ap"]
  <2>1. s \in SubledgerEntry
    BY <1>r, <1>d, <1>f, <1>c, SubEntryType
  <2>. QED
    BY <2>1, <1>6, <1>c DEF SubEntry
<1>8. /\ IsFiniteSet(u.moves)
      /\ \A c \in Cell :
           /\ Moved(u.moves, c) =
                Moved(t.moves, c) + (-1) * Demand(b.product, Here(b), b.qty, c)
           /\ Demand(b.product, Here(b), b.qty, c) \in Nat
           /\ Moved(t.moves, c) \in Int
      /\ \A m \in more : m.source = <<r.op, doc>>
  <2>1. \A m \in t.moves : m.source # <<r.op, doc>>
    BY <1>3, RowsNew DEF BookedIn
  <2>2. IsFiniteSet(t.moves) /\ -1 \in {-1, 1}
    BY DEF BookedIn, FiniteIn
  <2>. HIDE DEF doc, u
  <2>3. Goods(t.moves, r, doc, b.product, Here(b), b.qty, -1)
    BY <1>c, <1>d, <1>f, <1>r, <1>t, <2>1, <2>2 DEF Goods
  <2>. HIDE DEF more, b
  <2>4. PICK moves, down, here : /\ moves = t.moves /\ down = -1 /\ here = Here(b)
                                 /\ down \in Int
    OBVIOUS
  <2>5. /\ Goods(moves, r, doc, b.product, here, b.qty, down)
        /\ more = Movements(r, doc, b.product, here, b.qty, down)
    BY <2>3, <2>4 DEF more
  <2>6. /\ IsFiniteSet(moves \cup more)
        /\ \A c \in Cell : /\ Demand(b.product, here, b.qty, c) \in Nat
                           /\ Moved(moves, c) \in Int
    BY ONLY <2>5, GoodsMoved
  <2>7. ASSUME NEW c \in Cell
        PROVE  Moved(moves \cup more, c) =
                 Moved(moves, c) + down * Demand(b.product, here, b.qty, c)
    BY ONLY <2>4, <2>5, <2>6, c \in Cell, GoodsMoved
  <2>8. \A m \in more : m.source = <<r.op, doc>>
    BY DEF more, Movements
  <2>. QED
    BY <1>1, <2>4, <2>6, <2>7, <2>8 DEF more, b
<1>9. AddsRows(t, u, r, doc, e, s, more)
  BY <1>1, <1>4, <1>7, <1>8 DEF AddsRows, Movements
<1>10. ASSUME NEW p \in Party, NEW k \in Branch
       PROVE  /\ Collectable(u.invoices, p, k) =
                   Collectable(t.invoices, p, k)
                     + IF b.customer = p /\ r.branch = k THEN Billed(b) ELSE 0
              /\ CostGone(u.invoices, k) =
                   CostGone(t.invoices, k) + IF r.branch = k THEN cogs ELSE 0
  <2>1. PICK invoices \in Seq(Invoice) : invoices = t.invoices
    BY <1>t
  <2>2. PICK made \in Invoice : made = new
    BY <1>2
  <2>. HIDE DEF new, u, b, cogs
  <2>3. /\ Collectable(Append(invoices, made), p, k) =
             Collectable(invoices, p, k)
               + IF made.body.customer = p /\ made.branch = k
                   THEN Outstanding(made) ELSE 0
        /\ CostGone(Append(invoices, made), k) =
             CostGone(invoices, k) + IF made.branch = k THEN CostOut(made) ELSE 0
    <3>1. /\ Outstanding(made) \in Int /\ CostOut(made) \in Int
          /\ Collectable(invoices, p, k) \in Int /\ CostGone(invoices, k) \in Int
      BY ONLY invoices \in Seq(Invoice), made \in Invoice, InvoiceAmounts, InvoiceBooked
    <3>2. Collectable(Append(invoices, made), p, k) =
            Collectable(invoices, p, k)
              + IF made.body.customer = p /\ made.branch = k
                  THEN Outstanding(made) ELSE 0
      BY ONLY invoices \in Seq(Invoice), made \in Invoice, <3>1, InvoiceBooked
    <3>3. CostGone(Append(invoices, made), k) =
            CostGone(invoices, k) + IF made.branch = k THEN CostOut(made) ELSE 0
      BY ONLY invoices \in Seq(Invoice), made \in Invoice, <3>1, InvoiceBooked
    <3>. QED
      BY <3>2, <3>3
  <2>. QED
    BY <1>1, <1>2, <2>1, <2>2, <2>3
<1>11. AmountsIn(t)
  BY AmountsType DEF BookedIn
<1>12. DocumentsShift(t, u, r.branch, s.party, d)
  <2>. HIDE DEF new, u, b, cogs, s, e, more
  <2>1. ASSUME NEW p \in Party, NEW k \in Branch
        PROVE  /\ Collectable(u.invoices, p, k) =
                    Collectable(t.invoices, p, k)
                      + IF s.party = p /\ r.branch = k THEN d["ar"] ELSE 0
               /\ Due(u.purchases, p, k) =
                    Due(t.purchases, p, k)
                      - IF s.party = p /\ r.branch = k THEN d["ap"] ELSE 0
               /\ CostGone(u.invoices, k) =
                    CostGone(t.invoices, k) + IF r.branch = k THEN d["cogs"] ELSE 0
    <3>1. Due(t.purchases, p, k) \in Int
      BY <1>11 DEF AmountsIn
    <3>. QED
      BY <1>1, <1>6, <1>7, <1>10, <3>1
  <2>2. ASSUME NEW m \in Method, NEW k \in Branch
        PROVE  Paid(u.receipts, m, k) - Paid(u.vendorPayments, m, k) =
                 Paid(t.receipts, m, k) - Paid(t.vendorPayments, m, k)
                   + IF r.branch = k THEN d[m] ELSE 0
    <3>1. Paid(t.receipts, m, k) \in Int /\ Paid(t.vendorPayments, m, k) \in Int
      BY <1>11 DEF AmountsIn
    <3>. QED
      BY <1>1, <1>6, <3>1
  <2>3. ASSUME NEW c \in Cell
        PROVE  u.stock[c] = t.stock[c] + (Moved(u.moves, c) - Moved(t.moves, c))
    <3>1. t.stock[c] \in Nat
      BY <1>t
    <3>2. u.stock[c] = t.stock[c] - Demand(b.product, Here(b), b.qty, c)
      BY <1>1 DEF b
    <3>. QED
      BY <1>8, <3>1, <3>2 DEF b
  <2>4. \E p \in Party : TRUE
    BY <1>f
  <2>. QED
    BY <2>1, <2>2, <2>3, <2>4 DEF DocumentsShift
<1>. HIDE DEF u, b, cogs, s, e, more, doc
<1>. QED
  BY <1>3, <1>5, <1>7, <1>9, <1>12, <1>r, BookedNext, SaleAfterType DEF u

\* A purchase books what it owes to the vendor.
LEMMA PurchaseBooks ==
  ASSUME IsFiniteSet(Party), Unit = 1, NEW t \in Tables, OnceIn(t), BookedIn(t),
         NEW r \in Call("purchase", PurchaseBody), PurchasePosts(t, r)
  PROVE  BookedIn(PurchaseAfter(t, r))
<1>. DEFINE u == PurchaseAfter(t, r)
            b == r.body
            doc == Len(t.purchases) + 1
            total == PurchaseTotal(b)
            new == [branch |-> r.branch, body |-> b, paid |-> 0]
            dr == PurchaseDebits(b)
            cr == PurchaseCredits(b)
            e == Entry(r, doc, dr, cr)
            s == SubEntry(r, doc, b.vendor, 0, total)
            more == Movements(r, doc, b.product, Here(b), b.qty, 1)
<1>r. r.op = "purchase" /\ r.op \in Op /\ r.branch \in Branch /\ b \in PurchaseBody
      /\ r \in Call("purchase", Body)
  BY DEF Call, Op, Body
<1>t. /\ t.purchases \in Seq(Purchase) /\ t.stock \in [Cell -> Nat]
      /\ t.moves \in SUBSET Movement
  BY DEF Tables
<1>d. doc \in Id /\ doc \notin DOMAIN t.purchases
  BY <1>t DEF Id
<1>f. /\ b.qty \in [Line -> Nat] /\ b.product \in [Line -> Product]
      /\ b.warehouse \in Warehouse /\ b.vendor \in Party /\ b.tax \in Nat
  BY <1>r DEF PurchaseBody
<1>c. PurchaseGoods(b) \in Nat /\ total \in Nat /\ Here(b) \in [Line -> Warehouse]
  BY <1>f, PurchaseAmounts DEF PurchasePosts, Here
<1>1. /\ u.purchases = Append(t.purchases, new) /\ u.invoices = t.invoices
      /\ u.receipts = t.receipts /\ u.vendorPayments = t.vendorPayments
      /\ u.moves = t.moves \cup more
      /\ u.subledger = t.subledger \cup {s} /\ u.journal = t.journal \cup {e}
      /\ u.stock = [c \in Cell |-> t.stock[c] + Demand(b.product, Here(b), b.qty, c)]
  BY <1>t DEF PurchaseAfter, Tables
<1>2. /\ new \in Purchase /\ new.body = b /\ new.branch = r.branch
      /\ Unpaid(new) = total
  <2>1. new \in Purchase
    BY <1>r DEF Purchase
  <2>. QED
    BY <1>c, <2>1 DEF Unpaid
<1>3. NewDocument(t, u, r, doc)
  BY <1>r, <1>d, PurchaseOnce DEF NewDocument, DocumentsIn
<1>4. /\ e \in JournalEntry /\ e.dr = dr /\ e.cr = cr /\ e.source = <<r.op, doc>>
      /\ e.stamp.branch = r.branch
  <2>1. dr \in Lines /\ cr \in Lines
    BY <1>c, <1>f DEF PurchaseDebits, PurchaseCredits, Zero, Lines
  <2>. HIDE DEF dr, cr, doc
  <2>2. e \in JournalEntry
    BY <1>r, <1>d, <2>1, EntryType
  <2>. QED
    BY <2>1, <2>2, EntryExact
<1>5. PICK d : d = [a \in Account |-> e.dr[a] - e.cr[a]]
  OBVIOUS
<1>6. /\ d["ar"] = 0 /\ d["ap"] = -total /\ d["cogs"] = 0
      /\ \A m \in Method : d[m] = 0
  <2>1. \A a \in Account : d[a] = dr[a] - cr[a]
    BY <1>4, <1>5
  <2>2. /\ dr["ar"] = 0 /\ dr["ap"] = 0 /\ dr["cogs"] = 0
        /\ cr["ar"] = 0 /\ cr["ap"] = total /\ cr["cogs"] = 0
        /\ \A m \in Method : dr[m] = 0 /\ cr[m] = 0
    BY DEF PurchaseDebits, PurchaseCredits, Zero, Account, Method
  <2>3. Method \subseteq Account /\ {"ar", "ap", "cogs"} \subseteq Account
    BY DEF Method, Account
  <2>. HIDE DEF dr, cr, total
  <2>. QED
    BY <1>c, <2>1, <2>2, <2>3
<1>7. /\ s \in SubledgerEntry /\ s.source = <<r.op, doc>> /\ s.branch = r.branch
      /\ s.party = b.vendor /\ s.debit - s.credit = d["ar"] + d["ap"]
  <2>1. s \in SubledgerEntry
    BY <1>r, <1>d, <1>f, <1>c, SubEntryType
  <2>. HIDE DEF total
  <2>. QED
    BY <2>1, <1>6, <1>c DEF SubEntry
<1>8. /\ IsFiniteSet(u.moves)
      /\ \A c \in Cell :
           /\ Moved(u.moves, c) =
                Moved(t.moves, c) + 1 * Demand(b.product, Here(b), b.qty, c)
           /\ Demand(b.product, Here(b), b.qty, c) \in Nat
           /\ Moved(t.moves, c) \in Int
      /\ \A m \in more : m.source = <<r.op, doc>>
  <2>1. \A m \in t.moves : m.source # <<r.op, doc>>
    BY <1>3, RowsNew DEF BookedIn
  <2>2. IsFiniteSet(t.moves) /\ 1 \in {-1, 1}
    BY DEF BookedIn, FiniteIn
  <2>. HIDE DEF doc, u
  <2>3. Goods(t.moves, r, doc, b.product, Here(b), b.qty, 1)
    BY <1>c, <1>d, <1>f, <1>r, <1>t, <2>1, <2>2 DEF Goods
  <2>. HIDE DEF more, b
  <2>4. PICK moves, up, here : /\ moves = t.moves /\ up = 1 /\ here = Here(b)
                               /\ up \in Int
    OBVIOUS
  <2>5. /\ Goods(moves, r, doc, b.product, here, b.qty, up)
        /\ more = Movements(r, doc, b.product, here, b.qty, up)
    BY <2>3, <2>4 DEF more
  <2>6. /\ IsFiniteSet(moves \cup more)
        /\ \A c \in Cell : /\ Demand(b.product, here, b.qty, c) \in Nat
                           /\ Moved(moves, c) \in Int
    BY ONLY <2>5, GoodsMoved
  <2>7. ASSUME NEW c \in Cell
        PROVE  Moved(moves \cup more, c) =
                 Moved(moves, c) + up * Demand(b.product, here, b.qty, c)
    BY ONLY <2>4, <2>5, <2>6, c \in Cell, GoodsMoved
  <2>8. \A m \in more : m.source = <<r.op, doc>>
    BY DEF more, Movements
  <2>. QED
    BY <1>1, <2>4, <2>6, <2>7, <2>8 DEF more, b
<1>9. AddsRows(t, u, r, doc, e, s, more)
  BY <1>1, <1>4, <1>7, <1>8 DEF AddsRows, Movements
<1>10. ASSUME NEW p \in Party, NEW k \in Branch
       PROVE  Due(u.purchases, p, k) =
                Due(t.purchases, p, k)
                  + IF b.vendor = p /\ r.branch = k THEN total ELSE 0
  <2>1. PICK purchases \in Seq(Purchase) : purchases = t.purchases
    BY <1>t
  <2>2. PICK made \in Purchase : made = new
    BY <1>2
  <2>. HIDE DEF new, u, b, total
  <2>3. Due(Append(purchases, made), p, k) =
          Due(purchases, p, k)
            + IF made.body.vendor = p /\ made.branch = k THEN Unpaid(made) ELSE 0
    <3>1. Unpaid(made) \in Int /\ Due(purchases, p, k) \in Int
      BY ONLY purchases \in Seq(Purchase), made \in Purchase, PurchaseUnpaid,
              PurchaseBooked
    <3>. QED
      BY ONLY purchases \in Seq(Purchase), made \in Purchase, <3>1, PurchaseBooked
  <2>. QED
    BY <1>1, <1>2, <2>1, <2>2, <2>3
<1>11. AmountsIn(t)
  BY AmountsType DEF BookedIn
<1>12. DocumentsShift(t, u, r.branch, s.party, d)
  <2>. HIDE DEF new, u, b, total, s, e, more
  <2>1. ASSUME NEW p \in Party, NEW k \in Branch
        PROVE  /\ Collectable(u.invoices, p, k) =
                    Collectable(t.invoices, p, k)
                      + IF s.party = p /\ r.branch = k THEN d["ar"] ELSE 0
               /\ Due(u.purchases, p, k) =
                    Due(t.purchases, p, k)
                      - IF s.party = p /\ r.branch = k THEN d["ap"] ELSE 0
               /\ CostGone(u.invoices, k) =
                    CostGone(t.invoices, k) + IF r.branch = k THEN d["cogs"] ELSE 0
    <3>1. /\ Due(t.purchases, p, k) \in Int /\ Collectable(t.invoices, p, k) \in Int
          /\ CostGone(t.invoices, k) \in Int
      BY <1>11 DEF AmountsIn
    <3>2. total \in Nat /\ total = 0 - d["ap"]
      BY <1>c, <1>6
    <3>3. Due(u.purchases, p, k) =
            Due(t.purchases, p, k)
              + IF s.party = p /\ r.branch = k THEN 0 - d["ap"] ELSE 0
      BY <1>7, <1>10, <3>2
    <3>4. Due(u.purchases, p, k) =
            Due(t.purchases, p, k)
              - IF s.party = p /\ r.branch = k THEN d["ap"] ELSE 0
      <4>1. d["ap"] \in Int
        BY <1>6, <3>2
      <4>. QED
        BY ONLY <3>1, <3>3, <4>1
    <3>. QED
      BY <1>1, <1>6, <3>1, <3>4
  <2>2. ASSUME NEW m \in Method, NEW k \in Branch
        PROVE  Paid(u.receipts, m, k) - Paid(u.vendorPayments, m, k) =
                 Paid(t.receipts, m, k) - Paid(t.vendorPayments, m, k)
                   + IF r.branch = k THEN d[m] ELSE 0
    <3>1. Paid(t.receipts, m, k) \in Int /\ Paid(t.vendorPayments, m, k) \in Int
      BY <1>11 DEF AmountsIn
    <3>. QED
      BY <1>1, <1>6, <3>1
  <2>3. ASSUME NEW c \in Cell
        PROVE  u.stock[c] = t.stock[c] + (Moved(u.moves, c) - Moved(t.moves, c))
    <3>1. t.stock[c] \in Nat
      BY <1>t
    <3>2. u.stock[c] = t.stock[c] + Demand(b.product, Here(b), b.qty, c)
      BY <1>1 DEF b
    <3>. QED
      BY <1>8, <3>1, <3>2 DEF b
  <2>4. \E p \in Party : TRUE
    BY <1>f
  <2>. QED
    BY <2>1, <2>2, <2>3, <2>4 DEF DocumentsShift
<1>. HIDE DEF u, b, total, s, e, more, doc
<1>. QED
  BY <1>3, <1>5, <1>7, <1>9, <1>12, <1>r, BookedNext, PurchaseAfterType DEF u

\* A receipt books what it takes off the invoices it is allocated to.
LEMMA ReceiptBooks ==
  ASSUME IsFiniteSet(Party), Unit = 1, NEW t \in Tables, OnceIn(t), BookedIn(t),
         NEW r \in Call("receipt", ReceiptBody), ReceiptPosts(t, r)
  PROVE  BookedIn(ReceiptAfter(t, r))
<1>. DEFINE u == ReceiptAfter(t, r)
            b == r.body
            doc == Len(t.receipts) + 1
            new == [branch |-> r.branch, body |-> b]
            Receipt == [branch : Branch, body : ReceiptBody]
            dr == ReceiptDebits(b)
            cr == ReceiptCredits(b)
            e == Entry(r, doc, dr, cr)
            s == SubEntry(r, doc, b.customer, 0, b.amount)
<1>r. r.op = "receipt" /\ r.op \in Op /\ r.branch \in Branch /\ b \in ReceiptBody
      /\ r \in Call("receipt", Body)
  BY DEF Call, Op, Body
<1>t. /\ t.invoices \in Seq(Invoice) /\ t.receipts \in Seq(Receipt)
      /\ t.stock \in [Cell -> Nat]
  BY DEF Tables
<1>d. doc \in Id /\ doc \notin DOMAIN t.receipts
  BY <1>t DEF Id
<1>f. /\ b.customer \in Party /\ b.amount \in Nat /\ b.method \in Method
      /\ b.alloc \in Allocation
  BY <1>r DEF ReceiptBody
<1>w. /\ WellAllocated(b.alloc, b.amount, DOMAIN t.invoices)
      /\ \A x \in b.alloc : /\ t.invoices[x.doc].body.customer = b.customer
                            /\ t.invoices[x.doc].branch = r.branch
  BY DEF ReceiptPosts, ReceiptAdmitted, OwnInvoices
<1>1. /\ u.receipts = Append(t.receipts, new) /\ u.purchases = t.purchases
      /\ u.vendorPayments = t.vendorPayments
      /\ u.moves = t.moves /\ u.stock = t.stock
      /\ u.subledger = t.subledger \cup {s} /\ u.journal = t.journal \cup {e}
      /\ u.invoices = [i \in DOMAIN t.invoices |->
                         IF \E x \in b.alloc : x.doc = i
                           THEN Settled(t.invoices[i], AllocatedTo(b.alloc, i))
                           ELSE t.invoices[i]]
  BY <1>t DEF ReceiptAfter, Tables
<1>3. NewDocument(t, u, r, doc)
  BY <1>r, <1>d, ReceiptOnce DEF NewDocument, DocumentsIn
<1>4. /\ e \in JournalEntry /\ e.dr = dr /\ e.cr = cr /\ e.source = <<r.op, doc>>
      /\ e.stamp.branch = r.branch
  <2>1. dr \in Lines /\ cr \in Lines
    BY <1>f DEF ReceiptDebits, ReceiptCredits, Zero, Lines
  <2>. HIDE DEF dr, cr, doc
  <2>2. e \in JournalEntry
    BY <1>r, <1>d, <2>1, EntryType
  <2>. QED
    BY <2>1, <2>2, EntryExact
<1>5. PICK d : d = [a \in Account |-> e.dr[a] - e.cr[a]]
  OBVIOUS
<1>6. /\ d["ar"] = -b.amount /\ d["ap"] = 0 /\ d["cogs"] = 0
      /\ \A m \in Method : d[m] = IF m = b.method THEN b.amount ELSE 0
  <2>1. \A a \in Account : d[a] = dr[a] - cr[a]
    BY <1>4, <1>5
  <2>2. /\ dr["ar"] = 0 /\ dr["ap"] = 0 /\ dr["cogs"] = 0
        /\ cr["ar"] = b.amount /\ cr["ap"] = 0 /\ cr["cogs"] = 0
        /\ \A m \in Method : /\ dr[m] = IF m = b.method THEN b.amount ELSE 0
                             /\ cr[m] = 0
    BY <1>f DEF ReceiptDebits, ReceiptCredits, Zero, Account, Method
  <2>3. Method \subseteq Account /\ {"ar", "ap", "cogs"} \subseteq Account
    BY DEF Method, Account
  <2>. HIDE DEF dr, cr
  <2>. QED
    BY <1>f, <2>1, <2>2, <2>3
<1>7. /\ s \in SubledgerEntry /\ s.source = <<r.op, doc>> /\ s.branch = r.branch
      /\ s.party = b.customer /\ s.debit - s.credit = d["ar"] + d["ap"]
  <2>1. s \in SubledgerEntry
    BY <1>r, <1>d, <1>f, SubEntryType
  <2>. QED
    BY <2>1, <1>6, <1>f DEF SubEntry
<1>9. AddsRows(t, u, r, doc, e, s, {})
  <2>1. IsFiniteSet(t.moves)
    BY DEF BookedIn, FiniteIn
  <2>. QED
    BY <1>1, <1>4, <1>7, <2>1 DEF AddsRows
<1>10. ASSUME NEW p \in Party, NEW k \in Branch
       PROVE  /\ Collectable(u.invoices, p, k) =
                   Collectable(t.invoices, p, k)
                     - IF b.customer = p /\ r.branch = k THEN b.amount ELSE 0
              /\ CostGone(u.invoices, k) = CostGone(t.invoices, k)
              /\ Collectable(t.invoices, p, k) \in Int
  <2>1. PICK invoices \in Seq(Invoice) : invoices = t.invoices
    BY <1>t
  <2>2. PICK later : later = u.invoices
    OBVIOUS
  <2>3. later = [i \in DOMAIN invoices |->
                   IF \E x \in b.alloc : x.doc = i
                     THEN Settled(invoices[i], AllocatedTo(b.alloc, i))
                     ELSE invoices[i]]
    BY <1>1, <2>1, <2>2
  <2>4. PICK alloc \in Allocation, amount \in Nat,
            customer \in Party, branch \in Branch :
          alloc = b.alloc /\ amount = b.amount /\ customer = b.customer
            /\ branch = r.branch
    BY <1>f, <1>r
  <2>5. /\ WellAllocated(alloc, amount, DOMAIN invoices)
        /\ \A x \in alloc : /\ invoices[x.doc].body.customer = customer
                            /\ invoices[x.doc].branch = branch
    BY <1>w, <2>1, <2>4
  <2>6. /\ Collectable(later, p, k) =
             Collectable(invoices, p, k)
               - IF customer = p /\ branch = k THEN amount ELSE 0
        /\ CostGone(later, k) = CostGone(invoices, k)
        /\ Collectable(invoices, p, k) \in Int
    <3>1. later = [i \in DOMAIN invoices |->
                     IF \E x \in alloc : x.doc = i
                       THEN Settled(invoices[i], AllocatedTo(alloc, i))
                       ELSE invoices[i]]
      BY <2>3, <2>4
    <3>2. Receives(invoices, alloc, amount, customer, branch, later)
      BY <2>5, <3>1 DEF Receives
    <3>3. CostGone(later, k) = CostGone(invoices, k)
          /\ Collectable(invoices, p, k) \in Int
      BY ONLY <3>2, ReceiptBooked
    <3>. QED
      BY ONLY <3>2, <3>3, amount \in Nat, ReceiptBooked
  <2>. QED
    BY <2>1, <2>2, <2>4, <2>6
<1>11. AmountsIn(t)
  BY AmountsType DEF BookedIn
<1>13. ASSUME NEW m \in Method, NEW k \in Branch
       PROVE  Paid(u.receipts, m, k) =
                Paid(t.receipts, m, k)
                  + IF b.method = m /\ r.branch = k THEN b.amount ELSE 0
  <2>. DEFINE S == Receipt
  <2>1. PICK payments \in Seq(S) : payments = t.receipts
    BY <1>t
  <2>2. PICK made \in S : made = new
    BY <1>r
  <2>3. \A x \in S : x.body.amount \in Int
    BY DEF ReceiptBody
  <2>. HIDE DEF new, u, b, Receipt, S
  <2>4. Paid(Append(payments, made), m, k) =
          Paid(payments, m, k)
            + IF made.body.method = m /\ made.branch = k THEN made.body.amount ELSE 0
    <3>1. made.body.amount \in Int /\ Paid(payments, m, k) \in Int
      BY <2>3, PaymentBooked
    <3>. QED
      BY ONLY payments \in Seq(S), made \in S, <2>3, <3>1, PaymentBooked
  <2>5. made.branch = r.branch /\ made.body = b
    BY <2>2 DEF new
  <2>. QED
    BY <1>1, <2>1, <2>2, <2>4, <2>5
<1>12. DocumentsShift(t, u, r.branch, s.party, d)
  <2>. HIDE DEF new, u, b, s, e
  <2>1. ASSUME NEW p \in Party, NEW k \in Branch
        PROVE  /\ Collectable(u.invoices, p, k) =
                    Collectable(t.invoices, p, k)
                      + IF s.party = p /\ r.branch = k THEN d["ar"] ELSE 0
               /\ Due(u.purchases, p, k) =
                    Due(t.purchases, p, k)
                      - IF s.party = p /\ r.branch = k THEN d["ap"] ELSE 0
               /\ CostGone(u.invoices, k) =
                    CostGone(t.invoices, k) + IF r.branch = k THEN d["cogs"] ELSE 0
    <3>1. /\ Due(t.purchases, p, k) \in Int /\ Collectable(t.invoices, p, k) \in Int
          /\ CostGone(t.invoices, k) \in Int
      BY <1>11 DEF AmountsIn
    <3>2. b.amount \in Nat /\ b.amount = 0 - d["ar"] /\ d["ar"] \in Int
      BY <1>6, <1>f DEF b
    <3>3. Collectable(u.invoices, p, k) =
            Collectable(t.invoices, p, k)
              - IF s.party = p /\ r.branch = k THEN 0 - d["ar"] ELSE 0
      BY <1>7, <1>10, <3>2
    <3>4. Collectable(u.invoices, p, k) =
            Collectable(t.invoices, p, k)
              + IF s.party = p /\ r.branch = k THEN d["ar"] ELSE 0
      BY ONLY <3>1, <3>2, <3>3
    <3>. QED
      BY <1>1, <1>6, <1>10, <3>1, <3>4
  <2>2. ASSUME NEW m \in Method, NEW k \in Branch
        PROVE  Paid(u.receipts, m, k) - Paid(u.vendorPayments, m, k) =
                 Paid(t.receipts, m, k) - Paid(t.vendorPayments, m, k)
                   + IF r.branch = k THEN d[m] ELSE 0
    <3>1. Paid(t.receipts, m, k) \in Int /\ Paid(t.vendorPayments, m, k) \in Int
      BY <1>11 DEF AmountsIn
    <3>2. d[m] = (IF m = b.method THEN b.amount ELSE 0) /\ b.amount \in Int
      BY <1>6, <1>f DEF b
    <3>3. Paid(u.vendorPayments, m, k) = Paid(t.vendorPayments, m, k)
      BY <1>1
    <3>4. Paid(u.receipts, m, k) =
            Paid(t.receipts, m, k)
              + IF b.method = m /\ r.branch = k THEN b.amount ELSE 0
      BY <1>13
    <3>. QED
      BY ONLY <3>1, <3>2, <3>3, <3>4
  <2>3. ASSUME NEW c \in Cell
        PROVE  u.stock[c] = t.stock[c] + (Moved(u.moves, c) - Moved(t.moves, c))
    <3>1. t.stock[c] \in Nat /\ Moved(t.moves, c) \in Int
      <4>1. Moved(t.moves, c) \in Int
        BY <1>11 DEF AmountsIn
      <4>. QED
        BY <1>t, <4>1
    <3>. QED
      BY <1>1, <3>1
  <2>4. \E p \in Party : TRUE
    BY <1>f
  <2>. QED
    BY <2>1, <2>2, <2>3, <2>4 DEF DocumentsShift
<1>. HIDE DEF u, b, s, e, doc
<1>. QED
  BY <1>3, <1>5, <1>7, <1>9, <1>12, <1>r, BookedNext, ReceiptAfterType DEF u

\* A vendor payment books what it takes off the purchases it is allocated to.
LEMMA VendorPaymentBooks ==
  ASSUME IsFiniteSet(Party), Unit = 1, NEW t \in Tables, OnceIn(t), BookedIn(t),
         NEW r \in Call("vendorPayment", VendorPaymentBody), VendorPaymentPosts(t, r)
  PROVE  BookedIn(VendorPaymentAfter(t, r))
<1>. DEFINE u == VendorPaymentAfter(t, r)
            b == r.body
            doc == Len(t.vendorPayments) + 1
            new == [branch |-> r.branch, body |-> b]
            VendorPayment == [branch : Branch, body : VendorPaymentBody]
            dr == VendorPaymentDebits(b)
            cr == VendorPaymentCredits(b)
            e == Entry(r, doc, dr, cr)
            s == SubEntry(r, doc, b.vendor, b.amount, 0)
<1>r. r.op = "vendorPayment" /\ r.op \in Op /\ r.branch \in Branch /\ b \in VendorPaymentBody
      /\ r \in Call("vendorPayment", Body)
  BY DEF Call, Op, Body
<1>t. /\ t.purchases \in Seq(Purchase) /\ t.vendorPayments \in Seq(VendorPayment)
      /\ t.stock \in [Cell -> Nat]
  BY DEF Tables
<1>d. doc \in Id /\ doc \notin DOMAIN t.vendorPayments
  BY <1>t DEF Id
<1>f. /\ b.vendor \in Party /\ b.amount \in Nat /\ b.method \in Method
      /\ b.alloc \in Allocation
  BY <1>r DEF VendorPaymentBody
<1>w. /\ WellAllocated(b.alloc, b.amount, DOMAIN t.purchases)
      /\ \A x \in b.alloc : /\ t.purchases[x.doc].body.vendor = b.vendor
                            /\ t.purchases[x.doc].branch = r.branch
  BY DEF VendorPaymentPosts, VendorPaymentAdmitted
<1>1. /\ u.vendorPayments = Append(t.vendorPayments, new) /\ u.invoices = t.invoices
      /\ u.receipts = t.receipts
      /\ u.moves = t.moves /\ u.stock = t.stock
      /\ u.subledger = t.subledger \cup {s} /\ u.journal = t.journal \cup {e}
      /\ u.purchases = [p \in DOMAIN t.purchases |->
                          Paying(t.purchases[p], AllocatedTo(b.alloc, p))]
  BY <1>t DEF VendorPaymentAfter, Tables
<1>3. NewDocument(t, u, r, doc)
  BY <1>r, <1>d, VendorPaymentOnce DEF NewDocument, DocumentsIn
<1>4. /\ e \in JournalEntry /\ e.dr = dr /\ e.cr = cr /\ e.source = <<r.op, doc>>
      /\ e.stamp.branch = r.branch
  <2>1. dr \in Lines /\ cr \in Lines
    BY <1>f DEF VendorPaymentDebits, VendorPaymentCredits, Zero, Lines
  <2>. HIDE DEF dr, cr, doc
  <2>2. e \in JournalEntry
    BY <1>r, <1>d, <2>1, EntryType
  <2>. QED
    BY <2>1, <2>2, EntryExact
<1>5. PICK d : d = [a \in Account |-> e.dr[a] - e.cr[a]]
  OBVIOUS
<1>6. /\ d["ar"] = 0 /\ d["ap"] = b.amount /\ d["cogs"] = 0
      /\ \A m \in Method : d[m] = IF m = b.method THEN -b.amount ELSE 0
  <2>1. \A a \in Account : d[a] = dr[a] - cr[a]
    BY <1>4, <1>5
  <2>2. /\ dr["ar"] = 0 /\ dr["ap"] = b.amount /\ dr["cogs"] = 0
        /\ cr["ar"] = 0 /\ cr["ap"] = 0 /\ cr["cogs"] = 0
        /\ \A m \in Method : /\ dr[m] = 0
                             /\ cr[m] = IF m = b.method THEN b.amount ELSE 0
    BY <1>f DEF VendorPaymentDebits, VendorPaymentCredits, Zero, Account, Method
  <2>3. Method \subseteq Account /\ {"ar", "ap", "cogs"} \subseteq Account
    BY DEF Method, Account
  <2>. HIDE DEF dr, cr
  <2>4. \A m \in Method : d[m] = IF m = b.method THEN -b.amount ELSE 0
    <3>. TAKE m \in Method
    <3>1. d[m] = dr[m] - cr[m] /\ dr[m] = 0
          /\ (cr[m] = IF m = b.method THEN b.amount ELSE 0)
      BY <2>1, <2>2, <2>3
    <3>2. b.amount \in Nat
      BY <1>f
    <3>. QED
      BY ONLY <3>1, <3>2
  <2>. QED
    BY <1>f, <2>1, <2>2, <2>3, <2>4
<1>7. /\ s \in SubledgerEntry /\ s.source = <<r.op, doc>> /\ s.branch = r.branch
      /\ s.party = b.vendor /\ s.debit - s.credit = d["ar"] + d["ap"]
  <2>1. s \in SubledgerEntry
    BY <1>r, <1>d, <1>f, SubEntryType
  <2>. QED
    BY <2>1, <1>6, <1>f DEF SubEntry
<1>9. AddsRows(t, u, r, doc, e, s, {})
  <2>1. IsFiniteSet(t.moves)
    BY DEF BookedIn, FiniteIn
  <2>. QED
    BY <1>1, <1>4, <1>7, <2>1 DEF AddsRows
<1>10. ASSUME NEW p \in Party, NEW k \in Branch
       PROVE  /\ Due(u.purchases, p, k) =
                   Due(t.purchases, p, k)
                     - IF b.vendor = p /\ r.branch = k THEN b.amount ELSE 0
              /\ Due(t.purchases, p, k) \in Int
  <2>1. PICK purchases \in Seq(Purchase) : purchases = t.purchases
    BY <1>t
  <2>2. PICK later : later = u.purchases
    OBVIOUS
  <2>4. PICK alloc \in Allocation, amount \in Nat,
            vendor \in Party, branch \in Branch :
          alloc = b.alloc /\ amount = b.amount /\ vendor = b.vendor
            /\ branch = r.branch
    BY <1>f, <1>r
  <2>3. later = [i \in DOMAIN purchases |->
                   Paying(purchases[i], AllocatedTo(alloc, i))]
    BY <1>1, <2>1, <2>2, <2>4
  <2>5. /\ WellAllocated(alloc, amount, DOMAIN purchases)
        /\ \A x \in alloc : /\ purchases[x.doc].body.vendor = vendor
                            /\ purchases[x.doc].branch = branch
    BY <1>w, <2>1, <2>4
  <2>6. /\ Due(later, p, k) =
             Due(purchases, p, k) - IF vendor = p /\ branch = k THEN amount ELSE 0
        /\ Due(purchases, p, k) \in Int
    <3>1. Pays(purchases, alloc, amount, vendor, branch, later)
      BY <2>3, <2>5 DEF Pays
    <3>2. Due(purchases, p, k) \in Int
      BY ONLY <3>1, VendorPaymentBooked
    <3>. QED
      BY ONLY <3>1, <3>2, amount \in Nat, VendorPaymentBooked
  <2>. QED
    BY <2>1, <2>2, <2>4, <2>6
<1>11. AmountsIn(t)
  BY AmountsType DEF BookedIn
<1>13. ASSUME NEW m \in Method, NEW k \in Branch
       PROVE  Paid(u.vendorPayments, m, k) =
                Paid(t.vendorPayments, m, k)
                  + IF b.method = m /\ r.branch = k THEN b.amount ELSE 0
  <2>. DEFINE S == VendorPayment
  <2>1. PICK payments \in Seq(S) : payments = t.vendorPayments
    BY <1>t
  <2>2. PICK made \in S : made = new
    BY <1>r
  <2>3. \A x \in S : x.body.amount \in Int
    BY DEF VendorPaymentBody
  <2>. HIDE DEF new, u, b, VendorPayment, S
  <2>4. Paid(Append(payments, made), m, k) =
          Paid(payments, m, k)
            + IF made.body.method = m /\ made.branch = k THEN made.body.amount ELSE 0
    <3>1. made.body.amount \in Int /\ Paid(payments, m, k) \in Int
      BY <2>3, PaymentBooked
    <3>. QED
      BY ONLY payments \in Seq(S), made \in S, <2>3, <3>1, PaymentBooked
  <2>5. made.branch = r.branch /\ made.body = b
    BY <2>2 DEF new
  <2>. QED
    BY <1>1, <2>1, <2>2, <2>4, <2>5
<1>12. DocumentsShift(t, u, r.branch, s.party, d)
  <2>. HIDE DEF new, u, b, s, e
  <2>1. ASSUME NEW p \in Party, NEW k \in Branch
        PROVE  /\ Collectable(u.invoices, p, k) =
                    Collectable(t.invoices, p, k)
                      + IF s.party = p /\ r.branch = k THEN d["ar"] ELSE 0
               /\ Due(u.purchases, p, k) =
                    Due(t.purchases, p, k)
                      - IF s.party = p /\ r.branch = k THEN d["ap"] ELSE 0
               /\ CostGone(u.invoices, k) =
                    CostGone(t.invoices, k) + IF r.branch = k THEN d["cogs"] ELSE 0
    <3>1. /\ Due(t.purchases, p, k) \in Int /\ Collectable(t.invoices, p, k) \in Int
          /\ CostGone(t.invoices, k) \in Int
      BY <1>11 DEF AmountsIn
    <3>. QED
      BY <1>1, <1>6, <1>7, <1>10, <3>1
  <2>2. ASSUME NEW m \in Method, NEW k \in Branch
        PROVE  Paid(u.receipts, m, k) - Paid(u.vendorPayments, m, k) =
                 Paid(t.receipts, m, k) - Paid(t.vendorPayments, m, k)
                   + IF r.branch = k THEN d[m] ELSE 0
    <3>1. Paid(t.receipts, m, k) \in Int /\ Paid(t.vendorPayments, m, k) \in Int
      BY <1>11 DEF AmountsIn
    <3>2. d[m] = (IF m = b.method THEN -b.amount ELSE 0) /\ b.amount \in Int
      BY <1>6, <1>f DEF b
    <3>3. Paid(u.receipts, m, k) = Paid(t.receipts, m, k)
      BY <1>1
    <3>4. Paid(u.vendorPayments, m, k) =
            Paid(t.vendorPayments, m, k)
              + IF b.method = m /\ r.branch = k THEN b.amount ELSE 0
      BY <1>13
    <3>. QED
      BY ONLY <3>1, <3>2, <3>3, <3>4
  <2>3. ASSUME NEW c \in Cell
        PROVE  u.stock[c] = t.stock[c] + (Moved(u.moves, c) - Moved(t.moves, c))
    <3>1. t.stock[c] \in Nat /\ Moved(t.moves, c) \in Int
      <4>1. Moved(t.moves, c) \in Int
        BY <1>11 DEF AmountsIn
      <4>. QED
        BY <1>t, <4>1
    <3>. QED
      BY <1>1, <3>1
  <2>4. \E p \in Party : TRUE
    BY <1>f
  <2>. QED
    BY <2>1, <2>2, <2>3, <2>4 DEF DocumentsShift
<1>. HIDE DEF u, b, s, e, doc
<1>. QED
  BY <1>3, <1>5, <1>7, <1>9, <1>12, <1>r, BookedNext, VendorPaymentAfterType DEF u

\* A return books what it takes off its invoice and the cost of what comes back.
LEMMA ReturnBooks ==
  ASSUME IsFiniteSet(Party), Unit = 1, NEW t \in Tables, LineTermsIn(t), OnceIn(t),
         BookedIn(t), NEW r \in Call("return", ReturnBody), ReturnPosts(t, r)
  PROVE  BookedIn(ReturnAfter(t, r))
<1>. DEFINE u == ReturnAfter(t, r)
            b == r.body
            doc == Len(t.creditNotes) + 1
            i == t.invoices[b.invoice]
            value == CreditValue(i, b)
            cogs == CreditCogs(i, b)
            dr == ReturnDebits(i, b)
            cr == ReturnCredits(i, b)
            e == Entry(r, doc, dr, cr)
            s == SubEntry(r, doc, b.customer, 0, value)
            more == Movements(r, doc, i.body.product, b.warehouse, b.items, 1)
<1>r. r.op = "return" /\ r.op \in Op /\ r.branch \in Branch /\ b \in ReturnBody
      /\ r \in Call("return", Body)
  BY DEF Call, Op, Body
<1>t. /\ t.invoices \in Seq(Invoice) /\ t.stock \in [Cell -> Nat]
      /\ t.creditNotes \in Seq([branch : Branch, body : ReturnBody])
      /\ t.moves \in SUBSET Movement
  BY DEF Tables
<1>d. doc \in Id /\ doc \notin DOMAIN t.creditNotes
  BY <1>t DEF Id
<1>w. b.invoice \in DOMAIN t.invoices /\ i.body.customer = b.customer
      /\ i.branch = r.branch
  BY DEF ReturnPosts, ReturnAdmitted
<1>f. /\ b.customer \in Party /\ b.items \in [Line -> Nat]
      /\ b.warehouse \in [Line -> Warehouse]
  BY <1>r DEF ReturnBody
<1>c. i \in Invoice /\ value \in Nat /\ cogs \in Nat
      /\ i.body.product \in [Line -> Product]
  BY <1>r, <1>w, CreditNat DEF Invoice, SaleBody
<1>1. /\ u.invoices = [t.invoices EXCEPT ![b.invoice] = Credited(i, b)]
      /\ u.purchases = t.purchases
      /\ u.receipts = t.receipts /\ u.vendorPayments = t.vendorPayments
      /\ u.moves = t.moves \cup more
      /\ u.subledger = t.subledger \cup {s} /\ u.journal = t.journal \cup {e}
      /\ u.stock = [c \in Cell |->
                      t.stock[c] + Demand(i.body.product, b.warehouse, b.items, c)]
  BY <1>t DEF ReturnAfter, Tables
<1>3. NewDocument(t, u, r, doc)
  BY <1>r, <1>d, ReturnOnce DEF NewDocument, DocumentsIn
<1>4. /\ e \in JournalEntry /\ e.dr = dr /\ e.cr = cr /\ e.source = <<r.op, doc>>
      /\ e.stamp.branch = r.branch
  <2>1. dr \in Lines /\ cr \in Lines
    BY <1>c DEF ReturnDebits, ReturnCredits, Zero, Lines
  <2>. HIDE DEF dr, cr, doc
  <2>2. e \in JournalEntry
    BY <1>r, <1>d, <2>1, EntryType
  <2>. QED
    BY <2>1, <2>2, EntryExact
<1>5. PICK d : d = [a \in Account |-> e.dr[a] - e.cr[a]]
  OBVIOUS
<1>6. /\ d["ar"] = -value /\ d["ap"] = 0 /\ d["cogs"] = -cogs
      /\ \A m \in Method : d[m] = 0
  <2>1. \A a \in Account : d[a] = dr[a] - cr[a]
    BY <1>4, <1>5
  <2>2. /\ dr["ar"] = 0 /\ dr["ap"] = 0 /\ dr["cogs"] = 0
        /\ cr["ar"] = value /\ cr["ap"] = 0 /\ cr["cogs"] = cogs
        /\ \A m \in Method : dr[m] = 0 /\ cr[m] = 0
    BY DEF ReturnDebits, ReturnCredits, Zero, Account, Method
  <2>3. Method \subseteq Account /\ {"ar", "ap", "cogs"} \subseteq Account
    BY DEF Method, Account
  <2>. HIDE DEF dr, cr, value, cogs
  <2>. QED
    BY <1>c, <2>1, <2>2, <2>3
<1>7. /\ s \in SubledgerEntry /\ s.source = <<r.op, doc>> /\ s.branch = r.branch
      /\ s.party = b.customer /\ s.debit - s.credit = d["ar"] + d["ap"]
  <2>1. s \in SubledgerEntry
    BY <1>r, <1>d, <1>f, <1>c, SubEntryType
  <2>. HIDE DEF value
  <2>. QED
    BY <2>1, <1>6, <1>c DEF SubEntry
<1>8. /\ IsFiniteSet(u.moves)
      /\ \A c \in Cell :
           /\ Moved(u.moves, c) =
                Moved(t.moves, c)
                  + 1 * Demand(i.body.product, b.warehouse, b.items, c)
           /\ Demand(i.body.product, b.warehouse, b.items, c) \in Nat
           /\ Moved(t.moves, c) \in Int
      /\ \A m \in more : m.source = <<r.op, doc>>
  <2>1. \A m \in t.moves : m.source # <<r.op, doc>>
    BY <1>3, RowsNew DEF BookedIn
  <2>2. IsFiniteSet(t.moves) /\ 1 \in {-1, 1}
    BY DEF BookedIn, FiniteIn
  <2>. HIDE DEF doc, u
  <2>3. Goods(t.moves, r, doc, i.body.product, b.warehouse, b.items, 1)
    BY <1>c, <1>d, <1>f, <1>r, <1>t, <2>1, <2>2 DEF Goods
  <2>. HIDE DEF more, b, i
  <2>4. PICK moves, up, what : /\ moves = t.moves /\ up = 1 /\ up \in Int
                               /\ what = i.body.product
    OBVIOUS
  <2>5. /\ Goods(moves, r, doc, what, b.warehouse, b.items, up)
        /\ more = Movements(r, doc, what, b.warehouse, b.items, up)
    BY <2>3, <2>4 DEF more
  <2>6. /\ IsFiniteSet(moves \cup more)
        /\ \A c \in Cell : /\ Demand(what, b.warehouse, b.items, c) \in Nat
                           /\ Moved(moves, c) \in Int
    BY ONLY <2>5, GoodsMoved
  <2>7. ASSUME NEW c \in Cell
        PROVE  Moved(moves \cup more, c) =
                 Moved(moves, c) + up * Demand(what, b.warehouse, b.items, c)
    BY ONLY <2>4, <2>5, <2>6, c \in Cell, GoodsMoved
  <2>8. \A m \in more : m.source = <<r.op, doc>>
    BY DEF more, Movements
  <2>. QED
    BY <1>1, <2>4, <2>6, <2>7, <2>8 DEF more, b, i
<1>9. AddsRows(t, u, r, doc, e, s, more)
  BY <1>1, <1>4, <1>7, <1>8 DEF AddsRows, Movements
<1>10. ASSUME NEW p \in Party, NEW k \in Branch
       PROVE  /\ Collectable(u.invoices, p, k) =
                   Collectable(t.invoices, p, k)
                     - IF b.customer = p /\ r.branch = k THEN value ELSE 0
              /\ CostGone(u.invoices, k) =
                   CostGone(t.invoices, k) - IF r.branch = k THEN cogs ELSE 0
  <2>1. PICK invoices \in Seq(Invoice) : invoices = t.invoices
    BY <1>t
  <2>2. PICK later, n, body : later = u.invoices /\ n = b.invoice /\ body = b
    OBVIOUS
  <2>. HIDE DEF u, b, i, value, cogs
  <2>3. Returns(invoices, n, body, later) /\ i = invoices[n]
    BY <1>1, <1>c, <1>r, <1>w, <2>1, <2>2 DEF Returns, i, value
  <2>4. /\ CreditValue(invoices[n], body) = value
        /\ CreditCogs(invoices[n], body) = cogs
    BY <2>2, <2>3 DEF value, cogs
  <2>5. /\ CreditValue(invoices[n], body) \in Int
        /\ CreditCogs(invoices[n], body) \in Int
        /\ Collectable(invoices, p, k) \in Int /\ CostGone(invoices, k) \in Int
    <3>1. Collectable(invoices, p, k) \in Int /\ CostGone(invoices, k) \in Int
      BY ONLY <2>3, ReturnBooked
    <3>. QED
      BY <1>c, <2>4, <3>1
  <2>6. Collectable(later, p, k) =
          Collectable(invoices, p, k)
            - IF invoices[n].body.customer = p /\ invoices[n].branch = k
                THEN CreditValue(invoices[n], body) ELSE 0
    BY ONLY <2>3, <2>5, ReturnBooked
  <2>7. CostGone(later, k) =
          CostGone(invoices, k)
            - IF invoices[n].branch = k THEN CreditCogs(invoices[n], body) ELSE 0
    BY ONLY <2>3, <2>5, ReturnBooked
  <2>. QED
    BY <1>w, <2>1, <2>2, <2>3, <2>4, <2>6, <2>7
<1>11. AmountsIn(t)
  BY AmountsType DEF BookedIn
<1>12. DocumentsShift(t, u, r.branch, s.party, d)
  <2>. HIDE DEF u, b, i, value, cogs, s, e, more
  <2>1. ASSUME NEW p \in Party, NEW k \in Branch
        PROVE  /\ Collectable(u.invoices, p, k) =
                    Collectable(t.invoices, p, k)
                      + IF s.party = p /\ r.branch = k THEN d["ar"] ELSE 0
               /\ Due(u.purchases, p, k) =
                    Due(t.purchases, p, k)
                      - IF s.party = p /\ r.branch = k THEN d["ap"] ELSE 0
               /\ CostGone(u.invoices, k) =
                    CostGone(t.invoices, k) + IF r.branch = k THEN d["cogs"] ELSE 0
    <3>1. /\ Due(t.purchases, p, k) \in Int /\ Collectable(t.invoices, p, k) \in Int
          /\ CostGone(t.invoices, k) \in Int
      BY <1>11 DEF AmountsIn
    <3>2. /\ value = 0 - d["ar"] /\ d["ar"] \in Int
          /\ cogs = 0 - d["cogs"] /\ d["cogs"] \in Int
      BY <1>6, <1>c
    <3>3. /\ Collectable(u.invoices, p, k) =
               Collectable(t.invoices, p, k)
                 - IF s.party = p /\ r.branch = k THEN 0 - d["ar"] ELSE 0
          /\ CostGone(u.invoices, k) =
               CostGone(t.invoices, k) - IF r.branch = k THEN 0 - d["cogs"] ELSE 0
      BY <1>7, <1>10, <3>2
    <3>4. /\ Collectable(u.invoices, p, k) =
               Collectable(t.invoices, p, k)
                 + IF s.party = p /\ r.branch = k THEN d["ar"] ELSE 0
          /\ CostGone(u.invoices, k) =
               CostGone(t.invoices, k) + IF r.branch = k THEN d["cogs"] ELSE 0
      BY ONLY <3>1, <3>2, <3>3
    <3>. QED
      BY <1>1, <1>6, <3>1, <3>4
  <2>2. ASSUME NEW m \in Method, NEW k \in Branch
        PROVE  Paid(u.receipts, m, k) - Paid(u.vendorPayments, m, k) =
                 Paid(t.receipts, m, k) - Paid(t.vendorPayments, m, k)
                   + IF r.branch = k THEN d[m] ELSE 0
    <3>1. Paid(t.receipts, m, k) \in Int /\ Paid(t.vendorPayments, m, k) \in Int
      BY <1>11 DEF AmountsIn
    <3>. QED
      BY <1>1, <1>6, <3>1
  <2>3. ASSUME NEW c \in Cell
        PROVE  u.stock[c] = t.stock[c] + (Moved(u.moves, c) - Moved(t.moves, c))
    <3>1. t.stock[c] \in Nat
      BY <1>t
    <3>2. u.stock[c] = t.stock[c] + Demand(i.body.product, b.warehouse, b.items, c)
      BY <1>1 DEF b, i
    <3>. QED
      BY <1>8, <3>1, <3>2 DEF b, i
  <2>4. \E p \in Party : TRUE
    BY <1>f
  <2>. QED
    BY <2>1, <2>2, <2>3, <2>4 DEF DocumentsShift
<1>. HIDE DEF u, b, i, value, cogs, s, e, more, doc
<1>. QED
  BY <1>3, <1>5, <1>7, <1>9, <1>12, <1>r, BookedNext, ReturnAfterType DEF u

\* A copilot sale books its sale, then the receipt on it.
LEMMA CopilotSaleBooks ==
  ASSUME IsFiniteSet(Party), Unit = 1, NEW t, SoundIn(t), OnceIn(t), BookedIn(t),
         NEW r \in Call("copilotSale", SaleBody), CopilotSalePosts(t, r)
  PROVE  BookedIn(CopilotSaleAfter(t, r))
<1>. DEFINE doc == Len(t.invoices) + 1
            sold == SaleAfter(t, SaleCall(r))
            receipt == ReceiptCall(r, doc)
<1>1. SaleCall(r) \in Call("sale", SaleBody) /\ t \in Tables /\ doc \in Id
  <2>1. SaleCall(r) \in Call("sale", SaleBody)
    BY DEF SaleCall, Call
  <2>2. t \in Tables /\ doc \in Id
    BY DEF SoundIn, Tables, Id
  <2>. QED
    BY <2>1, <2>2
<1>2. SalePosts(t, SaleCall(r))
  BY DEF CopilotSalePosts
<1>3. sold \in Tables /\ OnceIn(sold) /\ BookedIn(sold)
  BY <1>1, <1>2, SaleSound, SaleOnce, SaleBooks DEF SoundIn
<1>4. CASE r.body.paid > 0
  <2>1. receipt \in Call("receipt", ReceiptBody) /\ ReceiptPosts(sold, receipt)
    BY <1>1, <1>4, ReceiptCallType DEF CopilotSalePosts
  <2>. HIDE DEF sold, receipt
  <2>2. BookedIn(ReceiptAfter(sold, receipt))
    BY <1>3, <2>1, ReceiptBooks
  <2>. QED
    BY <1>4, <2>2 DEF CopilotSaleAfter, sold, receipt
<1>5. CASE ~(r.body.paid > 0)
  BY <1>3, <1>5 DEF CopilotSaleAfter
<1>. QED
  BY <1>4, <1>5

\* The books depend on neither the estimates nor the keys.
LEMMA SameBooks ==
  ASSUME NEW t, NEW u, BookedIn(t),
         /\ u.journal = t.journal /\ u.subledger = t.subledger
         /\ u.moves = t.moves /\ u.stock = t.stock /\ u.invoices = t.invoices
         /\ u.purchases = t.purchases /\ u.receipts = t.receipts
         /\ u.creditNotes = t.creditNotes /\ u.vendorPayments = t.vendorPayments
  PROVE  BookedIn(u)
<1>1. \A op : DocumentsIn(u, op) = DocumentsIn(t, op)
  BY DEF DocumentsIn
<1>2. FiniteIn(u) /\ NumberedIn(u)
  BY <1>1 DEF BookedIn, FiniteIn, NumberedIn
<1>3. BooksIn(u)
  BY DEF BookedIn, BooksIn
<1>. QED
  BY <1>2, <1>3 DEF BookedIn

\* Of the specification's tables.
BooksInv == BookedIn(db)

\* Every step keeps it.
LEMMA NextBooks ==
  ASSUME IsFiniteSet(Party), Unit = 1
  PROVE  IInv /\ OnceInv /\ BooksInv /\ [Next]_vars => BooksInv'
<1>. SUFFICES ASSUME IInv, OnceInv, BooksInv, [Next]_vars PROVE BookedIn(db')
  BY DEF BooksInv, BookedIn, FiniteIn, NumberedIn, BooksIn, DocumentsIn, Balance,
         Owed, Collectable, Due, Paid, CostGone, Moved, Tally, Outstanding, Unpaid,
         CostOut, Billed, PurchaseTotal, PurchaseGoods
<1>i. /\ db \in Tables /\ SoundIn(db) /\ LineTermsIn(db) /\ OnceIn(db)
      /\ BookedIn(db)
  BY DEF IInv, SoundIn, OnceInv, BooksInv
<1>1. ASSUME NEW r \in SaleRequest, PostSale(r) PROVE BookedIn(db')
  BY <1>1, <1>i, SaleBooks, RequestAssumption DEF PostSale
<1>2. ASSUME NEW r \in PurchaseRequest, PostPurchase(r) PROVE BookedIn(db')
  BY <1>2, <1>i, PurchaseBooks, RequestAssumption DEF PostPurchase
<1>3. ASSUME NEW r \in ReceiptRequest, PostReceipt(r) PROVE BookedIn(db')
  BY <1>3, <1>i, ReceiptBooks, RequestAssumption DEF PostReceipt
<1>4. ASSUME NEW r \in ReturnRequest, PostReturn(r) PROVE BookedIn(db')
  BY <1>4, <1>i, ReturnBooks, RequestAssumption DEF PostReturn
<1>5. ASSUME NEW r \in VendorPaymentRequest, PostVendorPayment(r)
      PROVE  BookedIn(db')
  BY <1>5, <1>i, VendorPaymentBooks, RequestAssumption DEF PostVendorPayment
<1>6. ASSUME NEW r \in CopilotSaleRequest, PostCopilotSale(r)
      PROVE  BookedIn(db')
  BY <1>6, <1>i, CopilotSaleBooks, RequestAssumption DEF PostCopilotSale
<1>7. ASSUME NEW e \in Estimate, MarkReady(e) PROVE BookedIn(db')
  <2>1. db' = [db EXCEPT !.estimate[e] = "READY"]
    BY <1>7 DEF MarkReady
  <2>2. /\ db'.journal = db.journal /\ db'.stock = db.stock
        /\ db'.moves = db.moves /\ db'.subledger = db.subledger
        /\ db'.receipts = db.receipts /\ db'.invoices = db.invoices
        /\ db'.vendorPayments = db.vendorPayments
        /\ db'.purchases = db.purchases /\ db'.creditNotes = db.creditNotes
    BY <2>1, <1>i DEF Tables
  <2>. QED
    BY <1>i, <2>2, SameBooks
<1>8. ASSUME UNCHANGED db PROVE BookedIn(db')
  BY <1>8, <1>i
<1>. QED
  BY <1>1, <1>2, <1>3, <1>4, <1>5, <1>6, <1>7, <1>8
     DEF Next, Replay, Refuse, Revoke, Regrant, vars

\* Nothing is booked in empty books.
LEMMA InitBooks ==
  ASSUME IsFiniteSet(Party)
  PROVE  Init => BooksInv
<1>. SUFFICES ASSUME Init PROVE BookedIn(db)
  BY DEF BooksInv
<1>1. /\ db.journal = {} /\ db.subledger = {} /\ db.moves = {}
      /\ db.invoices = <<>> /\ db.purchases = <<>> /\ db.receipts = <<>>
      /\ db.vendorPayments = <<>> /\ db.stock = OpeningStock
  BY DEF Init
<1>2. ASSUME NEW v, DOMAIN v = {}, NEW key, NEW k PROVE Tally(v, key, k) = 0
  <2>1. {j \in DOMAIN v : key[j] = k} = {}
    BY <1>2
  <2>2. PICK f : f = [i \in {} |-> v[i]]
    OBVIOUS
  <2>3. f \in [{} -> Int] /\ IsFiniteSet({})
    BY <2>2, FS_EmptySet
  <2>4. SumFunction(f) = 0
    BY <2>3, SumType
  <2>. QED
    BY <2>1, <2>2, <2>4 DEF Tally
<1>3. /\ \A a, b : Balance({}, a, b) = 0
      /\ \A p, b : Owed({}, p, b) = 0
      /\ \A p, b : Collectable(<<>>, p, b) = 0
      /\ \A p, b : Due(<<>>, p, b) = 0
      /\ \A m, b : Paid(<<>>, m, b) = 0
      /\ \A b : CostGone(<<>>, b) = 0
      /\ \A c : Moved({}, c) = 0
  BY <1>2 DEF Balance, Owed, Collectable, Due, Paid, CostGone, Moved
<1>4. PICK none : none = [p \in Party |-> 0]
  OBVIOUS
<1>5. none \in [Party -> Int] /\ \A p \in Party : none[p] = 0
  BY <1>4
<1>6. SumFunction(none) = 0
  BY <1>5, SumType
<1>7. \A b : /\ [p \in Party |-> Collectable(<<>>, p, b)] = none
             /\ [p \in Party |-> Due(<<>>, p, b)] = none
  BY <1>3, <1>4
<1>8. \A c \in Cell : OpeningStock[c] \in Nat
  BY OwnershipAssumption
<1>9. BooksIn(db)
  BY <1>1, <1>3, <1>6, <1>7, <1>8 DEF BooksIn
<1>10. FiniteIn(db) /\ NumberedIn(db)
  BY <1>1, FS_EmptySet DEF FiniteIn, NumberedIn
<1>. QED
  BY <1>9, <1>10 DEF BookedIn

\* Whatever is posted, in whatever order, the books agree with the documents and
\* the goods, if there are finitely many parties and every amount is one that
\* journal_lines can hold.
THEOREM BooksAlwaysReconcile ==
  ASSUME IsFiniteSet(Party), Unit = 1
  PROVE  Spec => []BooksReconcile
<1>1. Init => BooksInv
  BY InitBooks
<1>2. IInv /\ OnceInv /\ BooksInv /\ [Next]_vars => BooksInv'
  BY NextBooks
<1>3. BooksInv => BooksReconcile
  BY BooksAreThese DEF BooksInv, BookedIn
<1>. QED
  BY <1>1, <1>2, <1>3, InitOnce, NextOnce, SpecSound, PTL DEF Spec

-----------------------------------------------------------------------------
(* How far rounding goes *)

\* A quotient of natural numbers is what the divisor goes into.
LEMMA DivBounds ==
  ASSUME NEW a \in Nat, NEW b \in Nat \ {0}
  PROVE  /\ b * (a \div b) <= a
         /\ a < b * (a \div b) + b
  BY SMT

\* A common factor can be taken out.
LEMMA Cancelled ==
  ASSUME NEW k \in Nat \ {0}, NEW x \in Int, NEW y \in Int, k * x <= k * y
  PROVE  x <= y
  BY SMT

\* A larger factor makes a larger product.
LEMMA Larger ==
  ASSUME NEW k \in Nat, NEW x \in Int, NEW y \in Int, x <= y
  PROVE  k * x <= k * y
  BY SMT

\* An amount is posted within half of what journal_lines can tell apart.
LEMMA Post4Near ==
  ASSUME NEW x \in Nat
  PROVE  /\ Post4(x) \in Nat
         /\ 2 * (Post4(x) - x) <= Unit
         /\ -(2 * (Post4(x) - x)) <= Unit
<1>. DEFINE q == (2 * x + Unit) \div (2 * Unit)
<1>1. Unit \in Nat \ {0} /\ 2 * Unit \in Nat \ {0} /\ 2 * x + Unit \in Nat
  BY UnitAssumption
<1>2. q \in Nat
  BY <1>1, DivNat
<1>3. 2 * Unit * q <= 2 * x + Unit /\ 2 * x + Unit < 2 * Unit * q + 2 * Unit
  BY ONLY <1>1, DivBounds
<1>4. PICK p \in Nat : p = Unit * q
  BY <1>1, <1>2, TimesNat
<1>5. 2 * Unit * q = 2 * (Unit * q)
  <2>. HIDE DEF q
  <2>. QED
    BY <1>1, <1>2, SMT
<1>6. 2 * p <= 2 * x + Unit /\ 2 * x + Unit < 2 * p + 2 * Unit
  BY <1>3, <1>4, <1>5
<1>7. Post4(x) = p
  BY <1>4 DEF Post4
<1>. HIDE DEF q
<1>. QED
  BY <1>1, <1>6, <1>7

\* Nothing is posted as nothing.
LEMMA Post4Zero == Post4(0) = 0
<1>1. PICK p \in Nat : p = Post4(0)
  BY Post4Nat
<1>. DEFINE q == (2 * 0 + Unit) \div (2 * Unit)
<1>2. Unit \in Nat \ {0} /\ 2 * Unit \in Nat \ {0}
  BY UnitAssumption
<1>3. q = 0
  BY <1>2
<1>. QED
  BY <1>2, <1>3 DEF Post4

\* A quotient is within half of what it divides.
LEMMA QuotientNear ==
  ASSUME NEW a \in Nat, NEW b \in Nat \ {0}
  PROVE  Quotient(a, b) \in Nat /\ 2 * (b * Quotient(a, b)) <= 2 * a + b
<1>1. 2 * b \in Nat \ {0} /\ 2 * a + b \in Nat
  OBVIOUS
<1>. DEFINE q == (2 * a + b) \div (2 * b)
<1>2. 2 * b * q <= 2 * a + b
  BY ONLY <1>1, DivBounds
<1>3. q \in Nat
  BY <1>1, DivNat
<1>4. Quotient(a, b) = q
  BY DEF Quotient
<1>. HIDE DEF q
<1>5. 2 * b * q = 2 * (b * q)
  BY <1>3, SMT
<1>. QED
  BY <1>2, <1>3, <1>4, <1>5

\* What the price of an invoice on the books satisfies.
FairTerms(b) ==
  /\ Cost(b.qty, b.price) = b.subtotal
  /\ b.discount <= b.subtotal /\ b.grand = b.subtotal - b.discount
  /\ \A l \in Line : b.price[l] % Fine = 0
  /\ b.perLine => /\ \A l \in Line : b.off[l] <= b.qty[l] * b.price[l]
                  /\ Both(b.off) = b.discount

\* A cost is that of the two lines.
LEMMA CostOfLines ==
  ASSUME NEW q, NEW r
  PROVE  Cost(q, [l \in Line |-> r[l]]) = q[1] * r[1] + q[2] * r[2]
  BY DEF Cost, Both, Line

\* A line credits what it was sold for, and at most half of the smallest
\* fraction for each unit that came back.
LEMMA LineCredits ==
  ASSUME NEW net \in Nat, NEW qty \in Nat, NEW back \in Nat, back <= qty
  PROVE  /\ Quotient(net, qty) \in Nat
         /\ 2 * (back * Quotient(net, qty)) <= 2 * net + back
<1>1. CASE qty = 0
  BY <1>1 DEF Quotient
<1>2. CASE qty # 0
  <2>1. PICK q \in Nat : q = Quotient(net, qty) /\ 2 * (qty * q) <= 2 * net + qty
    BY <1>2, QuotientNear
  <2>2. PICK one \in Nat : one = qty * q
    BY <2>1, TimesNat
  <2>3. PICK some \in Nat : some = back * q
    BY <2>1, TimesNat
  <2>4. PICK both \in Nat : both = qty * some /\ both = back * one
    <3>1. qty * (back * q) = back * (qty * q)
      BY <2>1, SMT
    <3>. QED
      BY <2>2, <2>3, <3>1, TimesNat
  <2>5. back * (2 * one) <= back * (2 * net + qty)
    BY ONLY <2>1, <2>2, net \in Nat, qty \in Nat, back \in Nat, Larger
  <2>6. net * back <= net * qty
    BY Larger
  <2>7. back * (2 * one) = 2 * both
    <3>1. back * (2 * one) = 2 * (back * one)
      BY <2>2, SMT
    <3>. QED
      BY <2>4, <3>1
  <2>8. /\ back * (2 * net + qty) = 2 * (net * back) + qty * back
        /\ qty * (2 * net + back) = 2 * (net * qty) + qty * back
        /\ qty * (2 * some) = 2 * (qty * some)
        /\ net * back \in Nat /\ net * qty \in Nat /\ qty * back \in Nat
    BY <2>3, SMT
  <2>9. qty * (2 * some) <= qty * (2 * net + back)
    <3>. PICK x \in Nat, y \in Nat : x = net * back /\ y = net * qty
      BY <2>8
    <3>. PICK z \in Nat, v \in Nat : z = qty * back /\ v = back * (2 * one)
      BY <2>7, <2>8, <2>4
    <3>1. /\ x = net * back /\ y = net * qty /\ z = qty * back
          /\ v = back * (2 * one)
      OBVIOUS
    <3>2. qty * (2 * some) = v /\ v <= 2 * x + z /\ x <= y
      BY <2>4, <2>5, <2>6, <2>7, <2>8, <3>1
    <3>. QED
      BY <2>8, <3>1, <3>2
  <2>10. 2 * some <= 2 * net + back
    <3>1. 2 * some \in Int /\ 2 * net + back \in Int /\ qty \in Nat \ {0}
      BY <1>2, <2>3
    <3>. QED
      BY ONLY <2>9, <3>1, Cancelled
  <2>. QED
    BY <2>1, <2>3, <2>10
<1>. QED
  BY <1>1, <1>2

\* A ratio of what is left of a price list value: r of the s that was listed
\* credits at most what was left, and half of the smallest fraction.
LEMMA RatioCredits ==
  ASSUME NEW grand \in Nat, NEW fine \in Nat \ {0}, NEW s \in Nat \ {0},
         NEW r \in Nat, fine * r <= s
  PROVE  /\ Quotient(grand * fine, s) \in Nat
         /\ 2 * (r * Quotient(grand * fine, s)) <= 2 * grand + r
<1>1. PICK whole \in Nat : whole = grand * fine
  BY TimesNat
<1>2. PICK q \in Nat : q = Quotient(whole, s) /\ 2 * (s * q) <= 2 * whole + s
  BY QuotientNear
<1>3. PICK one \in Nat : one = s * q
  BY <1>2, TimesNat
<1>4. PICK some \in Nat : some = r * q
  BY <1>2, TimesNat
<1>5. s * some = r * one
  <2>1. s * (r * q) = r * (s * q)
    BY <1>2, SMT
  <2>. QED
    BY <1>3, <1>4, <2>1
<1>6. r * (2 * one) <= r * (2 * whole + s)
  BY ONLY <1>2, <1>3, <1>1, r \in Nat, s \in Nat \ {0}, Larger
<1>7. r * whole <= grand * s
  <2>1. fine * r \in Nat
    BY TimesNat
  <2>2. grand * (fine * r) <= grand * s
    BY ONLY <2>1, fine * r <= s, grand \in Nat, s \in Nat \ {0}, Larger
  <2>3. r * (grand * fine) = grand * (fine * r)
    BY SMT
  <2>. QED
    BY <1>1, <2>2, <2>3
<1>8. /\ r * (2 * whole + s) = 2 * (r * whole) + r * s
      /\ s * (2 * grand + r) = 2 * (grand * s) + r * s
      /\ r * (2 * one) = 2 * (r * one)
      /\ s * (2 * some) = 2 * (s * some)
      /\ r * whole \in Nat /\ grand * s \in Nat /\ r * s \in Nat
      /\ r * one \in Nat
  BY <1>1, <1>3, <1>4, SMT
<1>9. s * (2 * some) <= s * (2 * grand + r)
  <2>. PICK x \in Nat, y \in Nat : x = r * whole /\ y = grand * s
    BY <1>8
  <2>. PICK z \in Nat, v \in Nat : z = r * s /\ v = r * one
    BY <1>8
  <2>1. x = r * whole /\ y = grand * s /\ z = r * s /\ v = r * one
    OBVIOUS
  <2>2. s * (2 * some) = 2 * v /\ 2 * v <= 2 * x + z /\ x <= y
    BY <1>5, <1>6, <1>7, <1>8, <2>1
  <2>. QED
    BY <1>8, <2>1, <2>2
<1>10. 2 * some <= 2 * grand + r
  <2>1. 2 * some \in Int /\ 2 * grand + r \in Int
    BY <1>4
  <2>. QED
    BY ONLY <1>9, <2>1, s \in Nat \ {0}, Cancelled
<1>. QED
  BY <1>1, <1>2, <1>4, <1>10

\* What comes back of an invoice is credited with at most what the invoice
\* bills for goods, up to the rounding of the net rates.
LEMMA CreditBounded ==
  ASSUME NEW b \in SaleBody, FairTerms(b), NEW back \in [Line -> Nat],
         \A l \in Line : back[l] <= b.qty[l]
  PROVE  2 * Cost(back, [l \in Line |-> NetRate(b, l)])
           <= 2 * b.grand + Cost(back, [l \in Line |-> Grain(b, l)])
<1>1. /\ b.qty \in [Line -> Nat] /\ b.price \in [Line -> Nat]
      /\ b.off \in [Line -> Nat] /\ b.perLine \in BOOLEAN
      /\ b.subtotal \in Nat /\ b.discount \in Nat /\ b.grand \in Nat
  BY DEF SaleBody
<1>2. 1 \in Line /\ 2 \in Line /\ Line = {1, 2}
  BY DEF Line
<1>3. Fine \in Nat \ {0}
  BY UnitAssumption
<1>. PICK q1 \in Nat, q2 \in Nat : q1 = b.qty[1] /\ q2 = b.qty[2]
  BY <1>1, <1>2
<1>. PICK p1 \in Nat, p2 \in Nat : p1 = b.price[1] /\ p2 = b.price[2]
  BY <1>1, <1>2
<1>. PICK b1 \in Nat, b2 \in Nat : b1 = back[1] /\ b2 = back[2]
  BY <1>1, <1>2
<1>4. /\ q1 = b.qty[1] /\ q2 = b.qty[2] /\ p1 = b.price[1] /\ p2 = b.price[2]
      /\ b1 = back[1] /\ b2 = back[2] /\ b1 <= q1 /\ b2 <= q2
  BY <1>1, <1>2
<1>5. PICK g1 \in Nat, g2 \in Nat :
        /\ g1 = p1 \div Fine /\ g2 = p2 \div Fine
        /\ p1 = Fine * g1 /\ p2 = Fine * g2
  <2>1. p1 % Fine = 0 /\ p2 % Fine = 0
    BY <1>2, <1>4 DEF FairTerms
  <2>2. p1 \div Fine \in Nat /\ p2 \div Fine \in Nat
    BY <1>3, <1>4, DivNat
  <2>3. p1 = Fine * (p1 \div Fine) /\ p2 = Fine * (p2 \div Fine)
    BY ONLY <1>3, <1>4, <2>1, SMT
  <2>. QED
    BY <2>2, <2>3
<1>6. /\ Cost(back, [l \in Line |-> NetRate(b, l)])
           = b1 * NetRate(b, 1) + b2 * NetRate(b, 2)
      /\ Cost(back, [l \in Line |-> Grain(b, l)])
           = b1 * Grain(b, 1) + b2 * Grain(b, 2)
      /\ b.subtotal = q1 * p1 + q2 * p2
  BY <1>2, <1>4 DEF Cost, Both, FairTerms
<1>7. PICK x1 \in Nat, x2 \in Nat : x1 = q1 * p1 /\ x2 = q2 * p2
  BY <1>4, TimesNat
<1>8. b.grand = x1 + x2 - b.discount /\ b.discount <= x1 + x2
  <2>1. b.subtotal = x1 + x2
    BY <1>6, <1>7
  <2>2. b.discount <= b.subtotal /\ b.grand = b.subtotal - b.discount
    BY DEF FairTerms
  <2>. QED
    BY ONLY <1>1, <1>7, <2>1, <2>2
<1>9. CASE b.perLine
  <2>1. PICK o1 \in Nat, o2 \in Nat :
          /\ o1 = b.off[1] /\ o2 = b.off[2]
          /\ o1 <= x1 /\ o2 <= x2 /\ o1 + o2 = b.discount
    BY <1>1, <1>2, <1>4, <1>7, <1>9 DEF FairTerms, Both
  <2>2. PICK r1 \in Nat, r2 \in Nat :
          /\ r1 = Quotient(x1 - o1, q1) /\ r2 = Quotient(x2 - o2, q2)
          /\ 2 * (b1 * r1) <= 2 * (x1 - o1) + b1
          /\ 2 * (b2 * r2) <= 2 * (x2 - o2) + b2
    <3>1. x1 - o1 \in Nat /\ x2 - o2 \in Nat
      BY <2>1, <1>7
    <3>2. /\ Quotient(x1 - o1, q1) \in Nat
          /\ 2 * (b1 * Quotient(x1 - o1, q1)) <= 2 * (x1 - o1) + b1
      BY ONLY <1>4, <3>1, LineCredits
    <3>3. /\ Quotient(x2 - o2, q2) \in Nat
          /\ 2 * (b2 * Quotient(x2 - o2, q2)) <= 2 * (x2 - o2) + b2
      BY ONLY <1>4, <3>1, LineCredits
    <3>. QED
      BY <3>2, <3>3
  <2>3. NetRate(b, 1) = r1 /\ NetRate(b, 2) = r2 /\ Grain(b, 1) = 1 /\ Grain(b, 2) = 1
    BY <1>4, <1>7, <1>9, <2>1, <2>2 DEF NetRate, Grain
  <2>4. PICK y1 \in Nat, y2 \in Nat : y1 = b1 * r1 /\ y2 = b2 * r2
    BY <1>4, <2>2, TimesNat
  <2>. QED
    BY <1>4, <1>6, <1>7, <1>8, <2>1, <2>2, <2>3, <2>4
<1>10. PICK z1 \in Nat, z2 \in Nat : z1 = b1 * p1 /\ z2 = b2 * p2 /\ z1 <= x1 /\ z2 <= x2
  <2>1. b1 * p1 \in Nat /\ b2 * p2 \in Nat
    BY <1>4, TimesNat
  <2>2. p1 * b1 <= p1 * q1 /\ p2 * b2 <= p2 * q2
    BY <1>4, Larger
  <2>3. p1 * b1 = b1 * p1 /\ p2 * b2 = b2 * p2 /\ p1 * q1 = q1 * p1 /\ p2 * q2 = q2 * p2
    BY <1>4
  <2>. QED
    BY <1>7, <2>1, <2>2, <2>3
<1>11. CASE ~b.perLine
  <2>1. PICK w1 \in Nat, w2 \in Nat : w1 = b1 * g1 /\ w2 = b2 * g2
    BY <1>4, <1>5, TimesNat
  <2>2. Grain(b, 1) = g1 /\ Grain(b, 2) = g2
    BY <1>4, <1>5, <1>11 DEF Grain
  <2>3. CASE b.discount > 0 /\ b.subtotal > 0
    <3>1. PICK r \in Nat : r = w1 + w2 /\ Fine * r <= b.subtotal
      <4>1. Fine * w1 = z1 /\ Fine * w2 = z2
        <5>1. Fine * (b1 * g1) = b1 * (Fine * g1) /\ Fine * (b2 * g2) = b2 * (Fine * g2)
          BY <1>3, <1>4, <1>5, SMT
        <5>. QED
          BY <1>5, <1>10, <2>1, <5>1
      <4>2. Fine * (w1 + w2) = Fine * w1 + Fine * w2
        BY <1>3, <2>1, SMT
      <4>. QED
        BY <1>6, <1>7, <1>10, <2>1, <4>1, <4>2
    <3>2. PICK k \in Nat : /\ k = Quotient(b.grand * Fine, b.subtotal)
                           /\ 2 * (r * k) <= 2 * b.grand + r
      <4>1. b.subtotal \in Nat \ {0}
        BY <1>1, <2>3
      <4>. QED
        BY ONLY <1>1, <1>3, <3>1, <4>1, RatioCredits
    <3>3. NetRate(b, 1) = g1 * k /\ NetRate(b, 2) = g2 * k
      BY <1>4, <1>5, <1>11, <2>3, <3>2 DEF NetRate
    <3>4. b1 * (g1 * k) + b2 * (g2 * k) = r * k
      <4>1. /\ b1 * (g1 * k) = (b1 * g1) * k
            /\ b2 * (g2 * k) = (b2 * g2) * k
            /\ (w1 + w2) * k = w1 * k + w2 * k
        BY <1>4, <1>5, <2>1, <3>2, SMT
      <4>. QED
        BY <2>1, <3>1, <4>1
    <3>5. PICK y \in Nat : y = r * k
      BY <3>1, <3>2, TimesNat
    <3>6. Cost(back, [l \in Line |-> NetRate(b, l)]) = y
      BY <1>6, <3>3, <3>4, <3>5
    <3>7. Cost(back, [l \in Line |-> Grain(b, l)]) = r
      BY <1>6, <2>1, <2>2, <3>1
    <3>8. 2 * y <= 2 * b.grand + r
      BY <3>2, <3>5
    <3>. QED
      BY <3>6, <3>7, <3>8
  <2>4. CASE ~(b.discount > 0 /\ b.subtotal > 0)
    <3>1. b.discount = 0
      BY <1>1, <1>6, <1>7, <1>8, <2>4
    <3>2. NetRate(b, 1) = p1 /\ NetRate(b, 2) = p2
      BY <1>4, <1>11, <2>4 DEF NetRate
    <3>3. b.grand = x1 + x2
      BY <1>7, <1>8, <3>1
    <3>4. Cost(back, [l \in Line |-> NetRate(b, l)]) = z1 + z2
      BY <1>6, <1>10, <3>2
    <3>5. Cost(back, [l \in Line |-> Grain(b, l)]) = w1 + w2
      BY <1>6, <2>1, <2>2
    <3>6. 2 * (z1 + z2) <= 2 * (x1 + x2) + (w1 + w2)
      BY <1>7, <1>10, <2>1
    <3>. QED
      BY <3>3, <3>4, <3>5, <3>6
  <2>. QED
    BY <2>3, <2>4
<1>. QED
  BY <1>1, <1>9, <1>11

\* The row of a sub-ledger is within half of what journal_lines tells apart of
\* what the entry books to the control accounts.
Close(e, s) ==
  LET gap == (e.dr["ar"] - e.cr["ar"]) + (e.dr["ap"] - e.cr["ap"])
               - (s.debit - s.credit)
  IN  2 * gap <= Unit /\ -(2 * gap) <= Unit

\* One control account has one amount, and the row has it.
OneControl(dr, cr, debit, credit) ==
  \/ /\ dr["ar"] = debit /\ cr["ar"] = 0 /\ dr["ap"] = 0 /\ cr["ap"] = 0
     /\ credit = 0
  \/ /\ dr["ar"] = 0 /\ cr["ar"] = credit /\ dr["ap"] = 0 /\ cr["ap"] = 0
     /\ debit = 0
  \/ /\ dr["ar"] = 0 /\ cr["ar"] = 0 /\ dr["ap"] = debit /\ cr["ap"] = 0
     /\ credit = 0
  \/ /\ dr["ar"] = 0 /\ cr["ar"] = 0 /\ dr["ap"] = 0 /\ cr["ap"] = credit
     /\ debit = 0

\* Such an entry and such a row are close.
LEMMA EntryCloses ==
  ASSUME NEW r, NEW doc, NEW dr, NEW cr, NEW party, NEW debit \in Nat,
         NEW credit \in Nat, OneControl(dr, cr, debit, credit)
  PROVE  LET e == Entry(r, doc, dr, cr)
             s == SubEntry(r, doc, party, debit, credit)
         IN  Close(e, s) /\ e.source = <<r.op, doc>> /\ s.source = <<r.op, doc>>
<1>. DEFINE e == Entry(r, doc, dr, cr)
            s == SubEntry(r, doc, party, debit, credit)
<1>1. PICK x \in Int, y \in Int :
        /\ x = Post4(debit) /\ 2 * (x - debit) <= Unit /\ -(2 * (x - debit)) <= Unit
        /\ y = Post4(credit) /\ 2 * (y - credit) <= Unit
        /\ -(2 * (y - credit)) <= Unit
  BY Post4Near
<1>2. /\ e.dr["ar"] = Post4(dr["ar"]) /\ e.cr["ar"] = Post4(cr["ar"])
      /\ e.dr["ap"] = Post4(dr["ap"]) /\ e.cr["ap"] = Post4(cr["ap"])
      /\ s.debit = debit /\ s.credit = credit
      /\ e.source = <<r.op, doc>> /\ s.source = <<r.op, doc>>
  BY DEF Entry, SubEntry, Posted, Account
<1>3. Unit \in Nat
  BY UnitAssumption
<1>4. PICK a \in Int, b \in Int, c \in Int, d \in Int :
        /\ a = Post4(dr["ar"]) /\ b = Post4(cr["ar"])
        /\ c = Post4(dr["ap"]) /\ d = Post4(cr["ap"])
        /\ \/ a = x /\ b = 0 /\ c = 0 /\ d = 0 /\ credit = 0
           \/ a = 0 /\ b = y /\ c = 0 /\ d = 0 /\ debit = 0
           \/ a = 0 /\ b = 0 /\ c = x /\ d = 0 /\ credit = 0
           \/ a = 0 /\ b = 0 /\ c = 0 /\ d = y /\ debit = 0
  BY <1>1, Post4Zero DEF OneControl
<1>5. LET gap == (a - b) + (c - d) - (debit - credit)
      IN  2 * gap <= Unit /\ -(2 * gap) <= Unit
  BY <1>1, <1>3, <1>4
<1>6. Close(e, s)
  <2>1. /\ e.dr["ar"] = a /\ e.cr["ar"] = b /\ e.dr["ap"] = c /\ e.cr["ap"] = d
        /\ s.debit = debit /\ s.credit = credit
    BY <1>2, <1>4
  <2>. HIDE DEF e, s
  <2>. QED
    BY <1>5, <2>1 DEF Close
<1>. QED
  BY <1>2, <1>6

\* Entries and rows go together: each entry has a row of its own close to it.
PairedIn(t) ==
  /\ \A e \in t.journal : \E s \in t.subledger : s.source = e.source /\ Close(e, s)
  /\ \A s \in t.subledger : \E e \in t.journal : e.source = s.source
  /\ \A s, x \in t.subledger : s.source = x.source => s = x

\* A posting of a new document adds such a pair.
AddsPair(t, u, r, doc, e, s) ==
  /\ r.op \in Op /\ doc \notin DOMAIN DocumentsIn(t, r.op)
  /\ u.journal = t.journal \cup {e} /\ u.subledger = t.subledger \cup {s}
  /\ e.source = <<r.op, doc>> /\ s.source = <<r.op, doc>> /\ Close(e, s)

\* So they go together still.
LEMMA PairedNext ==
  ASSUME NEW t, NEW u, NEW r, NEW doc, NEW e, NEW s, OnceIn(t), PairedIn(t),
         AddsPair(t, u, r, doc, e, s)
  PROVE  PairedIn(u)
<1>0. /\ doc \notin DOMAIN DocumentsIn(t, r.op)
      /\ u.journal = t.journal \cup {e} /\ u.subledger = t.subledger \cup {s}
      /\ e.source = <<r.op, doc>> /\ s.source = <<r.op, doc>> /\ Close(e, s)
  BY DEF AddsPair
<1>1. \A f \in t.journal : f.source # <<r.op, doc>>
  <2>1. ASSUME NEW f \in t.journal PROVE f.source # <<r.op, doc>>
    <3>1. f.stamp \in t.keys /\ f.source = <<f.stamp.op, f.stamp.doc>>
      BY DEF OnceIn, JournalOnce
    <3>2. f.stamp.doc \in DOMAIN DocumentsIn(t, f.stamp.op)
      BY <3>1 DEF OnceIn, KeysMeanDocuments
    <3>. QED
      BY <1>0, <3>1, <3>2
  <2>. QED
    BY <2>1
<1>2. \A x \in t.subledger : x.source # <<r.op, doc>>
  BY <1>1 DEF PairedIn
<1>. HIDE DEF Close
<1>. QED
  BY <1>0, <1>2 DEF PairedIn

\* What the runs check of them.
LEMMA PairsRound ==
  ASSUME PairedIn(db), NEW e \in db.journal
  PROVE  Cardinality(SubOf(e.source)) = 1 /\ \A s \in SubOf(e.source) : Close(e, s)
<1>1. PICK s \in db.subledger : s.source = e.source /\ Close(e, s)
  BY DEF PairedIn
<1>2. SubOf(e.source) = {s}
  BY <1>1 DEF PairedIn, SubOf
<1>. QED
  BY <1>1, <1>2, FS_Singleton

\* What was credited is what came back at the net rates of the invoice.
CreditedIn(t) ==
  \A i \in DOMAIN t.invoices :
    LET inv == t.invoices[i] IN
    /\ FairTerms(inv.body)
    /\ inv.credited = Cost(inv.returned, [l \in Line |-> NetRate(inv.body, l)])

\* The invariant of this section.
RoundedIn(t) == PairedIn(t) /\ CreditedIn(t)

\* The prices of a request, and what a discount line by line adds up to.
PricedFairly(b) ==
  /\ \A l \in Line : b.price[l] % Fine = 0
  /\ b.perLine => Both(b.off) = b.discount

\* A posting that adds one amount to a control account and to a sub-ledger.
PostsPair(t, u, r, doc, dr, cr, party, debit, credit) ==
  /\ r.op \in Op /\ doc \notin DOMAIN DocumentsIn(t, r.op)
  /\ debit \in Nat /\ credit \in Nat /\ OneControl(dr, cr, debit, credit)
  /\ u.journal = t.journal \cup {Entry(r, doc, dr, cr)}
  /\ u.subledger = t.subledger \cup {SubEntry(r, doc, party, debit, credit)}

\* It adds a pair.
LEMMA PostsPaired ==
  ASSUME NEW t, NEW u, NEW r, NEW doc, NEW dr, NEW cr, NEW party, NEW debit,
         NEW credit, OnceIn(t), PairedIn(t),
         PostsPair(t, u, r, doc, dr, cr, party, debit, credit)
  PROVE  PairedIn(u)
<1>0. debit \in Nat /\ credit \in Nat /\ OneControl(dr, cr, debit, credit)
  BY DEF PostsPair
<1>1. PICK e, s : e = Entry(r, doc, dr, cr) /\ s = SubEntry(r, doc, party, debit, credit)
  OBVIOUS
<1>2. Close(e, s) /\ e.source = <<r.op, doc>> /\ s.source = <<r.op, doc>>
  BY ONLY <1>0, <1>1, EntryCloses
<1>3. AddsPair(t, u, r, doc, e, s)
  BY <1>1, <1>2 DEF AddsPair, PostsPair
<1>. QED
  BY <1>3, PairedNext

\* A sale bills what its lines cost less the discount, and has no returns.
LEMMA SaleRounded ==
  ASSUME NEW t \in Tables, OnceIn(t), RoundedIn(t),
         NEW r \in Call("sale", SaleBody), SalePosts(t, r), PricedFairly(r.body)
  PROVE  RoundedIn(SaleAfter(t, r))
<1>. DEFINE u == SaleAfter(t, r)
            b == r.body
            doc == Len(t.invoices) + 1
            cogs == Cost(b.qty, b.cost)
            new == [branch |-> r.branch, body |-> b, paid |-> 0,
                    credited |-> 0, returned |-> [l \in Line |-> 0],
                    status |-> "POSTED"]
            dr == [Zero EXCEPT !["ar"] = Billed(b), !["cogs"] = cogs]
            cr == [Zero EXCEPT !["sales"] = b.grand, !["inventory"] = cogs,
                               !["rent"] = b.rent]
<1>r. r.op = "sale" /\ r.op \in Op /\ b \in SaleBody /\ t.invoices \in Seq(Invoice)
  BY DEF Call, Op, Tables
<1>1. /\ u.invoices = Append(t.invoices, new)
      /\ u.subledger = t.subledger \cup {SubEntry(r, doc, b.customer, Billed(b), 0)}
      /\ u.journal = t.journal \cup {Entry(r, doc, dr, cr)}
  BY DEF SaleAfter, Tables, SaleEntry
<1>2. Billed(b) \in Nat
  BY <1>r DEF Billed, SaleBody
<1>3. OneControl(dr, cr, Billed(b), 0)
  BY DEF OneControl, Zero, Account
<1>5. doc \notin DOMAIN DocumentsIn(t, r.op)
  BY <1>r DEF DocumentsIn
<1>6. PairedIn(u)
  <2>. HIDE DEF u, dr, cr, doc
  <2>1. PostsPair(t, u, r, doc, dr, cr, b.customer, Billed(b), 0)
    BY <1>r, <1>1, <1>2, <1>3, <1>5 DEF PostsPair
  <2>. QED
    BY <2>1, PostsPaired DEF RoundedIn
<1>7. FairTerms(b)
  BY DEF SalePosts, SaleAdmitted, PricedFairly, FairTerms
<1>8. new.credited = Cost(new.returned, [l \in Line |-> NetRate(b, l)])
  <2>1. [l \in Line |-> NetRate(b, l)] \in [Line -> Nat]
    BY <1>r, <1>7, NetRateNat DEF FairTerms
  <2>2. PICK rates \in [Line -> Nat] : rates = [l \in Line |-> NetRate(b, l)]
    BY <2>1
  <2>3. Cost([l \in Line |-> 0], rates) = 0
    BY DEF Cost, Both, Line
  <2>. QED
    BY <2>2, <2>3
<1>9. CreditedIn(u)
  <2>1. \A i \in DOMAIN u.invoices :
          \/ i \in DOMAIN t.invoices /\ u.invoices[i] = t.invoices[i]
          \/ u.invoices[i] = new
    BY <1>r, <1>1
  <2>2. new.body = b
    OBVIOUS
  <2>. HIDE DEF new, u, b
  <2>. QED
    BY <1>7, <1>8, <2>1, <2>2 DEF CreditedIn, RoundedIn
<1>. QED
  BY <1>6, <1>9 DEF RoundedIn

\* Invoices that keep what they bill and what came back of them.
SameCredit(docs, later) ==
  /\ DOMAIN later = DOMAIN docs
  /\ \A i \in DOMAIN docs : /\ later[i].body = docs[i].body
                            /\ later[i].credited = docs[i].credited
                            /\ later[i].returned = docs[i].returned

\* They are credited as before.
LEMMA CreditKept ==
  ASSUME NEW t, NEW u, CreditedIn(t), SameCredit(t.invoices, u.invoices)
  PROVE  CreditedIn(u)
  BY DEF CreditedIn, SameCredit

\* A purchase is booked to what is owed to the vendor.
LEMMA PurchaseRounded ==
  ASSUME NEW t \in Tables, OnceIn(t), RoundedIn(t),
         NEW r \in Call("purchase", PurchaseBody), PurchasePosts(t, r)
  PROVE  RoundedIn(PurchaseAfter(t, r))
<1>. DEFINE u == PurchaseAfter(t, r)
            doc == Len(t.purchases) + 1
<1>r. r.op = "purchase" /\ r.op \in Op /\ r.body \in PurchaseBody
      /\ t.purchases \in Seq(Purchase)
  BY DEF Call, Op, Tables
<1>1. PurchaseTotal(r.body) \in Nat /\ 0 \in Nat
  BY <1>r, PurchaseAmounts DEF PurchasePosts, PurchaseAdmitted
<1>2. OneControl(PurchaseDebits(r.body), PurchaseCredits(r.body), 0, PurchaseTotal(r.body))
  BY DEF OneControl, PurchaseDebits, PurchaseCredits, Zero, Account
<1>3. doc \notin DOMAIN DocumentsIn(t, r.op)
  BY <1>r DEF DocumentsIn
<1>4. /\ u.journal = t.journal \cup
             {Entry(r, doc, PurchaseDebits(r.body), PurchaseCredits(r.body))}
      /\ u.subledger = t.subledger \cup
             {SubEntry(r, doc, r.body.vendor, 0, PurchaseTotal(r.body))}
      /\ SameCredit(t.invoices, u.invoices)
  BY DEF PurchaseAfter, Tables, SameCredit
<1>. HIDE DEF u, doc
<1>6. PostsPair(t, u, r, doc, PurchaseDebits(r.body), PurchaseCredits(r.body),
                r.body.vendor, 0, PurchaseTotal(r.body))
  BY <1>r, <1>1, <1>2, <1>3, <1>4 DEF PostsPair
<1>7. PairedIn(u)
  BY <1>6, PostsPaired DEF RoundedIn
<1>8. CreditedIn(u)
  BY <1>4, CreditKept DEF RoundedIn
<1>. QED
  BY <1>7, <1>8 DEF RoundedIn, u

\* A receipt settles what a customer owes.
LEMMA ReceiptRounded ==
  ASSUME NEW t \in Tables, OnceIn(t), RoundedIn(t),
         NEW r \in Call("receipt", ReceiptBody), ReceiptPosts(t, r)
  PROVE  RoundedIn(ReceiptAfter(t, r))
<1>. DEFINE u == ReceiptAfter(t, r)
            doc == Len(t.receipts) + 1
<1>r. r.op = "receipt" /\ r.op \in Op /\ r.body \in ReceiptBody
      /\ t.receipts \in Seq([branch : Branch, body : ReceiptBody])
  BY DEF Call, Op, Tables
<1>1. r.body.amount \in Nat /\ r.body.method \in Method /\ 0 \in Nat
  BY <1>r DEF ReceiptBody
<1>2. OneControl(ReceiptDebits(r.body), ReceiptCredits(r.body), 0, r.body.amount)
  BY <1>1 DEF OneControl, ReceiptDebits, ReceiptCredits, Zero, Account, Method
<1>3. doc \notin DOMAIN DocumentsIn(t, r.op)
  BY <1>r DEF DocumentsIn
<1>4. /\ u.journal = t.journal \cup
             {Entry(r, doc, ReceiptDebits(r.body), ReceiptCredits(r.body))}
      /\ u.subledger = t.subledger \cup
             {SubEntry(r, doc, r.body.customer, 0, r.body.amount)}
      /\ u.invoices = [i \in DOMAIN t.invoices |->
                         IF \E x \in r.body.alloc : x.doc = i
                           THEN Settled(t.invoices[i], AllocatedTo(r.body.alloc, i))
                           ELSE t.invoices[i]]
  BY DEF ReceiptAfter, Tables
<1>5. SameCredit(t.invoices, u.invoices)
  <2>1. \A i \in DOMAIN t.invoices : t.invoices[i] \in Invoice
    BY DEF Tables
  <2>2. ASSUME NEW i \in Invoice, NEW amount
        PROVE  /\ Settled(i, amount).body = i.body
               /\ Settled(i, amount).credited = i.credited
               /\ Settled(i, amount).returned = i.returned
    BY DEF Settled, Invoice
  <2>. HIDE DEF u
  <2>. QED
    BY <1>4, <2>1, <2>2 DEF SameCredit
<1>. HIDE DEF u, doc
<1>6. PostsPair(t, u, r, doc, ReceiptDebits(r.body), ReceiptCredits(r.body),
                r.body.customer, 0, r.body.amount)
  BY <1>r, <1>1, <1>2, <1>3, <1>4 DEF PostsPair
<1>7. PairedIn(u)
  BY <1>6, PostsPaired DEF RoundedIn
<1>8. CreditedIn(u)
  BY <1>5, CreditKept DEF RoundedIn
<1>. QED
  BY <1>7, <1>8 DEF RoundedIn, u

\* A vendor payment settles what a vendor is owed.
LEMMA VendorPaymentRounded ==
  ASSUME NEW t \in Tables, OnceIn(t), RoundedIn(t),
         NEW r \in Call("vendorPayment", VendorPaymentBody)
  PROVE  RoundedIn(VendorPaymentAfter(t, r))
<1>. DEFINE u == VendorPaymentAfter(t, r)
            doc == Len(t.vendorPayments) + 1
<1>r. r.op = "vendorPayment" /\ r.op \in Op /\ r.body \in VendorPaymentBody
      /\ t.vendorPayments \in Seq([branch : Branch, body : VendorPaymentBody])
  BY DEF Call, Op, Tables
<1>1. r.body.amount \in Nat /\ r.body.method \in Method /\ 0 \in Nat
  BY <1>r DEF VendorPaymentBody
<1>2. OneControl(VendorPaymentDebits(r.body), VendorPaymentCredits(r.body),
                 r.body.amount, 0)
  BY <1>1 DEF OneControl, VendorPaymentDebits, VendorPaymentCredits, Zero, Account, Method
<1>3. doc \notin DOMAIN DocumentsIn(t, r.op)
  BY <1>r DEF DocumentsIn
<1>4. /\ u.journal = t.journal \cup
             {Entry(r, doc, VendorPaymentDebits(r.body), VendorPaymentCredits(r.body))}
      /\ u.subledger = t.subledger \cup
             {SubEntry(r, doc, r.body.vendor, r.body.amount, 0)}
      /\ SameCredit(t.invoices, u.invoices)
  BY DEF VendorPaymentAfter, Tables, SameCredit
<1>. HIDE DEF u, doc
<1>6. PostsPair(t, u, r, doc, VendorPaymentDebits(r.body), VendorPaymentCredits(r.body),
                r.body.vendor, r.body.amount, 0)
  BY <1>r, <1>1, <1>2, <1>3, <1>4 DEF PostsPair
<1>7. PairedIn(u)
  BY <1>6, PostsPaired DEF RoundedIn
<1>8. CreditedIn(u)
  BY <1>4, CreditKept DEF RoundedIn
<1>. QED
  BY <1>7, <1>8 DEF RoundedIn, u

\* The costs of two lists of quantities are that of both.
LEMMA CostAdds ==
  ASSUME NEW q \in [Line -> Nat], NEW w \in [Line -> Nat], NEW rate \in [Line -> Nat]
  PROVE  Cost([l \in Line |-> q[l] + w[l]], rate) = Cost(q, rate) + Cost(w, rate)
<1>0. /\ q[1] \in Nat /\ q[2] \in Nat /\ w[1] \in Nat /\ w[2] \in Nat
      /\ rate[1] \in Nat /\ rate[2] \in Nat
  BY DEF Line
<1>. PICK q1 \in Nat, q2 \in Nat : q1 = q[1] /\ q2 = q[2]
  BY <1>0
<1>. PICK w1 \in Nat, w2 \in Nat : w1 = w[1] /\ w2 = w[2]
  BY <1>0
<1>. PICK r1 \in Nat, r2 \in Nat : r1 = rate[1] /\ r2 = rate[2]
  BY <1>0
<1>1. /\ q1 = q[1] /\ q2 = q[2] /\ w1 = w[1] /\ w2 = w[2]
      /\ r1 = rate[1] /\ r2 = rate[2]
  OBVIOUS
<1>2. /\ (q1 + w1) * r1 = q1 * r1 + w1 * r1
      /\ (q2 + w2) * r2 = q2 * r2 + w2 * r2
  BY SMT
<1>. PICK a \in Nat, b \in Nat : a = q1 * r1 /\ b = q2 * r2
  BY TimesNat
<1>. PICK c \in Nat, d \in Nat : c = w1 * r1 /\ d = w2 * r2
  BY TimesNat
<1>3. a = q1 * r1 /\ b = q2 * r2 /\ c = w1 * r1 /\ d = w2 * r2
  OBVIOUS
<1>4. /\ Cost([l \in Line |-> q[l] + w[l]], rate) = (q1 + w1) * r1 + (q2 + w2) * r2
      /\ Cost(q, rate) = a + b /\ Cost(w, rate) = c + d
  BY <1>1, <1>3 DEF Cost, Both, Line
<1>. QED
  BY <1>2, <1>3, <1>4

\* A return credits what comes back at the net rates, once more.
LEMMA ReturnRounded ==
  ASSUME NEW t \in Tables, SoundIn(t), OnceIn(t), RoundedIn(t),
         NEW r \in Call("return", ReturnBody), ReturnPosts(t, r)
  PROVE  RoundedIn(ReturnAfter(t, r))
<1>. DEFINE u == ReturnAfter(t, r)
            b == r.body
            doc == Len(t.creditNotes) + 1
            i == t.invoices[b.invoice]
            value == CreditValue(i, b)
            rates == [l \in Line |-> NetRate(i.body, l)]
<1>r. r.op = "return" /\ r.op \in Op /\ b \in ReturnBody
      /\ t.creditNotes \in Seq([branch : Branch, body : ReturnBody])
      /\ t.invoices \in Seq(Invoice)
  BY DEF Call, Op, Tables
<1>w. b.invoice \in DOMAIN t.invoices
  BY DEF ReturnPosts, ReturnAdmitted
<1>1. i \in Invoice /\ value \in Nat /\ 0 \in Nat
  BY <1>r, <1>w, CreditNat DEF SoundIn
<1>2. OneControl(ReturnDebits(i, b), ReturnCredits(i, b), 0, value)
  BY DEF OneControl, ReturnDebits, ReturnCredits, Zero, Account
<1>3. doc \notin DOMAIN DocumentsIn(t, r.op)
  BY <1>r DEF DocumentsIn
<1>4. /\ u.journal = t.journal \cup
             {Entry(r, doc, ReturnDebits(i, b), ReturnCredits(i, b))}
      /\ u.subledger = t.subledger \cup {SubEntry(r, doc, b.customer, 0, value)}
      /\ u.invoices = [t.invoices EXCEPT ![b.invoice] = Credited(i, b)]
  BY DEF ReturnAfter, Tables
<1>5. PairedIn(u)
  <2>. HIDE DEF u, doc, value, i
  <2>1. PostsPair(t, u, r, doc, ReturnDebits(i, b), ReturnCredits(i, b),
                  b.customer, 0, value)
    BY <1>r, <1>1, <1>2, <1>3, <1>4 DEF PostsPair
  <2>. QED
    BY <2>1, PostsPaired DEF RoundedIn
<1>6. FairTerms(i.body) /\ i.credited = Cost(i.returned, rates)
  BY <1>w DEF RoundedIn, CreditedIn
<1>7. /\ Credited(i, b).body = i.body
      /\ Credited(i, b).credited = i.credited + value
      /\ Credited(i, b).returned = [l \in Line |-> i.returned[l] + b.items[l]]
  BY <1>1 DEF Credited, Invoice
<1>8. Credited(i, b).credited = Cost(Credited(i, b).returned, rates)
  <2>1. i.returned \in [Line -> Nat] /\ b.items \in [Line -> Nat]
        /\ i.body \in SaleBody
    BY <1>r, <1>1 DEF Invoice, ReturnBody
  <2>2. rates \in [Line -> Nat]
    BY <1>6, <2>1, NetRateNat DEF FairTerms
  <2>3. value = Cost(b.items, rates)
    BY DEF CreditValue
  <2>4. PICK back, items, given \in [Line -> Nat] :
          back = i.returned /\ items = b.items /\ given = rates
    BY <2>1, <2>2
  <2>5. Cost([l \in Line |-> back[l] + items[l]], given)
          = Cost(back, given) + Cost(items, given)
    BY CostAdds
  <2>. HIDE DEF i, rates, value
  <2>. QED
    BY <1>6, <1>7, <2>3, <2>4, <2>5
<1>9. CreditedIn(u)
  <2>1. /\ DOMAIN u.invoices = DOMAIN t.invoices
        /\ u.invoices[b.invoice] = Credited(i, b)
        /\ \A d \in DOMAIN t.invoices \ {b.invoice} : u.invoices[d] = t.invoices[d]
    BY <1>4, <1>w
  <2>2. \A d \in DOMAIN t.invoices :
          /\ FairTerms(t.invoices[d].body)
          /\ t.invoices[d].credited =
               Cost(t.invoices[d].returned, [l \in Line |-> NetRate(t.invoices[d].body, l)])
    BY DEF RoundedIn, CreditedIn
  <2>3. Credited(i, b).credited =
          Cost(Credited(i, b).returned,
               [l \in Line |-> NetRate(Credited(i, b).body, l)])
    BY <1>7, <1>8
  <2>4. PICK paid : paid = Credited(i, b)
    OBVIOUS
  <2>5. /\ FairTerms(paid.body)
        /\ paid.credited = Cost(paid.returned, [l \in Line |-> NetRate(paid.body, l)])
    BY <1>6, <1>7, <2>3, <2>4
  <2>. HIDE DEF u, i, b
  <2>6. \A d \in DOMAIN u.invoices : u.invoices[d] = paid \/ u.invoices[d] = t.invoices[d]
    BY <2>1, <2>4
  <2>. QED
    BY <2>1, <2>2, <2>5, <2>6 DEF CreditedIn
<1>. QED
  BY <1>5, <1>9 DEF RoundedIn

\* A copilot sale is a sale, then a receipt on it.
LEMMA CopilotSaleRounded ==
  ASSUME NEW t, SoundIn(t), OnceIn(t), RoundedIn(t),
         NEW r \in Call("copilotSale", SaleBody), CopilotSalePosts(t, r),
         PricedFairly(r.body)
  PROVE  RoundedIn(CopilotSaleAfter(t, r))
<1>. DEFINE doc == Len(t.invoices) + 1
            sold == SaleAfter(t, SaleCall(r))
            receipt == ReceiptCall(r, doc)
<1>1. SaleCall(r) \in Call("sale", SaleBody) /\ t \in Tables /\ doc \in Id
      /\ SaleCall(r).body = r.body
  <2>1. SaleCall(r) \in Call("sale", SaleBody) /\ SaleCall(r).body = r.body
    BY DEF SaleCall, Call
  <2>2. t \in Tables /\ doc \in Id
    BY DEF SoundIn, Tables, Id
  <2>. QED
    BY <2>1, <2>2
<1>2. SalePosts(t, SaleCall(r))
  BY DEF CopilotSalePosts
<1>3. sold \in Tables /\ OnceIn(sold) /\ RoundedIn(sold)
  BY <1>1, <1>2, SaleSound, SaleOnce, SaleRounded DEF SoundIn
<1>4. CASE r.body.paid > 0
  <2>1. receipt \in Call("receipt", ReceiptBody) /\ ReceiptPosts(sold, receipt)
    BY <1>1, <1>4, ReceiptCallType DEF CopilotSalePosts
  <2>. HIDE DEF sold, receipt
  <2>2. RoundedIn(ReceiptAfter(sold, receipt))
    BY <1>3, <2>1, ReceiptRounded
  <2>. QED
    BY <1>4, <2>2 DEF CopilotSaleAfter, sold, receipt
<1>5. CASE ~(r.body.paid > 0)
  BY <1>3, <1>5 DEF CopilotSaleAfter
<1>. QED
  BY <1>4, <1>5

\* Every step keeps it.
LEMMA NextRounded == IInv /\ OnceInv /\ RoundedIn(db) /\ [Next]_vars => RoundedIn(db)'
<1>. SUFFICES ASSUME IInv, OnceInv, RoundedIn(db), [Next]_vars PROVE RoundedIn(db')
  BY DEF RoundedIn, PairedIn, CreditedIn, Close
<1>i. db \in Tables /\ SoundIn(db) /\ OnceIn(db)
  BY DEF IInv, SoundIn, OnceInv
<1>1. ASSUME NEW r \in SaleRequest, PostSale(r) PROVE RoundedIn(db')
  <2>1. PricedFairly(r.body)
    BY PriceAssumption, DiscountAssumption DEF PricedFairly, Both
  <2>. QED
    BY <1>1, <1>i, <2>1, SaleRounded, RequestAssumption DEF PostSale
<1>2. ASSUME NEW r \in PurchaseRequest, PostPurchase(r) PROVE RoundedIn(db')
  BY <1>2, <1>i, PurchaseRounded, RequestAssumption DEF PostPurchase
<1>3. ASSUME NEW r \in ReceiptRequest, PostReceipt(r) PROVE RoundedIn(db')
  BY <1>3, <1>i, ReceiptRounded, RequestAssumption DEF PostReceipt
<1>4. ASSUME NEW r \in ReturnRequest, PostReturn(r) PROVE RoundedIn(db')
  BY <1>4, <1>i, ReturnRounded, RequestAssumption DEF PostReturn
<1>5. ASSUME NEW r \in VendorPaymentRequest, PostVendorPayment(r)
      PROVE  RoundedIn(db')
  BY <1>5, <1>i, VendorPaymentRounded, RequestAssumption DEF PostVendorPayment
<1>6. ASSUME NEW r \in CopilotSaleRequest, PostCopilotSale(r)
      PROVE  RoundedIn(db')
  <2>1. PricedFairly(r.body)
    BY <1>6, PriceAssumption
       DEF PricedFairly, PostCopilotSale, CopilotSalePosts, AboveFloor
  <2>. QED
    BY <1>6, <1>i, <2>1, CopilotSaleRounded, RequestAssumption DEF PostCopilotSale
<1>7. ASSUME NEW e \in Estimate, MarkReady(e) PROVE RoundedIn(db')
  <2>1. db' = [db EXCEPT !.estimate[e] = "READY"]
    BY <1>7 DEF MarkReady
  <2>2. /\ db'.journal = db.journal /\ db'.subledger = db.subledger
        /\ db'.invoices = db.invoices
    BY <2>1, <1>i DEF Tables
  <2>. QED
    BY <2>2 DEF RoundedIn, PairedIn, CreditedIn
<1>8. ASSUME UNCHANGED db PROVE RoundedIn(db')
  BY <1>8
<1>. QED
  BY <1>1, <1>2, <1>3, <1>4, <1>5, <1>6, <1>7, <1>8
     DEF Next, Replay, Refuse, Revoke, Regrant, vars

\* It is what the runs check.
LEMMA RoundedSmall == IInv /\ RoundedIn(db) => RoundingStaysSmall
<1>. SUFFICES ASSUME IInv, RoundedIn(db) PROVE RoundingStaysSmall
  OBVIOUS
<1>1. ASSUME NEW e \in db.journal
      PROVE  /\ Cardinality(SubOf(e.source)) = 1
             /\ \A s \in SubOf(e.source) : Close(e, s)
  BY PairsRound DEF RoundedIn
<1>2. ASSUME NEW i \in DOMAIN db.invoices
      PROVE  LET inv == db.invoices[i] IN
             2 * inv.credited
               <= 2 * inv.body.grand
                    + Cost(inv.returned, [l \in Line |-> Grain(inv.body, l)])
  <2>1. PICK inv : inv = db.invoices[i]
    OBVIOUS
  <2>2. /\ inv \in Invoice /\ FairTerms(inv.body)
        /\ inv.credited = Cost(inv.returned, [l \in Line |-> NetRate(inv.body, l)])
        /\ \A l \in Line : inv.returned[l] <= inv.body.qty[l]
    BY <2>1 DEF IInv, SoundIn, Tables, SettledIn, RoundedIn, CreditedIn
  <2>3. inv.body \in SaleBody /\ inv.returned \in [Line -> Nat]
    BY <2>2 DEF Invoice
  <2>4. 2 * Cost(inv.returned, [l \in Line |-> NetRate(inv.body, l)])
          <= 2 * inv.body.grand
               + Cost(inv.returned, [l \in Line |-> Grain(inv.body, l)])
    BY ONLY <2>2, <2>3, CreditBounded
  <2>. QED
    BY <2>1, <2>2, <2>4
<1>. QED
  BY <1>1, <1>2 DEF RoundingStaysSmall, Close

\* Wherever amounts are rounded, the sub-ledgers stay within half of what
\* journal_lines can tell apart of the journal, document by document, and no
\* series of returns credits more than was billed and the net rates round off.
THEOREM RoundingSound == Spec => []RoundingStaysSmall
<1>1. Init => RoundedIn(db)
  BY DEF Init, RoundedIn, PairedIn, CreditedIn
<1>. QED
  BY <1>1, InitOnce, NextOnce, NextRounded, RoundedSmall, SpecSound, PTL DEF Spec
=============================================================================
