-------------------------- MODULE PostingProperties --------------------------
(***************************************************************************)
(* What the posting core promises: one document per request however often  *)
(* it is sent, sub-ledgers and goods that agree with the general ledger,   *)
(* and no settlement beyond what was billed.                               *)
(***************************************************************************)
EXTENDS Posting

-----------------------------------------------------------------------------
(* Types *)

Invoice == [branch : Branch, body : SaleBody, paid : Nat, credited : Nat,
            returned : [Line -> Nat],
            status : {"POSTED", "PARTIALLY_PAID", "PAID"}]
Purchase == [branch : Branch, body : PurchaseBody, paid : Nat]
Source == Op \X Id
KeyRow == [op : Op, key : Key, actor : Actor, branch : Branch,
           fingerprint : Body, doc : Id]
Lines == [Account -> Nat]
JournalEntry == [source : Source, stamp : KeyRow, dr : Lines, cr : Lines]
SubledgerEntry == [source : Source, branch : Branch, party : Party,
                   debit : Nat, credit : Nat]
Movement == [source : Source, branch : Branch, line : Line, cell : Cell,
             qty : Int]
EstimateStatus == {"DRAFT", "READY", "CONVERTED"}
Tables ==
  [invoices : Seq(Invoice), purchases : Seq(Purchase),
   receipts : Seq([branch : Branch, body : ReceiptBody]),
   creditNotes : Seq([branch : Branch, body : ReturnBody]),
   vendorPayments : Seq([branch : Branch, body : VendorPaymentBody]),
   journal : SUBSET JournalEntry, subledger : SUBSET SubledgerEntry,
   moves : SUBSET Movement, keys : SUBSET KeyRow, stock : [Cell -> Nat],
   estimate : [Estimate -> EstimateStatus]]

\* Every table holds rows of its columns' types; in particular no amount and
\* no inventory row of the posting functions is ever negative.
TypeOK ==
  /\ db \in Tables
  /\ grants \in SUBSET Grant
  /\ answer \in [Request -> [status : {"none", "done", "refused"}, doc : Nat]]

-----------------------------------------------------------------------------
(* Idempotency *)

Documents(op) ==
  CASE op = "sale" -> db.invoices
    [] op = "purchase" -> db.purchases
    [] op = "receipt" -> db.receipts
    [] op = "return" -> db.creditNotes
    [] op = "vendorPayment" -> db.vendorPayments

\* The call inside a request that makes the document it is answered with.
Inner(r) == IF r.op = "copilotSale" THEN SaleCall(r) ELSE r

\* A key of an organization and operation names one call, every document was
\* made by exactly one such call, and exactly one journal entry posts it: a
\* request sent again never makes a second document, nor half of one, and a
\* caller that is told its request is done was told of the document made by its
\* own arguments, under its own name, in its own branch.
OneDocumentPerCall ==
  /\ \A k, l \in db.keys : SameScope(k, l) => k = l
  /\ \A k, l \in db.keys : k.op = l.op /\ k.doc = l.doc => k = l
  /\ \A k \in db.keys : /\ k.doc \in DOMAIN Documents(k.op)
                        /\ Documents(k.op)[k.doc].branch = k.branch
                        /\ Documents(k.op)[k.doc].body = k.fingerprint
  /\ \A o \in Op : \A d \in DOMAIN Documents(o) :
       \E k \in db.keys : k.op = o /\ k.doc = d
  /\ {e.stamp : e \in db.journal} = db.keys
  /\ \A e, f \in db.journal : e.source = f.source => e = f
  /\ \A e \in db.journal : e.source = <<e.stamp.op, e.stamp.doc>>
  /\ \A r \in Request : answer[r].status = "done" =>
       \E k \in db.keys : /\ SameScope(k, Inner(r))
                          /\ SameCall(k, Inner(r))
                          /\ k.doc = answer[r].doc

FromEstimate(r) ==
  r \in SaleRequest \cup CopilotSaleRequest /\ r.body.estimate # NoEstimate

\* Sending a posted request again gives the first answer again, as long as
\* the sender may still make it.  Two kinds of request do not keep what
\* docs/ARCHITECTURE-DECISIONS.md promises of every replay, and are excluded.
\* Conversions of an estimate: the estimate is no longer READY, and the API answers
\* those from its own table (Pages).  And a copilot sale that a later purchase put
\* below cost: its floor is worked out before the key row is looked up, so that the
\* repetition of a sale that was posted is refused.
ReplayReturnsOriginal ==
  [][\A r \in Request :
       /\ answer[r].status = "done"
       /\ ~FromEstimate(r)
       /\ Authorized(Inner(r))
       /\ r \in CopilotSaleRequest =>
            /\ <<r.actor, "payments.create", r.branch>> \in grants
            /\ AboveFloor(db, r)
       => answer'[r] = answer[r]]_vars

-----------------------------------------------------------------------------
(* Settlement *)

\* What an invoice collects never exceeds what it bills, over all receipts
\* made on it in any order, and no more comes back of a line than was sold.
SettledWithinBilled ==
  \A i \in DOMAIN db.invoices :
    LET inv == db.invoices[i] IN
    /\ inv.paid <= Billed(inv.body)
    /\ \A l \in Line : inv.returned[l] <= inv.body.qty[l]

\* A purchase is never paid beyond its total.
PurchasePaidWithinTotal ==
  \A p \in DOMAIN db.purchases :
    db.purchases[p].paid <= PurchaseTotal(db.purchases[p].body)

\* A status tells what became of its document: an invoice shown PAID has
\* nothing outstanding, one shown POSTED has had no receipt, and an estimate is
\* CONVERTED exactly when one invoice came of it, never two under two keys or
\* two numbers.
StatusTellsFate ==
  /\ \A i \in DOMAIN db.invoices :
       LET inv == db.invoices[i] IN
       /\ inv.status = "PAID" => Outstanding(inv) <= 0
       /\ inv.status = "POSTED" <=> inv.paid = 0
  /\ \A e \in Estimate :
       Cardinality({i \in DOMAIN db.invoices :
                      db.invoices[i].body.estimate = e})
         = IF db.estimate[e] = "CONVERTED" THEN 1 ELSE 0

\* Twice the error there can be in the net rate of a line.
Grain(b, l) == IF b.perLine THEN 1 ELSE b.price[l] \div Fine

-----------------------------------------------------------------------------
(* The ledgers *)

Total(f(_), S) == SumFunction([x \in S |-> f(x)])
GlBalance(account, branch) ==
  Total(LAMBDA e : e.dr[account] - e.cr[account],
        {e \in db.journal : e.stamp.branch = branch})
SubBalance(party, branch) ==
  Total(LAMBDA s : s.debit - s.credit,
        {s \in db.subledger : s.party = party /\ s.branch = branch})
InvoicesOf(party, branch) ==
  {i \in DOMAIN db.invoices : /\ db.invoices[i].branch = branch
                              /\ db.invoices[i].body.customer = party}
PurchasesOf(party, branch) ==
  {p \in DOMAIN db.purchases : /\ db.purchases[p].branch = branch
                               /\ db.purchases[p].body.vendor = party}
Receivable(party, branch) ==
  Total(LAMBDA i : Outstanding(db.invoices[i]), InvoicesOf(party, branch))
Payable(party, branch) ==
  Total(LAMBDA p : PurchaseTotal(db.purchases[p].body) - db.purchases[p].paid,
        PurchasesOf(party, branch))

MoneyIn(m, b) ==
  Total(LAMBDA i : db.receipts[i].body.amount,
        {i \in DOMAIN db.receipts : /\ db.receipts[i].branch = b
                                    /\ db.receipts[i].body.method = m})
MoneyOut(m, b) ==
  Total(LAMBDA i : db.vendorPayments[i].body.amount,
        {i \in DOMAIN db.vendorPayments :
           /\ db.vendorPayments[i].branch = b
           /\ db.vendorPayments[i].body.method = m})

\* The cost of what was sold on an invoice and has not come back.
CostOut(inv) ==
  Cost([l \in Line |-> inv.body.qty[l] - inv.returned[l]], inv.body.cost)

\* In every branch the balance of account 1100 is what the invoices have
\* outstanding, that of 2000 what the purchases do, each party's ledger is
\* what its own documents have outstanding, and a money account holds what
\* receipts brought in and vendor payments took out by its method (amounts
\* journal_lines can hold: Unit = 1).  Goods in the books are goods in the
\* warehouse: cost of goods sold is the cost, at the time of sale, of what was
\* sold and has not come back, and an inventory row is its opening quantity and
\* its movements.
BooksReconcile ==
  \A b \in Branch :
    /\ GlBalance("ar", b) = Total(LAMBDA p : Receivable(p, b), Party)
    /\ - GlBalance("ap", b) = Total(LAMBDA p : Payable(p, b), Party)
    /\ \A p \in Party : SubBalance(p, b) = Receivable(p, b) - Payable(p, b)
    /\ \A m \in Method : GlBalance(m, b) = MoneyIn(m, b) - MoneyOut(m, b)
    /\ GlBalance("cogs", b)
         = Total(LAMBDA i : CostOut(db.invoices[i]),
                 {i \in DOMAIN db.invoices : db.invoices[i].branch = b})
    /\ \A c \in Cell :
         db.stock[c] = OpeningStock[c]
                         + Total(LAMBDA m : m.qty,
                                 {m \in db.moves : m.cell = c})

SubOf(source) == {s \in db.subledger : s.source = source}

\* Rounding stays where it arose: the sub-ledger entry of a document is within
\* half a ten-thousandth of what its journal entry books to the control
\* accounts, and the returns of an invoice credit at most what its lines were
\* sold for after discount, up to the rounding of the net rate of each unit.
RoundingStaysSmall ==
  /\ \A e \in db.journal :
       /\ Cardinality(SubOf(e.source)) = 1
       /\ \A s \in SubOf(e.source) :
            LET gap == (e.dr["ar"] - e.cr["ar"]) + (e.dr["ap"] - e.cr["ap"])
                         - (s.debit - s.credit)
            IN  2 * gap <= Unit /\ -(2 * gap) <= Unit
  /\ \A i \in DOMAIN db.invoices :
       LET inv == db.invoices[i] IN
       2 * inv.credited
         <= 2 * inv.body.grand
              + Cost(inv.returned, [l \in Line |-> Grain(inv.body, l)])

-----------------------------------------------------------------------------
(* Authority and tenancy *)

\* Nothing is posted without a grant its actor holds at that moment, not by
\* the receipt inside a copilot sale either.
OnlyAuthorized ==
  [][\A e \in db'.journal \ db.journal :
       <<e.stamp.actor, Permission[e.stamp.op], e.stamp.branch>> \in grants]_vars

\* Goods move only in warehouses of the organization whose branch posted the
\* document, and money and returns meet only documents of the same branch.
TenantIsolation ==
  /\ \A m \in db.moves : /\ Owner[m.cell[1]] = BranchOrg[m.branch]
                         /\ Owner[m.cell[2]] = BranchOrg[m.branch]
  /\ \A s \in db.subledger : Owner[s.party] = BranchOrg[s.branch]
  /\ \A i \in DOMAIN db.receipts : \A x \in db.receipts[i].body.alloc :
       db.invoices[x.doc].branch = db.receipts[i].branch
  /\ \A i \in DOMAIN db.vendorPayments :
       \A x \in db.vendorPayments[i].body.alloc :
         db.purchases[x.doc].branch = db.vendorPayments[i].branch
  /\ \A i \in DOMAIN db.creditNotes :
       db.invoices[db.creditNotes[i].body.invoice].branch
         = db.creditNotes[i].branch

=============================================================================
