------------------------------ MODULE MCPosting ------------------------------
(***************************************************************************)
(* Small instances of the posting core.  Each .cfg picks the requests of   *)
(* one question from the sets below; every request may be sent any number  *)
(* of times, in any order, so the documents are bounded by the keys.  The  *)
(* fields of a body are written in the order TLC sorts them in.            *)
(***************************************************************************)
EXTENDS PostingProperties, TLC

CONSTANTS o1, o2, b1, b2, b3, ann, bob, cust, vend, cust2, p1, p2, p3, w1, w2,
          w3, e1, k1, k2, k3, k1r, n1, n2, n3, pkr, usd

OneBranch == {b1}
ThreeBranches == {b1, b2, b3}
SameOrg == b1 :> o1
TwoOrgs == b1 :> o1 @@ b2 :> o1 @@ b3 :> o2
OneOwner == [x \in {cust, vend, p1, p2, w1, w2, e1} |-> o1]
TwoOwners == [x \in {cust, cust2, vend, p1, p2, p3, w1, w2, w3} |->
                IF x \in {cust2, p3, w3} THEN o2 ELSE o1]
MCFloor == [p \in Product |-> IF p = p1 THEN 3 ELSE 1]
MCReceiptKey == [k \in {k1, k2, k3, k1r} |-> k1r]
MCStock == [c \in Cell |-> IF c[2] = w2 THEN 0 ELSE 3]
ArStock == [c \in Cell |-> IF c[2] = w2 THEN 0 ELSE 4]
AllGrants == Grant
NoGrants == {}

Pair(x, y) == <<x, y>>
Send(op, key, actor, branch, body) ==
  [op |-> op, key |-> key, actor |-> actor, branch |-> branch, body |-> body]
To(doc, amount) == [doc |-> doc, amount |-> amount]

\* Two of p1 at 5 and one of p2 at 4, all taken from w1.
Goods(customer, number, discount, rent, paid) ==
  [customer |-> customer, number |-> number, discount |-> discount,
   rent |-> rent, paid |-> paid, warehouse |-> w1, estimate |-> NoEstimate,
   currency |-> pkr, product |-> Pair(p1, p2), qty |-> Pair(2, 1),
   price |-> Pair(5, 4), cost |-> Pair(3, 1), off |-> Pair(0, 0),
   perLine |-> FALSE, subtotal |-> 14, grand |-> 14 - discount]
\* The same, with two of the discount on the first line and one on the second.
GoodsOff(number, estimate, paid) ==
  [Goods(cust, number, 3, 0, paid) EXCEPT !.off = Pair(2, 1),
     !.perLine = TRUE, !.estimate = estimate]
Supply(number, qty) ==
  [number |-> number, discount |-> 1, warehouse |-> w1,
   product |-> Pair(p1, p1), qty |-> qty, cost |-> Pair(3, 2),
   vendor |-> vend, tax |-> 2]
Money(amount, method, alloc) ==
  [amount |-> amount, customer |-> cust, currency |-> pkr,
   method |-> method, alloc |-> alloc]
Back(invoice, number, items, warehouse) ==
  [customer |-> cust, number |-> number, warehouse |-> Pair(warehouse, warehouse),
   currency |-> pkr, invoice |-> invoice, items |-> items]
Pay(amount, method, alloc) ==
  [amount |-> amount, vendor |-> vend, method |-> method, alloc |-> alloc]

None0 == {}

\* Selling and collecting: two sales under one key, two of one estimate, a
\* copilot sale with its receipt, receipts and returns racing for one invoice, and
\* a purchase that raises the cost floor; there are goods for two of the sales.
ArSales ==
  {Send("sale", k1, ann, b1, Goods(cust, n1, 0, 1, 0)),
   Send("sale", k1, bob, b1,
        [Goods(cust, n3, 1, 0, 0) EXCEPT !.qty = Pair(1, 0), !.subtotal = 5,
                                         !.grand = 4, !.estimate = e1]),
   Send("sale", k2, ann, b1, GoodsOff(n2, e1, 0))}
ArCopilot == {Send("copilotSale", k3, ann, b1, GoodsOff(n2, NoEstimate, 4))}
\* Bought at a cost above what the copilot sale leaves of the price.
ArPurchases ==
  {Send("purchase", k1, ann, b1, [Supply(n1, Pair(1, 0)) EXCEPT !.cost = Pair(5, 0)])}
ArReceipts ==
  {Send("receipt", k1, ann, b1, Money(8, "cash", {To(1, 8)})),
   Send("receipt", k2, bob, b1, Money(8, "bank", {To(1, 6), To(2, 2)}))}
ArReturns ==
  {Send("return", k1, ann, b1, Back(1, n1, Pair(1, 1), w2)),
   Send("return", k2, bob, b1, Back(1, n2, Pair(2, 0), w1))}

\* Buying and paying: one vendor invoice number under two keys, payments of
\* both purchases racing, goods bought before they can be sold, on
\* the page or by the copilot, and what comes back of them.
ApPurchases ==
  {Send("purchase", k1, ann, b1, Supply(n1, Pair(2, 1))),
   Send("purchase", k2, bob, b1, Supply(n1, Pair(1, 0))),
   Send("purchase", k2, ann, b1, Supply(NoNumber, Pair(0, 3)))}
ApPayments ==
  {Send("vendorPayment", k1, ann, b1, Pay(6, "cash", {To(1, 6)})),
   Send("vendorPayment", k2, bob, b1, Pay(5, "bank", {To(1, 4), To(2, 1)})),
   Send("vendorPayment", k3, ann, b1, Pay(3, "other", {To(2, 3)}))}
ApSales ==
  {Send("sale", k1, ann, b1,
        [Goods(cust, n1, 0, 0, 0) EXCEPT !.product = Pair(p1, p1),
           !.qty = Pair(2, 2), !.price = Pair(5, 5), !.subtotal = 20,
           !.grand = 20])}
ApReceipts == {Send("receipt", k1, ann, b1, Money(8, "cash", {To(1, 8)}))}
ApReturns == {Send("return", k1, ann, b1, Back(1, n1, Pair(1, 1), w2))}

\* Two organizations, one with two branches: the same key in each, documents
\* of another branch or organization, and grants that come and go.
Foreign(customer, warehouse, product) ==
  [Goods(customer, n1, 0, 0, 0) EXCEPT !.warehouse = warehouse,
     !.product = Pair(product, product)]
AccSales ==
  {Send("sale", k1, bob, b3, Foreign(cust2, w3, p3)),
   Send("sale", k1, bob, b2, Foreign(cust, w3, p1)),
   Send("sale", k2, ann, b2, Goods(cust, n2, 1, 0, 0))}
AccCopilot == {Send("copilotSale", k1, ann, b1, GoodsOff(n3, NoEstimate, 4))}
AccPurchases == {Send("purchase", k1, ann, b1, Supply(n1, Pair(2, 1)))}
AccReceipts == {Send("receipt", k1, ann, b2, Money(5, "cash", {To(1, 5)}))}
AccReturns == {Send("return", k1, ann, b2, Back(1, n1, Pair(1, 0), w1))}
AccPayments ==
  {Send("vendorPayment", k1, ann, b2, Pay(2, "cash", {To(1, 2)}))}
AnnAtB1 == {<<ann, "sales.create", b1>>, <<ann, "payments.create", b1>>}

\* The same in amounts that are multiples of ten, so that journal_lines,
\* which keeps multiples of Unit = 5 there, rounds none of them.
Tens(pair) == Pair(10 * pair[1], 10 * pair[2])
TensOfSale(r) ==
  [r EXCEPT !.body = [@ EXCEPT !.price = Tens(@), !.cost = Tens(@),
     !.off = Tens(@), !.discount = 10 * @, !.paid = 10 * @, !.rent = 10 * @,
     !.subtotal = 10 * @, !.grand = 10 * @]]
TensOfSupply(r) ==
  [r EXCEPT !.body = [@ EXCEPT !.cost = Tens(@), !.discount = 10 * @,
                               !.tax = 10 * @]]
TensOfMoney(r) ==
  [r EXCEPT !.body = [@ EXCEPT !.amount = 10 * @,
     !.alloc = {To(x.doc, 10 * x.amount) : x \in @}]]

\* A net rate that must be rounded: 104 of 120 is 0.9 when a quotient keeps
\* one digit (Fine = 10), so that four units credit 108, more than they were
\* sold for, which journal_lines rounds to 110.
Discounted(number, qty, discount) ==
  [Goods(cust, number, 0, 0, 0) EXCEPT !.qty = Pair(qty, 0),
     !.price = Pair(30, 0), !.cost = Pair(30, 0), !.off = Pair(discount, 0),
     !.subtotal = 30 * qty, !.discount = discount,
     !.grand = 30 * qty - discount, !.product = Pair(p2, p2)]
RoundSales ==
  {TensOfSale(r) : r \in AccSales} \cup
  {Send("sale", k1, ann, b1, Discounted(n1, 4, 16))}
RoundCopilot == {TensOfSale(r) : r \in AccCopilot}
RoundPurchases == {TensOfSupply(r) : r \in AccPurchases}
RoundReceipts == {TensOfMoney(r) : r \in AccReceipts}
RoundReturns ==
  AccReturns \cup {Send("return", k2, ann, b1, Back(1, n2, Pair(4, 0), w1))}
RoundPayments == {TensOfMoney(r) : r \in AccPayments}
RoundStock == [c \in Cell |-> IF c[2] = w2 THEN 0
                              ELSE IF c[1] = p2 THEN 8 ELSE 3]

=============================================================================
