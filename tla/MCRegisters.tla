----------------------------- MODULE MCRegisters -----------------------------
(* Small instances of Registers and, beside it, of Reports. *)
EXTENDS Reports

\* Every search finds what it names.
MCWithin == {<<c, c>> : c \in Content}

One == {CHOOSE c \in Content : TRUE}
Budget(which, contents, records, others, requests) ==
  [contents |-> contents, kind |-> which, others |-> others,
   records |-> records, requests |-> requests]

\* Reading by pages while others write; saving while lists are read.
MCBudgets == {
  Budget("parties", One, 2, 1, 3),
  Budget("parties", One, 1, 0, 4),
  Budget("products", One, 1, 0, 4),
  Budget("products", Content, 2, 1, 2),
  Budget("warehouses", One, 2, 0, 3),
  Budget("warehouses", One, 1, 1, 3),
  Budget("balances", One, 3, 1, 3),
  Budget("movements", One, 2, 2, 3)}

Doc(key, day, source, amount, cost) ==
  [key |-> key, day |-> day, source |-> source, amount |-> amount, cost |-> cost]
MCDocument == {
  Doc(1, 4, "VENDOR_PAYMENT", 2, 0), Doc(2, 3, "PURCHASE", 5, 0),
  Doc(3, 2, "INVOICE", 7, 3), Doc(4, 4, "CUSTOMER_PAYMENT", 4, 0),
  Doc(5, 3, "CREDIT_NOTE", 2, 9), Doc(6, 1, "INVOICE", 3, 0)}
Moved(product, type, quantity) ==
  [product |-> product, warehouse |-> 1, type |-> type, quantity |-> quantity]
MCMovement == {Moved(1, "PURCHASE", 5), Moved(1, "SALE", 2),
               Moved(2, "PURCHASE", 3), Moved(2, "TRANSFER_IN", 1)}

Reads(which, posted0, moved, loads, stocks, posts, more, failures) ==
  [page |-> which, posted |-> {d \in Document : d.key \in posted0},
   moved |-> moved, loads |-> loads, stocks |-> stocks, posts |-> posts,
   moves |-> more, failures |-> failures,
   periods |-> {[from |-> 1, to |-> 2], [from |-> 2, to |-> 3], [from |-> 3, to |-> 2]}]
\* Figures of one month and of another, read apart while documents are posted;
\* the stock read while movements are recorded.
MCReading == {
  Reads("registers", {}, <<>>, 0, 0, 0, 0, 0),
  Reads("reports", {2, 3}, <<>>, 1, 0, 1, 0, 0),
  Reads("reports", {6}, <<>>, 2, 0, 0, 0, 1),
  Reads("reports", {3}, <<>>, 1, 0, 2, 0, 0),
  Reads("reports", {}, <<Moved(1, "PURCHASE", 5), Moved(2, "PURCHASE", 3),
                         Moved(1, "SALE", 2)>>, 0, 2, 0, 2, 1)}
=============================================================================
