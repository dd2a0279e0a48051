----------------------------- MODULE MCEstimates -----------------------------
(* Small instances of Estimates and Depot. *)
EXTENDS Depot

\* The first list is for all, the second one for the second customer.
MCScope == [l \in List |-> IF l = 1 THEN 0 ELSE 2]
MCSalePrice == [p \in Product |-> 9]

\* A price from one on, and one from the second quantity on.
Table(one, two) ==
  [pt \in Product \X Quantity |-> IF pt[2] = 1 THEN one ELSE two]
MCTables == {Table(3, 0)}
MCPrices == {5}

\* Two lines of the same product, from either list.
MCSource == <<[product |-> 1, quantity |-> 1, list |-> 1],
              [product |-> 1, quantity |-> 2, list |-> 1]>>

First == Version(1, 1, "ACTIVE", Table(1, 2), "before")
Second == Version(2, 1, "ACTIVE", Table(4, 4), "before")
Drafted(number) == Version(1, number, "DRAFT", Table(3, 3), "before")
Budget(which, lists, start, known, customer, dates, others, reloads, steps) ==
  [customer |-> customer, dates |-> dates, lists |-> lists, others |-> others,
   page |-> which, people |-> known, reloads |-> reloads, steps |-> steps,
   versions |-> start, tools |-> {}, stock |-> [p \in Product |-> 0],
   sales |-> <<>>]

\* The assistant's drafts of some tools.
Sold(quantity) == Invoice(0, <<Line(1, quantity, 5)>>, 0)
Drafts(tools, goods, sold, dates, others, steps) ==
  [Budget("assistant", {1}, <<First>>, 1, 0, dates, others, 0, steps) EXCEPT
     !.tools = tools, !.stock = [p \in Product |-> goods], !.sales = sold]

MCBudgets == {
  \* Two drafts to publish while a catalogue comes in; two lists to confuse.
  Budget("register", {1, 2}, <<First, Drafted(2), Drafted(3)>>, 1, 0, {"before"}, 1, 0, 3),
  Budget("register", {1, 2}, <<First, Second>>, 1, 0, {"before"}, 0, 0, 3),
  \* A version that is published before its day.
  Budget("register", {1}, <<First, [Drafted(2) EXCEPT !.from = "later"]>>, 1, 0,
         {"before"}, 1, 0, 2),
  \* Rates asked for while they change; forms of new customers; reloads.
  Budget("form", {1, 2}, <<First, Second>>, 2, 2, {"before"}, 1, 0, 4),
  Budget("form", {1, 2}, <<First, Second>>, 2, 2, {"before", "today"}, 1, 1, 3),
  Budget("form", {1}, <<First>>, 0, 0, {"before"}, 0, 1, 4),
  \* Conversions of changing prices, and confirmations that are repeated.
  Budget("conversion", {1}, <<First>>, 1, 0, {"before"}, 2, 0, 2),
  Budget("conversion", {}, <<First>>, 1, 0, {"before"}, 1, 0, 3),
  \* Drafts at prices and of stock that change.
  Drafts({"estimate", "invoice", "price"}, 2, <<>>, {"today"}, 1, 2),
  \* An estimate that is dispatched and converted at once.
  Drafts({"convert", "dispatch", "record"}, 6, <<>>, {}, 0, 4),
  \* Goods that are reserved, moved and returned.
  Drafts({"memo", "transfer", "deliver", "return"}, 1, <<Sold(2)>>, {}, 0, 4)}
=============================================================================
