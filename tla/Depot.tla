-------------------------------- MODULE Depot --------------------------------
(***************************************************************************)
(* The assistant's write tools: a tool reads the books and shows a draft,  *)
(* the draft is approved some time later, what it was made of is checked   *)
(* again, it is committed and the result is read back.  The drafts of one  *)
(* user are prepared and approved in any order, over prices, stock and     *)
(* documents that other drafts and other people change meanwhile.          *)
(*                                                                         *)
(* The estimates and prices are those of Estimates.  CopilotAction has the *)
(* claim of an approved draft and its retries, Posting the ledgers and the *)
(* permissions; here every draft is executed once, by a permitted user.    *)
(***************************************************************************)
EXTENDS Estimates

\* What was sold before was not sold from an estimate, and no more of a line
\* came back than it sold.
ASSUME DepotAssumption ==
  \A budget \in Budgets :
    /\ budget.sales \in
         Seq([estimate : {0}, task : {0}, returned : Seq(Nat),
              lines : Seq([product : Product, quantity : Quantity, rate : Nat])])
    /\ \A s \in DOMAIN budget.sales :
         LET sale == budget.sales[s] IN
         /\ DOMAIN sale.returned = DOMAIN sale.lines
         /\ \A i \in DOMAIN sale.lines :
              sale.returned[i] <= sale.lines[i].quantity

VARIABLES
  stock,      \* what the warehouse has of each product
  sales,      \* the posted invoices by id
  memos,      \* goods left at a site, to be returned or moved, by id
  transfers,  \* of a memo's goods to another site of its customer, by id
  orders,     \* the dispatches of estimates by id
  tasks       \* the assistant's drafts by id
books == <<stock, sales, memos, transfers, orders>>
depotVars == <<vars, books, tasks>>

\* All drafts are for the customer of the first estimate.
Buyer == estimates[1].content.customer
LinesOf(e) == estimates[e].content.lines

Total(S, Amount(_)) == SumFunction([x \in S |-> Amount(x)])
Needed(lines, product) ==
  Total({i \in DOMAIN lines : lines[i].product = product},
        LAMBDA i : lines[i].quantity)

-----------------------------------------------------------------------------
(* Prices and stock as the tools read them *)

\* The price now.  A version that began today has one.
PriceNow(v, product, quantity) ==
  LET tiers == {t \in Quantity : /\ t <= quantity
                                 /\ versions[v].items[product, t] > 0} IN
  IF tiers = {} \/ versions[v].from = "later" THEN 0
  ELSE versions[v].items[product, Max(tiers)]

\* The version that has the price when no list is named: one of the buyer's
\* lists, or else one that is for all; never one of two.
Quoted(product, quantity) ==
  LET priced == {v \in DOMAIN versions : /\ versions[v].status = "ACTIVE"
                                         /\ PriceNow(v, product, quantity) > 0}
      For(customer) == {v \in priced : Scope[versions[v].list] = customer}
      found == IF For(Buyer) # {} THEN For(Buyer) ELSE For(0) IN
  IF Cardinality(found) = 1 THEN found ELSE {}

\* What a draft shows of a price.
Price(v, product, quantity) ==
  [version |-> v, rate |-> PriceNow(v, product, quantity)]
Line(product, quantity, rate) ==
  [product |-> product, quantity |-> quantity, rate |-> rate]
Archive == {v \in DOMAIN versions : versions[v].status = "ARCHIVED"}

\* Each line of an estimate must be in stock when it is prepared as an invoice.
Invoiceable(e) ==
  /\ estimates[e].status \in {"DRAFT", "READY"}
  /\ \A i \in DOMAIN LinesOf(e) :
       LinesOf(e)[i].quantity <= stock[LinesOf(e)[i].product]

-----------------------------------------------------------------------------
(* What is reserved and what was returned of an invoice's lines *)

MemosOf(s, i) == {m \in DOMAIN memos : memos[m].sale = s /\ memos[m].line = i}
TransfersOf(m) == {t \in DOMAIN transfers : transfers[t].memo = m}
Delivered(m) ==
  Total({t \in TransfersOf(m) : transfers[t].status = "DELIVERED"},
        LAMBDA t : transfers[t].quantity)
IsOpen(m) == memos[m].status \in {"PENDING_PICKUP", "PARTIAL"}
Reserved(s, i) ==
  Total({m \in MemosOf(s, i) : IsOpen(m)},
        LAMBDA m : memos[m].quantity - Delivered(m))

\* Mutant: what other memos reserve is not looked at.
MayReserveAny(s, i, quantity) ==
  quantity + sales[s].returned[i] <= sales[s].lines[i].quantity
MayReserve(s, i, quantity) ==
  quantity + sales[s].returned[i] + Reserved(s, i) <= sales[s].lines[i].quantity
\* A return is not refused for what memos reserve.
MayReturn(s, i, quantity) ==
  quantity + sales[s].returned[i] <= sales[s].lines[i].quantity

-----------------------------------------------------------------------------
(* Invoices: commit_copilot_sale *)

\* Mutant: the status of the estimate is not looked at.
MayPostAny(e, lines) ==
  \A product \in Product : Needed(lines, product) <= stock[product]
MayPost(e, lines) ==
  /\ e # 0 => estimates[e].status = "READY"
  /\ \A product \in Product : Needed(lines, product) <= stock[product]

Invoice(e, lines, task) ==
  [estimate |-> e, lines |-> lines, task |-> task,
   returned |-> [i \in DOMAIN lines |-> 0]]
Post(e, lines, task) ==
  /\ sales' = Append(sales, Invoice(e, lines, task))
  /\ stock' = [product \in Product |-> stock[product] - Needed(lines, product)]
  /\ IF e = 0 THEN UNCHANGED estimates
     ELSE estimates' = [estimates EXCEPT ![e].status = "CONVERTED"]

-----------------------------------------------------------------------------
(* Preparing a draft.  data is what it is bound to. *)

Offer(tool, data) ==
  /\ tool \in left.tools
  /\ Spend("steps")
  /\ tasks' = Append(tasks, [tool |-> tool, stage |-> "shown", data |-> data,
                             gone |-> {}, result |-> 0])

PrepareEstimate == \E product \in Product, quantity \in Quantity :
  \E v \in Quoted(product, quantity) :
    Offer("estimate", [product |-> product, quantity |-> quantity,
                      price |-> Price(v, product, quantity)])
\* An invoice is also bound to the stock that was shown.
PrepareInvoice == \E product \in Product, quantity \in Quantity :
  \E v \in Quoted(product, quantity) :
    /\ quantity <= stock[product]
    /\ Offer("invoice", [product |-> product, quantity |-> quantity,
                        price |-> Price(v, product, quantity),
                        available |-> stock[product]])
PreparePrice == \E product \in Product, price \in Prices :
  \E v \in Quoted(product, 1) :
    Offer("price", [product |-> product, new |-> price,
                   price |-> Price(v, product, 1)])
PrepareConversion == \E e \in DOMAIN estimates :
  /\ Invoiceable(e)
  /\ Offer("convert", [estimate |-> e, source |-> estimates[e]])
PrepareReturn == \E s \in DOMAIN sales, quantity \in Quantity :
  \E i \in DOMAIN sales[s].lines :
    /\ MayReturn(s, i, quantity)
    /\ Offer("return", [sale |-> s, line |-> i, quantity |-> quantity])
PrepareMemo == \E s \in DOMAIN sales, quantity \in Quantity :
  \E i \in DOMAIN sales[s].lines :
    /\ quantity <= sales[s].lines[i].quantity
    /\ Offer("memo", [sale |-> s, line |-> i, quantity |-> quantity])

ProductOf(m) == sales[memos[m].sale].lines[memos[m].line].product
PrepareTransfer == \E m \in DOMAIN memos, quantity \in Quantity :
  \E v \in Quoted(ProductOf(m), quantity) :
    Offer("transfer", [memo |-> m, quantity |-> quantity,
                      memoVersion |-> memos[m].version,
                      price |-> Price(v, ProductOf(m), quantity)])
PrepareDelivery == \E t \in DOMAIN transfers :
  LET m == transfers[t].memo
      quantity == transfers[t].quantity IN
  \E v \in Quoted(ProductOf(m), quantity) :
    /\ transfers[t].status = "PLANNED"
    /\ Offer("deliver", [transfer |-> t,
                        price |-> Price(v, ProductOf(m), quantity)])

PrepareDispatch == \E e \in DOMAIN estimates :
  Offer("dispatch", [estimate |-> e, source |-> estimates[e]])

\* What an event may add to a line.
Remaining(item, event) ==
  IF event = "DISPATCH" THEN item.quantity - item.dispatched
  ELSE item.dispatched - item.delivered
\* The items of an order after an event.
After(items, event, lines) ==
  [i \in DOMAIN items |->
     IF i \notin DOMAIN lines THEN items[i]
     ELSE IF event = "DISPATCH" THEN [items[i] EXCEPT !.dispatched = @ + lines[i]]
     ELSE [items[i] EXCEPT !.delivered = @ + lines[i]]]
AllAre(items, what) == \A i \in DOMAIN items : items[i][what] = items[i].quantity

\* The event that delivers the last of it is prepared with the invoice.
PrepareRecord == \E o \in DOMAIN orders, event \in {"DISPATCH", "DELIVER"} :
  LET items == orders[o].items
      e == orders[o].estimate IN
  \E some \in (SUBSET DOMAIN items) \ {{}} : \E lines \in [some -> Quantity] :
    LET final == event = "DELIVER" /\ AllAre(After(items, event, lines), "delivered")
    IN /\ orders[o].status # "DELIVERED"
       /\ \A i \in some : lines[i] <= Remaining(items[i], event)
       /\ final => Invoiceable(e)
       /\ Offer("record",
               [order |-> o, event |-> event, lines |-> lines, final |-> final,
                orderVersion |-> orders[o].version,
                source |-> IF final THEN estimates[e] ELSE None])

Prepare ==
  /\ \/ PrepareEstimate \/ PrepareInvoice \/ PreparePrice \/ PrepareConversion
     \/ PrepareReturn \/ PrepareMemo \/ PrepareTransfer \/ PrepareDelivery
     \/ PrepareDispatch \/ PrepareRecord
  /\ UNCHANGED <<books, versions, estimates>>

-----------------------------------------------------------------------------
(* Approval, and the check before the commit *)

Move(t, stage) == tasks' = [tasks EXCEPT ![t].stage = stage]

\* gone only tells which versions were archived when the draft was approved.
Approve(t) ==
  /\ tasks[t].stage = "shown"
  /\ tasks' = [tasks EXCEPT ![t].stage = "approved", ![t].gone = Archive]
  /\ UNCHANGED <<books, versions, estimates>>

\* Mutant: the check is left out.
HoldsAny(tool, data) == TRUE
\* What a draft shows is compared with what it would show now.
Holds(tool, data) ==
  CASE tool = "convert" -> estimates[data.estimate] = data.source
    [] tool \in {"estimate", "invoice"} ->
         /\ \E v \in Quoted(data.product, data.quantity) :
              Price(v, data.product, data.quantity) = data.price
         /\ tool = "invoice" => data.available = stock[data.product]

Recheck(t) ==
  /\ tasks[t].stage = "approved"
  /\ tasks[t].tool \in {"estimate", "invoice", "convert"}
  /\ Move(t, IF Holds(tasks[t].tool, tasks[t].data) THEN "checked" ELSE "refused")
  /\ UNCHANGED <<books, versions, estimates>>

\* All other drafts are checked by the transaction that commits them.
Ready(t, tool) ==
  /\ tasks[t].tool = tool
  /\ tasks[t].stage =
       IF tool \in {"estimate", "invoice", "convert"} THEN "checked" ELSE "approved"
Commit1(t, result) ==
  tasks' = [tasks EXCEPT ![t].stage = "committed", ![t].result = result]

-----------------------------------------------------------------------------
(* The transactions.  What they refuse changes nothing else. *)

CommitOrRefuse(t, allowed, Effect) ==
  \/ allowed /\ Effect
  \/ ~allowed /\ Move(t, "refused") /\ UNCHANGED <<books, versions, estimates>>

\* An estimate is numbered at random.
Quotation(t, data) ==
  [key |-> <<"assistant", t>>, print |-> None, edition |-> None,
   content |-> [number |-> Max(Number) + t, customer |-> Buyer, list |-> None,
                lines |-> <<Line(data.product, data.quantity, data.price.rate)>>]]

CommitEstimate(t) ==
  /\ Ready(t, "estimate")
  /\ Create(Quotation(t, tasks[t].data))
  /\ Commit1(t, Len(estimates'))
  /\ UNCHANGED <<books, versions>>

CommitInvoice(t) ==
  LET data == tasks[t].data
      lines == <<Line(data.product, data.quantity, data.price.rate)>> IN
  /\ Ready(t, "invoice")
  /\ CommitOrRefuse(t, MayPost(0, lines),
       /\ Post(0, lines, t)
       /\ Commit1(t, Len(sales'))
       /\ UNCHANGED <<memos, transfers, orders, versions>>)

CommitConversion(t) ==
  LET e == tasks[t].data.estimate IN
  /\ Ready(t, "convert")
  /\ CommitOrRefuse(t, MayPost(e, LinesOf(e)),
       /\ Post(e, LinesOf(e), t)
       /\ Commit1(t, Len(sales'))
       /\ UNCHANGED <<memos, transfers, orders, versions>>)

\* The price must be that of the version that was shown, which is still active.
CommitPrice(t) ==
  LET data == tasks[t].data
      v == data.price.version
      list == versions[v].list
      tier == Max({q \in Quantity : q <= 1 /\ versions[v].items[data.product, q] > 0}) IN
  /\ Ready(t, "price")
  /\ CommitOrRefuse(t, v \in ActiveOf(list),
       /\ Replace(list, [versions[v].items EXCEPT ![<<data.product, tier>>] = data.new],
                  "today")
       /\ Commit1(t, Len(versions'))
       /\ UNCHANGED <<books, estimates>>)

CommitReturn(t) ==
  LET data == tasks[t].data
      s == data.sale
      i == data.line IN
  /\ Ready(t, "return")
  /\ CommitOrRefuse(t, MayReturn(s, i, data.quantity),
       /\ sales' = [sales EXCEPT ![s].returned[i] = @ + data.quantity]
       /\ stock' = [stock EXCEPT ![sales[s].lines[i].product] = @ + data.quantity]
       /\ Commit1(t, s)
       /\ UNCHANGED <<memos, transfers, orders, versions, estimates>>)

CommitMemo(t) ==
  LET data == tasks[t].data IN
  /\ Ready(t, "memo")
  /\ CommitOrRefuse(t, MayReserve(data.sale, data.line, data.quantity),
       /\ memos' = Append(memos, [allocated |-> 0, status |-> "PENDING_PICKUP",
                                  version |-> 1] ++ data)
       /\ Commit1(t, Len(memos'))
       /\ UNCHANGED <<stock, sales, transfers, orders, versions, estimates>>)

\* The quote for the other site is saved as an estimate, at the price shown.
CommitTransfer(t) ==
  LET data == tasks[t].data
      m == data.memo IN
  /\ Ready(t, "transfer")
  /\ CommitOrRefuse(t,
       /\ memos[m].version = data.memoVersion /\ IsOpen(m)
       /\ memos[m].allocated + data.quantity <= memos[m].quantity,
       /\ Create(Quotation(t, [product |-> ProductOf(m)] ++ data))
       /\ transfers' = Append(transfers,
            [memo |-> m, quantity |-> data.quantity, status |-> "PLANNED",
             quote |-> Len(estimates'), credited |-> FALSE, sale |-> 0])
       /\ memos' = [memos EXCEPT ![m].allocated = @ + data.quantity,
                                 ![m].status = "PARTIAL", ![m].version = @ + 1]
       /\ Commit1(t, Len(transfers'))
       /\ UNCHANGED <<stock, sales, orders, versions>>)

AllMoved(m, moved) ==
  /\ memos[m].allocated = memos[m].quantity
  /\ \A t \in TransfersOf(m) : moved[t].status # "PLANNED"

\* The goods come back from one site and are billed to the other, at the price
\* that was shown if it still is the price: they end where they were.
CommitDelivery(t) ==
  LET data == tasks[t].data
      id == data.transfer
      m == transfers[id].memo
      memo == memos[m]
      quantity == transfers[id].quantity
      v == data.price.version IN
  /\ Ready(t, "deliver")
  /\ CommitOrRefuse(t,
       /\ transfers[id].status = "PLANNED"
       /\ versions[v].status = "ACTIVE"
       /\ PriceNow(v, ProductOf(m), quantity) = data.price.rate
       /\ MayReturn(memo.sale, memo.line, quantity),
       /\ sales' = Append([sales EXCEPT ![memo.sale].returned[memo.line] = @ + quantity],
            Invoice(0, <<Line(ProductOf(m), quantity, data.price.rate)>>, t))
       /\ transfers' = [transfers EXCEPT ![id].status = "DELIVERED",
                                         ![id].credited = TRUE, ![id].sale = Len(sales')]
       /\ memos' = IF AllMoved(m, transfers')
                   THEN [memos EXCEPT ![m].status = "TRANSFERRED", ![m].version = @ + 1]
                   ELSE memos
       /\ Commit1(t, id)
       /\ UNCHANGED <<stock, orders, versions, estimates>>)

CommitDispatch(t) ==
  LET e == tasks[t].data.estimate IN
  /\ Ready(t, "dispatch")
  /\ CommitOrRefuse(t,
       /\ estimates[e] = tasks[t].data.source
       /\ estimates[e].status # "CONVERTED"
       /\ \A o \in DOMAIN orders : orders[o].estimate # e,
       /\ orders' = Append(orders, [estimate |-> e, status |-> "PICKING",
            version |-> 1, sale |-> 0,
            items |-> [i \in DOMAIN LinesOf(e) |->
              [quantity |-> LinesOf(e)[i].quantity, dispatched |-> 0, delivered |-> 0]]])
       /\ estimates' = [estimates EXCEPT ![e].status = "READY"]
       /\ Commit1(t, Len(orders'))
       /\ UNCHANGED <<stock, sales, memos, transfers, versions>>)

\* The order is as it was, no line gets more than it may, and the invoice comes
\* with the last delivery only.
Fits(data, items) ==
  /\ orders[data.order].version = data.orderVersion
  /\ orders[data.order].status # "DELIVERED"
  /\ \A i \in DOMAIN items : /\ items[i].delivered <= items[i].dispatched
                             /\ items[i].dispatched <= items[i].quantity
  /\ AllAre(items, "delivered") <=> data.final

CommitRecord(t) ==
  LET data == tasks[t].data
      o == data.order
      e == orders[o].estimate
      items == After(orders[o].items, data.event, data.lines) IN
  /\ Ready(t, "record")
  /\ CommitOrRefuse(t,
       /\ Fits(data, items)
       /\ data.final => /\ estimates[e] = data.source
                        /\ MayPost(e, LinesOf(e)),
       /\ IF data.final THEN Post(e, LinesOf(e), t)
          ELSE UNCHANGED <<sales, stock, estimates>>
       /\ orders' = [orders EXCEPT ![o].items = items, ![o].version = @ + 1,
            ![o].sale = IF data.final THEN Len(sales') ELSE 0,
            ![o].status = IF data.final THEN "DELIVERED"
                          ELSE IF AllAre(items, "dispatched") THEN "DISPATCHED"
                          ELSE "PARTIAL"]
       /\ Commit1(t, o)
       /\ UNCHANGED <<memos, transfers, versions>>)

-----------------------------------------------------------------------------
(* Reading the result back.  Only a price can be changed again by then. *)

Verify(t) ==
  LET data == tasks[t].data
      result == tasks[t].result IN
  /\ tasks[t].stage = "committed"
  /\ LET seen ==
       CASE tasks[t].tool = "price" ->
              \E v \in ActiveOf(versions[result].list) :
                PriceNow(v, data.product, 1) = data.new
         [] tasks[t].tool = "deliver" ->
              /\ transfers[result].status = "DELIVERED"
              /\ transfers[result].credited /\ transfers[result].sale # 0
         [] tasks[t].tool = "record" /\ data.final ->
              orders[result].status = "DELIVERED" /\ orders[result].sale # 0
         [] OTHER -> TRUE
     IN Move(t, IF seen THEN "done" ELSE "doubtful")
  /\ UNCHANGED <<books, versions, estimates>>

Execute(t) ==
  \/ Recheck(t)
  \/ CommitEstimate(t) \/ CommitInvoice(t) \/ CommitConversion(t)
  \/ CommitPrice(t) \/ CommitReturn(t) \/ CommitMemo(t) \/ CommitTransfer(t)
  \/ CommitDelivery(t) \/ CommitDispatch(t) \/ CommitRecord(t)
  \/ Verify(t)

\* Somebody receives goods.
Receive(product) ==
  /\ Spend("others")
  /\ stock' = [stock EXCEPT ![product] = @ + 1]
  /\ UNCHANGED <<sales, memos, transfers, orders, tasks, versions, estimates>>

-----------------------------------------------------------------------------
DepotInit ==
  /\ Init
  /\ stock = left.stock /\ sales = left.sales
  /\ memos = <<>> /\ transfers = <<>> /\ orders = <<>> /\ tasks = <<>>

Assist ==
  /\ left.page = "assistant"
  /\ \/ Prepare
     \/ \E t \in DOMAIN tasks : UNCHANGED left /\ (Approve(t) \/ Execute(t))
     \/ \E product \in Product : Receive(product)
  /\ UNCHANGED <<register, calls, people, page, session>>

DepotNext == \/ Next /\ UNCHANGED <<books, tasks>>
             \/ Assist
DepotSpec == DepotInit /\ [][DepotNext]_depotVars

-----------------------------------------------------------------------------
(* Properties *)

\* What an estimate, an invoice or a delivery charges is what its draft showed,
\* of a version that was active when the draft was approved or since then, and
\* for a delivery is active when it is made: no price that was replaced between
\* the draft and its approval is charged, whatever is prepared, approved and
\* repriced in between.  The quote of a transfer is not checked again.
ChargedAsApproved ==
  [][\A t \in DOMAIN tasks :
       LET task == tasks[t] IN
       /\ task.tool \in {"estimate", "invoice", "deliver"}
       /\ task.stage # "committed" /\ tasks'[t].stage = "committed"
       => /\ task.data.price.version \notin task.gone
          /\ IF task.tool = "estimate"
             THEN estimates'[tasks'[t].result].content.lines[1].rate = task.data.price.rate
             ELSE sales'[Len(sales')].lines[1].rate = task.data.price.rate
          /\ task.tool = "deliver"
               => versions[task.data.price.version].status = "ACTIVE"]_depotVars

\* A dispatch is invoiced when all of it was delivered, and then once, though
\* its estimate can be converted by another draft at any time: an estimate has
\* one invoice if it is converted and none before.
DispatchedIsBilledOnce ==
  /\ \A o \in DOMAIN orders :
       LET order == orders[o] IN
       /\ order.status = "DELIVERED" <=> AllAre(order.items, "delivered")
       /\ order.status = "DELIVERED" <=> order.sale # 0
       /\ order.sale # 0 => sales[order.sale].estimate = order.estimate
  /\ \A e \in DOMAIN estimates :
       Cardinality({s \in DOMAIN sales : sales[s].estimate = e}) =
         IF estimates[e].status = "CONVERTED" THEN 1 ELSE 0

\* Goods that are moved between sites are goods that were sold: the memos of an
\* invoice's line are of no more than it sold, the transfers of a memo of no
\* more than it has, with a credit and an invoice each once they are delivered,
\* and a memo is closed when all of it was.
MovedWasSold ==
  /\ \A s \in DOMAIN sales : \A i \in DOMAIN sales[s].lines :
       /\ sales[s].returned[i] <= sales[s].lines[i].quantity
       /\ Total(MemosOf(s, i), LAMBDA m : memos[m].quantity)
            <= sales[s].lines[i].quantity
  /\ \A m \in DOMAIN memos :
       /\ memos[m].allocated = Total(TransfersOf(m), LAMBDA t : transfers[t].quantity)
       /\ memos[m].allocated <= memos[m].quantity
       /\ memos[m].status = "TRANSFERRED" <=> Delivered(m) = memos[m].quantity
  /\ \A t \in DOMAIN transfers :
       transfers[t].status = "DELIVERED" <=> transfers[t].credited /\ transfers[t].sale # 0
=============================================================================
