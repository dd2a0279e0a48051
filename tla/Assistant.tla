------------------------------ MODULE Assistant ------------------------------
(***************************************************************************)
(* What happens inside a turn of Conversation.  The language model calls   *)
(* one tool after the other; the agent keeps the state of the task (which  *)
(* product and which customer are meant, the draft of an estimate, a       *)
(* payment) and signs it into the token when the turn is answered.  What   *)
(* the model asks for is not to be trusted: whether a product or customer  *)
(* is settled, and whether a draft is still the one that was prepared, is  *)
(* decided by the tools and the agent.                                     *)
(*                                                                         *)
(* Vendors go the way of customers and are left out, and so are the tools  *)
(* that read without a trace in the state.  A tool that is refused, or     *)
(* fails without a trace, may end the turn or let it go on.                *)
(***************************************************************************)
EXTENDS Conversation

CONSTANTS Customer, Product, MaxQuantity

Tool == {"search", "lookup", "rate", "query", "customers", "ledger", "documents",
         "payment", "draft"}

Discount == [by : {"user", "memory"}, of : Customer \cup {None}, at : Nat]
\* The lines of a draft, by product.
Goods == UNION {[P -> [qty : Nat, off : Discount]] : P \in SUBSET Product}
Drafts == [lines : Goods, prepared : BOOLEAN]
\* The state of the task, what the user is shown of a draft, and a turn under way.
Choice == ({"product"} \X Product) \cup ({"customer"} \X Customer)
State == [products : SUBSET Product, several : BOOLEAN, unresolved : BOOLEAN,
          customer : Customer \cup {None}, unclear : BOOLEAN, asked : SUBSET Choice,
          draft : Drafts \cup {None}, payment : Customer \cup {None}]
View == [estimate : [kind : {"estimate"}, of : Customer \cup {None}, lines : Goods],
         prepared : BOOLEAN]
Turn == [state : State, estimate : BOOLEAN, prior : BOOLEAN, before : BOOLEAN,
         failed : BOOLEAN, searched : BOOLEAN, unsettled : BOOLEAN,
         found : SUBSET Product, view : View \cup {None},
         over : {"completed", "clarification", None}]

ASSUME AssistantAssumption ==
  /\ None \notin Customer \cup Drafts \cup Turn \cup {"estimate", "payment"}
  /\ MaxQuantity \in Nat \ {0}
  /\ \A b \in Budgets : {b.turns, b.lessons} \cup {b[t] : t \in Tool} \subseteq Nat

VARIABLES
  thread,  \* the state in the token the tab holds
  offer,   \* what the tab offers to prepare for confirmation
  turn,    \* the turn under way
  viewed,  \* what the user was shown as prepared
  stored,  \* what was stored for confirmation
  awaited, \* the user was asked which product is meant, and it is not known yet
  memory   \* how often what is known of the customers' discounts has changed

talk == <<thread, offer, turn, viewed, stored, awaited, memory>>

NewState == [products |-> {}, several |-> FALSE, unresolved |-> FALSE,
             customer |-> None, unclear |-> FALSE, asked |-> {},
             draft |-> None, payment |-> None]
Estimate(customer, lines) == [kind |-> "estimate", of |-> customer, lines |-> lines]
PaymentOf(customer) == [kind |-> "payment", of |-> customer, lines |-> <<>>]

-----------------------------------------------------------------------------
(* The state of the task *)

Touch(s) == IF s.draft = None THEN s ELSE [s EXCEPT !.draft.prepared = FALSE]
Meet(s, c) == [(IF s.customer = c THEN s ELSE Touch(s)) EXCEPT !.customer = c]
Mean(s, P) == [s EXCEPT !.products = P, !.several = FALSE, !.unresolved = FALSE]
Miss(s) == [s EXCEPT !.products = {}, !.several = FALSE, !.unresolved = TRUE]
Offering(s, kind, candidates) == [s EXCEPT !.asked = {kind} \X candidates]
\* A search asks, or answers what an earlier one of its kind asked.
Asking(s, kind, candidates, resolved) ==
  IF ~resolved /\ candidates # {} THEN Offering(s, kind, candidates)
  ELSE [s EXCEPT !.asked = {a \in @ : a[1] # kind}]

\* recall: what the memory says of the customer's discounts now.
Remembered(c) == [by |-> "memory", of |-> c, at |-> IF c = None THEN 0 ELSE memory]
ByUser == [by |-> "user", of |-> None, at |-> 0]
\* Mutant: a discount from the memory is recalled at every inspection.
InspectedAnew(s) ==
  IF s.customer = None THEN s
  ELSE [s EXCEPT !.draft.lines =
          [p \in DOMAIN @ |-> IF @[p].off.by = "user" THEN @[p]
                              ELSE [@[p] EXCEPT !.off = Remembered(s.customer)]]]
\* inspect: the discounts another customer's memory gave are given anew.
Inspected(s) ==
  LET Given(line) == line.off.by = "user" \/ line.off.of = s.customer IN
  IF s.customer = None THEN s
  ELSE [s EXCEPT !.draft.lines =
          [p \in DOMAIN @ |-> IF Given(@[p]) THEN @[p]
                              ELSE [@[p] EXCEPT !.off = Remembered(s.customer)]]]

-----------------------------------------------------------------------------
(* A turn begins *)

Selected(s, choice) ==
  IF choice[1] = "product" THEN Mean(s, {choice[2]})
  ELSE [Meet(s, choice[2]) EXCEPT !.unclear = FALSE]
Working(s, estimate) ==
  [state |-> s, estimate |-> estimate, prior |-> s.several, before |-> s.unresolved,
   failed |-> FALSE, searched |-> FALSE, unsettled |-> FALSE, found |-> {},
   view |-> None, over |-> None]
Begin(s, estimate) ==
  /\ turn = None /\ Spend("turns")
  /\ turn' = Working([s EXCEPT !.payment = None], estimate)
  /\ awaited' = (awaited /\ (s.unresolved \/ s.several))
  /\ offer' = None
  /\ UNCHANGED <<thread, viewed, stored, memory>>

Ask(estimate) == Begin(thread, estimate)
\* POST /agent/input: a picture or a voice note is to be prepared again.
Hand == Begin(Touch(thread), FALSE)
\* applySelection: the user chooses among the candidates that were offered.
Select(choice) ==
  /\ choice \in thread.asked
  /\ Begin([Selected(thread, choice) EXCEPT !.asked = {}], FALSE)

-----------------------------------------------------------------------------
(* The tools *)

Work(tool, next) ==
  /\ turn # None /\ turn.over = None
  /\ Spend(tool)
  /\ turn' = next
  /\ UNCHANGED <<thread, offer, viewed, stored, memory>>
Settle(answered) == awaited' = (awaited /\ ~answered)
Unique(candidates) == \E c \in candidates : candidates = {c}

SearchProducts(P, resolved) ==
  /\ resolved => Unique(P)
  /\ Work("search", [turn EXCEPT
       !.state = [Asking(@, "product", P, resolved) EXCEPT
                    !.products = P, !.several = ~resolved /\ P # {}, !.unresolved = ~resolved],
       !.found = P, !.searched = TRUE, !.unsettled = ~resolved])
  /\ Settle(resolved)
SearchFails ==
  /\ Work("search", [turn EXCEPT !.state = [Miss(@) EXCEPT !.asked = {}], !.failed = TRUE])
  /\ UNCHANGED awaited

\* Mutant: a product the model names settles what the user was asked before.
MaySettleAny(t) == t.failed
MaySettle(t) == t.failed /\ ~t.before /\ ~t.prior
LookupProduct(P) ==
  LET s == turn.state
      found == turn.found \cup P
      stays == turn.prior /\ ~turn.searched
      settled == MaySettle(turn) /\ Unique(found) /\ ~turn.unsettled IN
  /\ Work("lookup", [turn EXCEPT
       !.found = found,
       !.state = [s EXCEPT
         !.products = IF stays THEN s.products ELSE found,
         !.several = IF stays THEN s.several
                     ELSE found # {} /\ (turn.unsettled \/ ~Unique(found)),
         !.unresolved = s.unresolved /\ ~settled]])
  /\ UNCHANGED awaited

\* erp_get_product_sale_rate: with the rate, the turn is answered.
SaleRate(P, resolved, rated) ==
  /\ resolved => Unique(P)
  /\ rated => resolved
  /\ Work("rate", [turn EXCEPT
       !.state = LET s == IF resolved THEN Mean(@, P) ELSE Miss(@) IN
                 IF rated THEN [s EXCEPT !.asked = {}]
                 ELSE IF P # {} THEN Offering(s, "product", P) ELSE s,
       !.unsettled = ~resolved,
       !.over = IF rated THEN "completed" ELSE None])
  /\ Settle(resolved)

\* query_inventory and calculate_margin with a query; compare_products, which
\* keeps its products to itself, when it fails.
QueryProduct(P, resolved) ==
  /\ resolved => Unique(P)
  /\ Work("query", IF resolved
       THEN [turn EXCEPT !.state = Mean(@, P), !.unsettled = FALSE]
       ELSE IF P = {} THEN [turn EXCEPT !.state = Miss(@)]
       ELSE [turn EXCEPT !.state = Offering(Miss(@), "product", P), !.over = "clarification"])
  /\ Settle(resolved)

\* Another customer: the draft shown is no longer the draft.
Turning(t, c) == [t EXCEPT !.state = Meet(@, c),
                           !.view = IF t.state.customer = c THEN @ ELSE None]
LookupCustomers(C, resolved) ==
  LET s == turn.state
      unknown == turn.estimate /\ C = {}
      found == [turn EXCEPT !.state = Asking(@, "customer", C, resolved)] IN
  /\ resolved => Unique(C)
  /\ \E c \in IF resolved THEN C ELSE {None} :
       Work("customers",
         IF unknown   \* a new customer, who comes with the estimate
         THEN [turn EXCEPT !.state =
                 [s EXCEPT !.customer = None, !.unclear = FALSE, !.asked = {}]]
         ELSE [Turning(found, c) EXCEPT !.state.unclear = ~resolved])
  /\ UNCHANGED awaited
CustomersFail ==
  /\ Work("customers", [turn EXCEPT !.state =
            [@ EXCEPT !.customer = None, !.unclear = TRUE, !.asked = {}]])
  /\ UNCHANGED awaited
QueryLedger(C, resolved) ==
  LET lost == [turn EXCEPT !.state = [Touch(@) EXCEPT !.customer = None, !.unclear = TRUE],
                           !.view = None] IN
  /\ resolved => Unique(C)
  /\ \E c \in IF resolved THEN C ELSE {None} :
       Work("ledger", IF resolved
         THEN [Turning(turn, c) EXCEPT !.state.unclear = FALSE]
         ELSE IF C = {} THEN lost
         ELSE [lost EXCEPT !.state = Offering(@, "customer", C), !.over = "clarification"])
  /\ UNCHANGED awaited

\* party: the customer of the task, or while there is none, the one the model names.
Party(s, c) == ~s.unclear /\ s.customer \in {None, c}
ListDocuments(c) ==
  /\ Work("documents", Turning(turn, c)) /\ Party(turn.state, c)
  /\ UNCHANGED awaited
PreparePayment(c) ==
  /\ Work("payment", [Turning(turn, c) EXCEPT !.state.payment = c])
  /\ Party(turn.state, c)
  /\ UNCHANGED awaited

-----------------------------------------------------------------------------
(* The tools of the draft, which is inspected after every change *)

Draft(s, prepares) ==
  LET seen == Inspected(s)
      next == IF prepares THEN [seen EXCEPT !.draft.prepared = TRUE] ELSE seen IN
  /\ Work("draft", [turn EXCEPT !.state = next,
       !.view = [estimate |-> Estimate(next.customer, next.draft.lines),
                 prepared |-> next.draft.prepared]])
  /\ ~s.unclear
  /\ prepares => s.customer # None /\ DOMAIN s.draft.lines # {}
  /\ UNCHANGED awaited
Drafting == turn # None /\ turn.state.draft # None
Lines == turn.state.draft.lines
Change(lines) == Draft(Touch([turn.state EXCEPT !.draft.lines = lines]), FALSE)

SetContext ==
  /\ Drafting /\ Work("draft", [turn EXCEPT !.state = Touch(@)])
  /\ UNCHANGED awaited
BeginDraft ==
  /\ turn # None /\ turn.state.draft = None
  /\ Draft([turn.state EXCEPT !.draft = [lines |-> <<>>, prepared |-> FALSE]], FALSE)
Known(s, p) ==
  /\ ~s.unresolved /\ ~s.several
  /\ p \in s.products \cup DOMAIN s.draft.lines
AddItem(p) ==
  /\ Drafting /\ Known(turn.state, p)
  /\ IF p \in DOMAIN Lines
     THEN /\ Lines[p].qty < MaxQuantity
          /\ Change([Lines EXCEPT ![p].qty = @ + 1])
     ELSE Change(Put(Lines, p, [qty |-> 1, off |-> Remembered(turn.state.customer)]))
RemoveItem(p) ==
  /\ Drafting /\ p \in DOMAIN Lines
  /\ Change([q \in DOMAIN Lines \ {p} |-> Lines[q]])
UpdateQuantity(p, q) ==
  /\ Drafting /\ p \in DOMAIN Lines
  /\ Change([Lines EXCEPT ![p].qty = q])
UpdateDiscount(P) ==
  /\ Drafting /\ P # {} /\ P \subseteq DOMAIN Lines
  /\ Change([p \in DOMAIN Lines |-> IF p \in P THEN [Lines[p] EXCEPT !.off = ByUser]
                                    ELSE Lines[p]])
Recalculate == Drafting /\ Change(Lines)
Inspect == Drafting /\ Draft(turn.state, FALSE)
PrepareEstimate == Drafting /\ Draft(turn.state, TRUE)

-----------------------------------------------------------------------------
(* The turn ends *)

Answered(s, view) ==
  LET asks == s.unresolved \/ s.unclear
      next == IF asks THEN s ELSE [s EXCEPT !.asked = {}]
      prepared == view # None /\ view.prepared IN
  /\ thread' = next /\ turn' = None
  /\ offer' = IF next.payment # None THEN "payment" ELSE IF prepared THEN "estimate" ELSE None
  /\ viewed' = viewed \cup (IF prepared THEN {view.estimate} ELSE {})
                      \cup (IF next.payment = None THEN {} ELSE {PaymentOf(next.payment)})
  /\ awaited' = (s.unresolved \/ s.several)
  /\ UNCHANGED <<stored, memory, left>>
End(status) ==
  /\ turn # None
  /\ turn.over \in {None, status}
  /\ Answered([turn.state EXCEPT !.payment = IF status = "completed" THEN @ ELSE None],
              turn.view)
\* The provider's quota is used up: what was prepared is only shown.
EndLimited ==
  LET s == Touch([turn.state EXCEPT !.payment = None]) IN
  /\ turn # None /\ turn.over = None
  /\ Answered(IF s.draft = None \/ s.unclear THEN s ELSE Inspected(s), None)
\* The request is refused or its answer lost: the tab keeps the token it has.
LoseTurn ==
  /\ turn # None /\ turn' = None
  /\ awaited' = (thread.unresolved \/ thread.several)
  /\ UNCHANGED <<thread, offer, viewed, stored, memory, left>>

\* What was prepared is stored for confirmation.
Keep(what) ==
  /\ turn = None
  /\ stored' = stored \cup {what} /\ offer' = None
  /\ UNCHANGED <<thread, turn, viewed, awaited, memory, left>>
StoreEstimate ==
  /\ offer = "estimate" /\ thread.draft.prepared
  /\ ~thread.unclear /\ thread.customer # None
  /\ Keep(Estimate(thread.customer, Inspected(thread).draft.lines))
StorePayment ==
  /\ offer = "payment" /\ Party(thread, thread.payment)
  /\ Keep(PaymentOf(thread.payment))

\* Another discount is learned of the customers.
Learn ==
  /\ Spend("lessons") /\ memory' = memory + 1
  /\ UNCHANGED <<thread, offer, turn, viewed, stored, awaited>>

-----------------------------------------------------------------------------

TalkInit ==
  /\ thread = NewState /\ offer = None /\ turn = None
  /\ viewed = {} /\ stored = {} /\ awaited = FALSE /\ memory = 1

CallTool ==
  \/ \E P \in SUBSET Product, resolved \in BOOLEAN :
       \/ SearchProducts(P, resolved) \/ QueryProduct(P, resolved)
       \/ \E rated \in BOOLEAN : SaleRate(P, resolved, rated)
  \/ SearchFails
  \/ \E P \in {{}} \cup {{p} : p \in Product} : LookupProduct(P)
  \/ \E C \in SUBSET Customer, resolved \in BOOLEAN :
       LookupCustomers(C, resolved) \/ QueryLedger(C, resolved)
  \/ CustomersFail
  \/ \E c \in Customer : ListDocuments(c) \/ PreparePayment(c)
  \/ SetContext \/ BeginDraft \/ Recalculate \/ Inspect \/ PrepareEstimate
  \/ \E p \in Product :
       \/ AddItem(p) \/ RemoveItem(p)
       \/ \E q \in 1 .. MaxQuantity : UpdateQuantity(p, q)
  \/ \E P \in SUBSET Product : UpdateDiscount(P)
Talk ==
  \/ \E estimate \in BOOLEAN : Ask(estimate)
  \/ Hand \/ \E choice \in thread.asked : Select(choice)
  \/ CallTool
  \/ \E status \in {"completed", "clarification", "failed"} : End(status)
  \/ EndLimited \/ LoseTurn \/ StoreEstimate \/ StorePayment \/ Learn

AssistantInit == Init /\ TalkInit
AssistantNext ==
  \/ Next /\ UNCHANGED talk
  \/ Talk /\ UNCHANGED <<browser, server, calls, price>>
AssistantSpec ==
  /\ AssistantInit /\ [][AssistantNext]_<<vars, talk>>
  /\ WF_<<vars, talk>>(UNCHANGED talk /\ \E c \in calls : Lose(c) \/ Deliver(c))

-----------------------------------------------------------------------------
(* Properties *)

\* What is stored for confirmation was shown as prepared, with the same customer,
\* lines and discounts, although customers, products and discounts change by other
\* tools and in later turns, the answer to which may be lost; and a discount on it
\* is the user's or comes from the memory of the customer it is for.
PreparedAsViewed ==
  /\ stored \subseteq viewed
  /\ \A x \in stored : \A p \in DOMAIN x.lines :
       x.lines[p].off.by = "user" \/ x.lines[p].off.of = x.of

\* A turn has left the user with the question which product is meant.  The model
\* adds no product to a draft until a search, a rate or a query came down to one
\* product, or the user has chosen: looking products up by their number does not
\* do, failing does not, and neither does an answer that is lost.  (Whether it
\* was the user's words that brought the search down to one is not known to the
\* agent, which takes a better search of the model's own for an answer.)
OneProduct(s) ==
  ~s.unresolved /\ ~s.several /\ \E p \in Product : s.products = {p}
AskedIsAnswered ==
  [][awaited /\ turn # None =>
       IF awaited'
       THEN turn' # None /\ Drafting
              => DOMAIN turn'.state.draft.lines \subseteq DOMAIN Lines
       ELSE turn' # None /\ OneProduct(turn'.state)]_<<vars, talk>>
=============================================================================
