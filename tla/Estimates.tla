------------------------------ MODULE Estimates ------------------------------
(***************************************************************************)
(* Estimates: the form that prices and saves one, online or through the    *)
(* offline queue, and the conversion of a saved estimate to the prices of  *)
(* a rate list, which is reviewed first and confirmed later.               *)
(*                                                                         *)
(* A rate is asked for while the line it is for is edited, a review is of  *)
(* lines that may change before it is applied, a save is answered to a     *)
(* form that was edited meanwhile, and every request or answer may be lost.*)
(***************************************************************************)
EXTENDS RateLists

CONSTANTS
  Scope,      \* the customer a rate list is for, 0 when it is for all
  SalePrice,  \* the price of a product before any list is asked
  Number,     \* estimate numbers
  Source      \* the lines of the estimate that can be converted, which is
              \* the first one; each has a product, a quantity and a list

ASSUME EstimatesAssumption ==
  /\ Scope \in [List -> Nat] /\ SalePrice \in [Product -> Nat]
  /\ Number \subseteq Nat \ {0}
  /\ Source \in Seq([product : Product, quantity : Quantity, list : List]) \ {<<>>}
  /\ \A budget \in Budgets : budget.people \in Nat

VARIABLES
  estimates,  \* the saved estimates by id
  people,     \* the number of customers
  form,       \* the estimate form of one tab
  stored,     \* its draft in the session storage
  queue,      \* its requests in the offline queue
  session     \* the conversion that was reviewed, None when none was
vars == <<versions, register, calls, left, estimates, people, form, stored,
          queue, session>>
page == <<form, stored, queue>>

-----------------------------------------------------------------------------
(* Estimates are created by one transaction, create_estimate_atomic. *)

\* Mutant: a request is not compared with the one its key was used for.
FoundByKey(request) == {e \in DOMAIN estimates : estimates[e].key = request.key}
\* The estimate that the same request made before under its key.
Found(request) ==
  {e \in DOMAIN estimates : /\ estimates[e].key = request.key
                            /\ estimates[e].content = request.content
                            /\ estimates[e].print = request.print}
MayCreate(request) ==
  \A e \in DOMAIN estimates :
    /\ estimates[e].key # request.key
    /\ estimates[e].content.number # request.content.number

Create(request) ==
  IF Found(request) # {} THEN UNCHANGED estimates
  ELSE /\ MayCreate(request)
       /\ estimates' = Append(estimates, [status |-> "DRAFT"] ++ request)
Created(request) ==
  IF Found(request) # {} THEN Max(Found(request)) ELSE Len(estimates) + 1

\* What the route checks of a form's estimate before that.
Available(list, customer) == Scope[list] \in {0, customer}
Acceptable(request) ==
  LET content == request.content IN
  /\ content.list # None => Available(content.list, content.customer)
  /\ Found(request) # {} \/ MayCreate(request)

-----------------------------------------------------------------------------
(* The form.  It has one line; obj is the identity of the line's object.  *)
(* odd, edition, edited and stray only tell what happened: that a rate is   *)
(* known not to be for the line's quantity, or by hand, how often the form  *)
(* was edited, whether it was while it is being saved, and whether what is  *)
(* shown as saved is from before such an edit.                              *)

BlankLine == [obj |-> 0, product |-> None, quantity |-> 1, rate |-> 0,
              list |-> None, odd |-> FALSE]
Blank(line) == line.product = None /\ line.quantity = 1 /\ line.rate = 0
Complete(line) == line.product # None

EmptyDraft == [line |-> BlankLine, list |-> None, customer |-> 0,
               number |-> Min(Number)]
\* What the form holds of a draft that is opened.
Opened(draft, edition) ==
  [key |-> None, saved |-> 0, busy |-> FALSE, dialog |-> "none",
   review |-> None, edition |-> edition, edited |-> FALSE, stray |-> FALSE]
    ++ draft
Snapshot(f) == [part \in DOMAIN EmptyDraft |-> f[part]]
Content(f) ==
  [number |-> f.number, customer |-> f.customer, list |-> f.list,
   lines |-> <<[product |-> f.line.product, quantity |-> f.line.quantity,
                rate |-> f.line.rate]>>]

\* invalidateSave: what was saved is no longer what the form shows.
Invalidate(f) ==
  /\ form' = [f EXCEPT !.key = None, !.saved = 0, !.stray = FALSE,
                       !.edition = @ + 1, !.edited = f.busy]
  /\ stored' = Snapshot(f)

Edit(f) == Invalidate(f) /\ Spend("steps") /\ UNCHANGED calls

Ask(what, f, list) ==
  [what |-> what, obj |-> f.line.obj, product |-> f.line.product,
   quantity |-> f.line.quantity, list |-> list, customer |-> f.customer]

\* refreshLineRate follows the edit: the line's rate in the form's list.
EditAndAsk(f) ==
  IF f.list # None /\ Complete(f.line)
  THEN Invalidate(f) /\ Call(Ask("rate", f, f.list))
  ELSE Edit(f)

ChooseProduct(product) ==
  EditAndAsk([form EXCEPT !.line =
                [form.line EXCEPT !.obj = IF @ = 0 THEN left.steps ELSE @,
                                  !.product = product, !.rate = SalePrice[product],
                                  !.list = None]])
EditQuantity(quantity) ==
  EditAndAsk([form EXCEPT !.line.quantity = quantity, !.line.odd = TRUE])
EditRate(rate) ==
  Edit([form EXCEPT !.line = [@ EXCEPT !.rate = rate, !.list = None]])
RemoveLine == Edit([form EXCEPT !.line = BlankLine])
\* A customer is chosen, or particulars are entered, which are of a new one.
EditCustomer(customer) == Edit([form EXCEPT !.customer = customer])
EditNumber(number) == Edit([form EXCEPT !.number = number])

EditForm ==
  /\ form.dialog = "none"
  /\ \/ \E product \in Product : ChooseProduct(product)
     \/ \E quantity \in Quantity \ {form.line.quantity} : EditQuantity(quantity)
     \/ Complete(form.line) /\ \E rate \in Prices : EditRate(rate)
     \/ ~Blank(form.line) /\ RemoveLine
     \/ \E customer \in (0 .. people) \ {form.customer} : EditCustomer(customer)
     \/ \E number \in Number \ {form.number} : EditNumber(number)
  /\ UNCHANGED queue

-----------------------------------------------------------------------------
(* The dialogs that change the rate list; Escape closes them. *)

Show(dialog) == /\ form' = [form EXCEPT !.dialog = dialog]
                /\ UNCHANGED <<calls, stored>>
OpenRateLists == form.dialog = "none" /\ Spend("steps") /\ Show("lists")
CloseDialog == form.dialog # "none" /\ UNCHANGED left /\ Show("none")
BackToRateLists == form.dialog = "review" /\ UNCHANGED left /\ Show("lists")

\* previewRateChange.  The lists offered can be those of a customer who was
\* chosen before.
PreviewRates(list) ==
  /\ form.dialog = "lists" /\ list # form.list
  /\ \/ /\ Blank(form.line)
        /\ Invalidate([form EXCEPT !.list = list, !.dialog = "none"])
        /\ UNCHANGED <<calls, left>>
     \/ /\ Complete(form.line)
        /\ Call(Ask("preview", form, list))
        /\ UNCHANGED <<form, stored>>

\* applyReviewedRates looks at the key and the product of the line only: a
\* quantity that was changed meanwhile gets the rate of the one before.
ApplyReviewed ==
  LET review == form.review IN
  /\ form.dialog = "review" /\ review.rate > 0
  /\ form.line.obj = review.obj /\ form.line.product = review.product
  /\ Invalidate([form EXCEPT
       !.line = [@ EXCEPT !.rate = review.rate, !.list = review.list,
                          !.odd = form.line.quantity # review.quantity],
       !.list = review.list, !.review = None, !.dialog = "none"])
  /\ UNCHANGED <<calls, left>>

UseDialogs == /\ \/ OpenRateLists \/ CloseDialog \/ BackToRateLists
                 \/ \E list \in left.lists : PreviewRates(list)
                 \/ ApplyReviewed
              /\ UNCHANGED queue

-----------------------------------------------------------------------------
(* Saving the form *)

\* Mutant: every attempt to save has a key of its own.
KeyOfAttempt(f) == <<"form", left.steps>>
KeyOf(f) == IF f.key = None THEN <<"form", f.edition>> ELSE f.key

Request(f, content, edition) ==
  [key |-> KeyOf(f), content |-> content, print |-> None, edition |-> edition]

\* With a customer the estimate is sent: what the form f held when its button
\* was pressed, in the given edition, under the key that it has now.
Creation(f, content, edition) ==
  [what |-> "create", request |-> Request(f, content, edition)]
KeepKey(f) == /\ form' = [f EXCEPT !.key = KeyOf(f)]
              /\ UNCHANGED <<stored, queue>>

\* Offline the estimate is queued, and the form can be edited again.
QueueEstimate(f, content, edition) ==
  /\ queue' = queue \cup {Request(f, content, edition)}
  /\ form' = [f EXCEPT !.key = KeyOf(f), !.busy = FALSE]
  /\ stored' = Snapshot(f)

Save ==
  LET f == [form EXCEPT !.busy = TRUE, !.edited = FALSE] IN
  /\ ~form.busy /\ form.dialog = "none" /\ Complete(form.line)
  /\ \/ /\ form.customer = 0
        /\ Call([what |-> "customer", edition |-> form.edition,
                 content |-> Content(form)])
        /\ form' = f
        /\ UNCHANGED <<stored, queue>>
     \/ /\ form.customer # 0
        /\ Call(Creation(f, Content(form), form.edition))
        /\ KeepKey(f)
     \/ /\ form.customer # 0
        /\ Spend("steps")
        /\ QueueEstimate(f, Content(form), form.edition)
        /\ UNCHANGED calls

\* The page is reloaded and opens the stored draft.  A rate that was entered
\* becomes one of the form's list.
Reload ==
  LET draft == IF stored = None THEN EmptyDraft ELSE stored
      line == draft.line IN
  /\ Spend("reloads")
  /\ form' = Opened([draft EXCEPT
       !.line = IF line.list = None /\ draft.list # None /\ ~Blank(line)
                THEN [line EXCEPT !.list = draft.list, !.odd = TRUE]
                ELSE line], form.edition + 1)
  /\ calls' = {[c EXCEPT !.waiting = FALSE] : c \in calls}
  /\ UNCHANGED <<stored, queue>>

UseForm == /\ EditForm \/ UseDialogs \/ Save \/ Reload
           /\ UNCHANGED <<rateVars, estimates, people, session>>

-----------------------------------------------------------------------------
(* What the API answers the form *)

\* rate-list-preview: the rate, 0 when there is none; refused when the list is
\* not available to the customer.
ServeRate(c) ==
  /\ c.what \in {"rate", "preview"}
  /\ \/ /\ Available(c.list, c.customer)
        /\ LET found == Resolve(c.list, c.product, c.quantity) IN
           Reply(c, IF found = {} THEN 0
                    ELSE PriceIn(Max(found), c.product, c.quantity))
     \/ ~Available(c.list, c.customer) /\ Refuse(c)
  /\ UNCHANGED <<estimates, people>>

ServeCustomer(c) ==
  /\ c.what = "customer"
  /\ people' = people + 1
  /\ Reply(c, people')
  /\ UNCHANGED estimates

ServeCreate(c) ==
  /\ c.what = "create"
  /\ \/ /\ Acceptable(c.request)
        /\ Create(c.request)
        /\ Reply(c, Created(c.request))
     \/ ~Acceptable(c.request) /\ Refuse(c) /\ UNCHANGED estimates
  /\ UNCHANGED people

\* The queue is sent when the browser is online.  What was accepted or refused
\* leaves it, but when the answer is lost it is sent again.
Flush ==
  /\ \E request \in queue :
       /\ \/ Acceptable(request) /\ Create(request)
          \/ ~Acceptable(request) /\ UNCHANGED estimates
       /\ queue' \in {queue, queue \ {request}}
  /\ UNCHANGED <<versions, register, calls, left, people, form, stored, session>>

-----------------------------------------------------------------------------
(* Answers to the form *)

\* Mutant: the line is not looked at again.
SameLineAny(c) == form.line.obj = c.obj /\ form.list = c.list
\* Whether the answer is still to what the line and the form hold.
SameLine(c) ==
  /\ form.line.obj = c.obj /\ form.list = c.list
  /\ form.line.product = c.product /\ form.line.quantity = c.quantity

\* A line that is gone can still be priced, which shows only in that the form
\* has to be saved again.
GetRate(c) ==
  /\ c.what = "rate"
  /\ IF c.stage = "served" /\ c.answer > 0 /\ SameLine(c)
     THEN Invalidate([form EXCEPT !.line =
            [@ EXCEPT !.rate = c.answer, !.list = c.list, !.odd = FALSE]])
     ELSE \/ UNCHANGED <<form, stored>>
          \/ /\ c.stage = "served" /\ c.answer > 0 /\ form.list = c.list
             /\ form.line.obj # c.obj
             /\ Invalidate(form)
  /\ calls' = calls \ {c}
  /\ UNCHANGED queue

\* The review is shown, whatever became of the dialog it was asked in.
GetPreview(c) ==
  /\ c.what = "preview"
  /\ form' = IF c.stage # "served" THEN form
             ELSE [form EXCEPT !.dialog = "review", !.review =
                     [obj |-> c.obj, product |-> c.product, list |-> c.list,
                      quantity |-> c.quantity, rate |-> c.answer]]
  /\ calls' = calls \ {c}
  /\ UNCHANGED <<stored, queue>>

\* The new customer is the form's, whatever was chosen meanwhile, and what the
\* form held when its button was pressed is saved under a key it has now.
GetCustomer(c) ==
  LET f == [form EXCEPT !.customer = c.answer]
      content == [c.content EXCEPT !.customer = c.answer] IN
  /\ c.what = "customer"
  /\ \/ /\ c.stage # "served"
        /\ form' = [form EXCEPT !.busy = FALSE]
        /\ calls' = calls \ {c}
        /\ UNCHANGED <<stored, queue>>
     \/ /\ c.stage = "served"
        /\ KeepKey(f)
        /\ Become(c, Sent(c.id, Creation(f, content, c.edition)))
     \/ /\ c.stage = "served"
        /\ QueueEstimate(f, content, c.edition)
        /\ calls' = calls \ {c}

\* The saved estimate is the form's, which may have been edited meanwhile.
GetCreated(c) ==
  /\ c.what = "create"
  /\ \/ /\ c.stage = "served"
        /\ form' = [form EXCEPT !.saved = c.answer, !.stray = form.edited,
                                !.busy = FALSE]
        /\ stored' = None
     \/ /\ c.stage # "served"
        /\ form' = [form EXCEPT !.busy = FALSE]
        /\ UNCHANGED stored
  /\ calls' = calls \ {c}
  /\ UNCHANGED queue

DeliverToForm(c) ==
  /\ GetRate(c) \/ GetPreview(c) \/ GetCustomer(c) \/ GetCreated(c)
  /\ UNCHANGED <<rateVars, left, estimates, people, session>>

-----------------------------------------------------------------------------
(* Conversion.  A print is what a preview was of: the status the source had *)
(* and for each of its lines the version that has the new price.            *)

ListOf(i, target) == IF target = None THEN Source[i].list ELSE target

Review(target) ==
  /\ session' = None
  /\ Call([what |-> "review", target |-> target, status |-> None,
           got |-> <<>>])

\* The number of the first attempt to confirm has to be kept.
Confirm(number) ==
  /\ session # None /\ session.number \in {0, number}
  /\ session' = [session EXCEPT !.number = number]
  /\ Call([what |-> "confirm", target |-> session.print.target,
           status |-> None, got |-> <<>>, key |-> session.key,
           print |-> session.print, number |-> number])

Convert == /\ \/ \E target \in left.lists \cup {None} : Review(target)
              \/ \E number \in Number : Confirm(number)
           /\ UNCHANGED <<rateVars, estimates, people, page>>

\* The estimate a confirmed conversion creates, of the versions got.
Conversion(c) ==
  [key |-> c.key, print |-> c.print, edition |-> None,
   content |->
     [number |-> c.number, customer |-> estimates[1].content.customer,
      list |-> None,
      lines |-> [i \in DOMAIN Source |->
        [product |-> Source[i].product, quantity |-> Source[i].quantity,
         rate |-> PriceIn(c.got[i], Source[i].product, Source[i].quantity)]]]]
Replays(c) ==
  {e \in DOMAIN estimates : c.what = "confirm" /\ estimates[e].key = c.key}

\* A confirmation that was committed is answered with its estimate; otherwise
\* the source is read.
LoadSource(c) ==
  /\ c.stage = "sent"
  /\ IF Replays(c) = {}
     THEN Become(c, [c EXCEPT !.stage = "loaded",
                              !.status = estimates[1].status])
     ELSE \E e \in Replays(c) :
            IF /\ estimates[e].print = c.print
               /\ estimates[e].content.number = c.number
            THEN Reply(c, e) ELSE Refuse(c)
  /\ UNCHANGED <<estimates, people>>

\* The lines are priced one by one, in any order, 0 without a price.
ResolveLine(c, i) ==
  LET list == ListOf(i, c.target)
      found == IF Available(list, estimates[1].content.customer)
               THEN Resolve(list, Source[i].product, Source[i].quantity)
               ELSE {} IN
  /\ c.stage = "loaded" /\ i \notin DOMAIN c.got
  /\ Become(c, [c EXCEPT !.got =
                  [j \in {i} |-> IF found = {} THEN 0 ELSE Max(found)] ++ @])
  /\ UNCHANGED <<estimates, people>>

Preview(c) == [status |-> c.status, target |-> c.target, got |-> c.got]
Priced(c) == c.stage = "loaded" /\ DOMAIN c.got = DOMAIN Source

AnswerReview(c) ==
  /\ c.what = "review" /\ Priced(c)
  /\ Reply(c, Preview(c))
  /\ UNCHANGED <<estimates, people>>

\* Mutant: any confirmed preview will do if every line has a price.
AsReviewedAny(c) == \A i \in DOMAIN Source : c.got[i] # 0
\* Every line has a price, and the preview would be the one that is confirmed.
AsReviewed(c) ==
  /\ \A i \in DOMAIN Source : c.got[i] # 0
  /\ Preview(c) = c.print

\* The transaction checks again that the source is as it was read, and that
\* each line's version is active.
StillHolds(c) ==
  /\ estimates[1].status = c.status
  /\ \A i \in DOMAIN Source : c.got[i] \in ActiveOf(ListOf(i, c.target))

Commit(c) ==
  /\ c.what = "confirm" /\ Priced(c)
  /\ IF /\ AsReviewed(c)
        /\ \/ Found(Conversion(c)) # {}
           \/ StillHolds(c) /\ MayCreate(Conversion(c))
     THEN Create(Conversion(c)) /\ Reply(c, Created(Conversion(c)))
     ELSE Refuse(c) /\ UNCHANGED estimates
  /\ UNCHANGED people

ServeConversion(c) ==
  /\ c.what \in {"review", "confirm"}
  /\ \/ LoadSource(c) \/ AnswerReview(c) \/ Commit(c)
     \/ \E i \in DOMAIN Source : ResolveLine(c, i)

GetReview(c) ==
  /\ c.what = "review"
  /\ session' =
       IF c.stage = "served" /\ \A i \in DOMAIN Source : c.answer.got[i] # 0
       THEN [print |-> c.answer, key |-> <<"conversion", c.id>>, number |-> 0]
       ELSE session
GetConfirmed(c) ==
  /\ c.what = "confirm"
  /\ session' = IF c.stage = "served" THEN None ELSE session
DeliverToSession(c) ==
  /\ GetReview(c) \/ GetConfirmed(c)
  /\ calls' = calls \ {c}
  /\ UNCHANGED <<rateVars, left, estimates, people, page>>

\* The assistant's depot action that makes an estimate ready.
MarkReady ==
  /\ estimates[1].status = "DRAFT"
  /\ Spend("others")
  /\ estimates' = [estimates EXCEPT ![1].status = "READY"]
  /\ UNCHANGED <<rateVars, calls, people, page, session>>

-----------------------------------------------------------------------------
Init ==
  /\ left \in Budgets
  /\ versions = left.versions
  /\ InitRegister
  /\ calls = {} /\ queue = {} /\ session = None /\ stored = None
  /\ people = left.people
  /\ form = Opened([EmptyDraft EXCEPT !.customer = left.customer], 0)
  /\ estimates = <<[key |-> <<"source">>, print |-> None, edition |-> None, status |-> "DRAFT",
       content |-> [number |-> 0, customer |-> 1, list |-> None,
                    lines |-> Source]]>>

Serve(c) ==
  /\ c.stage \in {"sent", "loaded"}
  /\ \/ /\ ServeRegister(c)
        /\ UNCHANGED <<estimates, people>>
     \/ /\ ServeRate(c) \/ ServeCustomer(c) \/ ServeCreate(c) \/ ServeConversion(c)
        /\ UNCHANGED <<rateVars, left>>
  /\ UNCHANGED <<page, session>>

\* A request is lost, before it was served or with its answer; one that writes
\* may still arrive after its page was told so.
Lose(c) ==
  LET lost == [c EXCEPT !.stage = "lost"] IN
  /\ c.waiting /\ c.stage \notin {"refused", "lost"}
  /\ \/ Become(c, lost)
     \/ /\ c.stage = "sent"
        /\ c.what \in {"draft", "publish", "customer", "create", "confirm"}
        /\ calls' = (calls \ {c}) \cup {lost, [c EXCEPT !.waiting = FALSE]}
  /\ UNCHANGED <<rateVars, left, estimates, people, page, session>>

Deliver(c) ==
  /\ c.waiting /\ c.stage \in {"served", "refused", "lost"}
  /\ \/ DeliverRegister(c) /\ UNCHANGED <<estimates, people, page, session>>
     \/ DeliverToForm(c)
     \/ DeliverToSession(c)

Others == \/ Elsewhere /\ UNCHANGED <<estimates, people, page, session>>
          \/ MarkReady

Next ==
  \/ /\ left.page = "register" /\ UseRegister
     /\ UNCHANGED <<estimates, people, page, session>>
  \/ left.page = "form" /\ UseForm
  \/ left.page = "conversion" /\ Convert
  \/ Others \/ Flush
  \/ \E c \in calls : Serve(c) \/ Lose(c) \/ Deliver(c)

Spec == Init /\ [][Next]_vars

-----------------------------------------------------------------------------
(* Properties *)

\* The rate of a line that names a list is a price of that list for the line's
\* product and quantity, in whatever order the answers came to rates that were
\* asked for while the line was edited.  Exempt is a line whose quantity was
\* changed, until it is priced again (it keeps its rate if the list has none),
\* or was changed behind a review that was applied, and a rate entered by hand
\* whose line got the form's list on reload.
RatesAreTheLists ==
  LET line == form.line IN
  /\ line.list # None /\ ~line.odd
  => \E v \in VersionsOf(line.list) :
       PriceIn(v, line.product, line.quantity) = line.rate

\* A form that says it is saved shows what was saved, and a save is not refused
\* when the form as it is was saved before, by an attempt whose answer was lost
\* or from the queue: its key is the same until it is edited.  Exempt is a form
\* that was edited while it was saved.
SavedOnce ==
  /\ form.saved # 0 /\ ~form.stray
       => estimates[form.saved].content = Content(form)
  /\ \A c \in calls : c.what = "create" /\ c.stage = "refused" =>
       \A e \in DOMAIN estimates : estimates[e].edition # c.request.edition

\* A conversion has the prices that were confirmed, line by line, all of them
\* from the versions active when it is made, and its source was not changed
\* since it was reviewed; whatever is published or repriced between the reads
\* of the lines, after the review, or while the confirmation is sent again.
ConvertedAsReviewed ==
  [][\A e \in DOMAIN estimates' \ DOMAIN estimates :
       LET new == estimates'[e] IN
       new.print # None =>
         /\ new.print.status = estimates[1].status
         /\ \A i \in DOMAIN Source :
              LET v == new.print.got[i] IN
              /\ v \in ActiveOf(ListOf(i, new.print.target))
              /\ new.content.lines[i].rate =
                   PriceIn(v, Source[i].product, Source[i].quantity)]_vars
=============================================================================
