-------------------------------- MODULE Pages --------------------------------
(***************************************************************************)
(* The pages that post documents (invoices, customer payments, returns,    *)
(* purchases, vendor payments), the API handlers they call and the posting *)
(* functions behind those, which Posting models in full and which appear   *)
(* here as one commit against what a source document has left.             *)
(*                                                                         *)
(* A page opens an editor, reads lists and the source document, reviews    *)
(* the form, which fixes the draft and its idempotency key, and posts it;  *)
(* the user may type, close and open again while reads and posts are under *)
(* way, and their answers come in any order.  An answer may be lost at any *)
(* stage while the server goes on.  A form is the source document chosen,  *)
(* the document's number, an amount and whether everything else in it      *)
(* passes the page's validation.                                           *)
(***************************************************************************)
EXTENDS Naturals, FiniteSets

CONSTANTS
  Page,          \* tabs of the application
  Mount,         \* the assignments of page kinds to tabs considered
  Source,        \* the documents a form may settle, convert or return
  TaskOf,        \* the task a source belongs to
  Total,         \* what a source has to settle at the start; 1 is READY
  Number,        \* document numbers
  Typed,         \* what the user may type into a form beside the source
  MaxAmount,     \* bound on the amounts typed
  MaxReads,      \* bound on the source documents asked for at a time
  MaxOpen,       \* bound on how often a tab opens its editor
  MaxKey,        \* bound on the drafts reviewed
  MaxPost,       \* bound on the posts sent
  MaxElsewhere,  \* bound on what others settle meanwhile
  NoSource, Blank

Offers == [invoices |-> {"invoice", "estimate"}, payments |-> {"payment"},
           purchases |-> {"purchase"}, returns |-> {"return"},
           vendor_payments |-> {"vendor_payment"}]
PageKind == DOMAIN Offers
Task == UNION {Offers[k] : k \in PageKind}

ASSUME PagesAssumption ==
  /\ Mount \subseteq [Page -> PageKind]
  /\ TaskOf \in [Source -> Task] /\ Total \in [Source -> Nat]
  /\ NoSource \notin Source /\ Blank \notin Number
  /\ Typed \subseteq [number : Number \cup {Blank}, amount : 0..MaxAmount, complete : BOOLEAN]
  /\ {MaxAmount, MaxReads, MaxOpen, MaxKey, MaxPost, MaxElsewhere} \subseteq Nat

\* Tasks whose source is loaded by its number, and those whose source is
\* picked from a list of what is outstanding.
Loading == {"estimate", "return"}
Listing == {"payment", "vendor_payment"}
Invoicing == {"invoice", "estimate"}

VARIABLES
  shows,     \* the page a tab shows
  editor,    \* whether the tab's editor is open
  task,      \* what its editor is for
  entry,     \* the form: source, number, amount, complete
  seen,      \* receivables, payables: what the tab last read as outstanding
  chosen,    \* sourceEstimate, invoice: the source document loaded
  pending,   \* pendingDraft and pendingKey
  busy,      \* action.disabled
  reads,     \* reads under way
  calls,     \* posts under way
  docs,      \* the documents made
  balance,   \* what each source has left
  reviews,   \* the reviews shown
  opened, nextKey, posts, elsewhere

page == <<editor, task, entry, seen, chosen, pending, busy, opened>>
server == <<docs, balance, elsewhere>>
vars == <<shows, page, reads, calls, server, reviews, nextKey, posts>>

BlankEntry == [source |-> NoSource, number |-> Blank, amount |-> 0, complete |-> FALSE]
Entry == [source : Source \cup {NoSource}, number : Number \cup {Blank},
          amount : 0..MaxAmount, complete : BOOLEAN]
Body == [task : Task, source : Source \cup {NoSource},
         number : Number \cup {Blank}, amount : 0..MaxAmount]
\* The string "null" the browser sends for a key that is null.
NoKey == 0
NoBody == [task |-> "none", source |-> NoSource, number |-> Blank, amount |-> 0]
NoDraft == [body |-> NoBody, key |-> NoKey]
Reset(p) == pending' = [pending EXCEPT ![p] = NoDraft]

Init ==
  /\ shows \in Mount
  /\ editor = [p \in Page |-> FALSE]
  /\ task = [p \in Page |-> CHOOSE t \in Offers[shows[p]] : TRUE]
  /\ entry = [p \in Page |-> BlankEntry]
  /\ seen = [p \in Page |-> [s \in Source |-> 0]]
  /\ chosen = [p \in Page |-> NoSource]
  /\ pending = [p \in Page |-> NoDraft]
  /\ busy = [p \in Page |-> FALSE]
  /\ reads = {}
  /\ calls = {} /\ docs = {} /\ reviews = {}
  /\ balance = Total
  /\ opened = [p \in Page |-> 0]
  /\ nextKey = 1 /\ posts = 0 /\ elsewhere = 0

-----------------------------------------------------------------------------
(* The editor *)

Open(p, t) ==
  /\ ~editor[p] /\ opened[p] < MaxOpen
  /\ t \in Offers[shows[p]]
  /\ editor' = [editor EXCEPT ![p] = TRUE]
  /\ opened' = [opened EXCEPT ![p] = @ + 1]
  /\ task' = [task EXCEPT ![p] = t]
  /\ entry' = [entry EXCEPT ![p] = BlankEntry]
  /\ chosen' = [chosen EXCEPT ![p] = NoSource]
  /\ Reset(p)
  /\ reads' = IF Offers[shows[p]] \cap Listing = {} THEN reads
              ELSE reads \cup {[page |-> p, what |-> NoSource]}
  /\ UNCHANGED <<shows, seen, busy, calls, server, reviews, nextKey, posts>>

\* What the API lists as outstanding: the receivables or the payables.
OutstandingTo(p) ==
  [s \in Source |-> IF TaskOf[s] \in Offers[shows[p]] \cap Listing
                     THEN balance[s] ELSE seen[p][s]]

\* The list of what is outstanding replaces the options of the select, which then
\* has nothing chosen.  (The other lists only help to fill in the form.)
Listed(p) ==
  LET r == [page |-> p, what |-> NoSource] IN
  /\ r \in reads /\ reads' = reads \ {r}
  /\ seen' = [seen EXCEPT ![p] = OutstandingTo(p)]
  /\ entry' = [entry EXCEPT ![p].source = NoSource]
  /\ UNCHANGED <<shows, editor, task, chosen, pending, busy, opened,
                 calls, server, reviews, nextKey, posts>>

\* The input event: the draft reviewed is withdrawn, also while it is posted.
Type(p) ==
  /\ editor[p]
  /\ \E t \in Typed :
       entry' = [entry EXCEPT ![p].number = t.number, ![p].amount = t.amount,
                              ![p].complete = t.complete]
  /\ entry' # entry
  /\ Reset(p)
  /\ UNCHANGED <<shows, editor, task, seen, chosen, busy, opened, reads,
                 calls, server, reviews, nextKey, posts>>

\* The change event of the source: the invoices page forgets the estimate it
\* loaded; the payment pages suggest what is outstanding.
Choose(p, s) ==
  /\ editor[p] /\ TaskOf[s] = task[p] /\ entry[p].source # s
  /\ task[p] \in Listing => seen[p][s] > 0
  /\ entry' = [entry EXCEPT ![p].source = s,
                            ![p].amount = IF task[p] \in Listing THEN seen[p][s] ELSE @]
  /\ chosen' = IF task[p] = "estimate" THEN [chosen EXCEPT ![p] = NoSource] ELSE chosen
  /\ Reset(p)
  /\ UNCHANGED <<shows, editor, task, seen, busy, opened, reads, calls,
                 server, reviews, nextKey, posts>>

\* "Load estimate", "Load invoice"
LoadSource(p) ==
  /\ editor[p] /\ task[p] \in Loading /\ entry[p].source # NoSource
  /\ Cardinality(reads) < MaxReads
  /\ reads' = reads \cup {[page |-> p, what |-> entry[p].source]}
  /\ IF task[p] = "return"
       THEN Reset(p) /\ chosen' = [chosen EXCEPT ![p] = NoSource]
       ELSE UNCHANGED <<pending, chosen>>
  /\ UNCHANGED <<shows, editor, task, entry, seen, busy, opened, calls,
                 server, reviews, nextKey, posts>>

\* The source document arrives, for whatever the form has become meanwhile.
\* An estimate that is not READY any more is not found.
Loaded(p, s) ==
  LET r == [page |-> p, what |-> s] IN
  /\ r \in reads /\ reads' = reads \ {r}
  /\ \/ /\ TaskOf[s] = "estimate" /\ balance[s] = 0
        /\ UNCHANGED <<chosen, pending>>
     \/ /\ TaskOf[s] = "estimate" => balance[s] > 0
        /\ chosen' = [chosen EXCEPT ![p] = s]
        /\ IF TaskOf[s] = "estimate" THEN Reset(p) ELSE UNCHANGED pending
  /\ UNCHANGED <<shows, editor, task, entry, seen, busy, opened, calls, server,
                 reviews, nextKey, posts>>

\* A read that fails changes nothing but the message.
ReadFailed(r) ==
  /\ r \in reads /\ reads' = reads \ {r}
  /\ UNCHANGED <<shows, editor, task, entry, seen, chosen, pending, busy, opened,
                 calls, server, reviews, nextKey, posts>>

CloseEditor(p) ==
  /\ editor[p]
  /\ editor' = [editor EXCEPT ![p] = FALSE]
  /\ UNCHANGED <<shows, task, entry, seen, chosen, pending, busy, opened,
                 reads, calls, server, reviews, nextKey, posts>>

-----------------------------------------------------------------------------
(* The first submit: review.  A form that does not pass changes the message. *)

InvoiceReady(p) == entry[p].complete /\ entry[p].number # Blank
EstimateReady(p) == entry[p].complete /\ chosen[p] # NoSource
PaymentReady(p) ==
  LET e == entry[p] IN
  /\ e.complete /\ e.source # NoSource
  /\ seen[p][e.source] > 0 /\ e.amount > 0 /\ e.amount <= seen[p][e.source]
VendorPaymentReady(p) ==
  LET e == entry[p] IN
  /\ e.complete /\ e.source # NoSource
  /\ seen[p][e.source] > 0 /\ e.amount > 0 /\ e.amount <= seen[p][e.source]
\* At most what was invoiced; what was returned before is not looked at.
\* Mutant: the invoice loaded is taken, whichever is selected.
ReturnOfLoaded(p) ==
  LET e == entry[p] IN
  /\ e.complete /\ e.number # Blank /\ chosen[p] # NoSource
  /\ e.amount > 0 /\ e.amount <= Total[chosen[p]]
ReturnReady(p) ==
  LET e == entry[p] IN
  /\ e.complete /\ e.number # Blank
  /\ chosen[p] # NoSource /\ chosen[p] = e.source
  /\ e.amount > 0 /\ e.amount <= Total[chosen[p]]
PurchaseReady(p) == entry[p].complete

Ready(p) ==
  CASE task[p] = "invoice" -> InvoiceReady(p)
    [] task[p] = "estimate" -> EstimateReady(p)
    [] task[p] = "payment" -> PaymentReady(p)
    [] task[p] = "vendor_payment" -> VendorPaymentReady(p)
    [] task[p] = "return" -> ReturnReady(p)
    [] OTHER -> PurchaseReady(p)

Draft(p) ==
  [task |-> task[p], number |-> entry[p].number,
   source |-> IF task[p] \in Loading THEN chosen[p]
              ELSE IF task[p] \in Listing THEN entry[p].source ELSE NoSource,
   amount |-> IF task[p] \in {"return"} \cup Listing THEN entry[p].amount ELSE 1]

\* A converted estimate without a number is refused after the draft was set:
\* the draft stays, without a key.
HalfReviewed(p) == task[p] = "estimate" /\ EstimateReady(p) /\ entry[p].number = Blank

Review(p) ==
  /\ editor[p] /\ ~busy[p] /\ pending[p] = NoDraft
  /\ IF HalfReviewed(p)
       THEN /\ pending' = [pending EXCEPT ![p] = [body |-> Draft(p), key |-> NoKey]]
            /\ UNCHANGED <<reviews, nextKey>>
       ELSE /\ Ready(p) /\ nextKey <= MaxKey
            /\ pending' = [pending EXCEPT ![p] = [body |-> Draft(p), key |-> nextKey]]
            /\ reviews' = reviews \cup
                 {[key |-> nextKey, body |-> Draft(p), picked |-> entry[p].source]}
            /\ nextKey' = nextKey + 1
  /\ UNCHANGED <<shows, editor, task, entry, seen, chosen, busy, opened, reads,
                 calls, server, posts>>

-----------------------------------------------------------------------------
(* The second submit: post *)

Endpoint(p) ==
  IF shows[p] # "invoices" THEN task[p]
  ELSE IF chosen[p] # NoSource THEN "estimate" ELSE "invoice"

Sent(p, key) ==
  /\ busy' = [busy EXCEPT ![p] = TRUE]
  /\ posts' = posts + 1
  /\ calls' = calls \cup
       {[page |-> p, no |-> posts', key |-> key, body |-> pending[p].body,
         to |-> Endpoint(p), stage |-> "sent", result |-> "none", heard |-> TRUE]}
  /\ UNCHANGED <<shows, editor, task, entry, seen, chosen, pending, opened,
                 reads, server, reviews>>
Post(p) ==
  /\ editor[p] /\ ~busy[p] /\ pending[p] # NoDraft
  /\ posts < MaxPost
  /\ Sent(p, pending[p].key) /\ UNCHANGED nextKey

To(c, stage, result) ==
  calls' = (calls \ {c}) \cup {[c EXCEPT !.stage = stage, !.result = result]}
Serve(c) == c \in calls /\ UNCHANGED <<shows, page, reads, reviews, nextKey, posts>>

(* What a handler asks of a body before it calls the posting function, behind *)
(* the access checks (see Access).                                            *)

InvoiceAccepted(b) == b.task = "invoice" /\ b.number # Blank
\* The body names an estimate, which must be READY still.
EstimateAccepted(b) ==
  b.task = "estimate" /\ b.number # Blank /\ balance[b.source] > 0
PaymentAccepted(b) == b.task = "payment" /\ b.amount > 0
VendorPaymentAccepted(b) == b.task = "vendor_payment" /\ b.amount > 0
ReturnAccepted(b) == b.task = "return" /\ b.number # Blank /\ b.amount > 0
PurchaseAccepted(b) == b.task = "purchase"

Accepted(c) ==
  CASE c.to = "invoice" -> InvoiceAccepted(c.body)
    [] c.to = "estimate" -> EstimateAccepted(c.body)
    [] c.to = "payment" -> PaymentAccepted(c.body)
    [] c.to = "vendor_payment" -> VendorPaymentAccepted(c.body)
    [] c.to = "return" -> ReturnAccepted(c.body)
    [] OTHER -> PurchaseAccepted(c.body)

Check(c) ==
  /\ Serve(c) /\ c.stage = "sent"
  /\ IF Accepted(c) THEN To(c, "checked", "none") ELSE To(c, "answered", "refused")
  /\ UNCHANGED server

\* Invoices of either origin share their numbers.
Sharing(t) == IF t \in Invoicing THEN Invoicing ELSE {t}
Taken(b) ==
  b.number # Blank
  /\ \E d \in docs : d.body.number = b.number /\ d.body.task \in Sharing(b.task)
Left(b) == b.source # NoSource => b.amount <= balance[b.source]
Settle(b) == IF b.source = NoSource THEN balance
             ELSE [balance EXCEPT ![b.source] = @ - b.amount]

\* Mutant: what a replay would settle is asked for first.
AnswerAfresh(c) ==
  IF ~Left(c.body) THEN "refused"
  ELSE IF \E d \in docs : d.key = c.key
    THEN IF \E d \in docs : d.key = c.key /\ d.body = c.body THEN "replayed" ELSE "refused"
  ELSE IF Taken(c.body) THEN "refused" ELSE "created"
\* The posting function: an estimate's status, the key, then the rest.
Outcome(c) ==
  IF c.to = "estimate" /\ balance[c.body.source] = 0 THEN "refused"
  ELSE IF \E d \in docs : d.key = c.key
    THEN IF \E d \in docs : d.key = c.key /\ d.body = c.body THEN "replayed" ELSE "refused"
  ELSE IF Taken(c.body) \/ ~Left(c.body) THEN "refused" ELSE "created"

Commit(c) ==
  /\ Serve(c) /\ c.stage = "checked"
  /\ LET made == Outcome(c) = "created" IN
     /\ docs' = IF made THEN docs \cup {[key |-> c.key, body |-> c.body, no |-> c.no]}
                ELSE docs
     /\ balance' = IF made THEN Settle(c.body) ELSE balance
     /\ To(c, "answered", IF Outcome(c) = "replayed" THEN "created" ELSE Outcome(c))
  /\ UNCHANGED elsewhere

\* The page gives up on a request: the connection broke, or the API lost the
\* database's answer.  What was sent goes on.
Lose(c) ==
  /\ c \in calls /\ c.heard
  /\ calls' = (calls \ {c}) \cup {[c EXCEPT !.heard = FALSE]}
  /\ busy' = [busy EXCEPT ![c.page] = FALSE]
  /\ UNCHANGED <<shows, editor, task, entry, seen, chosen, pending, opened,
                 reads, server, reviews, nextKey, posts>>

\* Mutant: the button is enabled again only after a success.
AnsweredLeaving(c) ==
  /\ c \in calls /\ c.stage = "answered" /\ calls' = calls \ {c}
  /\ editor' = IF c.heard /\ c.result = "created"
                 THEN [editor EXCEPT ![c.page] = FALSE] ELSE editor
  /\ reads' = IF c.heard /\ c.result = "created"
                THEN reads \cup {[page |-> c.page, what |-> Blank]} ELSE reads
  /\ busy' = busy
  /\ UNCHANGED <<shows, task, entry, seen, chosen, pending, opened, server,
                 reviews, nextKey, posts>>
\* The answer arrives: a success closes the editor, whatever it is open for,
\* and the button is enabled again once the register and the document are read.
Answered(c) ==
  /\ c \in calls /\ c.stage = "answered" /\ calls' = calls \ {c}
  /\ editor' = IF c.heard /\ c.result = "created"
                 THEN [editor EXCEPT ![c.page] = FALSE] ELSE editor
  /\ reads' = IF c.heard /\ c.result = "created"
                THEN reads \cup {[page |-> c.page, what |-> Blank]} ELSE reads
  /\ busy' = IF c.heard /\ c.result # "created"
               THEN [busy EXCEPT ![c.page] = FALSE] ELSE busy
  /\ UNCHANGED <<shows, task, entry, seen, chosen, pending, opened, server,
                 reviews, nextKey, posts>>

\* load and openDetail end, in success or failure.
Refreshed(p) ==
  LET r == [page |-> p, what |-> Blank] IN
  /\ r \in reads /\ reads' = reads \ {r}
  /\ busy' = [busy EXCEPT ![p] = FALSE]
  /\ \/ UNCHANGED seen
     \/ seen' = [seen EXCEPT ![p] = OutstandingTo(p)]
  /\ UNCHANGED <<shows, editor, task, entry, chosen, pending, opened,
                 calls, server, reviews, nextKey, posts>>

-----------------------------------------------------------------------------
(* Others *)

\* Others settle or convert a source a tab may show, or give a settlement back.
Elsewhere(s) ==
  /\ elsewhere < MaxElsewhere
  /\ \E p \in Page : TaskOf[s] \in Offers[shows[p]]
  /\ \/ balance[s] > 0 /\ balance' = [balance EXCEPT ![s] = @ - 1]
     \/ /\ balance[s] < Total[s] /\ TaskOf[s] # "estimate"
        /\ balance' = [balance EXCEPT ![s] = @ + 1]
  /\ elsewhere' = elsewhere + 1
  /\ UNCHANGED <<shows, page, reads, calls, docs, reviews,
                 nextKey, posts>>

Advance(p) ==
  \/ \E c \in calls : c.page = p /\ (Check(c) \/ Commit(c) \/ Answered(c))
  \/ Refreshed(p)

Next ==
  \/ \E p \in Page :
       \/ \E t \in Task : Open(p, t)
       \/ Listed(p) \/ Type(p) \/ LoadSource(p) \/ CloseEditor(p)
       \/ \E s \in Source : Choose(p, s) \/ Loaded(p, s)
       \/ Review(p) \/ Post(p)
       \/ Advance(p)
  \/ \E r \in reads : r.what # Blank /\ ReadFailed(r)
  \/ \E c \in calls : Lose(c)
  \/ \E s \in Source : Elsewhere(s)

Spec == Init /\ [][Next]_vars
\* The browser settles every request it sent, one way or the other.
FairSpec == Spec /\ \A p \in Page : WF_vars(Advance(p))

-----------------------------------------------------------------------------
(* Properties *)

\* What is posted is what was shown for review, once: a document has the body
\* and the key of a review, and no review made two documents, however often the
\* answer was lost and the form submitted again.  What a review settles or
\* returns is the document the user has selected, although that is loaded
\* separately and its answer may be late; the invoices page does not promise
\* this, it does not compare the estimate it loaded with the one selected.
DocumentWasReviewed ==
  /\ \A r \in reviews :
       r.body.task \in {"return"} \cup Listing => r.body.source = r.picked
  /\ \A d \in docs : \E r \in reviews : r.key = d.key /\ r.body = d.body
  /\ \A d, e \in docs : d.key = e.key => d = e

\* A form submitted again after its first answer was lost is answered with the
\* document the first submit made and never refused, even if what it settles
\* has nothing left.
FoundAgain(tasks) ==
  \A c \in calls, d \in docs :
    c.key = d.key /\ c.stage = "checked" /\ c.to \in tasks =>
      \A a \in calls' : a.no = c.no => a.stage # "answered" \/ a.result # "refused"
RetryFindsDocument == [][FoundAgain(Task \ {"estimate"})]_vars

\* The same of every page.
EveryRetryFindsDocument == [][
  \A c \in calls, d \in docs :
    c.key = d.key /\ c.stage \in {"sent", "checked"} =>
      \A a \in calls' : a.no = c.no => a.stage # "answered" \/ a.result # "refused"]_vars

\* The button of a form is not left disabled: a submit ends in the document, a
\* refusal or an error, and the form can be submitted again.
ButtonComesBack == \A p \in Page : busy[p] ~> ~busy[p]
=============================================================================
