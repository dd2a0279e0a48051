---------------------------- MODULE Conversation ----------------------------
(***************************************************************************)
(* The Copilot thread of a browser tab and the API it talks to.  A turn of *)
(* the conversation is answered with a signed token that holds the state   *)
(* of the task, and the tab sends the last token it accepted with the next *)
(* turn: the server keeps nothing but the drafts it was asked to store.    *)
(* So two requests may start from one token, in two tabs (a duplicated tab *)
(* copies the session storage) or because an answer never came, and what a *)
(* token says may be older than what the user sees.                        *)
(*                                                                         *)
(* A draft is posted when its user confirms it, by the button of the card  *)
(* that shows it or by a message that says yes.  Here that is one step,    *)
(* CopilotAction has its parts.  What the language model asks for in a     *)
(* turn is any one thing it has a tool for.                                *)
(***************************************************************************)
EXTENDS Naturals

CONSTANTS
  Tab, First,  \* the tabs there can be, and the one that is open
  Scope,    \* a user in an organization and branch
  Item,     \* what can be asked for
  None,
  Budgets   \* bounds considered together: on requests, on duplicated tabs, on
            \* what else the user does, on changes of the price, and whether
            \* documents are reviewed

ASSUME ConversationAssumption ==
  /\ None \notin Item /\ First \in Tab /\ Scope # {}
  /\ \A b \in Budgets :
       /\ b = [x \in DOMAIN b |-> b[x]]
       /\ {"requests", "copies", "strays", "reprices", "reviews"} \subseteq DOMAIN b
       /\ {b.requests, b.copies, b.strays, b.reprices} \subseteq Nat
       /\ b.reviews \in BOOLEAN

\* The price at review; 0 when what is posted does not depend on the price.
Plan == [of : Item, price : Nat]

VARIABLES
  tab,        \* what each open tab holds
  calls,      \* the requests in flight
  draft,      \* ai_copilot_actions
  price,      \* the price every estimate would be given now
  posted,     \* what was posted: tab that confirmed, row and plan
  shown,      \* what was shown for review: tab, row and plan
  replaced,   \* in a tab, the proposal a later message was to replace
  announced,  \* in a tab, the row the user was told is in the ERP
  freed,      \* the tabs made idle, or used, while an operation was under way
  left

browser == <<tab, announced, freed, shown, replaced>>
server == <<draft, posted>>
vars == <<tab, calls, draft, price, posted, shown, replaced, announced,
          freed, left>>

Kind == {"action", "estimate", "payment", "review"}
\* A row is named by the idempotency key it is stored under.
Row == [scope : Scope, kind : Kind, number : Nat, rev : Nat,
        of : Item \cup {None}]
Token == [scope : Scope, conversation : Nat, rev : Nat, of : Item \cup {None},
          prepared : BOOLEAN, payment : Item \cup {None},
          pending : Row \cup {None}]
Ready == [token : Token, kind : {"estimate", "payment"}]

\* The function that is f but for x, where it is v.
Put(f, x, v) == [y \in DOMAIN f \cup {x} |-> IF y = x THEN v ELSE f[y]]

Spend(what) == /\ left[what] > 0
               /\ left' = [left EXCEPT ![what] = @ - 1]

\* mic: what the recorder does; late: for how many older recordings the browser
\* has not said yet whether the microphone may be used; voice: it was the
\* recorder that made the tab busy last.
NewTab(s) == [scope |-> s, token |-> None, active |-> None, ready |-> None,
              review |-> None, busy |-> FALSE, version |-> 0,
              mic |-> "off", late |-> 0, voice |-> FALSE]

-----------------------------------------------------------------------------
(* The tab sends *)

\* The operations whose buttons run through run, which shows every error and
\* makes the tab idle, whatever the tab does by then.
ByButton == {"confirm", "draft", "estimate", "payment"}
WorkingIn(t) == \E c \in calls : c.tab = t /\ c.kind \in ByButton
Pending(t) == WorkingIn(t) \/ \E c \in calls : c.tab = t /\ c.version = tab[t].version

\* setBusy(FALSE), which does not ask what else is under way.
Frees(t, next) ==
  /\ tab' = [tab EXCEPT ![t] = [next EXCEPT !.busy = FALSE]]
  /\ freed' = IF Pending(t) THEN freed \cup {t} ELSE freed

\* tokenFor: a conversation of another user or workspace is dropped.
Current(t) == IF tab[t].token # None /\ tab[t].token.scope = tab[t].scope
              THEN tab[t].token ELSE None

Call(t, kind, version, token, row, of) ==
  /\ Spend("requests")
  /\ calls' = calls \cup
       {[id |-> left.requests, tab |-> t, kind |-> kind,
         scope |-> tab[t].scope, version |-> version, token |-> token,
         row |-> row, of |-> of, stage |-> "sent", answer |-> None]}

\* analyze, for a message to the agent.  Whatever waited for the user goes.
\* While the recorder runs nothing is sent.
Say(t, text) ==
  LET version == tab[t].version + 1
      token == Current(t) IN
  /\ ~tab[t].busy /\ tab[t].mic # "recording"
  /\ Call(t, text, version, token, None, None)
  /\ tab' = [tab EXCEPT ![t] =
               [@ EXCEPT !.token = token, !.active = None, !.ready = None,
                         !.busy = TRUE, !.voice = FALSE, !.version = version]]
  /\ replaced' = IF text = "turn" /\ token # None /\ token.pending # None
                 THEN replaced \cup {<<t, token.pending>>} ELSE replaced
  /\ UNCHANGED <<server, price, shown, announced, freed>>

\* analyze, for any other task: a document to be reviewed.
AskReview(t) ==
  LET version == tab[t].version + 1 IN
  /\ ~tab[t].busy /\ tab[t].mic # "recording"
  /\ left.reviews
  /\ Call(t, "review", version, None, None, None)
  /\ tab' = [tab EXCEPT ![t] =
               [@ EXCEPT !.busy = TRUE, !.voice = FALSE, !.version = version]]
  /\ UNCHANGED <<server, price, shown, replaced, announced, freed>>

\* prepareDraft does not ask whether the tab is busy.
PrepareDraft(t) ==
  /\ tab[t].review # None
  /\ Call(t, "draft", tab[t].version, None, None, tab[t].review)
  /\ tab' = [tab EXCEPT ![t] = [@ EXCEPT !.busy = TRUE, !.voice = FALSE]]
  /\ freed' = IF tab[t].busy THEN freed \cup {t} ELSE freed
  /\ UNCHANGED <<server, price, shown, replaced, announced>>

\* A button that works at any time fails, and run shows the error: that of a
\* review which is not filled in or was used, or to copy or download the
\* quotation of a card.  The cards of a tab are taken for those of its copy too.
Stumble(t) ==
  /\ tab[t].busy
  /\ \/ tab[t].review # None
     \/ \E x \in shown : x[1] = t /\ x[2].kind \in {"action", "review"}
  /\ Frees(t, tab[t])
  /\ Spend("strays")
  /\ UNCHANGED <<calls, server, price, shown, replaced, announced>>

\* prepareStatefulDraft, for the estimate or the payment of the last turn.
PrepareReady(t) ==
  LET version == tab[t].version + 1 IN
  /\ ~tab[t].busy
  /\ tab[t].ready # None
  /\ Current(t) = tab[t].ready.token
  /\ Call(t, tab[t].ready.kind, version, tab[t].ready.token, None, None)
  /\ tab' = [tab EXCEPT ![t] =
               [@ EXCEPT !.busy = TRUE, !.voice = FALSE, !.version = version]]
  /\ UNCHANGED <<server, price, shown, replaced, announced, freed>>

\* Mutant: the tab can be used while the confirmation is under way.
ConfirmIdly(t) ==
  /\ ~tab[t].busy
  /\ tab[t].active # None
  /\ tab[t].active.scope = tab[t].scope
  /\ Call(t, "confirm", tab[t].version, None, tab[t].active, None)
  /\ UNCHANGED <<tab, server, price, shown, replaced, announced, freed>>
Confirm(t) ==
  /\ ~tab[t].busy
  /\ tab[t].active # None
  /\ tab[t].active.scope = tab[t].scope
  /\ Call(t, "confirm", tab[t].version, None, tab[t].active, None)
  /\ tab' = [tab EXCEPT ![t] = [@ EXCEPT !.busy = TRUE, !.voice = FALSE]]
  /\ UNCHANGED <<server, price, shown, replaced, announced, freed>>

-----------------------------------------------------------------------------
(* The API *)

Reply(c, answer) == calls' = (calls \ {c}) \cup
                      {[c EXCEPT !.stage = "served", !.answer = answer]}
Fail(c) == calls' = (calls \ {c}) \cup {[c EXCEPT !.stage = "failed"]}

Answer(token, row, plan, view) ==
  [token |-> token, row |-> row, plan |-> plan, view |-> view]

\* readBusinessState without a token: a new conversation.
Opening(c) ==
  IF c.token # None THEN c.token
  ELSE [scope |-> c.scope, conversation |-> c.id, rev |-> 0, of |-> None,
        prepared |-> FALSE, payment |-> None, pending |-> None]

Store(row, plan) == draft' = Put(draft, row, [plan |-> plan, status |-> "DRAFT"])

\* persistPlan: a key is good for one plan.
Persist(c, row, plan, answer) ==
  \/ /\ row \notin DOMAIN draft
     /\ Store(row, plan)
     /\ Reply(c, answer)
  \/ /\ row \in DOMAIN draft
     /\ IF draft[row].plan = plan THEN Reply(c, answer) ELSE Fail(c)
     /\ UNCHANGED draft

\* Mutant: the price the user approved is not compared.
ApprovedAny(plan) == TRUE
Approved(plan) == plan.price \in {0, price}

\* confirmAndExecute, for the user and workspace of the row.
Execute(c, row, answer) ==
  LET Become(status) == draft' = [draft EXCEPT ![row].status = status] IN
  \/ /\ draft[row].status = "DRAFT"
     /\ Approved(draft[row].plan)
     /\ Become("EXECUTED")
     /\ posted' = posted \cup
          {<<c.tab, row,
             IF draft[row].plan.price = 0 THEN draft[row].plan
             ELSE [draft[row].plan EXCEPT !.price = price]>>}
     /\ Reply(c, answer)
  \/ /\ draft[row].status = "DRAFT"
     /\ Become("FAILED")
     /\ UNCHANGED posted
     /\ Fail(c)
  \/ /\ draft[row].status # "DRAFT"
     /\ IF draft[row].status = "EXECUTED" THEN Reply(c, answer) ELSE Fail(c)
     /\ UNCHANGED <<draft, posted>>

\* confirmConversationAction: there may be nothing to confirm, or it lapsed.
ServeYes(c) ==
  LET said == [Opening(c) EXCEPT !.pending = None]
      answer == Answer(said, None, None, "none") IN
  /\ c.kind = "yes"
  /\ \/ Reply(c, answer) /\ UNCHANGED server
     \/ /\ Opening(c).pending # None
        /\ Execute(c, Opening(c).pending, answer)

\* The user wants no companions: the proposal stands.
ServeDecline(c) ==
  /\ c.kind = "decline"
  /\ Reply(c, Answer(c.token, None, None, "none"))
  /\ UNCHANGED server

\* UnifiedCopilotAgent.run and the draft tools: a turn drops the proposal and
\* the payment of the one before; the draft keeps its revision until touched.
Edited(state, item) ==
  [state EXCEPT !.of = item, !.rev = @ + 1, !.prepared = FALSE]
ServeTurn(c) ==
  LET state == [Opening(c) EXCEPT !.pending = None, !.payment = None]
      To(next, view) == /\ Reply(c, Answer(next, None, None, view))
                        /\ UNCHANGED server IN
  /\ c.kind = "turn"
  /\ \/ To(state, "none")
     \/ \E i \in Item : To(Edited(state, i), "draft")
     \/ /\ state.of # None
        /\ To([state EXCEPT !.prepared = TRUE], "draft")
     \/ \E i \in Item : To([state EXCEPT !.payment = i], "payment")
     \/ \E i \in Item :
          LET row == [scope |-> c.scope, kind |-> "action", number |-> c.id,
                      rev |-> 0, of |-> None]
              plan == [of |-> i, price |-> price] IN
          /\ Store(row, plan)
          /\ Reply(c, Answer([state EXCEPT !.pending = row], row, plan, "none"))
          /\ UNCHANGED posted

\* POST /conversation/drafts prices the draft of the token again.
ServeEstimate(c) ==
  LET plan == [of |-> c.token.of, price |-> price]
      row == [scope |-> c.scope, kind |-> "estimate",
              number |-> c.token.conversation, rev |-> c.token.rev,
              of |-> None] IN
  /\ c.kind = "estimate"
  /\ c.token.prepared
  /\ Persist(c, row, plan, Answer(None, row, plan, "none"))
  /\ UNCHANGED posted

\* POST /conversation/payments: the key holds what is paid.
ServePayment(c) ==
  LET plan == [of |-> c.token.payment, price |-> 0]
      row == [scope |-> c.scope, kind |-> "payment",
              number |-> c.token.conversation, rev |-> 0,
              of |-> c.token.payment] IN
  /\ c.kind = "payment"
  /\ Persist(c, row, plan, Answer(None, row, plan, "none"))
  /\ UNCHANGED posted

\* POST /review, and POST /drafts with a key the tab makes up each time.
ServeReview(c) ==
  /\ c.kind = "review"
  /\ \E i \in Item : Reply(c, Answer(None, None, [of |-> i, price |-> 0], "none"))
  /\ UNCHANGED server
ServeDraft(c) ==
  LET plan == [of |-> c.of, price |-> 0]
      row == [scope |-> c.scope, kind |-> "review", number |-> c.id,
              rev |-> 0, of |-> None] IN
  /\ c.kind = "draft"
  /\ Persist(c, row, plan, Answer(None, row, plan, "none"))
  /\ UNCHANGED posted

ServeConfirm(c) ==
  /\ c.kind = "confirm"
  /\ Execute(c, c.row, Answer(None, c.row, None, "none"))

Serve(c) ==
  /\ c.stage = "sent"
  /\ \/ ServeYes(c) \/ ServeDecline(c) \/ ServeTurn(c) \/ ServeEstimate(c)
     \/ ServePayment(c) \/ ServeReview(c) \/ ServeDraft(c) \/ ServeConfirm(c)
  /\ UNCHANGED <<browser, price, left>>

\* A request that is refused or does not arrive, an answer that is lost.
Lose(c) ==
  /\ c.stage # "failed"
  /\ Fail(c)
  /\ UNCHANGED <<server, browser, price, left>>

-----------------------------------------------------------------------------
(* The tab is answered *)

Show(c) == shown' = shown \cup {<<c.tab, c.answer.row, c.answer.plan>>}
Hold(t, active, ready) ==
  [tab[t] EXCEPT !.active = active, !.ready = ready, !.busy = FALSE]
\* An answer to a message is for the operation that waits for it, and for
\* the user and workspace it was asked in.
Hear(c) ==
  LET t == c.tab
      token == c.answer.token
      ready == IF c.answer.view = "payment"
               THEN [token |-> token, kind |-> "payment"]
               ELSE IF c.answer.view = "draft" /\ token.prepared
               THEN [token |-> token, kind |-> "estimate"]
               ELSE None IN
  /\ c.kind \in {"yes", "decline", "turn"}
  /\ \/ /\ c.version # tab[t].version
        /\ UNCHANGED <<tab, shown>>
     \/ /\ c.version = tab[t].version
        /\ c.scope # tab[t].scope
        /\ tab' = [tab EXCEPT ![t].token = None, ![t].busy = FALSE]
        /\ UNCHANGED shown
     \/ /\ c.version = tab[t].version
        /\ c.scope = tab[t].scope
        /\ tab' = [tab EXCEPT ![t] =
                     [Hold(t, c.answer.row, ready) EXCEPT !.token = token]]
        /\ IF c.answer.row = None THEN UNCHANGED shown ELSE Show(c)
  /\ UNCHANGED <<announced, freed>>

GetReady(c) ==
  LET t == c.tab IN
  /\ c.kind \in {"estimate", "payment"}
  /\ \/ /\ c.version # tab[t].version
        /\ UNCHANGED <<tab, shown>>
     \/ /\ c.version = tab[t].version
        /\ c.scope # tab[t].scope
        /\ tab' = [tab EXCEPT ![t].busy = FALSE]
        /\ UNCHANGED shown
     \/ /\ c.version = tab[t].version
        /\ c.scope = tab[t].scope
        /\ tab' = [tab EXCEPT ![t] = Hold(t, c.answer.row, None)]
        /\ Show(c)
  /\ UNCHANGED <<announced, freed>>

\* A review is shown whatever happened since it was asked for.
GetReview(c) ==
  LET t == c.tab IN
  /\ c.kind = "review"
  /\ tab' = [tab EXCEPT ![t].review = c.answer.plan.of,
                        ![t].busy = @ /\ c.version # tab[t].version]
  /\ UNCHANGED <<shown, announced, freed>>

\* Without the review it was made from, a draft cannot be shown.
GetDraft(c) ==
  LET t == c.tab IN
  /\ c.kind = "draft"
  /\ \/ /\ tab[t].review = None
        /\ tab' = [tab EXCEPT ![t].busy = FALSE]
        /\ UNCHANGED shown
     \/ /\ tab[t].review # None
        /\ tab' = [tab EXCEPT ![t] =
                     [Hold(t, c.answer.row, tab[t].ready) EXCEPT !.review = None]]
        /\ Show(c)
  /\ UNCHANGED <<announced, freed>>

\* The user is told that the draft which is active now is in the ERP.
GetConfirmed(c) ==
  LET t == c.tab IN
  /\ c.kind = "confirm"
  /\ announced' = IF tab[t].active = None THEN announced
                  ELSE announced \cup {<<t, tab[t].active>>}
  /\ tab' = [tab EXCEPT ![t] = [Hold(t, None, None) EXCEPT !.token = None]]
  /\ UNCHANGED <<shown, freed>>

\* analyze forgets an operation that is no longer the tab's; the others show
\* every error through run, which makes the tab idle.
GetError(c) ==
  LET t == c.tab IN
  /\ c.stage = "failed"
  /\ tab' = [tab EXCEPT ![t].busy =
                @ /\ c.kind \notin ByButton /\ c.version # tab[t].version]
  /\ UNCHANGED <<shown, announced, freed>>

Deliver(c) ==
  /\ \/ /\ c.stage = "served"
        /\ \/ Hear(c) \/ GetReady(c) \/ GetReview(c) \/ GetDraft(c)
           \/ GetConfirmed(c)
     \/ GetError(c)
  /\ calls' = calls \ {c}
  /\ UNCHANGED <<server, price, replaced, left>>

-----------------------------------------------------------------------------
(* The user, and time *)

Stray(t, next) == /\ Spend("strays")
                  /\ tab' = [tab EXCEPT ![t] = next]
                  /\ UNCHANGED <<calls, server, price, shown, replaced, announced>>

\* The buttons that cancel a draft or a review work at any time.
Cancel(t) == /\ tab[t].active # None
             /\ Stray(t, [tab[t] EXCEPT !.active = None])
             /\ UNCHANGED freed
CancelReview(t) == /\ tab[t].review # None
                   /\ Stray(t, [tab[t] EXCEPT !.review = None])
                   /\ UNCHANGED freed
\* A suggested prompt starts over; a token also lapses.
Clear(t) == /\ tab[t].token # None
            /\ Stray(t, [tab[t] EXCEPT !.token = None])
            /\ UNCHANGED freed
\* Another workspace is chosen.
Switch(t) == /\ \E s \in Scope \ {tab[t].scope} :
                  Stray(t, [tab[t] EXCEPT !.scope = s])
             /\ UNCHANGED freed
\* The questions for the microphone that an older recording will have asked.
Unanswered(t) == tab[t].late + (IF tab[t].mic = "asked" THEN 1 ELSE 0)
\* Mutant: what was under way still keeps the tab busy.
SignOutBusy(t) ==
  /\ \E s \in Scope : Stray(t, [NewTab(s) EXCEPT !.version = tab[t].version + 1,
                               !.late = Unanswered(t), !.busy = tab[t].busy])
  /\ UNCHANGED freed
\* reset, and a user signs in again.
SignOut(t) ==
  /\ \E s \in Scope :
       Stray(t, [NewTab(s) EXCEPT !.version = tab[t].version + 1,
                                  !.late = Unanswered(t)])
  /\ freed' = IF WorkingIn(t) THEN freed \cup {t} ELSE freed

-----------------------------------------------------------------------------
(* The voice recorder, which makes the tab busy and idle by itself *)

\* toggleRecording: the browser asks the user for the microphone.
Record(t) ==
  /\ ~tab[t].busy /\ tab[t].mic # "recording"
  /\ Stray(t, [tab[t] EXCEPT !.mic = "asked", !.late = Unanswered(t),
                             !.busy = TRUE, !.voice = TRUE])
  /\ UNCHANGED freed
\* The dialog is closed.  A question that is open is forgotten, not answered: the
\* tab stays busy, and nothing that follows from the question makes it idle.
Close(t) ==
  /\ \/ tab[t].mic = "recording" /\ Frees(t, [tab[t] EXCEPT !.mic = "off"])
     \/ /\ tab[t].mic \in {"asked", "stopping"}
        /\ tab' = [tab EXCEPT ![t] = [@ EXCEPT !.mic = "off", !.late = Unanswered(t)]]
        /\ UNCHANGED freed
  /\ Spend("strays")
  /\ UNCHANGED <<calls, server, price, shown, replaced, announced>>

\* The microphone is there; it is let go if it was asked for an older recording.
Granted(t) ==
  \/ tab[t].mic = "asked" /\ Frees(t, [tab[t] EXCEPT !.mic = "recording"])
  \/ tab[t].late > 0 /\ tab' = [tab EXCEPT ![t].late = @ - 1] /\ UNCHANGED freed
\* It is not there, or cannot be recorded from: run shows the error, whatever
\* recording it was asked for.
Denied(t) ==
  \/ tab[t].mic = "asked" /\ Frees(t, [tab[t] EXCEPT !.mic = "off"])
  \/ tab[t].late > 0 /\ Frees(t, [tab[t] EXCEPT !.late = @ - 1])
\* By the user, after 60 seconds or 8 MB; the event follows, unless there is a new
\* recording by then or the dialog was closed.  An error is an event by itself.
StopRecording(t) ==
  /\ tab[t].mic = "recording"
  /\ tab' = [tab EXCEPT ![t].mic = "stopping"] /\ UNCHANGED freed
Stopped(t) ==
  /\ tab[t].mic \in {"recording", "stopping"}
  /\ Frees(t, [tab[t] EXCEPT !.mic = "off"])

Recorder(t) ==
  /\ Granted(t) \/ Denied(t) \/ StopRecording(t) \/ Stopped(t)
  /\ UNCHANGED <<calls, server, price, shown, replaced, announced, left>>

-----------------------------------------------------------------------------
\* A duplicated tab starts with the token of the first, and its user knows
\* what the first has shown.
Duplicate(t, u) ==
  /\ u \notin DOMAIN tab
  /\ tab[t].token # None
  /\ tab' = Put(tab, u, [NewTab(tab[t].scope) EXCEPT !.token = tab[t].token])
  /\ shown' = shown \cup {<<u, x[2], x[3]>> : x \in {y \in shown : y[1] = t}}
  /\ Spend("copies")
  /\ UNCHANGED <<calls, server, price, replaced, announced, freed>>

Reprice == /\ Spend("reprices")
           /\ price' = price + 1
           /\ UNCHANGED <<tab, calls, server, shown, replaced, announced,
                          freed>>

-----------------------------------------------------------------------------
\* Which scope the first tab is in makes no difference.
Init == /\ tab = [t \in {First} |-> NewTab(CHOOSE s \in Scope : TRUE)]
        /\ calls = {} /\ draft = <<>> /\ price = 1
        /\ posted = {} /\ shown = {} /\ replaced = {}
        /\ announced = {} /\ freed = {}
        /\ left \in Budgets

Use(t) ==
  \/ Say(t, "yes") \/ Say(t, "turn")
  \/ (tab[t].token # None /\ tab[t].token.pending # None /\ Say(t, "decline"))
  \/ AskReview(t) \/ PrepareDraft(t) \/ Stumble(t) \/ PrepareReady(t)
  \/ Confirm(t) \/ Cancel(t) \/ CancelReview(t) \/ Clear(t) \/ Switch(t)
  \/ SignOut(t) \/ Record(t) \/ Close(t) \/ Recorder(t)

Next == \/ \E t \in DOMAIN tab : Use(t)
        \/ \E t \in DOMAIN tab, u \in Tab : Duplicate(t, u)
        \/ \E c \in calls : Serve(c) \/ Lose(c) \/ Deliver(c)
        \/ Reprice

Spec == Init /\ [][Next]_vars

\* boundedFetch settles every request: it is answered or fails in the end.
FairSpec == Spec /\ WF_vars(\E c \in calls : Lose(c) \/ Deliver(c))

-----------------------------------------------------------------------------
\* Whatever is posted was shown for review with just that content and price,
\* although the row is found by a key, priced again when it is posted, and
\* confirmed from a token or a card that may be older than the thread.
PostedAsShown == posted \subseteq shown

\* When the thread says that a draft is in the ERP, it is.  confirmDraft names the
\* draft that is active when the answer comes, so this rests on the tab being
\* busy until then, and it need not be so where something made the tab idle, or
\* worked in a busy tab, while an operation was under way.  All of these do: the
\* card of a review, a quotation that cannot be copied or downloaded, the
\* recorder when it stops or fails or the dialog is closed, a late refusal of
\* the microphone, and signing out.
AnnouncedWasPosted ==
  \A a \in announced :
    a[1] \in freed \/ \E p \in posted : p[2] = a[2]

\* "Any new non-affirmative request replaces the previous proposed action":
\* a later yes does not post it.
ReplacedIsNotPosted ==
  [][\A c \in calls :
       c.kind = "yes" /\ c.token # None
         /\ <<c.tab, c.token.pending>> \in replaced
       => \A p \in posted' \ posted : p[2] # c.token.pending]_vars

\* A tab that is busy with what it asked of the API can be used again in the end.
\* One that is busy with the microphone need not be: the user may never answer
\* the browser's question, and once the dialog was closed before it was granted
\* only signing out or loading the page helps (see Close).
Busy(t) == t \in DOMAIN tab /\ tab[t].busy /\ ~tab[t].voice
BusyEnds == \A t \in Tab : Busy(t) ~> ~Busy(t)

=============================================================================
