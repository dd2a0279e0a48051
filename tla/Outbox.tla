-------------------------------- MODULE Outbox --------------------------------
(***************************************************************************)
(* The offline outbox of the browser: drafts queued in IndexedDB while     *)
(* there is no network, and flushOfflineQueue, which sends them to the API *)
(* when there is.  Tabs share the outbox, and a tab may run several        *)
(* flushes at once: one is started when the application loads, when the    *)
(* browser goes online, and after a draft is queued while online, and no   *)
(* other flush, in the same tab or another, is waited for.  Each statement *)
(* on the outbox is one IndexedDB transaction; requests and flushes        *)
(* interleave between them, and closing a tab ends its flushes anywhere.   *)
(*                                                                         *)
(* The API answers an item it accepted before with the same document, by   *)
(* the item's idempotency key.  Attempt counts and error texts, which      *)
(* nothing decides on, are left out.                                       *)
(***************************************************************************)
EXTENDS Integers, FiniteSets

CONSTANTS
  Item,       \* the drafts users queue
  Tab,        \* browser tabs of the application
  Run,        \* the flushes that can be under way
  TabOf,      \* the tab a flush runs in
  Closable,   \* the tabs that may be closed
  MayFail,    \* whether the API may be unavailable for a time
  MaxDrops,   \* bound on how often the network goes away
  MaxClosed   \* bound on how often a tab is closed

ASSUME OutboxAssumption ==
  /\ TabOf \in [Run -> Tab]
  /\ Closable \subseteq Tab
  /\ MayFail \in BOOLEAN
  /\ MaxDrops \in Nat /\ MaxClosed \in Nat

VARIABLES
  status,    \* of the item in the outbox; absent before, removed after
  born,      \* createdAt
  online,    \* navigator.onLine
  open,      \* whether a tab is open
  queued,    \* a draft was added in the tab and what follows is still to come
  due,       \* a flush was called in the tab and has not begun
  at,        \* the place of a flush: between two items, sending, or how the
             \* sending ended
  todo,      \* the items it has still to send, the one it is sending included
  accepted,  \* the items the API has made a document of
  drops, closed

flush == <<at, todo>>
vars == <<status, born, online, open, queued, due, flush, accepted,
          drops, closed>>

Stored(i) == status[i] \notin {"absent", "removed"}
\* Mutant: the item is put back when it is no longer there.
Upsert(i, s) == status' = [status EXCEPT ![i] = s]
\* updateOutbox and removeOutbox: nothing is done to an item no longer there.
Update(i, s) ==
  status' = [status EXCEPT ![i] = IF Stored(i) THEN s ELSE @]

-----------------------------------------------------------------------------
(* queueJsonRequest *)

Enqueue(t, i) ==
  /\ open[t] /\ ~queued[t]
  /\ status[i] = "absent"
  /\ status' = [status EXCEPT ![i] = "pending"]
  /\ born' = [born EXCEPT ![i] = Cardinality({j \in Item : status[j] # "absent"})]
  /\ queued' = [queued EXCEPT ![t] = TRUE]
  /\ UNCHANGED <<online, open, due, flush, accepted, drops, closed>>

\* Mutant: only the online event calls a flush.
AfterEnqueueOnly(t) ==
  /\ queued[t]
  /\ queued' = [queued EXCEPT ![t] = FALSE]
  /\ UNCHANGED <<status, born, online, open, due, flush, accepted,
                 drops, closed>>
\* The draft is in the outbox: a flush is called if the browser is online.
AfterEnqueue(t) ==
  /\ queued[t]
  /\ queued' = [queued EXCEPT ![t] = FALSE]
  /\ due' = [due EXCEPT ![t] = @ \/ online]
  /\ UNCHANGED <<status, born, online, open, flush, accepted, drops,
                 closed>>

-----------------------------------------------------------------------------
(* flushOfflineQueue *)

Begin(r) ==
  /\ due[TabOf[r]] /\ at[r] = "idle"
  /\ due' = [due EXCEPT ![TabOf[r]] = FALSE]
  /\ IF online
       THEN /\ at' = [at EXCEPT ![r] = "next"]
            /\ todo' = [todo EXCEPT ![r] = {i \in Item : status[i] = "pending"}]
       ELSE UNCHANGED <<at, todo>>
  /\ UNCHANGED <<status, born, online, open, queued, accepted, drops,
                 closed>>

\* Listed in the order of createdAt.
Head(r) == CHOOSE i \in todo[r] : \A j \in todo[r] : born[i] <= born[j]

\* Whatever became of the item since the list was read.
Mark(r) ==
  /\ at[r] = "next" /\ todo[r] # {}
  /\ at' = [at EXCEPT ![r] = "sending"]
  /\ Update(Head(r), "syncing")
  /\ UNCHANGED <<born, online, open, queued, due, todo, accepted,
                 drops, closed>>

Finish(r) ==
  /\ at[r] = "next" /\ todo[r] = {}
  /\ at' = [at EXCEPT ![r] = "idle"]
  /\ UNCHANGED <<status, born, online, open, queued, due, todo, accepted, drops, closed>>

Sent(r, outcome) ==
  /\ at[r] = "sending"
  /\ at' = [at EXCEPT ![r] = outcome]
  /\ UNCHANGED <<status, born, online, open, queued, due, todo, drops, closed>>

\* The API makes the document, or finds it made.
Accept(r) ==
  /\ online
  /\ Sent(r, "ok")
  /\ accepted' = accepted \cup {Head(r)}

\* A status send calls retryable, before or after the document was made.
Unavailable(r) ==
  /\ MayFail /\ online
  /\ Sent(r, "retryable")
  /\ accepted' \in {accepted, accepted \cup {Head(r)}}

\* Any other status: validation, authentication, a conflict.
Reject(r) ==
  /\ online
  /\ Sent(r, "error")
  /\ UNCHANGED accepted

\* fetch throws, and its error does not say whether to retry: the request or
\* the answer to it was lost on the way.
Lose(r) ==
  /\ Sent(r, "error")
  /\ accepted' \in IF online THEN {accepted, accepted \cup {Head(r)}}
                             ELSE {accepted}

\* Mutant: an item the API could not take is removed too.
SettleRemoving(r) ==
  /\ \/ at[r] \in {"ok", "retryable"} /\ Update(Head(r), "removed")
     \/ at[r] = "error" /\ Update(Head(r), "failed")
  /\ at' = [at EXCEPT ![r] = "next"]
  /\ todo' = [todo EXCEPT ![r] = @ \ {Head(r)}]
  /\ UNCHANGED <<born, online, open, queued, due, accepted, drops,
                 closed>>
Settle(r) ==
  /\ \/ at[r] = "ok" /\ Update(Head(r), "removed")
     \/ at[r] = "retryable" /\ Update(Head(r), "pending")
     \/ at[r] = "error" /\ Update(Head(r), "failed")
  /\ at' = [at EXCEPT ![r] = "next"]
  /\ todo' = [todo EXCEPT ![r] = @ \ {Head(r)}]
  /\ UNCHANGED <<born, online, open, queued, due, accepted, drops,
                 closed>>

-----------------------------------------------------------------------------
(* The browser *)

GoOffline ==
  /\ online /\ drops < MaxDrops
  /\ online' = FALSE
  /\ drops' = drops + 1
  /\ UNCHANGED <<status, born, open, queued, due, flush, accepted,
                 closed>>

\* Every open tab gets the online event.
GoOnline ==
  /\ ~online
  /\ online' = TRUE
  /\ due' = [t \in Tab |-> open[t]]
  /\ UNCHANGED <<status, born, open, queued, flush, accepted, drops,
                 closed>>

Close(t) ==
  /\ open[t] /\ closed < MaxClosed
  /\ open' = [open EXCEPT ![t] = FALSE]
  /\ queued' = [queued EXCEPT ![t] = FALSE]
  /\ due' = [due EXCEPT ![t] = FALSE]
  /\ at' = [r \in Run |-> IF TabOf[r] = t THEN "idle" ELSE at[r]]
  /\ todo' = [r \in Run |-> IF TabOf[r] = t THEN {} ELSE todo[r]]
  /\ closed' = closed + 1
  /\ UNCHANGED <<status, born, online, accepted, drops>>

\* app.js calls a flush when it loads.
Load(t) ==
  /\ ~open[t]
  /\ open' = [open EXCEPT ![t] = TRUE]
  /\ due' = [due EXCEPT ![t] = TRUE]
  /\ UNCHANGED <<status, born, online, queued, flush, accepted, drops,
                 closed>>

-----------------------------------------------------------------------------
Init ==
  /\ status = [i \in Item |-> "absent"]
  /\ born = [i \in Item |-> 0]
  /\ online = TRUE
  /\ open = [t \in Tab |-> FALSE]
  /\ queued = [t \in Tab |-> FALSE]
  /\ due = [t \in Tab |-> FALSE]
  /\ at = [r \in Run |-> "idle"]
  /\ todo = [r \in Run |-> {}]
  /\ accepted = {}
  /\ drops = 0 /\ closed = 0

Flushing(r) ==
  \/ Begin(r) \/ Mark(r) \/ Finish(r)
  \/ Accept(r) \/ Unavailable(r) \/ Reject(r) \/ Lose(r)
  \/ Settle(r)

Next ==
  \/ \E t \in Tab, i \in Item : Enqueue(t, i)
  \/ \E t \in Tab : AfterEnqueue(t) \/ Load(t)
  \/ \E t \in Closable : Close(t)
  \/ \E r \in Run : Flushing(r)
  \/ GoOffline \/ GoOnline

Spec == Init /\ [][Next]_vars

\* The event loop of an open tab carries its flushes on, the user opens the
\* application again, and the network comes back.
FairSpec ==
  /\ Spec
  /\ \A r \in Run : WF_vars(Flushing(r))
  /\ \A t \in Tab : WF_vars(AfterEnqueue(t)) /\ WF_vars(Load(t))
  /\ WF_vars(GoOnline)

-----------------------------------------------------------------------------
(* Properties *)

\* A draft leaves the outbox only when the API holds its document, whichever
\* flush of whichever tab removes it.
RemovedWasAccepted == \A i \in Item : status[i] = "removed" => i \in accepted

\* A flush that is still sending an item another one has removed does not
\* bring it back.
NoResurrection ==
  [][\A i \in Item : status[i] = "removed" => status'[i] = "removed"]_vars

\* Whatever the network does while a draft is added, and however two flushes
\* with the draft on their lists overtake each other, it does not stay pending
\* or syncing: a flush comes for it, and it is accepted or shown as failed.
\* Not promised when the API is unavailable, or a tab is closed.
Undisturbed == closed = 0 /\ \A r \in Run : at[r] # "retryable"
NoMissedFlush ==
  []Undisturbed =>
    \A i \in Item : Stored(i) ~> status[i] \in {"removed", "failed"}
=============================================================================
