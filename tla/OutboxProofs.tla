---------------------------- MODULE OutboxProofs ----------------------------
(***************************************************************************)
(* What the outbox keeps, for any drafts, tabs and flushes, however often  *)
(* the network drops and tabs are closed.                                  *)
(***************************************************************************)
EXTENDS Outbox, TLAPS

-----------------------------------------------------------------------------
(* The inductive invariant *)

Status == {"absent", "pending", "syncing", "failed", "removed"}
Place == {"idle", "next", "sending", "ok", "retryable", "error"}

\* Statuses, places and lists have their types, and each draft has a time.
TypeOK ==
  /\ status \in [Item -> Status]
  /\ DOMAIN born = Item
  /\ at \in [Run -> Place]
  /\ todo \in [Run -> SUBSET Item]

\* A flush has only listed drafts that were queued, so that queueing another
\* does not change which one it is sending; and when it was told that a draft
\* was taken, the API has it.
FlushSound(r) ==
  /\ \A i \in todo[r] : status[i] # "absent"
  /\ at[r] = "ok" => Head(r) \in accepted

IInv == TypeOK /\ RemovedWasAccepted /\ \A r \in Run : FlushSound(r)

-----------------------------------------------------------------------------
(* Lemmas *)

\* Which draft is sent next depends on the creation times of those listed.
LEMMA HeadKept ==
  ASSUME NEW r \in Run, todo'[r] = todo[r],
         \A i \in todo[r] : born'[i] = born[i]
  PROVE  Head(r)' = Head(r)
<1>1. \A i : i \in todo'[r] /\ (\A j \in todo'[r] : born'[i] <= born'[j])
               <=> i \in todo[r] /\ (\A j \in todo[r] : born[i] <= born[j])
  BY Zenon
<1>. QED
  BY <1>1, Zenon DEF Head

\* An update leaves queued drafts queued and removed ones removed.
LEMMA UpdateType ==
  ASSUME TypeOK, NEW j, NEW s \in Status \ {"absent"}, Update(j, s)
  PROVE  /\ status' \in [Item -> Status]
         /\ \A i \in Item : status[i] # "absent" => status'[i] # "absent"
         /\ \A i \in Item : status[i] = "removed" => status'[i] = "removed"
         /\ \A i \in Item : status'[i] # status[i] => i = j /\ status'[i] = s
BY DEF TypeOK, Update, Stored, Status

\* A flush whose list and place a step leaves alone stays sound, if no draft
\* it lists becomes absent, none is created anew and the API forgets nothing.
LEMMA FlushKept ==
  ASSUME NEW r \in Run, FlushSound(r), todo'[r] = todo[r],
         at'[r] = "ok" => at[r] = "ok",
         \A i \in todo[r] : born'[i] = born[i] /\ status'[i] # "absent",
         accepted \subseteq accepted'
  PROVE  FlushSound(r)'
BY HeadKept DEF FlushSound

-----------------------------------------------------------------------------
(* The initial state and the steps *)

\* The invariant holds of the empty outbox.
LEMMA InitSound == Init => IInv
BY DEF Init, IInv, TypeOK, Status, Place, RemovedWasAccepted, FlushSound

\* Queueing a draft makes nothing removed and touches no draft that is listed.
LEMMA EnqueueKeeps ==
  ASSUME IInv, NEW t \in Tab, NEW i \in Item, Enqueue(t, i) PROVE IInv'
<1>1. TypeOK'
  BY DEF IInv, TypeOK, Enqueue, flush, Status
<1>2. RemovedWasAccepted'
  BY DEF IInv, TypeOK, Enqueue, RemovedWasAccepted
<1>3. ASSUME NEW r \in Run PROVE FlushSound(r)'
  <2>1. \A j \in todo[r] : j # i /\ j \in Item
    BY DEF IInv, TypeOK, FlushSound, Enqueue
  <2>2. \A j \in todo[r] : born'[j] = born[j] /\ status'[j] # "absent"
    BY <2>1 DEF IInv, TypeOK, FlushSound, Enqueue
  <2>. QED
    BY <2>2, FlushKept DEF IInv, Enqueue, flush
<1>. QED
  BY <1>1, <1>2, <1>3 DEF IInv

\* Steps that change neither the outbox nor what a flush is at keep all.
LEMMA BrowserKeeps ==
  ASSUME IInv, UNCHANGED <<status, born, flush, accepted>> PROVE IInv'
<1>1. TypeOK' /\ RemovedWasAccepted'
  BY DEF IInv, TypeOK, flush, RemovedWasAccepted
<1>2. ASSUME NEW r \in Run PROVE FlushSound(r)'
  BY FlushKept DEF IInv, FlushSound, flush
<1>. QED
  BY <1>1, <1>2 DEF IInv

\* A closed tab's flushes are forgotten, those of other tabs go on.
LEMMA CloseKeeps == ASSUME IInv, NEW t \in Tab, Close(t) PROVE IInv'
<1>1. TypeOK' /\ RemovedWasAccepted'
  BY DEF IInv, TypeOK, Close, RemovedWasAccepted, Place
<1>2. ASSUME NEW r \in Run PROVE FlushSound(r)'
  <2>1. CASE TabOf[r] = t
    BY <2>1 DEF Close, FlushSound
  <2>2. CASE TabOf[r] # t
    BY <2>2, FlushKept DEF IInv, Close, FlushSound
  <2>. QED
    BY <2>1, <2>2
<1>. QED
  BY <1>1, <1>2 DEF IInv

\* A flush lists drafts that are pending, and ends when it has none left.
LEMMA BeginKeeps == ASSUME IInv, NEW r \in Run, Begin(r) PROVE IInv'
<1>1. TypeOK' /\ RemovedWasAccepted'
  BY DEF IInv, TypeOK, Begin, RemovedWasAccepted, Place
<1>2. ASSUME NEW q \in Run PROVE FlushSound(q)'
  <2>1. CASE q = r
    BY <2>1, FlushKept DEF IInv, TypeOK, Begin, FlushSound
  <2>2. CASE q # r
    BY <2>2, FlushKept DEF IInv, TypeOK, Begin, FlushSound
  <2>. QED
    BY <2>1, <2>2
<1>. QED
  BY <1>1, <1>2 DEF IInv
LEMMA FinishKeeps == ASSUME IInv, NEW r \in Run, Finish(r) PROVE IInv'
<1>1. TypeOK' /\ RemovedWasAccepted'
  BY DEF IInv, TypeOK, Finish, RemovedWasAccepted, Place
<1>2. ASSUME NEW q \in Run PROVE FlushSound(q)'
  BY FlushKept DEF IInv, TypeOK, Finish, FlushSound
<1>. QED
  BY <1>1, <1>2 DEF IInv

\* Marking a draft sends it, and never brings one back.
LEMMA MarkKeeps == ASSUME IInv, NEW r \in Run, Mark(r) PROVE IInv'
<1>1. /\ status' \in [Item -> Status]
      /\ \A i \in Item : status[i] # "absent" => status'[i] # "absent"
      /\ \A i \in Item : status'[i] = "removed" => status[i] = "removed"
  BY UpdateType DEF IInv, Mark, Status
<1>2. TypeOK' /\ RemovedWasAccepted'
  BY <1>1 DEF IInv, TypeOK, Mark, RemovedWasAccepted, Place
<1>3. ASSUME NEW q \in Run PROVE FlushSound(q)'
  BY <1>1, FlushKept DEF IInv, TypeOK, Mark, FlushSound
<1>. QED
  BY <1>2, <1>3 DEF IInv

\* A flush is told that a draft was taken by the API, which has it then.
LEMMA SentKeeps ==
  ASSUME IInv, NEW r \in Run, NEW outcome \in Place, Sent(r, outcome),
         accepted \subseteq accepted',
         outcome = "ok" => Head(r) \in accepted'
  PROVE  IInv'
<1>1. TypeOK' /\ RemovedWasAccepted'
  BY DEF IInv, TypeOK, Sent, RemovedWasAccepted, Place
<1>2. ASSUME NEW q \in Run PROVE FlushSound(q)'
  <2>1. \A i \in todo[q] : born'[i] = born[i] /\ status'[i] # "absent"
    BY DEF IInv, Sent, FlushSound
  <2>2. CASE q = r
    <3>1. Head(r)' = Head(r)
      BY HeadKept DEF Sent
    <3>. QED
      BY <2>1, <2>2, <3>1 DEF IInv, TypeOK, Sent, FlushSound
  <2>3. CASE q # r
    BY <2>1, <2>3, FlushKept DEF IInv, TypeOK, Sent
  <2>. QED
    BY <2>2, <2>3
<1>. QED
  BY <1>1, <1>2 DEF IInv

\* Only a draft that was taken is removed.
LEMMA SettleKeeps == ASSUME IInv, NEW r \in Run, Settle(r) PROVE IInv'
<1>1. PICK s \in {"removed", "pending", "failed"} :
        Update(Head(r), s) /\ (s = "removed" => at[r] = "ok")
  BY DEF Settle
<1>2. /\ status' \in [Item -> Status]
      /\ \A i \in Item : status[i] # "absent" => status'[i] # "absent"
      /\ \A i \in Item : status'[i] # status[i] => i = Head(r) /\ status'[i] = s
  BY <1>1, UpdateType DEF IInv, Status
<1>3. TypeOK'
  BY <1>2 DEF IInv, TypeOK, Settle, Place
<1>4. RemovedWasAccepted'
  BY <1>1, <1>2 DEF IInv, FlushSound, Settle, RemovedWasAccepted
<1>5. ASSUME NEW q \in Run PROVE FlushSound(q)'
  <2>1. CASE q = r
    BY <1>2, <2>1 DEF IInv, TypeOK, Settle, FlushSound
  <2>2. CASE q # r
    BY <1>2, <2>2, FlushKept DEF IInv, TypeOK, Settle, FlushSound
  <2>. QED
    BY <2>1, <2>2
<1>. QED
  BY <1>3, <1>4, <1>5 DEF IInv

\* Every step of a flush.
LEMMA FlushingKeeps == ASSUME IInv, NEW r \in Run, Flushing(r) PROVE IInv'
<1>1. CASE Accept(r)
  BY <1>1, SentKeeps DEF Accept, Place
<1>2. CASE Unavailable(r)
  BY <1>2, SentKeeps DEF Unavailable, Place
<1>3. CASE Reject(r)
  BY <1>3, SentKeeps DEF Reject, Place
<1>4. CASE Lose(r)
  BY <1>4, SentKeeps DEF Lose, Place
<1>. QED
  BY <1>1, <1>2, <1>3, <1>4, BeginKeeps, MarkKeeps, FinishKeeps, SettleKeeps
     DEF Flushing

\* Every step.
LEMMA NextSound == IInv /\ [Next]_vars => IInv'
<1>. SUFFICES ASSUME IInv, [Next]_vars PROVE IInv'
  OBVIOUS
<1>1. ASSUME NEW t \in Tab, AfterEnqueue(t) \/ Load(t) PROVE IInv'
  BY <1>1, BrowserKeeps DEF AfterEnqueue, Load
<1>2. CASE GoOffline \/ GoOnline \/ UNCHANGED vars
  BY <1>2, BrowserKeeps DEF GoOffline, GoOnline, vars
<1>. QED
  BY <1>1, <1>2, EnqueueKeeps, CloseKeeps, FlushingKeeps, OutboxAssumption
     DEF Next

\* The invariant holds in every behaviour.
LEMMA SpecSound == Spec => []IInv
  BY InitSound, NextSound, PTL DEF Spec

\* However many tabs flush the outbox at once, and whatever fails, a draft is
\* removed only when the API holds its document.
THEOREM RemovalSound == Spec => []RemovedWasAccepted
  BY SpecSound, PTL DEF IInv

\* A draft that was removed stays removed: no step of any tab queues, marks or
\* settles it again.
THEOREM RemovalFinal == Spec => NoResurrection
<1>1. IInv /\ [Next]_vars
        => [\A i \in Item : status[i] = "removed" => status'[i] = "removed"]_vars
  <2>. SUFFICES ASSUME IInv, Next, NEW i \in Item, status[i] = "removed"
                PROVE  status'[i] = "removed"
    OBVIOUS
  <2>1. ASSUME NEW t \in Tab, NEW j \in Item, Enqueue(t, j)
        PROVE  status'[i] = "removed"
    BY <2>1 DEF IInv, TypeOK, Enqueue
  <2>2. ASSUME NEW r \in Run, Mark(r) \/ Settle(r)
        PROVE  status'[i] = "removed"
    <3>1. PICK s \in Status : Update(Head(r), s)
      BY <2>2 DEF Mark, Settle, Status
    <3>. QED
      BY <3>1 DEF IInv, TypeOK, Update, Stored
  <2>3. ASSUME UNCHANGED status
        PROVE  status'[i] = "removed"
    BY <2>3
  <2>. QED
    BY <2>1, <2>2, <2>3
       DEF Next, Flushing, Begin, Finish, Accept, Unavailable, Reject, Lose,
           Sent, AfterEnqueue, Load, Close, GoOffline, GoOnline
<1>. QED
  BY <1>1, SpecSound, PTL DEF Spec, NoResurrection

=============================================================================
