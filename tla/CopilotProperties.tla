-------------------------- MODULE CopilotProperties --------------------------
(***************************************************************************)
(* What the life of a Copilot action guarantees whatever requests draft,   *)
(* confirm and confirm again at the same time, and wherever a process dies.*)
(***************************************************************************)
EXTENDS CopilotAction

\* Rows, counters and requests hold values of their types.
TypeOK ==
  /\ row \in [Action -> Row]
  /\ effect \in [Action -> Nat]
  /\ taught \in [Action -> Nat]
  /\ at \in [Request -> Place]
  /\ memory \in [Request -> Memory]

\* However often an action is confirmed, by however many processes at once,
\* the ERP makes one document for it ("Retries must not create duplicate
\* financial transactions.", docs/PHASE-20-IMPLEMENTATION-HANDOFF.md:43).
EffectAtMostOnce == \A a \in Action : effect[a] <= 1

\* A recorded result is that of the document made, no action is EXECUTED
\* without one, and none that has one is ever a draft or a failure again.
RecordedMeansDone ==
  \A a \in Action :
    /\ row[a].result # NoResult =>
         /\ row[a].result = effect[a]
         /\ row[a].status \in {"CONFIRMED", "EXECUTED"}
    /\ row[a].status = "EXECUTED" => row[a].result # NoResult

\* A caller that is handed a draft is handed the draft of its own plan, and
\* one that is told its action is complete can see the document on record,
\* even if another request has doubted the action since.
AnswerIsTrue ==
  \A q \in Request :
    /\ at[q] = "drafted" => Mine(q).plan = memory[q].plan
    /\ at[q] = "completed" => /\ Mine(q).result # NoResult
                              /\ Mine(q).result = memory[q].result

\* The lines of a slip raise the usage counts once, after its result is on
\* record and before the action is EXECUTED; other actions teach nothing.
TaughtOnce ==
  \A a \in Action :
    /\ taught[a] <= (IF a \in Slip THEN 1 ELSE 0)
    /\ taught[a] = 1 => row[a].result # NoResult
    /\ row[a].status = "EXECUTED" /\ a \in Slip => taught[a] = 1

Phase(r) ==
  CASE r.status = "absent" -> "none"
    [] r.status = "DRAFT" -> "proposed"
    [] r.status = "CONFIRMED" /\ r.result = NoResult -> "claimed"
    [] r.status = "CONFIRMED" /\ r.result # NoResult -> "recorded"
    [] r.status = "EXECUTED" -> "executed"
    [] r.status = "FAILED" -> "abandoned"

Promise == INSTANCE CopilotPromise
             WITH phase <- [a \in Action |-> Phase(row[a])]

\* The rows and the ERP implement the promise: claims, effects, records and
\* completions come in that order for every action, each at most once except
\* that an EXECUTED action can be doubted and completed again.
KeepsPromise == Promise!Spec

\* The requests of processes that stay up are carried on.
FairSpec == Spec /\ \A q \in Request \ Mortal : WF_vars(Advance(q))

\* Request q has claimed action a and has no result on record yet.
Holding(q, a) ==
  /\ at[q] \in {"executing", "failing", "checkpointing"}
  /\ memory[q].action = a

\* A claim by a process that stays up is not left in progress, whatever the
\* requests beside it do and wherever they die: the result is recorded, or
\* the action has failed.
ClaimSettles ==
  \A a \in Action, q \in Request \ Mortal :
    Holding(q, a) ~> (row[a].status = "FAILED" \/ row[a].result # NoResult)

=============================================================================
