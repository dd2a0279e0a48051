---------------------------- MODULE CopilotAction ----------------------------
(***************************************************************************)
(* The life of a Copilot action: a row of ai_copilot_actions that          *)
(* CopilotRuntime drafts once and executes when its user confirms it.      *)
(* Every request runs in one of several API processes and touches the row  *)
(* in separate statements, so requests that draft or confirm the same      *)
(* action interleave between any two of them.  A process may die, or lose  *)
(* the answer of a statement or of the ERP call, at any of these points:   *)
(* Die leaves the row and the ERP as they are.                             *)
(*                                                                         *)
(* An action is named by its organization and idempotency key.  The plan   *)
(* stands for the request fingerprint, which covers the user too.  The ERP *)
(* call behind an action makes a document each time it commits; its own    *)
(* key is left out, because createCustomer and createVendor have none: the *)
(* claim on the row must be enough.  A result is the number of the         *)
(* document, NoResult the null column.                                     *)
(***************************************************************************)
EXTENDS Integers

CONSTANTS
  Action,   \* the rows there can be: organization and idempotency key
  Plan,     \* what a draft can ask for
  NoPlan,   \* the plan of a row that is not there
  Slip,     \* the actions drafted from a photographed slip
  Request,  \* the requests in flight, over all API processes
  Mortal    \* the requests whose process may die

ASSUME ActionAssumption ==
  /\ Action # {}
  /\ NoPlan \notin Plan
  /\ Slip \subseteq Action
  /\ Mortal \subseteq Request

NoResult == 0
Status == {"DRAFT", "CONFIRMED", "EXECUTED", "FAILED"}
Row == [status : Status \cup {"absent"}, plan : Plan \cup {NoPlan},
        result : Nat]
\* Where a request stands; the first three are over, with or without success.
Place == {"idle", "drafted", "completed", "inserting", "checking", "claiming",
          "executing", "checkpointing", "failing", "verifying", "learning",
          "doubting", "completing"}
\* What a request holds in memory.
Memory == [action : Action, plan : Plan \cup {NoPlan}, status : Status, result : Nat]

VARIABLES
  row,      \* ai_copilot_actions
  effect,   \* how many documents the ERP made for an action
  taught,   \* how often the lines of an action raised usage_count
  at,       \* the place of each request
  memory    \* what it read, and later what it did

vars == <<row, effect, taught, at, memory>>

Over(q) == at[q] \in {"idle", "drafted", "completed"}
Mine(q) == row[memory[q].action]
Go(q, from, to) == /\ at[q] = from
                   /\ at' = [at EXCEPT ![q] = to]
SetStatus(q, status) == row' = [row EXCEPT ![memory[q].action].status = status]
SetResult(q, result) == row' = [row EXCEPT ![memory[q].action].result = result]

-----------------------------------------------------------------------------
(* persistPlan *)

\* Mutant: the fingerprint is not compared.
ReuseAnyDraft(q, a, p) ==
  /\ Over(q)
  /\ row[a].status # "absent"
  /\ at' = [at EXCEPT ![q] = "drafted"]
  /\ memory' = [memory EXCEPT ![q].action = a, ![q].plan = p]
  /\ UNCHANGED <<row, effect, taught>>
\* The draft is there already: it is handed out again only for the same plan.
ReuseDraft(q, a, p) ==
  /\ Over(q)
  /\ row[a].status # "absent"
  /\ at' = [at EXCEPT ![q] = IF row[a].plan = p THEN "drafted" ELSE "idle"]
  /\ memory' = [memory EXCEPT ![q].action = a, ![q].plan = p]
  /\ UNCHANGED <<row, effect, taught>>

MissDraft(q, a, p) ==
  /\ Over(q)
  /\ row[a].status = "absent"
  /\ at' = [at EXCEPT ![q] = "inserting"]
  /\ memory' = [memory EXCEPT ![q].action = a, ![q].plan = p]
  /\ UNCHANGED <<row, effect, taught>>

\* unique (organization_id, idempotency_key) decides a race.
InsertDraft(q) ==
  /\ \/ /\ Mine(q).status = "absent"
        /\ Go(q, "inserting", "drafted")
        /\ row' = [row EXCEPT ![memory[q].action] =
                     [status |-> "DRAFT", plan |-> memory[q].plan,
                      result |-> NoResult]]
     \/ /\ Mine(q).status # "absent"
        /\ Go(q, "inserting", "idle")
        /\ UNCHANGED row
  /\ UNCHANGED <<effect, taught, memory>>

-----------------------------------------------------------------------------
(* confirmAndExecute *)

ReadAction(q, a) ==
  /\ Over(q)
  /\ row[a].status # "absent"
  /\ at' = [at EXCEPT ![q] = "checking"]
  /\ memory' = [memory EXCEPT ![q] =
                  [action |-> a, plan |-> row[a].plan,
                   status |-> row[a].status, result |-> row[a].result]]
  /\ UNCHANGED <<row, effect, taught>>

\* The row is not this user's, or the plan is no longer authorized, or what
\* it refers to is gone; or what was read cannot be confirmed.
RefuseConfirmation(q) ==
  /\ Go(q, "checking", "idle")
  /\ UNCHANGED <<row, effect, taught, memory>>

\* What was read decides, however old it is by now.
Decide(q) ==
  /\ \/ /\ memory[q].status = "DRAFT"
        /\ Go(q, "checking", "claiming")
     \/ /\ \/ memory[q].status = "EXECUTED"
           \/ memory[q].status = "CONFIRMED" /\ memory[q].result # NoResult
        /\ Go(q, "checking", "verifying")
  /\ UNCHANGED <<row, effect, taught, memory>>

\* Mutant: the update does not ask for a DRAFT.
ClaimAnyway(q) ==
  /\ Go(q, "claiming", "executing")
  /\ SetStatus(q, "CONFIRMED")
  /\ memory' = [memory EXCEPT ![q].status = "CONFIRMED"]
  /\ UNCHANGED <<effect, taught>>
Claim(q) ==
  /\ \/ /\ Mine(q).status = "DRAFT"
        /\ Go(q, "claiming", "executing")
        /\ SetStatus(q, "CONFIRMED")
        /\ memory' = [memory EXCEPT ![q].status = "CONFIRMED"]
     \/ /\ Mine(q).status # "DRAFT"
        /\ Go(q, "claiming", "idle")
        /\ UNCHANGED <<row, memory>>
  /\ UNCHANGED <<effect, taught>>

\* The ERP commits.  Its answer may be lost, which is caught like a refusal.
Execute(q) ==
  LET a == memory[q].action IN
  /\ effect' = [effect EXCEPT ![a] = @ + 1]
  /\ \/ /\ Go(q, "executing", "checkpointing")
        /\ memory' = [memory EXCEPT ![q].result = effect[a] + 1]
     \/ /\ Go(q, "executing", "failing")
        /\ UNCHANGED memory
  /\ UNCHANGED <<row, taught>>

RefuseExecution(q) ==
  /\ Go(q, "executing", "failing")
  /\ UNCHANGED <<row, effect, taught, memory>>

\* Mutants: the failure makes the action a draft again, or is not written.
FailToDraft(q) ==
  /\ Go(q, "failing", "idle")
  /\ IF Mine(q).status = "CONFIRMED" THEN SetStatus(q, "DRAFT")
                                     ELSE UNCHANGED row
  /\ UNCHANGED <<effect, taught, memory>>
FailSilently(q) ==
  /\ Go(q, "failing", "idle")
  /\ UNCHANGED <<row, effect, taught, memory>>
Fail(q) ==
  /\ Go(q, "failing", "idle")
  /\ IF Mine(q).status = "CONFIRMED" THEN SetStatus(q, "FAILED")
                                     ELSE UNCHANGED row
  /\ UNCHANGED <<effect, taught, memory>>

Checkpoint(q) ==
  /\ \/ /\ Mine(q).status = "CONFIRMED"
        /\ Go(q, "checkpointing", "verifying")
        /\ SetResult(q, memory[q].result)
     \/ /\ Mine(q).status # "CONFIRMED"
        /\ Go(q, "checkpointing", "idle")
        /\ UNCHANGED row
  /\ UNCHANGED <<effect, taught, memory>>

-----------------------------------------------------------------------------
(* verifyAndComplete *)

\* An action that was EXECUTED when read is answered with what was read.
Verified(q) == IF memory[q].status = "EXECUTED" THEN "completed"
                                                ELSE "completing"

Verify(q) ==
  /\ Go(q, "verifying",
        IF memory[q].action \in Slip THEN "learning" ELSE Verified(q))
  /\ UNCHANGED <<row, effect, taught, memory>>

\* The independent read fails, or finds something else.
Mistrust(q) ==
  /\ Go(q, "verifying", "doubting")
  /\ UNCHANGED <<row, effect, taught, memory>>

\* Mutant: the table of lines already learned is not looked at.
TeachAgain(a) == taught' = [taught EXCEPT ![a] = @ + 1]
Teach(a) == taught' = [taught EXCEPT ![a] = IF @ = 0 THEN 1 ELSE @]

\* learn_confirmed_copilot_slip: one transaction that locks the row.  It may
\* commit and its answer be lost, which counts as a doubt.
Learn(q) ==
  LET a == memory[q].action IN
  /\ \/ /\ row[a].status \in {"CONFIRMED", "EXECUTED"}
        /\ row[a].result # NoResult
        /\ \E to \in {Verified(q), "doubting"} : Go(q, "learning", to)
        /\ Teach(a)
     \/ /\ Go(q, "learning", "doubting")
        /\ UNCHANGED taught
  /\ UNCHANGED <<row, effect, memory>>

\* Mutant: an action that could not be verified has failed.
DoubtFails(q) ==
  /\ Go(q, "doubting", "idle")
  /\ IF Mine(q).status = memory[q].status THEN SetStatus(q, "FAILED")
                                          ELSE UNCHANGED row
  /\ UNCHANGED <<effect, taught, memory>>
Doubt(q) ==
  /\ Go(q, "doubting", "idle")
  /\ IF Mine(q).status = memory[q].status THEN SetStatus(q, "CONFIRMED")
                                          ELSE UNCHANGED row
  /\ UNCHANGED <<effect, taught, memory>>

Complete(q) ==
  /\ \/ /\ Mine(q).status = "CONFIRMED"
        /\ Go(q, "completing", "completed")
        /\ SetStatus(q, "EXECUTED")
     \/ /\ Mine(q).status # "CONFIRMED"
        /\ Go(q, "completing", "idle")
        /\ UNCHANGED row
  /\ UNCHANGED <<effect, taught, memory>>

Die(q) ==
  /\ ~Over(q)
  /\ at' = [at EXCEPT ![q] = "idle"]
  /\ UNCHANGED <<row, effect, taught, memory>>

-----------------------------------------------------------------------------
Init ==
  /\ row = [a \in Action |->
              [status |-> "absent", plan |-> NoPlan, result |-> NoResult]]
  /\ effect = [a \in Action |-> 0]
  /\ taught = [a \in Action |-> 0]
  /\ at = [q \in Request |-> "idle"]
  /\ memory = [q \in Request |->
                 [action |-> CHOOSE a \in Action : TRUE, plan |-> NoPlan,
                  status |-> "DRAFT", result |-> NoResult]]

\* The next step of a request that is under way.
Advance(q) ==
  \/ InsertDraft(q) \/ RefuseConfirmation(q) \/ Decide(q) \/ Claim(q)
  \/ Execute(q) \/ RefuseExecution(q) \/ Fail(q) \/ Checkpoint(q)
  \/ Verify(q) \/ Mistrust(q) \/ Learn(q) \/ Doubt(q) \/ Complete(q)

Next ==
  \/ \E q \in Request, a \in Action :
       \/ \E p \in Plan : ReuseDraft(q, a, p) \/ MissDraft(q, a, p)
       \/ ReadAction(q, a)
  \/ \E q \in Request : Advance(q)
  \/ \E q \in Mortal : Die(q)

Spec == Init /\ [][Next]_vars

=============================================================================
