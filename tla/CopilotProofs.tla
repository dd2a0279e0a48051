----------------------------- MODULE CopilotProofs -----------------------------
(***************************************************************************)
(* Proofs about the life of a Copilot action, for any number of actions,   *)
(* requests and deaths.  The invariant ties what each request believes to  *)
(* the row it is about: only one request at a time stands between the      *)
(* claim of a row and the record of its result (OneClaimant), what it sees *)
(* there nobody else can change (RequestSound), and the row, the ERP and   *)
(* the usage counts agree (RowSound).                                      *)
(***************************************************************************)
EXTENDS CopilotProperties, TLAPS

\* An action without a result took effect at most once, one with a result
\* exactly once, and a draft never; the counts of a slip follow its result.
RowSound(a) ==
  /\ row[a].status \in {"absent", "DRAFT"} =>
       effect[a] = 0 /\ row[a].result = NoResult
  /\ row[a].status = "FAILED" => row[a].result = NoResult
  /\ row[a].status = "EXECUTED" => row[a].result # NoResult
  /\ row[a].result # NoResult => row[a].result = 1 /\ effect[a] = 1
  /\ effect[a] <= 1
  /\ taught[a] <= 1
  /\ taught[a] = 1 => a \in Slip /\ row[a].result # NoResult
  /\ row[a].status = "EXECUTED" /\ a \in Slip => taught[a] = 1

\* Between the claim of a row and the record of its result.
Claiming(q) == at[q] \in {"executing", "checkpointing", "failing"}
\* The result is on record.
After(q) == at[q] \in {"verifying", "learning", "doubting", "completing"}

\* What a request relies on at each place.
RequestSound(q) ==
  /\ Claiming(q) => Mine(q).status = "CONFIRMED" /\ Mine(q).result = NoResult
  /\ at[q] = "executing" =>
       effect[memory[q].action] = 0 /\ memory[q].status = "CONFIRMED"
  /\ at[q] = "checkpointing" =>
       /\ effect[memory[q].action] = 1
       /\ memory[q].result = 1
       /\ memory[q].status = "CONFIRMED"
  /\ at[q] = "checking" =>
       /\ memory[q].result # NoResult => Mine(q).result = memory[q].result
       /\ memory[q].status = "EXECUTED" => memory[q].result # NoResult
  /\ After(q) \/ at[q] = "completed" =>
       /\ Mine(q).result # NoResult
       /\ Mine(q).result = memory[q].result
  /\ After(q) => memory[q].status \in {"CONFIRMED", "EXECUTED"}
  /\ at[q] = "learning" => memory[q].action \in Slip
  /\ at[q] = "completing" /\ memory[q].action \in Slip =>
       taught[memory[q].action] = 1
  /\ at[q] = "drafted" => /\ Mine(q).status # "absent"
                          /\ Mine(q).plan = memory[q].plan

OneClaimant ==
  \A q, s \in Request :
    /\ Claiming(q) /\ Claiming(s)
    /\ memory[q].action = memory[s].action
    => q = s

IInv == /\ TypeOK
        /\ \A a \in Action : RowSound(a)
        /\ \A q \in Request : RequestSound(q)
        /\ OneClaimant

-----------------------------------------------------------------------------
(* What the writes of a step do to one row, one place and one memory *)

\* A status update keeps the plan and the result of the row, and other rows.
LEMMA StatusSet ==
  ASSUME TypeOK, NEW q \in Request, NEW s \in Status, SetStatus(q, s)
  PROVE  /\ row' \in [Action -> Row]
         /\ \A b \in Action :
              /\ row'[b].plan = row[b].plan
              /\ row'[b].result = row[b].result
              /\ row'[b].status = IF b = memory[q].action THEN s
                                                          ELSE row[b].status
<1>1. memory[q].action \in Action
  BY DEF TypeOK, Memory
<1>2. row' = [row EXCEPT ![memory[q].action] =
                [row[memory[q].action] EXCEPT !.status = s]]
  BY DEF SetStatus
<1>3. \A r \in Row : [r EXCEPT !.status = s] \in Row
  BY DEF Row
<1>4. row' \in [Action -> Row]
  BY <1>1, <1>2, <1>3 DEF TypeOK
<1>. QED
  BY <1>1, <1>2, <1>4 DEF TypeOK, Row

\* Recording a result keeps the plan and the status of the row, and other rows.
LEMMA ResultSet ==
  ASSUME TypeOK, NEW q \in Request, NEW n \in Nat, SetResult(q, n)
  PROVE  /\ row' \in [Action -> Row]
         /\ \A b \in Action :
              /\ row'[b].plan = row[b].plan
              /\ row'[b].status = row[b].status
              /\ row'[b].result = IF b = memory[q].action THEN n
                                                          ELSE row[b].result
<1>1. memory[q].action \in Action
  BY DEF TypeOK, Memory
<1>2. row' = [row EXCEPT ![memory[q].action] =
                [row[memory[q].action] EXCEPT !.result = n]]
  BY DEF SetResult
<1>3. \A r \in Row : [r EXCEPT !.result = n] \in Row
  BY DEF Row
<1>4. row' \in [Action -> Row]
  BY <1>1, <1>2, <1>3 DEF TypeOK
<1>. QED
  BY <1>1, <1>2, <1>4 DEF TypeOK, Row

\* A request that moves keeps to the places there are, and no other moves.
LEMMA Moved ==
  ASSUME TypeOK, NEW q \in Request, NEW from, NEW to \in Place, Go(q, from, to)
  PROVE  /\ at' \in [Request -> Place]
         /\ at[q] = from
         /\ \A s \in Request : at'[s] = IF s = q THEN to ELSE at[s]
  BY DEF TypeOK, Go

\* A draft request remembers its action and its plan.
LEMMA Remembered ==
  ASSUME TypeOK, NEW q \in Request, NEW a \in Action, NEW p \in Plan,
         memory' = [memory EXCEPT ![q].action = a, ![q].plan = p]
  PROVE  /\ memory' \in [Request -> Memory]
         /\ memory'[q].action = a /\ memory'[q].plan = p
         /\ \A s \in Request \ {q} : memory'[s] = memory[s]
<1>1. memory' = [memory EXCEPT ![q] =
                   [memory[q] EXCEPT !.action = a, !.plan = p]]
  OBVIOUS
<1>2. [memory[q] EXCEPT !.action = a, !.plan = p] \in Memory
  BY DEF TypeOK, Memory
<1>. QED
  BY <1>1, <1>2 DEF TypeOK, Memory

\* A request remembers the status it set.
LEMMA NotedStatus ==
  ASSUME TypeOK, NEW q \in Request, NEW s \in Status,
         memory' = [memory EXCEPT ![q].status = s]
  PROVE  /\ memory' \in [Request -> Memory]
         /\ memory'[q].action = memory[q].action
         /\ memory'[q].plan = memory[q].plan
         /\ memory'[q].status = s
         /\ memory'[q].result = memory[q].result
         /\ \A r \in Request \ {q} : memory'[r] = memory[r]
<1>1. memory[q] \in Memory
  BY DEF TypeOK
<1>2. memory' = [memory EXCEPT ![q] = [memory[q] EXCEPT !.status = s]]
  OBVIOUS
<1>3. [memory[q] EXCEPT !.status = s] \in Memory
  BY <1>1 DEF Memory
<1>4. memory' \in [Request -> Memory]
  BY <1>2, <1>3 DEF TypeOK
<1>5. /\ memory'[q] = [memory[q] EXCEPT !.status = s]
      /\ \A r \in Request \ {q} : memory'[r] = memory[r]
  BY <1>2 DEF TypeOK
<1>6. /\ memory'[q].action = memory[q].action
      /\ memory'[q].plan = memory[q].plan
      /\ memory'[q].status = s
      /\ memory'[q].result = memory[q].result
  BY <1>1, <1>5 DEF Memory
<1>. QED
  BY <1>4, <1>5, <1>6

\* A request remembers the result it was given.
LEMMA NotedResult ==
  ASSUME TypeOK, NEW q \in Request, NEW n \in Nat,
         memory' = [memory EXCEPT ![q].result = n]
  PROVE  /\ memory' \in [Request -> Memory]
         /\ memory'[q].action = memory[q].action
         /\ memory'[q].plan = memory[q].plan
         /\ memory'[q].result = n
         /\ memory'[q].status = memory[q].status
         /\ \A r \in Request \ {q} : memory'[r] = memory[r]
<1>1. memory[q] \in Memory
  BY DEF TypeOK
<1>2. memory' = [memory EXCEPT ![q] = [memory[q] EXCEPT !.result = n]]
  OBVIOUS
<1>3. [memory[q] EXCEPT !.result = n] \in Memory
  BY <1>1 DEF Memory
<1>4. memory' \in [Request -> Memory]
  BY <1>2, <1>3 DEF TypeOK
<1>5. /\ memory'[q] = [memory[q] EXCEPT !.result = n]
      /\ \A r \in Request \ {q} : memory'[r] = memory[r]
  BY <1>2 DEF TypeOK
<1>6. /\ memory'[q].action = memory[q].action
      /\ memory'[q].plan = memory[q].plan
      /\ memory'[q].result = n
      /\ memory'[q].status = memory[q].status
  BY <1>1, <1>5 DEF Memory
<1>. QED
  BY <1>4, <1>5, <1>6

-----------------------------------------------------------------------------
(* Every step keeps the invariant *)

\* A refused confirmation gives up before it claims anything.
LEMMA RefuseConfirmationKeeps == ASSUME IInv, NEW q \in Request, RefuseConfirmation(q) PROVE IInv'
<1>1. TypeOK'
  BY DEF RefuseConfirmation, Go, IInv, TypeOK, Place
<1>2. ASSUME NEW b \in Action PROVE RowSound(b)'
  BY DEF RefuseConfirmation, Go, IInv, RowSound
<1>3. ASSUME NEW s \in Request PROVE RequestSound(s)'
  BY DEF RefuseConfirmation, Go, IInv, TypeOK, RequestSound, Claiming, After, Mine, Memory
<1>4. OneClaimant'
  BY DEF RefuseConfirmation, Go, IInv, TypeOK, OneClaimant, Claiming
<1>. QED
  BY <1>1, <1>2, <1>3, <1>4 DEF IInv

\* What was read decides, and a result that was read is still on record.
LEMMA DecideKeeps == ASSUME IInv, NEW q \in Request, Decide(q) PROVE IInv'
<1>1. TypeOK'
  BY DEF Decide, Go, IInv, TypeOK, Place
<1>2. ASSUME NEW b \in Action PROVE RowSound(b)'
  BY DEF Decide, Go, IInv, RowSound
<1>3. ASSUME NEW s \in Request PROVE RequestSound(s)'
  BY DEF Decide, Go, IInv, TypeOK, RequestSound, Claiming, After, Mine, Memory
<1>4. OneClaimant'
  BY DEF Decide, Go, IInv, TypeOK, OneClaimant, Claiming
<1>. QED
  BY <1>1, <1>2, <1>3, <1>4 DEF IInv

\* A refused ERP call leaves the claim with its request.
LEMMA RefuseExecutionKeeps == ASSUME IInv, NEW q \in Request, RefuseExecution(q) PROVE IInv'
<1>1. TypeOK'
  BY DEF RefuseExecution, Go, IInv, TypeOK, Place
<1>2. ASSUME NEW b \in Action PROVE RowSound(b)'
  BY DEF RefuseExecution, Go, IInv, RowSound
<1>3. ASSUME NEW s \in Request PROVE RequestSound(s)'
  BY DEF RefuseExecution, Go, IInv, TypeOK, RequestSound, Claiming, After, Mine, Memory
<1>4. OneClaimant'
  BY DEF RefuseExecution, Go, IInv, TypeOK, OneClaimant, Claiming
<1>. QED
  BY <1>1, <1>2, <1>3, <1>4 DEF IInv

\* Verifying reads only.
LEMMA VerifyKeeps == ASSUME IInv, NEW q \in Request, Verify(q) PROVE IInv'
<1>1. TypeOK'
  BY DEF Verify, Go, Verified, IInv, TypeOK, Place
<1>2. ASSUME NEW b \in Action PROVE RowSound(b)'
  BY DEF Verify, Go, Verified, IInv, RowSound
<1>3. ASSUME NEW s \in Request PROVE RequestSound(s)'
  BY DEF Verify, Go, Verified, IInv, TypeOK, RequestSound, Claiming, After, Mine, Memory
<1>4. OneClaimant'
  BY DEF Verify, Go, Verified, IInv, TypeOK, OneClaimant, Claiming
<1>. QED
  BY <1>1, <1>2, <1>3, <1>4 DEF IInv

\* So does a verification that fails.
LEMMA MistrustKeeps == ASSUME IInv, NEW q \in Request, Mistrust(q) PROVE IInv'
<1>1. TypeOK'
  BY DEF Mistrust, Go, IInv, TypeOK, Place
<1>2. ASSUME NEW b \in Action PROVE RowSound(b)'
  BY DEF Mistrust, Go, IInv, RowSound
<1>3. ASSUME NEW s \in Request PROVE RequestSound(s)'
  BY DEF Mistrust, Go, IInv, TypeOK, RequestSound, Claiming, After, Mine, Memory
<1>4. OneClaimant'
  BY DEF Mistrust, Go, IInv, TypeOK, OneClaimant, Claiming
<1>. QED
  BY <1>1, <1>2, <1>3, <1>4 DEF IInv

\* A request that dies leaves a claim that nobody holds.
LEMMA DieKeeps == ASSUME IInv, NEW q \in Request, Die(q) PROVE IInv'
<1>1. TypeOK'
  BY DEF Die, Over, IInv, TypeOK, Place
<1>2. ASSUME NEW b \in Action PROVE RowSound(b)'
  BY DEF Die, Over, IInv, RowSound
<1>3. ASSUME NEW s \in Request PROVE RequestSound(s)'
  BY DEF Die, Over, IInv, TypeOK, RequestSound, Claiming, After, Mine, Memory
<1>4. OneClaimant'
  BY DEF Die, Over, IInv, TypeOK, OneClaimant, Claiming
<1>. QED
  BY <1>1, <1>2, <1>3, <1>4 DEF IInv

\* What a confirmation reads is the row as it is.
LEMMA ReadActionKeeps ==
  ASSUME IInv, NEW q \in Request, NEW a \in Action, ReadAction(q, a) PROVE IInv'
<1>1. TypeOK'
  BY DEF ReadAction, IInv, TypeOK, Place, Row, Status, Memory
<1>2. ASSUME NEW b \in Action PROVE RowSound(b)'
  BY DEF ReadAction, IInv, RowSound
<1>3. ASSUME NEW s \in Request PROVE RequestSound(s)'
  BY DEF ReadAction, IInv, TypeOK, RowSound, RequestSound, Claiming, After, Mine
<1>4. OneClaimant'
  BY DEF ReadAction, IInv, TypeOK, OneClaimant, Claiming
<1>. QED
  BY <1>1, <1>2, <1>3, <1>4 DEF IInv

\* A draft that is there is handed out only to its own plan.
LEMMA ReuseDraftKeeps ==
  ASSUME IInv, NEW q \in Request, NEW a \in Action, NEW p \in Plan,
         ReuseDraft(q, a, p)
  PROVE  IInv'
<1>1. /\ memory' \in [Request -> Memory]
      /\ memory'[q].action = a /\ memory'[q].plan = p
      /\ \A s \in Request \ {q} : memory'[s] = memory[s]
  BY Remembered DEF ReuseDraft, IInv
<1>2. TypeOK'
  BY <1>1 DEF ReuseDraft, IInv, TypeOK, Place
<1>3. ASSUME NEW b \in Action PROVE RowSound(b)'
  BY DEF ReuseDraft, IInv, RowSound
<1>4. ASSUME NEW s \in Request PROVE RequestSound(s)'
  <2>1. CASE s = q
    <3>1. /\ UNCHANGED row
          /\ row[a].status # "absent"
          /\ at'[q] = IF row[a].plan = p THEN "drafted" ELSE "idle"
      BY DEF ReuseDraft, IInv, TypeOK
    <3>. QED
      BY <1>1, <2>1, <3>1 DEF RequestSound, Claiming, After, Mine
  <2>2. CASE s # q
    <3>1. /\ UNCHANGED <<row, effect, taught>> /\ at'[s] = at[s]
          /\ memory'[s] = memory[s] /\ RequestSound(s)
      BY <1>1, <2>2 DEF ReuseDraft, IInv, TypeOK
    <3>. QED
      BY <3>1 DEF RequestSound, Claiming, After, Mine
  <2>. QED
    BY <2>1, <2>2
<1>5. OneClaimant'
  BY <1>1 DEF ReuseDraft, IInv, TypeOK, OneClaimant, Claiming
<1>. QED
  BY <1>2, <1>3, <1>4, <1>5 DEF IInv

\* A request that misses a draft holds no claim.
LEMMA MissDraftKeeps ==
  ASSUME IInv, NEW q \in Request, NEW a \in Action, NEW p \in Plan,
         MissDraft(q, a, p)
  PROVE  IInv'
<1>1. /\ memory' \in [Request -> Memory]
      /\ memory'[q].action = a /\ memory'[q].plan = p
      /\ \A s \in Request \ {q} : memory'[s] = memory[s]
  BY Remembered DEF MissDraft, IInv
<1>2. TypeOK'
  BY <1>1 DEF MissDraft, IInv, TypeOK, Place
<1>3. ASSUME NEW b \in Action PROVE RowSound(b)'
  BY DEF MissDraft, IInv, RowSound
<1>4. ASSUME NEW s \in Request PROVE RequestSound(s)'
  <2>1. CASE s = q
    <3>1. at'[q] = "inserting"
      BY DEF MissDraft, IInv, TypeOK
    <3>. QED
      BY <1>1, <2>1, <3>1 DEF RequestSound, Claiming, After, Mine
  <2>2. CASE s # q
    <3>1. /\ UNCHANGED <<row, effect, taught>> /\ at'[s] = at[s]
          /\ memory'[s] = memory[s] /\ RequestSound(s)
      BY <1>1, <2>2 DEF MissDraft, IInv, TypeOK
    <3>. QED
      BY <3>1 DEF RequestSound, Claiming, After, Mine
  <2>. QED
    BY <2>1, <2>2
<1>5. OneClaimant'
  BY <1>1 DEF MissDraft, IInv, TypeOK, OneClaimant, Claiming
<1>. QED
  BY <1>2, <1>3, <1>4, <1>5 DEF IInv

\* Of several inserts of one draft the first one counts.
LEMMA InsertDraftKeeps ==
  ASSUME IInv, NEW q \in Request, InsertDraft(q) PROVE IInv'
<1>0. memory[q].action \in Action /\ memory[q].plan \in Plan \cup {NoPlan}
  BY DEF IInv, TypeOK, Memory
<1>1. [status |-> "DRAFT", plan |-> memory[q].plan, result |-> NoResult] \in Row
  BY <1>0 DEF Row, Status, NoResult
<1>2. TypeOK'
  BY <1>0, <1>1 DEF InsertDraft, Go, IInv, TypeOK, Place
<1>3. ASSUME NEW b \in Action PROVE RowSound(b)'
  BY <1>0 DEF InsertDraft, Mine, IInv, TypeOK, RowSound
<1>4. ASSUME NEW s \in Request PROVE RequestSound(s)'
  BY <1>0 DEF InsertDraft, Go, IInv, TypeOK, RowSound, RequestSound, Claiming,
              After, Mine, Memory, NoResult
<1>5. OneClaimant'
  BY DEF InsertDraft, Go, IInv, TypeOK, OneClaimant, Claiming
<1>. QED
  BY <1>2, <1>3, <1>4, <1>5 DEF IInv

\* The claim of a draft: nobody else can be at work on it.
LEMMA ClaimKeeps == ASSUME IInv, NEW q \in Request, Claim(q) PROVE IInv'
<1>0. memory[q].action \in Action
  BY DEF IInv, TypeOK, Memory
<1>1. CASE Mine(q).status = "DRAFT"
  <2>1. /\ at' \in [Request -> Place]
        /\ at[q] = "claiming"
        /\ \A s \in Request : at'[s] = IF s = q THEN "executing" ELSE at[s]
    <3>1. Go(q, "claiming", "executing") /\ "executing" \in Place
      BY <1>1 DEF Claim, Place
    <3>. QED
      BY <3>1, Moved DEF IInv
  <2>2. /\ row' \in [Action -> Row]
        /\ \A b \in Action :
             /\ row'[b].plan = row[b].plan
             /\ row'[b].result = row[b].result
             /\ row'[b].status = IF b = memory[q].action THEN "CONFIRMED"
                                                         ELSE row[b].status
    <3>1. SetStatus(q, "CONFIRMED") /\ "CONFIRMED" \in Status
      BY <1>1 DEF Claim, Status
    <3>. QED
      BY <3>1, StatusSet DEF IInv
  <2>3. /\ memory' \in [Request -> Memory]
        /\ memory'[q].action = memory[q].action
        /\ memory'[q].status = "CONFIRMED"
        /\ memory'[q].result = memory[q].result
        /\ \A s \in Request \ {q} : memory'[s] = memory[s]
    <3>1. /\ memory' = [memory EXCEPT ![q].status = "CONFIRMED"]
          /\ "CONFIRMED" \in Status /\ memory[q].result \in Nat
      BY <1>1 DEF Claim, Status, IInv, TypeOK, Memory
    <3>. QED
      BY <3>1, NotedStatus DEF IInv
  <2>4. UNCHANGED <<effect, taught>>
    BY DEF Claim
  <2>5. TypeOK'
    BY <2>1, <2>2, <2>3, <2>4 DEF IInv, TypeOK
  <2>6. ASSUME NEW b \in Action PROVE RowSound(b)'
    BY <1>0, <1>1, <2>2, <2>4 DEF IInv, RowSound, Mine
  <2>7. ASSUME NEW s \in Request PROVE RequestSound(s)'
    <3>1. memory[s].action \in Action
      BY DEF IInv, TypeOK, Memory
    <3>2. memory'[s].action = memory[s].action
      BY <2>3
    <3>3. CASE s = q
      BY <1>0, <1>1, <2>1, <2>2, <2>3, <2>4, <3>3
         DEF IInv, RowSound, RequestSound, Claiming, After, Mine
    <3>4. CASE s # q
      BY <1>1, <2>1, <2>2, <2>3, <2>4, <3>1, <3>4
         DEF IInv, RowSound, RequestSound, Claiming, After, Mine
    <3>. QED
      BY <3>3, <3>4
  <2>8. OneClaimant'
    BY <1>1, <2>1, <2>3 DEF IInv, OneClaimant, RequestSound, Claiming, Mine
  <2>. QED
    BY <2>5, <2>6, <2>7, <2>8 DEF IInv
<1>2. CASE Mine(q).status # "DRAFT"
  <2>1. TypeOK'
    BY <1>2 DEF Claim, Go, IInv, TypeOK, Place
  <2>2. ASSUME NEW b \in Action PROVE RowSound(b)'
    BY <1>2 DEF Claim, IInv, RowSound
  <2>3. ASSUME NEW s \in Request PROVE RequestSound(s)'
    BY <1>2 DEF Claim, Go, IInv, TypeOK, RequestSound, Claiming, After, Mine
  <2>4. OneClaimant'
    BY <1>2 DEF Claim, Go, IInv, TypeOK, OneClaimant, Claiming
  <2>. QED
    BY <2>1, <2>2, <2>3, <2>4 DEF IInv
<1>. QED
  BY <1>1, <1>2

\* The ERP call of the one claimant takes effect for the first time.
LEMMA ExecuteKeeps == ASSUME IInv, NEW q \in Request, Execute(q) PROVE IInv'
<1>. DEFINE a == memory[q].action
<1>0. /\ a \in Action /\ at[q] = "executing" /\ UNCHANGED <<row, taught>>
      /\ effect[a] = 0 /\ Mine(q).status = "CONFIRMED"
      /\ Mine(q).result = NoResult /\ memory[q].status = "CONFIRMED"
  BY DEF IInv, TypeOK, Memory, Execute, Go, RequestSound, Claiming
<1>1. effect' \in [Action -> Nat]
      /\ \A b \in Action : effect'[b] = IF b = a THEN 1 ELSE effect[b]
  BY <1>0 DEF Execute, IInv, TypeOK
<1>2. /\ memory' \in [Request -> Memory]
      /\ memory'[q].action = a /\ memory'[q].status = "CONFIRMED"
      /\ \A s \in Request \ {q} : memory'[s] = memory[s]
      /\ at' \in [Request -> Place]
      /\ \A s \in Request \ {q} : at'[s] = at[s]
      /\ \/ at'[q] = "checkpointing" /\ memory'[q].result = 1
         \/ at'[q] = "failing"
  <2>1. CASE Go(q, "executing", "checkpointing")
             /\ memory' = [memory EXCEPT ![q].result = effect[a] + 1]
    <3>0. effect[a] + 1 = 1
      BY <1>0
    <3>1. /\ memory' = [memory EXCEPT ![q].result = 1]
          /\ "CONFIRMED" \in Status /\ 1 \in Nat
          /\ memory[q].status = "CONFIRMED"
          /\ TypeOK
      <4>1. memory' = [memory EXCEPT ![q].result = 1]
        BY <2>1, <3>0
      <4>2. "CONFIRMED" \in Status /\ 1 \in Nat
        BY DEF Status
      <4>3. memory[q].status = "CONFIRMED" /\ TypeOK
        BY <1>0 DEF IInv
      <4>. QED
        BY <4>1, <4>2, <4>3
    <3>2. "checkpointing" \in Place
      BY DEF Place
    <3>3. /\ memory' \in [Request -> Memory]
          /\ memory'[q].action = a /\ memory'[q].status = memory[q].status
          /\ memory'[q].result = 1
          /\ \A s \in Request \ {q} : memory'[s] = memory[s]
      BY <3>1, NotedResult
    <3>4. /\ at' \in [Request -> Place] /\ at'[q] = "checkpointing"
          /\ \A s \in Request \ {q} : at'[s] = at[s]
      BY <2>1, <3>2, Moved DEF IInv
    <3>. QED
      BY <1>0, <3>3, <3>4
  <2>2. CASE Go(q, "executing", "failing") /\ UNCHANGED memory
    <3>1. "failing" \in Place
      BY DEF Place
    <3>. QED
      BY <1>0, <2>2, <3>1, Moved DEF IInv, TypeOK
  <2>. QED
    BY <2>1, <2>2 DEF Execute
<1>3. TypeOK'
  BY <1>0, <1>1, <1>2 DEF IInv, TypeOK
<1>4. ASSUME NEW b \in Action PROVE RowSound(b)'
  BY <1>0, <1>1 DEF IInv, RowSound, Mine
<1>5. ASSUME NEW s \in Request PROVE RequestSound(s)'
  <2>1. CASE s = q
    BY <1>0, <1>1, <1>2, <2>1 DEF RequestSound, Claiming, After, Mine
  <2>2. CASE s # q
    <3>1. memory[s].action \in Action
      BY DEF IInv, TypeOK, Memory
    <3>2. Claiming(s) => memory[s].action # a
      BY <1>0, <2>2 DEF IInv, OneClaimant, Claiming
    <3>. QED
      BY <1>0, <1>1, <1>2, <2>2, <3>1, <3>2
         DEF IInv, RequestSound, Claiming, After, Mine
  <2>. QED
    BY <2>1, <2>2
<1>6. OneClaimant'
  BY <1>0, <1>2 DEF IInv, OneClaimant, Claiming
<1>. QED
  BY <1>3, <1>4, <1>5, <1>6 DEF IInv

\* The one claimant gives its claim up, and the row has no result.
LEMMA FailKeeps == ASSUME IInv, NEW q \in Request, Fail(q) PROVE IInv'
<1>. DEFINE a == memory[q].action
<1>0. /\ a \in Action /\ UNCHANGED <<effect, taught, memory>>
      /\ at[q] = "failing" /\ Mine(q).status = "CONFIRMED"
      /\ Mine(q).result = NoResult
  BY DEF IInv, TypeOK, Memory, Fail, Go, RequestSound, Claiming
<1>1. /\ at' \in [Request -> Place]
      /\ \A s \in Request : at'[s] = IF s = q THEN "idle" ELSE at[s]
  <2>1. Go(q, "failing", "idle") /\ "idle" \in Place
    BY DEF Fail, Place
  <2>. QED
    BY <2>1, Moved DEF IInv
<1>2. /\ row' \in [Action -> Row]
      /\ \A b \in Action :
           /\ row'[b].plan = row[b].plan
           /\ row'[b].result = row[b].result
           /\ row'[b].status = IF b = a THEN "FAILED" ELSE row[b].status
  <2>1. SetStatus(q, "FAILED") /\ "FAILED" \in Status
    BY <1>0 DEF Fail, Status
  <2>. QED
    BY <2>1, StatusSet DEF IInv
<1>3. TypeOK'
  BY <1>0, <1>1, <1>2 DEF IInv, TypeOK
<1>4. ASSUME NEW b \in Action PROVE RowSound(b)'
  BY <1>0, <1>2 DEF IInv, RowSound, Mine
<1>5. ASSUME NEW s \in Request PROVE RequestSound(s)'
  <2>1. memory[s].action \in Action
    BY DEF IInv, TypeOK, Memory
  <2>2. CASE s = q
    BY <1>0, <1>1, <2>2 DEF RequestSound, Claiming, After
  <2>3. CASE s # q
    <3>1. Claiming(s) => memory[s].action # a
      BY <1>0, <2>3 DEF IInv, OneClaimant, Claiming
    <3>. QED
      BY <1>0, <1>1, <1>2, <2>1, <2>3, <3>1
         DEF IInv, RequestSound, Claiming, After, Mine
  <2>. QED
    BY <2>2, <2>3
<1>6. OneClaimant'
  BY <1>0, <1>1 DEF IInv, OneClaimant, Claiming
<1>. QED
  BY <1>3, <1>4, <1>5, <1>6 DEF IInv

\* The one claimant records the result of the document it made.
LEMMA CheckpointKeeps ==
  ASSUME IInv, NEW q \in Request, Checkpoint(q) PROVE IInv'
<1>. DEFINE a == memory[q].action
<1>0. /\ a \in Action /\ UNCHANGED <<effect, taught, memory>>
      /\ at[q] = "checkpointing" /\ Mine(q).status = "CONFIRMED"
      /\ Mine(q).result = NoResult /\ effect[a] = 1
      /\ memory[q].result = 1 /\ memory[q].status = "CONFIRMED"
  BY DEF IInv, TypeOK, Memory, Checkpoint, Go, RequestSound, Claiming
<1>1. /\ at' \in [Request -> Place]
      /\ \A s \in Request : at'[s] = IF s = q THEN "verifying" ELSE at[s]
  <2>1. Go(q, "checkpointing", "verifying") /\ "verifying" \in Place
    BY <1>0 DEF Checkpoint, Place
  <2>. QED
    BY <2>1, Moved DEF IInv
<1>2. /\ row' \in [Action -> Row]
      /\ \A b \in Action :
           /\ row'[b].plan = row[b].plan
           /\ row'[b].status = row[b].status
           /\ row'[b].result = IF b = a THEN 1 ELSE row[b].result
  <2>1. SetResult(q, 1) /\ 1 \in Nat
    BY <1>0 DEF Checkpoint
  <2>. QED
    BY <2>1, ResultSet DEF IInv
<1>3. TypeOK'
  BY <1>0, <1>1, <1>2 DEF IInv, TypeOK
<1>4. ASSUME NEW b \in Action PROVE RowSound(b)'
  BY <1>0, <1>2 DEF IInv, RowSound, Mine, NoResult
<1>5. ASSUME NEW s \in Request PROVE RequestSound(s)'
  <2>1. memory[s].action \in Action
    BY DEF IInv, TypeOK, Memory
  <2>2. CASE s = q
    BY <1>0, <1>1, <1>2, <2>2 DEF RequestSound, Claiming, After, Mine, NoResult
  <2>3. CASE s # q
    <3>1. Claiming(s) => memory[s].action # a
      BY <1>0, <2>3 DEF IInv, OneClaimant, Claiming
    <3>. QED
      BY <1>0, <1>1, <1>2, <2>1, <2>3, <3>1
         DEF IInv, RequestSound, Claiming, After, Mine
  <2>. QED
    BY <2>2, <2>3
<1>6. OneClaimant'
  BY <1>0, <1>1 DEF IInv, OneClaimant, Claiming
<1>. QED
  BY <1>3, <1>4, <1>5, <1>6 DEF IInv

\* An action has been learned from or not.
LEMMA TaughtBit ==
  ASSUME IInv, NEW b \in Action PROVE taught[b] \in {0, 1}
<1>1. RowSound(b) /\ taught[b] \in Nat
  BY DEF IInv, TypeOK
<1>2. taught[b] <= 1
  BY <1>1 DEF RowSound
<1>. QED
  BY <1>1, <1>2

\* A slip is learned from once its result is on record.
LEMMA LearnKeeps == ASSUME IInv, NEW q \in Request, Learn(q) PROVE IInv'
<1>. DEFINE a == memory[q].action
<1>0. /\ a \in Action /\ UNCHANGED <<row, effect, memory>>
      /\ at[q] = "learning" /\ a \in Slip
      /\ Mine(q).result # NoResult /\ Mine(q).result = memory[q].result
      /\ memory[q].status \in {"CONFIRMED", "EXECUTED"}
  BY DEF IInv, TypeOK, Memory, Learn, Go, RequestSound, After
<1>1. /\ at' \in [Request -> Place]
      /\ \A s \in Request \ {q} : at'[s] = at[s]
      /\ \/ at'[q] \in {"completing", "completed"} /\ taught'[a] = 1
         \/ at'[q] = "doubting"
      /\ taught' \in [Action -> Nat]
      /\ \A b \in Action : taught'[b] = taught[b] \/ (b = a /\ taught'[b] = 1)
  <2>1. ASSUME NEW to \in {Verified(q), "doubting"}, Go(q, "learning", to),
               taught' = [taught EXCEPT ![a] = IF @ = 0 THEN 1 ELSE @]
        PROVE  /\ at' \in [Request -> Place]
               /\ \A s \in Request \ {q} : at'[s] = at[s]
               /\ \/ at'[q] \in {"completing", "completed"} /\ taught'[a] = 1
                  \/ at'[q] = "doubting"
               /\ taught' \in [Action -> Nat]
               /\ \A b \in Action :
                    taught'[b] = taught[b] \/ (b = a /\ taught'[b] = 1)
    <3>1. to \in Place /\ to \in {"completing", "completed", "doubting"}
      BY <2>1 DEF Verified, Place
    <3>2. taught[a] \in {0, 1}
      BY <1>0, TaughtBit
    <3>3. /\ at' \in [Request -> Place]
          /\ \A s \in Request : at'[s] = IF s = q THEN to ELSE at[s]
      BY <2>1, <3>1, Moved DEF IInv
    <3>4. taught \in [Action -> Nat] /\ taught' = [taught EXCEPT ![a] = 1]
      BY <1>0, <2>1, <3>2 DEF IInv, TypeOK
    <3>5. /\ taught'[a] = 1 /\ taught' \in [Action -> Nat]
          /\ \A b \in Action : taught'[b] = taught[b] \/ (b = a /\ taught'[b] = 1)
      BY <1>0, <3>4
    <3>. QED
      BY <3>1, <3>3, <3>5
  <2>2. CASE Go(q, "learning", "doubting") /\ UNCHANGED taught
    <3>1. "doubting" \in Place
      BY DEF Place
    <3>2. /\ at' \in [Request -> Place]
          /\ \A s \in Request : at'[s] = IF s = q THEN "doubting" ELSE at[s]
      BY <2>2, <3>1, Moved DEF IInv
    <3>. QED
      BY <2>2, <3>2 DEF IInv, TypeOK
  <2>. QED
    BY <2>1, <2>2 DEF Learn, Teach
<1>2. TypeOK'
  BY <1>0, <1>1 DEF IInv, TypeOK
<1>3. ASSUME NEW b \in Action PROVE RowSound(b)'
  BY <1>0, <1>1 DEF IInv, RowSound, Mine
<1>4. ASSUME NEW s \in Request PROVE RequestSound(s)'
  <2>1. memory[s].action \in Action
    BY DEF IInv, TypeOK, Memory
  <2>2. CASE s = q
    BY <1>0, <1>1, <2>2 DEF RequestSound, Claiming, After, Mine
  <2>3. CASE s # q
    BY <1>0, <1>1, <2>1, <2>3 DEF IInv, RequestSound, Claiming, After, Mine
  <2>. QED
    BY <2>2, <2>3
<1>5. OneClaimant'
  BY <1>0, <1>1 DEF IInv, OneClaimant, Claiming
<1>. QED
  BY <1>2, <1>3, <1>4, <1>5 DEF IInv

\* Doubting and completing rewrite the status of a row whose result is on
\* record, which no claimant can be at work on.
LEMMA SettledRowKeeps ==
  ASSUME IInv, NEW q \in Request, NEW from, NEW to \in Place,
         NEW status \in {"CONFIRMED", "EXECUTED"},
         from \in {"doubting", "completing"}, Go(q, from, to),
         to \in {"idle", "completed"},
         status = "EXECUTED" => from = "completing",
         SetStatus(q, status) \/ UNCHANGED row,
         UNCHANGED <<effect, taught, memory>>
  PROVE  IInv'
<1>. DEFINE a == memory[q].action
<1>0. /\ a \in Action /\ at[q] = from
      /\ Mine(q).result # NoResult /\ Mine(q).result = memory[q].result
      /\ from = "completing" /\ a \in Slip => taught[a] = 1
  BY DEF IInv, TypeOK, Memory, Go, RequestSound, After
<1>1. /\ at' \in [Request -> Place]
      /\ \A s \in Request : at'[s] = IF s = q THEN to ELSE at[s]
  BY Moved DEF IInv
<1>2. /\ row' \in [Action -> Row]
      /\ \A b \in Action :
           /\ row'[b].plan = row[b].plan
           /\ row'[b].result = row[b].result
           /\ row'[b].status = row[b].status
              \/ (b = a /\ row'[b].status = status)
  <2>1. status \in Status
    BY DEF Status
  <2>2. CASE SetStatus(q, status)
    BY <2>1, <2>2, StatusSet DEF IInv
  <2>3. CASE UNCHANGED row
    BY <2>3 DEF IInv, TypeOK
  <2>. QED
    BY <2>2, <2>3
<1>3. TypeOK'
  BY <1>1, <1>2 DEF IInv, TypeOK
<1>4. ASSUME NEW b \in Action PROVE RowSound(b)'
  BY <1>0, <1>2 DEF IInv, RowSound, Mine
<1>5. ASSUME NEW s \in Request PROVE RequestSound(s)'
  <2>1. memory[s].action \in Action
    BY DEF IInv, TypeOK, Memory
  <2>2. CASE s = q
    BY <1>0, <1>1, <1>2, <2>2 DEF RequestSound, Claiming, After, Mine
  <2>3. CASE s # q
    <3>1. Claiming(s) => memory[s].action # a
      BY <1>0, <2>3 DEF IInv, RequestSound, Mine
    <3>. QED
      BY <1>0, <1>1, <1>2, <2>1, <2>3, <3>1
         DEF IInv, RequestSound, Claiming, After, Mine
  <2>. QED
    BY <2>2, <2>3
<1>6. OneClaimant'
  BY <1>0, <1>1 DEF IInv, OneClaimant, Claiming
<1>. QED
  BY <1>3, <1>4, <1>5, <1>6 DEF IInv

\* An action in doubt keeps its result and can be verified again.
LEMMA DoubtKeeps == ASSUME IInv, NEW q \in Request, Doubt(q) PROVE IInv'
<1>1. "idle" \in Place
  BY DEF Place
<1>. QED
  BY <1>1, SettledRowKeeps DEF Doubt

\* An action is EXECUTED only after its verification.
LEMMA CompleteKeeps == ASSUME IInv, NEW q \in Request, Complete(q) PROVE IInv'
<1>1. "idle" \in Place /\ "completed" \in Place
  BY DEF Place
<1>. QED
  BY <1>1, SettledRowKeeps DEF Complete

\* The invariant holds of the empty table.
LEMMA InitKeeps == Init => IInv
<1>. SUFFICES ASSUME Init PROVE IInv
  OBVIOUS
<1>1. (CHOOSE a \in Action : TRUE) \in Action
  BY ActionAssumption
<1>2. TypeOK
  BY <1>1 DEF Init, TypeOK, Row, Status, Place, Memory, NoResult
<1>3. ASSUME NEW a \in Action PROVE RowSound(a)
  BY DEF Init, RowSound
<1>4. ASSUME NEW q \in Request PROVE RequestSound(q)
  BY DEF Init, RequestSound, Claiming, After
<1>5. OneClaimant
  BY DEF Init, OneClaimant, Claiming
<1>. QED
  BY <1>2, <1>3, <1>4, <1>5 DEF IInv

\* Every step, and every stutter, keeps the invariant.
LEMMA NextKeeps == IInv /\ [Next]_vars => IInv'
<1>. SUFFICES ASSUME IInv, [Next]_vars PROVE IInv'
  OBVIOUS
<1>1. ASSUME NEW q \in Request, NEW a \in Action, NEW p \in Plan,
             ReuseDraft(q, a, p) \/ MissDraft(q, a, p)
      PROVE  IInv'
  BY <1>1, ReuseDraftKeeps, MissDraftKeeps
<1>2. ASSUME NEW q \in Request, NEW a \in Action, ReadAction(q, a) PROVE IInv'
  BY <1>2, ReadActionKeeps
<1>3. ASSUME NEW q \in Request, Advance(q) PROVE IInv'
  BY <1>3, InsertDraftKeeps, RefuseConfirmationKeeps, DecideKeeps, ClaimKeeps,
     ExecuteKeeps, RefuseExecutionKeeps, FailKeeps, CheckpointKeeps,
     VerifyKeeps, MistrustKeeps, LearnKeeps, DoubtKeeps, CompleteKeeps
     DEF Advance
<1>4. ASSUME NEW q \in Mortal, Die(q) PROVE IInv'
  BY <1>4, ActionAssumption, DieKeeps
<1>5. CASE UNCHANGED vars
  BY <1>5 DEF vars, IInv, TypeOK, RowSound, RequestSound, OneClaimant, Claiming,
              After, Mine
<1>. QED
  BY <1>1, <1>2, <1>3, <1>4, <1>5 DEF Next

\* The invariant holds in every behaviour.
LEMMA SpecKeeps == Spec => []IInv
  BY InitKeeps, NextKeeps, PTL DEF Spec

-----------------------------------------------------------------------------
(* The promise *)

PhaseNow == [a \in Action |-> Phase(row[a])]

\* Phase, case by case.
LEMMA PhaseOf ==
  ASSUME NEW r
  PROVE  /\ r.status = "absent" => Phase(r) = "none"
         /\ r.status = "DRAFT" => Phase(r) = "proposed"
         /\ r.status = "CONFIRMED" /\ r.result = NoResult => Phase(r) = "claimed"
         /\ r.status = "CONFIRMED" /\ r.result # NoResult => Phase(r) = "recorded"
         /\ r.status = "EXECUTED" => Phase(r) = "executed"
         /\ r.status = "FAILED" => Phase(r) = "abandoned"
  BY DEF Phase

\* A step that changes the phase of one action only is a turn of it.
LEMMA PhaseTurns ==
  ASSUME NEW a \in Action, NEW from, NEW to,
         Phase(row[a]) = from, Phase(row'[a]) = to,
         \A b \in Action \ {a} : Phase(row'[b]) = Phase(row[b])
  PROVE  Promise!Turn(a, from, to)
  BY DEF Promise!Turn

\* A row that keeps its status and its result keeps its phase.
LEMMA PhaseKept ==
  ASSUME TypeOK, TypeOK', NEW b \in Action,
         row'[b].status = row[b].status, row'[b].result = row[b].result
  PROVE  Phase(row'[b]) = Phase(row[b])
<1>1. row[b].status \in {"absent", "DRAFT", "CONFIRMED", "EXECUTED", "FAILED"}
  BY DEF TypeOK, Row, Status
<1>. QED
  BY <1>1, PhaseOf

\* The empty table promises nothing yet.
LEMMA InitPromises == Init => Promise!Init
<1>. SUFFICES ASSUME Init PROVE Promise!Init
  OBVIOUS
<1>1. \A a \in Action : Phase(row[a]) = "none"
  BY PhaseOf DEF Init
<1>. QED
  BY <1>1 DEF Init, Promise!Init

\* Every step is a step of the promise, or leaves phases and effects alone.
LEMMA StepPromises == IInv /\ IInv' /\ [Next]_vars => [Promise!Next]_Promise!vars
<1>. SUFFICES ASSUME IInv, IInv', [Next]_vars
              PROVE  Promise!Next \/ UNCHANGED Promise!vars
  OBVIOUS
<1>t. TypeOK /\ TypeOK' /\ \A q \in Request : memory[q].action \in Action
  BY DEF IInv, TypeOK, Memory
<1>s. (UNCHANGED row /\ UNCHANGED effect) => UNCHANGED Promise!vars
  BY DEF Promise!vars
<1>1. ASSUME NEW q \in Request, InsertDraft(q)
      PROVE  Promise!Next \/ UNCHANGED Promise!vars
  <2>1. CASE Mine(q).status = "absent"
    <3>1. row' = [row EXCEPT ![memory[q].action] =
                    [status |-> "DRAFT", plan |-> memory[q].plan,
                     result |-> NoResult]]
          /\ UNCHANGED effect
      BY <1>1, <2>1 DEF InsertDraft
    <3>2. Phase(row[memory[q].action]) = "none"
          /\ Phase(row'[memory[q].action]) = "proposed"
          /\ \A b \in Action \ {memory[q].action} : Phase(row'[b]) = Phase(row[b])
      BY <1>t, <2>1, <3>1, PhaseOf DEF Mine, TypeOK
    <3>3. Promise!Propose(memory[q].action)
      BY <1>t, <3>1, <3>2, PhaseTurns DEF Promise!Propose
    <3>. QED
      BY <1>t, <3>3 DEF Promise!Next
  <2>. QED
    BY <1>1, <1>s, <2>1 DEF InsertDraft
<1>2. ASSUME NEW q \in Request, Claim(q)
      PROVE  Promise!Next \/ UNCHANGED Promise!vars
  <2>1. CASE Mine(q).status = "DRAFT"
    <3>1. \A b \in Action :
             /\ row'[b].result = row[b].result
             /\ row'[b].status = IF b = memory[q].action THEN "CONFIRMED"
                                                         ELSE row[b].status
      <4>1. SetStatus(q, "CONFIRMED") /\ "CONFIRMED" \in Status
        BY <1>2, <2>1 DEF Claim, Status
      <4>. QED
        BY <1>t, <4>1, StatusSet
    <3>2. row[memory[q].action].result = NoResult
      BY <1>t, <2>1 DEF IInv, RowSound, Mine
    <3>3. Phase(row[memory[q].action]) = "proposed"
          /\ Phase(row'[memory[q].action]) = "claimed"
      BY <1>t, <2>1, <3>1, <3>2, PhaseOf DEF Mine
    <3>4. \A b \in Action \ {memory[q].action} : Phase(row'[b]) = Phase(row[b])
      BY <1>t, <3>1, PhaseKept
    <3>5. Promise!Claim(memory[q].action)
      BY <1>2, <1>t, <3>3, <3>4, PhaseTurns DEF Claim, Promise!Claim
    <3>. QED
      BY <1>t, <3>5 DEF Promise!Next
  <2>. QED
    BY <1>2, <1>s, <2>1 DEF Claim
<1>3. ASSUME NEW q \in Request, Execute(q)
      PROVE  Promise!Next \/ UNCHANGED Promise!vars
  <2>1. /\ row[memory[q].action].status = "CONFIRMED"
        /\ row[memory[q].action].result = NoResult
        /\ effect[memory[q].action] = 0
    BY <1>3 DEF Execute, Go, IInv, RequestSound, Claiming, Mine
  <2>2. Phase(row[memory[q].action]) = "claimed"
    BY <2>1, PhaseOf
  <2>3. effect' = [effect EXCEPT ![memory[q].action] = 1] /\ UNCHANGED row
    BY <1>3, <1>t, <2>1 DEF Execute, TypeOK
  <2>4. Promise!TakeEffect(memory[q].action)
    BY <1>t, <2>1, <2>2, <2>3 DEF Promise!TakeEffect
  <2>. QED
    BY <1>t, <2>4 DEF Promise!Next
<1>4. ASSUME NEW q \in Request, Fail(q)
      PROVE  Promise!Next \/ UNCHANGED Promise!vars
  <2>1. /\ row[memory[q].action].status = "CONFIRMED"
        /\ row[memory[q].action].result = NoResult
    BY <1>4 DEF Fail, Go, IInv, RequestSound, Claiming, Mine
  <2>2. \A b \in Action :
           /\ row'[b].result = row[b].result
           /\ row'[b].status = IF b = memory[q].action THEN "FAILED"
                                                       ELSE row[b].status
    <3>1. SetStatus(q, "FAILED") /\ "FAILED" \in Status
      BY <1>4, <2>1 DEF Fail, Mine, Status
    <3>. QED
      BY <1>t, <3>1, StatusSet
  <2>3. Phase(row[memory[q].action]) = "claimed"
        /\ Phase(row'[memory[q].action]) = "abandoned"
    BY <1>t, <2>1, <2>2, PhaseOf
  <2>4. \A b \in Action \ {memory[q].action} : Phase(row'[b]) = Phase(row[b])
    BY <1>t, <2>2, PhaseKept
  <2>5. Promise!Abandon(memory[q].action)
    BY <1>4, <1>t, <2>3, <2>4, PhaseTurns DEF Fail, Promise!Abandon
  <2>. QED
    BY <1>t, <2>5 DEF Promise!Next
<1>5. ASSUME NEW q \in Request, Checkpoint(q)
      PROVE  Promise!Next \/ UNCHANGED Promise!vars
  <2>1. /\ row[memory[q].action].status = "CONFIRMED"
        /\ row[memory[q].action].result = NoResult
        /\ effect[memory[q].action] = 1
        /\ memory[q].result = 1
    BY <1>5 DEF Checkpoint, Go, IInv, RequestSound, Claiming, Mine
  <2>2. \A b \in Action :
           /\ row'[b].status = row[b].status
           /\ row'[b].result = IF b = memory[q].action THEN 1
                                                       ELSE row[b].result
    <3>1. SetResult(q, 1) /\ 1 \in Nat
      BY <1>5, <2>1 DEF Checkpoint, Mine
    <3>. QED
      BY <1>t, <3>1, ResultSet
  <2>3. Phase(row[memory[q].action]) = "claimed"
        /\ Phase(row'[memory[q].action]) = "recorded"
    BY <1>t, <2>1, <2>2, PhaseOf DEF NoResult
  <2>4. \A b \in Action \ {memory[q].action} : Phase(row'[b]) = Phase(row[b])
    BY <1>t, <2>2, PhaseKept
  <2>5. Promise!Record(memory[q].action)
    BY <1>5, <1>t, <2>1, <2>3, <2>4, PhaseTurns DEF Checkpoint, Promise!Record
  <2>. QED
    BY <1>t, <2>5 DEF Promise!Next
<1>6. ASSUME NEW q \in Request, Doubt(q)
      PROVE  Promise!Next \/ UNCHANGED Promise!vars
  <2>1. /\ row[memory[q].action].result # NoResult
        /\ memory[q].status \in {"CONFIRMED", "EXECUTED"}
        /\ UNCHANGED effect
    BY <1>6 DEF Doubt, Go, IInv, RequestSound, After, Mine
  <2>2. CASE row[memory[q].action].status = memory[q].status
    <3>1. \A b \in Action :
             /\ row'[b].result = row[b].result
             /\ row'[b].status = IF b = memory[q].action THEN "CONFIRMED"
                                                         ELSE row[b].status
      <4>1. SetStatus(q, "CONFIRMED") /\ "CONFIRMED" \in Status
        BY <1>6, <2>2 DEF Doubt, Mine, Status
      <4>. QED
        BY <1>t, <4>1, StatusSet
    <3>2. Phase(row'[memory[q].action]) = "recorded"
      BY <1>t, <2>1, <3>1, PhaseOf
    <3>3. \A b \in Action \ {memory[q].action} : Phase(row'[b]) = Phase(row[b])
      BY <1>t, <3>1, PhaseKept
    <3>4. CASE memory[q].status = "CONFIRMED"
      <4>1. Phase(row[memory[q].action]) = "recorded"
        BY <2>1, <2>2, <3>4, PhaseOf
      <4>2. \A b \in Action : Phase(row'[b]) = Phase(row[b])
        BY <3>2, <3>3, <4>1
      <4>. QED
        BY <2>1, <4>2 DEF Promise!vars
    <3>5. CASE memory[q].status = "EXECUTED"
      <4>1. Phase(row[memory[q].action]) = "executed"
        BY <2>2, <3>5, PhaseOf
      <4>2. Promise!Reopen(memory[q].action)
        BY <1>t, <2>1, <3>2, <3>3, <4>1, PhaseTurns DEF Promise!Reopen
      <4>. QED
        BY <1>t, <4>2 DEF Promise!Next
    <3>. QED
      BY <2>1, <3>4, <3>5
  <2>. QED
    BY <1>6, <1>s, <2>1, <2>2 DEF Doubt, Mine
<1>7. ASSUME NEW q \in Request, Complete(q)
      PROVE  Promise!Next \/ UNCHANGED Promise!vars
  <2>1. row[memory[q].action].result # NoResult
    BY <1>7 DEF Complete, Go, IInv, RequestSound, After, Mine
  <2>2. CASE Mine(q).status = "CONFIRMED"
    <3>1. \A b \in Action :
             /\ row'[b].result = row[b].result
             /\ row'[b].status = IF b = memory[q].action THEN "EXECUTED"
                                                         ELSE row[b].status
      <4>1. SetStatus(q, "EXECUTED") /\ "EXECUTED" \in Status
        BY <1>7, <2>2 DEF Complete, Status
      <4>. QED
        BY <1>t, <4>1, StatusSet
    <3>2. Phase(row[memory[q].action]) = "recorded"
          /\ Phase(row'[memory[q].action]) = "executed"
      BY <1>t, <2>1, <2>2, <3>1, PhaseOf DEF Mine
    <3>3. \A b \in Action \ {memory[q].action} : Phase(row'[b]) = Phase(row[b])
      BY <1>t, <3>1, PhaseKept
    <3>4. Promise!Finish(memory[q].action)
      BY <1>7, <1>t, <3>2, <3>3, PhaseTurns DEF Complete, Promise!Finish
    <3>. QED
      BY <1>t, <3>4 DEF Promise!Next
  <2>. QED
    BY <1>7, <1>s, <2>2 DEF Complete
<1>8. ASSUME NEW q \in Request,
             \/ RefuseConfirmation(q) \/ Decide(q) \/ RefuseExecution(q)
             \/ Verify(q) \/ Mistrust(q) \/ Learn(q) \/ Die(q)
             \/ \E a \in Action : \/ ReadAction(q, a)
                                  \/ \E p \in Plan : \/ ReuseDraft(q, a, p)
                                                     \/ MissDraft(q, a, p)
      PROVE  Promise!Next \/ UNCHANGED Promise!vars
  <2>1. UNCHANGED row /\ UNCHANGED effect
    BY <1>8 DEF RefuseConfirmation, Decide, RefuseExecution, Verify, Mistrust,
                Learn, Die, ReadAction, ReuseDraft, MissDraft
  <2>. QED
    BY <1>s, <2>1
<1>9. CASE UNCHANGED vars
  BY <1>9, <1>s DEF vars
<1>. QED
  BY <1>1, <1>2, <1>3, <1>4, <1>5, <1>6, <1>7, <1>8, <1>9, ActionAssumption
     DEF Next, Advance

-----------------------------------------------------------------------------
\* However many requests confirm an action at the same time, and wherever
\* their processes die, the ERP makes one document for it.
THEOREM EffectOnce == Spec => []EffectAtMostOnce
<1>1. IInv => EffectAtMostOnce
  BY DEF IInv, RowSound, EffectAtMostOnce
<1>. QED
  BY <1>1, SpecKeeps, PTL

\* Every row, counter and request has its type: in particular a row's status
\* is always one of the five that its table allows.
THEOREM TypeSound == Spec => []TypeOK
<1>. QED
  BY SpecKeeps, PTL DEF IInv

\* A result on record is that of the document made, and no action is EXECUTED
\* without one.
THEOREM RecordSound == Spec => []RecordedMeansDone
<1>1. ASSUME IInv PROVE RecordedMeansDone
  <2>1. ASSUME NEW a \in Action
        PROVE  row[a].status \in {"absent", "DRAFT", "CONFIRMED", "EXECUTED",
                                  "FAILED"}
    BY <1>1 DEF IInv, TypeOK, Row, Status
  <2>. QED
    BY <1>1, <2>1 DEF IInv, RowSound, RecordedMeansDone
<1>. QED
  BY <1>1, SpecKeeps, PTL

\* A caller told that its action is complete can see the document on record,
\* and one handed a draft is handed that of its own plan.
THEOREM AnswerSound == Spec => []AnswerIsTrue
<1>1. IInv => AnswerIsTrue
  BY DEF IInv, RequestSound, AnswerIsTrue
<1>. QED
  BY <1>1, SpecKeeps, PTL

\* A slip teaches its lines once, after its result is on record.
THEOREM TeachingSound == Spec => []TaughtOnce
<1>1. ASSUME IInv PROVE TaughtOnce
  <2>1. ASSUME NEW a \in Action
        PROVE  /\ taught[a] = 0 \/ (taught[a] = 1 /\ a \in Slip)
               /\ taught[a] = 1 => row[a].result # NoResult
               /\ row[a].status = "EXECUTED" /\ a \in Slip => taught[a] = 1
    <3>1. taught[a] \in Nat /\ RowSound(a)
      BY <1>1 DEF IInv, TypeOK
    <3>. QED
      BY <3>1 DEF RowSound
  <2>2. ASSUME NEW a \in Action
        PROVE  taught[a] <= (IF a \in Slip THEN 1 ELSE 0)
    <3>1. CASE a \in Slip
      BY <2>1, <3>1
    <3>2. CASE a \notin Slip
      BY <2>1, <3>2
    <3>. QED
      BY <3>1, <3>2
  <2>. QED
    BY <2>1, <2>2 DEF TaughtOnce
<1>. QED
  BY <1>1, SpecKeeps, PTL

\* The requests, in any number and any interleaving, implement the life of an
\* action that CopilotPromise describes.
THEOREM PromiseKept == Spec => KeepsPromise
<1>. QED
  BY SpecKeeps, InitPromises, StepPromises, PTL
     DEF Spec, KeepsPromise, Promise!Spec

================================================================================
