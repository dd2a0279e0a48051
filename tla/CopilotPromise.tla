---------------------------- MODULE CopilotPromise ----------------------------
(***************************************************************************)
(* What the life of a Copilot action promises, with no requests in it: a   *)
(* confirmed action takes effect at most once, only between the claim of   *)
(* its draft and the record of its result, and is never executed before    *)
(* its result is on record.  An abandoned action stays abandoned, whether  *)
(* or not it took effect.                                                  *)
(***************************************************************************)
EXTENDS Naturals

CONSTANT Action

VARIABLES phase, effect

vars == <<phase, effect>>

Turn(a, from, to) == /\ phase[a] = from
                     /\ phase' = [phase EXCEPT ![a] = to]

Propose(a) == Turn(a, "none", "proposed") /\ UNCHANGED effect
Claim(a) == Turn(a, "proposed", "claimed") /\ UNCHANGED effect
TakeEffect(a) == /\ phase[a] = "claimed"
                 /\ effect[a] = 0
                 /\ effect' = [effect EXCEPT ![a] = 1]
                 /\ UNCHANGED phase
Record(a) == Turn(a, "claimed", "recorded") /\ effect[a] = 1 /\ UNCHANGED effect
Abandon(a) == Turn(a, "claimed", "abandoned") /\ UNCHANGED effect
Finish(a) == Turn(a, "recorded", "executed") /\ UNCHANGED effect
Reopen(a) == Turn(a, "executed", "recorded") /\ UNCHANGED effect

Init == /\ phase = [a \in Action |-> "none"]
        /\ effect = [a \in Action |-> 0]

Next == \E a \in Action :
          \/ Propose(a) \/ Claim(a) \/ TakeEffect(a) \/ Record(a)
          \/ Abandon(a) \/ Finish(a) \/ Reopen(a)

Spec == Init /\ [][Next]_vars

=============================================================================
