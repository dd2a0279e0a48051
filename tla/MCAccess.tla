------------------------------ MODULE MCAccess ------------------------------
(* Two accounts and two places; each account starts with every right in a   *)
(* place of its own.                                                        *)
EXTENDS Access

CONSTANTS u1, u2, w1, w2

\* A posting and a write that is not asked again.
MCSamples == {Posting("sales.create"), Guarded("customers.write")}
\* Signing in and out by itself; requests of pages and machines by themselves;
\* one request of every kind.
MCBudgets ==
  {[asks |-> 2, changes |-> 1, requests |-> 0, signs |-> 2, every |-> FALSE],
   [asks |-> 1, changes |-> 2, requests |-> 1, signs |-> 0, every |-> FALSE],
   [asks |-> 0, changes |-> 1, requests |-> 1, signs |-> 0, every |-> TRUE]}
MCGranted == ({u1} \X {w1} \X Right) \cup ({u2} \X {w2} \X Right)
=============================================================================
