----------------------------- MODULE MCAssistant -----------------------------
(* Threads by themselves, and the turns of one thread by themselves.         *)
EXTENDS Assistant, TLC

CONSTANTS t1, t2, s1, s2, i1, c1, c2, p1, p2

Nothing == [requests |-> 0, copies |-> 0, strays |-> 0, reviews |-> FALSE,
            reprices |-> 0, turns |-> 0, lessons |-> 0] @@ [t \in Tool |-> 0]
Threads(r, copies, strays, reviews) ==
  [Nothing EXCEPT !.requests = r, !.copies = copies, !.strays = strays,
                  !.reviews = reviews, !.reprices = 1]
Turns(uses) == uses @@ [Nothing EXCEPT !.turns = 2]
MCBudgets ==
  {Threads(4, 0, 0, FALSE), Threads(3, 0, 1, TRUE), Threads(3, 1, 0, FALSE),
   Threads(1, 0, 2, FALSE),
   Turns([search |-> 2, lookup |-> 1, draft |-> 3]),
   Turns([customers |-> 2, search |-> 1, draft |-> 4, lessons |-> 1]),
   Turns([rate |-> 1, query |-> 1, ledger |-> 1, documents |-> 1, payment |-> 1]),
   Turns([query |-> 1, ledger |-> 2, draft |-> 4])}
=============================================================================
