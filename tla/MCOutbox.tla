------------------------------- MODULE MCOutbox -------------------------------
(* Two tabs with a flush each.                                             *)
EXTENDS Outbox, TLC

CONSTANTS i1, i2, t1, t2, r1, r2

TwoTabs == r1 :> t1 @@ r2 :> t2
=============================================================================
