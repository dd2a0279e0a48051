------------------------------ MODULE MCPages ------------------------------
(* One tab showing one of the five pages; two invoices to return, so that   *)
(* one can be selected while the other is loaded.                           *)
EXTENDS Pages, TLC

CONSTANTS p1, e1, r1, r2, i1, b1, n1

MCTaskOf == (e1 :> "estimate") @@ (r1 :> "return")
            @@ (r2 :> "return") @@ (i1 :> "payment") @@ (b1 :> "vendor_payment")
MCTotal == [s \in Source |-> IF s \in {r1, r2} THEN 2 ELSE 1]
MCTyped == {[amount |-> 1, complete |-> TRUE, number |-> Blank],
            [amount |-> 2, complete |-> TRUE, number |-> n1]}
MCMount == {[p \in Page |-> k] : k \in PageKind}
MCMountEstimates == {[p \in Page |-> "invoices"]}
=============================================================================
