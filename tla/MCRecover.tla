------------------------------ MODULE MCRecover ------------------------------
(***************************************************************************)
(* Recover on three plans: two threads that recover, without scopes; two   *)
(* threads with scopes; the REPL alone, nested deeper.                     *)
(***************************************************************************)
EXTENDS Recover, TLC

CONSTANTS t1, t2, e1, e2

ThePlans == {
    [frames |-> (t1 :> 3) @@ (t2 :> 3), stack |-> 1, scopes |-> 1, catches |-> 3,
     errors |-> {e1, e2}],
    [frames |-> (t1 :> 4) @@ (t2 :> 3), stack |-> 0, scopes |-> 4, catches |-> 1,
     errors |-> {e1}],
    [frames |-> (t1 :> 5) @@ (t2 :> 1), stack |-> 0, scopes |-> 4, catches |-> 3,
     errors |-> {e1}]}
=============================================================================
