------------------------------ MODULE MCMutex ------------------------------
(***************************************************************************)
(* Mutex with a few threads: three are needed for the late nil of one to   *)
(* land on the owner slot after another has come and gone.                 *)
(***************************************************************************)
EXTENDS Mutex
============================================================================
