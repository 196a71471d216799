---------------------------- MODULE MCMarkSweep ----------------------------
(***************************************************************************)
(* Small instances of MarkSweep: one kind of each sort.  Three cells hold  *)
(* a chain, a cycle with an entry and a cycle without one.                 *)
(***************************************************************************)
EXTENDS MarkSweep
============================================================================
