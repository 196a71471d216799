---------------------------- MODULE MCHashtable ----------------------------
(***************************************************************************)
(* Small instances of Hashtable: three keys of which any may collide, and  *)
(* tables of two to eight slots that probes run off the end of.            *)
(***************************************************************************)
EXTENDS Hashtable
============================================================================
