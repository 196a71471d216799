--------------------------- MODULE MCStopTheWorld ---------------------------
(***************************************************************************)
(* Small instances of StopTheWorld.                                        *)
(***************************************************************************)
EXTENDS StopTheWorld, TLC

CONSTANTS main, t1, t2

Heap == {"alloc", "drop", "put", "take", "clear"}
Life == {"make", "create", "join", "finish"}

HeapOps == Heap \cup Life \cup {"gc", "safepoint", "reset"}
WorldOps == {"alloc", "put", "drop", "reset"} \cup Life
InhibitOps == Heap \cup {"gc", "gc-disable", "gc-enable"}
LiveOps == {"create", "join", "gc", "safepoint", "finish", "reset"}
CreateOps == {"make", "create", "gc", "safepoint"}

OneThread == {main}
TwoThreads == {main, t1}
ThreeThreads == {main, t1, t2}
Symmetry == Permutations(Handle) \cup Permutations({t1, t2})
HandleSymmetry == Permutations(Handle)

(***************************************************************************)
(* Progress of three threads.  The program has got this far: main has      *)
(* created t1, made t2 and dropped both thread objects, and has stopped    *)
(* for a gc of t1.  From here main creates t2 and joins it, t1 collects,   *)
(* and t1 and t2 end.  Fairness asks for nothing that the roles leave out. *)
(***************************************************************************)
Role(t) ==
  CASE t = main -> {"create", "join"}
    [] t = t1 -> {"gc", "finish"}
    [] t = t2 -> {"finish", "reset"}

LiveInit ==
  /\ pc = (main :> "run" @@ t1 :> "run" @@ t2 :> "unborn")
  /\ op = (main :> "safepoint" @@ t1 :> "gc" @@ t2 :> "none")
  /\ state = (main :> "RUNNING" @@ t1 :> "RUNNING" @@ t2 :> "NEW")
  /\ child = (main :> t2 @@ t1 :> NIL @@ t2 :> NIL)
  /\ allThreads = {main, t1}
  /\ saved = [t \in Thread |-> FALSE]
  /\ stack = [t \in Thread |-> {}]
  /\ gcLock = NIL /\ handlesLock = NIL /\ allThreadsLock = NIL /\ stopForGc = NIL
  /\ waiting = {} /\ marked = {} /\ late = {} /\ escaped = {} /\ owed = {}
  /\ live = {} /\ global = {}
  /\ inhibit = FALSE /\ pending = FALSE /\ breached = FALSE

LiveNext ==
  \E t \in Thread :
    \/ RuntimeStep(t) \/ CallSafepoint(t)
    \/ (UserStep(t) \/ CallFinish(t) \/ CallReset(t)) /\ op'[t] \in Role(t)

LiveSpec == LiveInit /\ [][LiveNext]_vars /\ Fairness
============================================================================
