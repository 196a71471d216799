---------------------------- MODULE MutexProofs ----------------------------
(***************************************************************************)
(* The safety properties of Mutex, for any set of threads.                 *)
(***************************************************************************)
EXTENDS Mutex, TLAPS

\* mutex.asm and os.c never leave a wrong kind of value in either slot.
THEOREM Typing == Spec => []TypeOK
<1>1. Init => TypeOK
  BY NilIsNoThread DEF Init, TypeOK, Location
<1>2. TypeOK /\ [Next]_vars => TypeOK'
  <2> SUFFICES ASSUME TypeOK, [Next]_vars PROVE TypeOK'
    OBVIOUS
  <2>1. CASE UNCHANGED vars
    BY <2>1 DEF TypeOK, vars
  <2>2. ASSUME NEW t \in Thread, CallLock(t) \/ CallTrylock(t) \/ OsTrylockFails(t)
                                   \/ CallUnlock(t)
        PROVE  TypeOK'
    BY <2>2 DEF TypeOK, Location, Goto, CallLock, CallTrylock, OsTrylockFails, CallUnlock
  <2>3. ASSUME NEW t \in Thread, OsLock(t) \/ OsTrylockWins(t) \/ OsUnlock(t)
        PROVE  TypeOK'
    BY <2>3 DEF TypeOK, Location, Goto, OsLock, OsTrylockWins, OsUnlock
  <2>4. ASSUME NEW t \in Thread, StampOwner(t) \/ WipeOwner(t)
        PROVE  TypeOK'
    BY <2>4 DEF TypeOK, Location, Goto, StampOwner, WipeOwner
  <2> QED
    BY <2>1, <2>2, <2>3, <2>4 DEF Next
<1> QED
  BY <1>1, <1>2, PTL DEF Spec

\* Whatever the order of the calls, a thread is between a successful lock and
\* the OS unlock exactly when it holds the OS mutex.
THEOREM Exclusion == Spec => []MutualExclusion
<1>1. Init => MutualExclusion
  BY NilIsNoThread DEF Init, MutualExclusion, Inside
<1>2. TypeOK /\ MutualExclusion /\ [Next]_vars => MutualExclusion'
  <2> SUFFICES ASSUME TypeOK, MutualExclusion, [Next]_vars,
                      NEW u \in Thread
               PROVE  Inside(u)' <=> holder' = u
    BY DEF MutualExclusion
  <2> USE NilIsNoThread DEF TypeOK, MutualExclusion, Inside, Goto
  <2>1. CASE UNCHANGED vars
    BY <2>1 DEF vars
  <2>2. ASSUME NEW t \in Thread, CallLock(t) \/ CallTrylock(t) \/ OsTrylockFails(t)
                                   \/ CallUnlock(t)
        PROVE  Inside(u)' <=> holder' = u
    BY <2>2 DEF CallLock, CallTrylock, OsTrylockFails, CallUnlock
  <2>3. ASSUME NEW t \in Thread, OsLock(t) \/ OsTrylockWins(t)
        PROVE  Inside(u)' <=> holder' = u
    BY <2>3 DEF OsLock, OsTrylockWins
  <2>4. ASSUME NEW t \in Thread, OsUnlock(t)
        PROVE  Inside(u)' <=> holder' = u
    BY <2>4 DEF OsUnlock
  <2>5. ASSUME NEW t \in Thread, StampOwner(t) \/ WipeOwner(t)
        PROVE  Inside(u)' <=> holder' = u
    BY <2>5 DEF StampOwner, WipeOwner
  <2> QED
    BY <2>1, <2>2, <2>3, <2>4, <2>5 DEF Next
<1> QED
  BY <1>1, <1>2, Typing, PTL DEF Spec

(***************************************************************************)
(* The owner slot is written outside the OS mutex, so what it names has to *)
(* be traced to a thread that will still write it: the thread named is in  *)
(* the critical section, or about to wipe the slot.                        *)
(***************************************************************************)
OwnerWillWrite == \A t \in Thread : owner = t => pc[t] \in {"held", "unlock", "wipe"}

\* A slot that names a thread names one that has still to wipe it.
THEOREM OwnerTraced == Spec => []OwnerWillWrite
<1>1. Init => OwnerWillWrite
  BY NilIsNoThread DEF Init, OwnerWillWrite
<1>2. TypeOK /\ OwnerWillWrite /\ [Next]_vars => OwnerWillWrite'
  <2> SUFFICES ASSUME TypeOK, OwnerWillWrite, [Next]_vars,
                      NEW u \in Thread, owner' = u
               PROVE  pc'[u] \in {"held", "unlock", "wipe"}
    BY DEF OwnerWillWrite
  <2> USE NilIsNoThread DEF TypeOK, OwnerWillWrite, Goto
  <2>1. CASE UNCHANGED vars
    BY <2>1 DEF vars
  <2>2. ASSUME NEW t \in Thread,
               CallLock(t) \/ CallTrylock(t) \/ OsTrylockFails(t) \/ OsLock(t) \/ OsTrylockWins(t)
        PROVE  pc'[u] \in {"held", "unlock", "wipe"}
    BY <2>2 DEF CallLock, CallTrylock, OsTrylockFails, OsLock, OsTrylockWins
  <2>3. ASSUME NEW t \in Thread, CallUnlock(t) \/ OsUnlock(t)
        PROVE  pc'[u] \in {"held", "unlock", "wipe"}
    BY <2>3 DEF CallUnlock, OsUnlock
  <2>4. ASSUME NEW t \in Thread, StampOwner(t) \/ WipeOwner(t)
        PROVE  pc'[u] \in {"held", "unlock", "wipe"}
    BY <2>4 DEF StampOwner, WipeOwner
  <2> QED
    BY <2>1, <2>2, <2>3, <2>4 DEF Next
<1> QED
  BY <1>1, <1>2, Typing, PTL DEF Spec

\* The late write of mutex-unlock can only make the slot nil: in the critical
\* section it never names another thread, and at rest it names none.
THEOREM OwnerSlot == Spec => [](NoForeignOwner /\ OwnerClearAtRest)
<1>1. TypeOK /\ OwnerWillWrite => OwnerClearAtRest
  BY DEF TypeOK, OwnerWillWrite, OwnerClearAtRest
<1>2. Init => NoForeignOwner
  BY DEF Init, NoForeignOwner
<1>3. TypeOK /\ MutualExclusion /\ NoForeignOwner /\ [Next]_vars => NoForeignOwner'
  <2> SUFFICES ASSUME TypeOK, MutualExclusion, NoForeignOwner, [Next]_vars,
                      NEW u \in Thread, pc'[u] \in {"held", "unlock"}
               PROVE  owner' \in {u, NIL}
    BY DEF NoForeignOwner
  <2> USE NilIsNoThread DEF TypeOK, MutualExclusion, Inside, NoForeignOwner, Goto
  <2>1. CASE UNCHANGED vars
    BY <2>1 DEF vars
  <2>2. ASSUME NEW t \in Thread,
               \/ CallLock(t) \/ CallTrylock(t) \/ OsTrylockFails(t) \/ OsLock(t)
               \/ OsTrylockWins(t) \/ CallUnlock(t) \/ OsUnlock(t)
        PROVE  owner' \in {u, NIL}
    BY <2>2 DEF CallLock, CallTrylock, OsTrylockFails, OsLock, OsTrylockWins, CallUnlock,
                OsUnlock
  <2>3. ASSUME NEW t \in Thread, StampOwner(t)
        PROVE  owner' \in {u, NIL}
    <3>1. holder = t /\ owner' = t
      BY <2>3 DEF StampOwner
    <3>2. CASE u = t
      BY <3>1, <3>2
    <3>3. CASE u # t
      BY <2>3, <3>1, <3>3 DEF StampOwner
    <3> QED
      BY <3>2, <3>3
  <2>4. ASSUME NEW t \in Thread, WipeOwner(t)
        PROVE  owner' \in {u, NIL}
    BY <2>4 DEF WipeOwner
  <2> QED
    BY <2>1, <2>2, <2>3, <2>4 DEF Next
<1> QED
  BY <1>1, <1>2, <1>3, Typing, Exclusion, OwnerTraced, PTL DEF Spec
============================================================================
