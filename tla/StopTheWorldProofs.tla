------------------------- MODULE StopTheWorldProofs -------------------------
(***************************************************************************)
(* Safety of StopTheWorld for any number of threads and handles, any       *)
(* threshold and any choice of operations.  Each invariant is proved from  *)
(* those before it, with one step for every group of actions that cannot   *)
(* disturb it and one for every action that can.                           *)
(***************************************************************************)
EXTENDS StopTheWorld, TLAPS, FiniteSetTheorems

(***************************************************************************)
(* Types.  new_handle has three callers, and where it returns depends on   *)
(* which of them it was: inside it op says that it is one of them.         *)
(***************************************************************************)
InNewHandle == {"nh_safepoint", "nh_trylock", "nh_get", "nh_trygc", "nh_ungc", "nh_retry"}

CallerKnown == \A t \in Thread : pc[t] \in InNewHandle => op[t] \in AllocOps

\* thread-create is called with a thread.
ChildKnown == \A t \in Thread : pc[t] \in {"tc_push", "tc_start"} => child[t] # NIL

Types == TypeOK /\ CallerKnown /\ ChildKnown

LEMMA InitTypes == Init => Types
<1> USE PrimordialIsThread, NilIsNoThread
<1>1. Init => TypeOK
  <2> SUFFICES ASSUME Init PROVE TypeOK
    OBVIOUS
  <2>1. pc \in [Thread -> Location]
    BY DEF Init, Location, Absent
  <2>2. state \in [Thread -> {"NEW", "STARTING", "RUNNING", "STOPPED"}]
    BY DEF Init
  <2> QED
    BY <2>1, <2>2 DEF Init, TypeOK
<1>2. Init => CallerKnown
  BY DEF Init, CallerKnown, InNewHandle
<1>3. Init => ChildKnown
  BY DEF Init, ChildKnown
<1> QED
  BY <1>1, <1>2, <1>3 DEF Types

LEMMA UserTypes == ASSUME Types, NEW t \in Thread, UserStep(t) \/ Yield(t) PROVE Types'
<1> USE OpsKnown DEF Types, TypeOK, CallerKnown, ChildKnown, InNewHandle, AllocOps, Location, Waits, Parked,
                     Collecting, Tracing, Absent, Calls, At, Goto, threadVars, lockVars,
                     handshake, inhibitVars, heapVars, gcVars
<1>1. CASE Drop(t) \/ Put(t) \/ Take(t) \/ Clear(t)
  BY <1>1 DEF Drop, Put, Take, Clear
<1>2. CASE \/ CallAlloc(t) \/ CallGc(t) \/ CallGcDisable(t) \/ CallJoin(t)
           \/ CallSafepoint(t) \/ CallFinish(t) \/ CallReset(t)
  BY <1>2 DEF CallAlloc, CallGc, CallGcDisable, CallJoin, CallSafepoint, CallFinish, CallReset,
              Enter
<1>3. CASE CallGcEnable(t)
  BY <1>3 DEF CallGcEnable
<1>4. CASE CallMake(t)
  BY <1>4 DEF CallMake, FreeThread
<1>5. CASE CallCreate(t)
  BY <1>5 DEF CallCreate, SetState, Unstarted
<1> QED
  BY <1>1, <1>2, <1>3, <1>4, <1>5 DEF UserStep, Yield

LEMMA StopTypes == ASSUME Types, NEW t \in Thread, StopStep(t) PROVE Types'
<1> USE DEF Types, TypeOK, CallerKnown, ChildKnown, InNewHandle, Location, Waits, Parked, At, Goto, SetState,
            threadVars, lockVars, handshake, inhibitVars, heapVars, gcVars
<1>1. CASE AnnounceStop(t)
  BY <1>1 DEF AnnounceStop
<1>2. CASE SaveRegisters(t)
  BY <1>2 DEF SaveRegisters
<1>3. CASE SeeWorldStarted(t)
  BY <1>3 DEF SeeWorldStarted
<1>4. CASE ResumeFromStop(t)
  BY <1>4 DEF ResumeFromStop, Resume, RunAgain, NoteEscape
<1>5. CASE JoinReturns(t)
  BY <1>5 DEF JoinReturns, RunAgain, NoteEscape
<1> QED
  BY <1>1, <1>2, <1>3, <1>4, <1>5 DEF StopStep

LEMMA LifeTypes == ASSUME Types, NEW t \in Thread, LifeStep(t) PROVE Types'
<1> USE DEF Types, TypeOK, CallerKnown, ChildKnown, InNewHandle, Location, Parked, Absent, At, Goto, SetState,
            threadVars, lockVars, handshake, inhibitVars, heapVars, gcVars
<1>1. CASE NameThread(t)
  BY <1>1 DEF NameThread
<1>2. CASE RegisterThread(t)
  <2>1. child[t] \in Thread
    BY <1>2 DEF RegisterThread
  <2> QED
    BY <1>2, <2>1 DEF RegisterThread
<1>3. CASE OsThreadCreate(t)
  BY <1>3 DEF OsThreadCreate
<1>4. CASE ThreadStarts(t)
  BY <1>4 DEF ThreadStarts, NoteEscape
<1>5. CASE ThreadResult(t)
  BY <1>5 DEF ThreadResult
<1>6. CASE ThreadEnds(t) \/ ThreadAborts(t)
  BY <1>6 DEF ThreadEnds, ThreadAborts, Deregister
<1> QED
  BY <1>1, <1>2, <1>3, <1>4, <1>5, <1>6 DEF LifeStep

LEMMA HandleTypes == ASSUME Types, NEW t \in Thread, HandleStep(t) PROVE Types'
<1> USE DEF Types, TypeOK, CallerKnown, ChildKnown, InNewHandle, Location, Collecting, At, Goto,
            threadVars, lockVars, handshake, inhibitVars, heapVars, gcVars
<1>1. CASE NewHandleSafepoint(t) \/ NewHandleTrylock(t) \/ NeedsGc(t)
  BY <1>1 DEF NewHandleSafepoint, NewHandleTrylock, NeedsGc
<1>2. CASE GetHandle(t)
  <2>1. op[t] \in {"alloc", "make", "finish"}
    BY <1>2 DEF GetHandle, AllocOps
  <2> QED
    BY <1>2, <2>1 DEF GetHandle, empty
<1>3. CASE NewHandleTryGcLock(t) \/ NewHandleUnlockGc(t) \/ OutOfHandles(t)
  BY <1>3 DEF NewHandleTryGcLock, NewHandleUnlockGc, OutOfHandles
<1> QED
  BY <1>1, <1>2, <1>3 DEF HandleStep

LEMMA GcTypes == ASSUME Types, NEW t \in Thread, GcStep(t) PROVE Types'
<1> USE DEF Types, TypeOK, CallerKnown, ChildKnown, InNewHandle, Location, Collecting, Tracing, At, Goto,
            AfterGc, Caller, threadVars, lockVars, handshake, inhibitVars, heapVars, gcVars
<1>1. CASE GcTrylock(t) \/ GcLockHandles(t) \/ GcUnlockHandles(t) \/ GcUnlock(t)
  BY <1>1 DEF GcTrylock, GcLockHandles, GcUnlockHandles, GcUnlock
<1>2. CASE SetInhibit(t) \/ BeginCollect(t) \/ PostponeCollect(t)
  BY <1>2 DEF SetInhibit, BeginCollect, PostponeCollect
<1>3. CASE ScanAlone(t) \/ StopWorld(t) \/ SeeStopped(t)
  BY <1>3 DEF ScanAlone, StopWorld, SeeStopped
<1>4. CASE ScanStacks(t)
  BY <1>4 DEF ScanStacks
<1>5. CASE UnlockAllThreads(t) \/ MarkRoots(t) \/ Sweep(t) \/ StartWorld(t)
  BY <1>5 DEF UnlockAllThreads, MarkRoots, Sweep, StartWorld
<1> QED
  BY <1>1, <1>2, <1>3, <1>4, <1>5 DEF GcStep

\* Every variable keeps its type: stop_for_gc?_ holds nil or a thread and never
\* a bare flag, the locks are held by threads, only threads are registered.
THEOREM Typing == Spec => []Types
<1>1. Types /\ [Next]_vars => Types'
  <2> SUFFICES ASSUME Types, [Next]_vars PROVE Types'
    OBVIOUS
  <2>1. CASE UNCHANGED vars
    BY <2>1 DEF Types, TypeOK, CallerKnown, ChildKnown, vars, threadVars, lockVars, handshake,
                inhibitVars, heapVars, gcVars
  <2> QED
    BY <2>1, UserTypes, StopTypes, LifeTypes, HandleTypes, GcTypes DEF Next, RuntimeStep
<1> QED
  BY <1>1, InitTypes, PTL DEF Spec

THEOREM TypeCorrect == Spec => []TypeOK
BY Typing, PTL DEF Types

----------------------------------------------------------------------------
(***************************************************************************)
(* Locks.  Which locks a thread holds can be told from where it is.  gc2   *)
(* and new_handle take the gc lock and the handles lock in opposite order, *)
(* but neither waits for its second lock while the other can hold it.      *)
(***************************************************************************)
NeedsGcLock == Collecting \cup {"gc_handles", "gc_unhandles", "gc_unlock", "nh_ungc"}
NeedsHandlesLock ==
  Collecting \cup {"nh_get", "nh_trygc", "nh_ungc", "nh_retry", "gc_unhandles"}
NeedsAllThreadsLock == {"c_wait", "c_scan"}

Locks == \A t \in Thread : /\ pc[t] \in NeedsGcLock => gcLock = t
                           /\ pc[t] \in NeedsHandlesLock => handlesLock = t
                           /\ pc[t] \in NeedsAllThreadsLock => allThreadsLock = t

LEMMA LocksStep == ASSUME Types, Locks, [Next]_vars PROVE Locks'
<1> USE NilIsNoThread
    DEF Types, TypeOK, Locks, NeedsGcLock, NeedsHandlesLock, NeedsAllThreadsLock, Collecting,
        Tracing, Calls, At, Goto, threadVars, lockVars, handshake, inhibitVars, heapVars, gcVars
<1>1. CASE UNCHANGED vars
  BY <1>1 DEF vars
<1>2. ASSUME NEW t \in Thread, UserStep(t) \/ Yield(t) PROVE Locks'
  <2>1. CASE Drop(t) \/ Put(t) \/ Take(t) \/ Clear(t)
    BY <2>1 DEF Drop, Put, Take, Clear
  <2>2. CASE \/ CallAlloc(t) \/ CallGc(t) \/ CallGcDisable(t) \/ CallJoin(t)
             \/ CallSafepoint(t) \/ CallFinish(t) \/ CallReset(t)
    BY <2>2 DEF CallAlloc, CallGc, CallGcDisable, CallJoin, CallSafepoint, CallFinish,
                CallReset, Enter
  <2>3. CASE CallGcEnable(t)
    BY <2>3 DEF CallGcEnable
  <2>4. CASE CallMake(t) \/ CallCreate(t)
    BY <2>4 DEF CallMake, CallCreate, SetState
  <2> QED
    BY <1>2, <2>1, <2>2, <2>3, <2>4 DEF UserStep, Yield
<1>3. ASSUME NEW t \in Thread, StopStep(t) PROVE Locks'
  <2>1. CASE AnnounceStop(t) \/ SaveRegisters(t) \/ SeeWorldStarted(t)
    BY <2>1 DEF AnnounceStop, SaveRegisters, SeeWorldStarted
  <2>2. CASE ResumeFromStop(t)
    BY <2>2 DEF ResumeFromStop, Resume, RunAgain
  <2>3. CASE JoinReturns(t)
    BY <2>3 DEF JoinReturns, RunAgain
  <2> QED
    BY <1>3, <2>1, <2>2, <2>3 DEF StopStep
<1>4. ASSUME NEW t \in Thread, LifeStep(t) PROVE Locks'
  <2>1. CASE NameThread(t) \/ RegisterThread(t) \/ ThreadStarts(t) \/ ThreadResult(t)
    BY <2>1 DEF NameThread, RegisterThread, ThreadStarts, ThreadResult
  <2>2. CASE OsThreadCreate(t)
    BY <2>2 DEF OsThreadCreate
  <2>3. CASE ThreadEnds(t) \/ ThreadAborts(t)
    BY <2>3 DEF ThreadEnds, ThreadAborts, Deregister
  <2> QED
    BY <1>4, <2>1, <2>2, <2>3 DEF LifeStep
<1>5. ASSUME NEW t \in Thread, HandleStep(t) PROVE Locks'
  <2>1. CASE NewHandleSafepoint(t) \/ NewHandleTrylock(t) \/ NeedsGc(t)
    BY <2>1 DEF NewHandleSafepoint, NewHandleTrylock, NeedsGc
  <2>2. CASE GetHandle(t)
    <3>1. pc'[t] \in {"run", "mt_name", "tr_stop"}
      BY <2>2 DEF GetHandle, CallerKnown, InNewHandle, AllocOps
    <3> QED
      BY <2>2, <3>1 DEF GetHandle
  <2>3. CASE NewHandleTryGcLock(t) \/ NewHandleUnlockGc(t) \/ OutOfHandles(t)
    BY <2>3 DEF NewHandleTryGcLock, NewHandleUnlockGc, OutOfHandles
  <2> QED
    BY <1>5, <2>1, <2>2, <2>3 DEF HandleStep
<1>6. ASSUME NEW t \in Thread, GcStep(t) PROVE Locks'
  <2>1. CASE GcTrylock(t) \/ GcLockHandles(t) \/ GcUnlockHandles(t) \/ GcUnlock(t)
    BY <2>1 DEF GcTrylock, GcLockHandles, GcUnlockHandles, GcUnlock, AfterGc
  <2>2. CASE \/ SetInhibit(t) \/ BeginCollect(t) \/ PostponeCollect(t) \/ ScanAlone(t)
    BY <2>2 DEF SetInhibit, BeginCollect, PostponeCollect, ScanAlone, Caller
  <2>3. CASE StopWorld(t) \/ SeeStopped(t) \/ ScanStacks(t) \/ UnlockAllThreads(t)
    BY <2>3 DEF StopWorld, SeeStopped, ScanStacks, UnlockAllThreads
  <2>4. CASE MarkRoots(t) \/ Sweep(t) \/ StartWorld(t)
    BY <2>4 DEF MarkRoots, Sweep, StartWorld, Caller
  <2> QED
    BY <1>6, <2>1, <2>2, <2>3, <2>4 DEF GcStep
<1> QED
  BY <1>1, <1>2, <1>3, <1>4, <1>5, <1>6 DEF Next, RuntimeStep

THEOREM LocksHeld == Spec => []Locks
<1>1. Init => Locks
  BY DEF Init, Locks, NeedsGcLock, NeedsHandlesLock, NeedsAllThreadsLock, Collecting, Tracing
<1> QED
  BY <1>1, LocksStep, Typing, PTL DEF Spec

\* Whoever collects, from gc2 or from new_handle, holds both locks.
THEOREM BothLocks == Spec => []CollectorHoldsBothLocks
<1>1. Locks => CollectorHoldsBothLocks
  BY DEF Locks, CollectorHoldsBothLocks, NeedsGcLock, NeedsHandlesLock
<1> QED
  BY <1>1, LocksHeld, PTL

----------------------------------------------------------------------------
(***************************************************************************)
(* The registry.  A thread is made by one thread only and does not exist   *)
(* for the OS until thread-create has registered it.                       *)
(***************************************************************************)
ChildUnborn == \A t \in Thread : pc[t] \in {"tc_push", "tc_start"} => pc[child[t]] = "unborn"

ChildRegistered == \A t \in Thread : pc[t] = "tc_start" => child[t] \in allThreads

OneMaker == \A t, u \in Thread : child[t] = child[u] /\ child[t] # NIL => t = u

Registry == ChildUnborn /\ ChildRegistered /\ OneMaker /\ RunningIsRegistered

LEMMA RegistryStep == ASSUME Types, Registry, [Next]_vars PROVE Registry'
<1> USE NilIsNoThread
    DEF Types, TypeOK, ChildKnown, Registry, ChildUnborn, ChildRegistered, OneMaker,
        RunningIsRegistered, Calls, At, Goto, threadVars, lockVars, handshake, inhibitVars,
        heapVars, gcVars
<1>1. CASE UNCHANGED vars
  BY <1>1 DEF vars
<1>2. ASSUME NEW t \in Thread, UserStep(t) \/ Yield(t) PROVE Registry'
  <2>1. CASE Drop(t) \/ Put(t) \/ Take(t) \/ Clear(t)
    BY <2>1 DEF Drop, Put, Take, Clear
  <2>2. CASE \/ CallAlloc(t) \/ CallGc(t) \/ CallGcDisable(t) \/ CallJoin(t)
             \/ CallSafepoint(t) \/ CallFinish(t) \/ CallReset(t)
    BY <2>2 DEF CallAlloc, CallGc, CallGcDisable, CallJoin, CallSafepoint, CallFinish,
                CallReset, Enter
  <2>3. CASE CallGcEnable(t)
    BY <2>3 DEF CallGcEnable
  <2>4. CASE CallMake(t)
    BY <2>4 DEF CallMake, FreeThread
  <2>5. CASE CallCreate(t)
    BY <2>5 DEF CallCreate, Unstarted
  <2> QED
    BY <1>2, <2>1, <2>2, <2>3, <2>4, <2>5 DEF UserStep, Yield
<1>3. ASSUME NEW t \in Thread, StopStep(t) PROVE Registry'
  <2>1. CASE AnnounceStop(t) \/ SaveRegisters(t) \/ SeeWorldStarted(t)
    BY <2>1 DEF AnnounceStop, SaveRegisters, SeeWorldStarted
  <2>2. CASE ResumeFromStop(t)
    BY <2>2 DEF ResumeFromStop, Resume, RunAgain
  <2>3. CASE JoinReturns(t)
    BY <2>3 DEF JoinReturns, RunAgain
  <2> QED
    BY <1>3, <2>1, <2>2, <2>3 DEF StopStep
<1>4. ASSUME NEW t \in Thread, LifeStep(t) PROVE Registry'
  <2>1. CASE NameThread(t) \/ ThreadStarts(t) \/ ThreadResult(t)
    BY <2>1 DEF NameThread, ThreadStarts, ThreadResult
  <2>2. CASE RegisterThread(t)
    BY <2>2 DEF RegisterThread
  <2>3. CASE OsThreadCreate(t)
    BY <2>3 DEF OsThreadCreate
  <2>4. CASE ThreadEnds(t) \/ ThreadAborts(t)
    BY <2>4 DEF ThreadEnds, ThreadAborts, Deregister
  <2> QED
    BY <1>4, <2>1, <2>2, <2>3, <2>4 DEF LifeStep
<1>5. ASSUME NEW t \in Thread, HandleStep(t) PROVE Registry'
  <2>1. CASE NewHandleSafepoint(t) \/ NewHandleTrylock(t) \/ NeedsGc(t)
    BY <2>1 DEF NewHandleSafepoint, NewHandleTrylock, NeedsGc
  <2>2. CASE GetHandle(t)
    <3>1. pc'[t] \in {"run", "mt_name", "tr_stop"}
      BY <2>2 DEF GetHandle, CallerKnown, InNewHandle, AllocOps
    <3> QED
      BY <2>2, <3>1 DEF GetHandle
  <2>3. CASE NewHandleTryGcLock(t) \/ NewHandleUnlockGc(t) \/ OutOfHandles(t)
    BY <2>3 DEF NewHandleTryGcLock, NewHandleUnlockGc, OutOfHandles
  <2> QED
    BY <1>5, <2>1, <2>2, <2>3 DEF HandleStep
<1>6. ASSUME NEW t \in Thread, GcStep(t) PROVE Registry'
  <2>1. CASE GcTrylock(t) \/ GcLockHandles(t) \/ GcUnlockHandles(t) \/ GcUnlock(t)
    BY <2>1 DEF GcTrylock, GcLockHandles, GcUnlockHandles, GcUnlock, AfterGc
  <2>2. CASE \/ SetInhibit(t) \/ BeginCollect(t) \/ PostponeCollect(t) \/ ScanAlone(t)
    BY <2>2 DEF SetInhibit, BeginCollect, PostponeCollect, ScanAlone, Caller
  <2>3. CASE StopWorld(t) \/ SeeStopped(t) \/ ScanStacks(t) \/ UnlockAllThreads(t)
    BY <2>3 DEF StopWorld, SeeStopped, ScanStacks, UnlockAllThreads
  <2>4. CASE MarkRoots(t) \/ Sweep(t) \/ StartWorld(t)
    BY <2>4 DEF MarkRoots, Sweep, StartWorld, Caller
  <2> QED
    BY <1>6, <2>1, <2>2, <2>3, <2>4 DEF GcStep
<1> QED
  BY <1>1, <1>2, <1>3, <1>4, <1>5, <1>6 DEF Next, RuntimeStep

THEOREM RegistryKept == Spec => []Registry
<1>1. Init => Registry
  BY PrimordialIsThread
  DEF Init, Registry, ChildUnborn, ChildRegistered, OneMaker, RunningIsRegistered
<1> QED
  BY <1>1, RegistryStep, Typing, PTL DEF Spec

\* A collector that goes over all_threads misses no thread that can touch objects.
THEOREM Registered == Spec => []RunningIsRegistered
BY RegistryKept, PTL DEF Registry

----------------------------------------------------------------------------
(***************************************************************************)
(* The flag.  stop_for_gc?_ belongs to one collector from stop_the_world   *)
(* to start_the_world, and that collector no longer waits for anybody once *)
(* it has gone on.                                                         *)
(***************************************************************************)
FlagOwned == /\ StopFlagNamesCollector
             /\ \A t \in Thread : pc[t] \in {"c_wait", "c_scan"} => stopForGc = t
             /\ stopForGc # NIL /\ pc[stopForGc] # "c_wait" => waiting = {}

LEMMA FlagStep == ASSUME Types, Locks, Registry, FlagOwned, [Next]_vars PROVE FlagOwned'
<1> USE NilIsNoThread
    DEF Types, TypeOK, FlagOwned, StopFlagNamesCollector, Tracing, Calls, At, Goto, threadVars,
        lockVars, handshake, inhibitVars, heapVars, gcVars
<1>1. CASE UNCHANGED vars
  BY <1>1 DEF vars
<1>2. ASSUME NEW t \in Thread, UserStep(t) \/ Yield(t) PROVE FlagOwned'
  <2>1. CASE Drop(t) \/ Put(t) \/ Take(t) \/ Clear(t)
    BY <2>1 DEF Drop, Put, Take, Clear
  <2>2. CASE \/ CallAlloc(t) \/ CallGc(t) \/ CallGcDisable(t) \/ CallJoin(t)
             \/ CallSafepoint(t) \/ CallFinish(t) \/ CallReset(t)
    BY <2>2 DEF CallAlloc, CallGc, CallGcDisable, CallJoin, CallSafepoint, CallFinish,
                CallReset, Enter
  <2>3. CASE CallGcEnable(t) \/ CallMake(t) \/ CallCreate(t)
    BY <2>3 DEF CallGcEnable, CallMake, CallCreate
  <2> QED
    BY <1>2, <2>1, <2>2, <2>3 DEF UserStep, Yield
<1>3. ASSUME NEW t \in Thread, StopStep(t) PROVE FlagOwned'
  <2>1. CASE AnnounceStop(t) \/ SaveRegisters(t) \/ SeeWorldStarted(t)
    BY <2>1 DEF AnnounceStop, SaveRegisters, SeeWorldStarted
  <2>2. CASE ResumeFromStop(t)
    BY <2>2 DEF ResumeFromStop, Resume, RunAgain
  <2>3. CASE JoinReturns(t)
    BY <2>3 DEF JoinReturns, RunAgain
  <2> QED
    BY <1>3, <2>1, <2>2, <2>3 DEF StopStep
<1>4. ASSUME NEW t \in Thread, LifeStep(t) PROVE FlagOwned'
  <2>1. CASE NameThread(t) \/ RegisterThread(t) \/ ThreadStarts(t) \/ ThreadResult(t)
    BY <2>1 DEF NameThread, RegisterThread, ThreadStarts, ThreadResult
  <2>2. CASE OsThreadCreate(t)
    BY <2>2 DEF OsThreadCreate, Registry, ChildUnborn
  <2>3. CASE ThreadEnds(t) \/ ThreadAborts(t)
    BY <2>3 DEF ThreadEnds, ThreadAborts, Deregister
  <2> QED
    BY <1>4, <2>1, <2>2, <2>3 DEF LifeStep
<1>5. ASSUME NEW t \in Thread, HandleStep(t) PROVE FlagOwned'
  <2>1. CASE NewHandleSafepoint(t) \/ NewHandleTrylock(t) \/ NeedsGc(t)
    BY <2>1 DEF NewHandleSafepoint, NewHandleTrylock, NeedsGc
  <2>2. CASE GetHandle(t)
    <3>1. pc'[t] \in {"run", "mt_name", "tr_stop"}
      BY <2>2 DEF GetHandle, CallerKnown, InNewHandle, AllocOps
    <3> QED
      BY <2>2, <3>1 DEF GetHandle
  <2>3. CASE NewHandleTryGcLock(t) \/ NewHandleUnlockGc(t) \/ OutOfHandles(t)
    BY <2>3 DEF NewHandleTryGcLock, NewHandleUnlockGc, OutOfHandles
  <2> QED
    BY <1>5, <2>1, <2>2, <2>3 DEF HandleStep
<1>6. ASSUME NEW t \in Thread, GcStep(t) PROVE FlagOwned'
  <2>1. CASE GcTrylock(t) \/ GcLockHandles(t) \/ GcUnlockHandles(t) \/ GcUnlock(t)
    BY <2>1 DEF GcTrylock, GcLockHandles, GcUnlockHandles, GcUnlock, AfterGc
  <2>2. CASE SetInhibit(t) \/ BeginCollect(t) \/ PostponeCollect(t)
    BY <2>2 DEF SetInhibit, BeginCollect, PostponeCollect, Caller
  <2>3. ASSUME pc[t] \in Collecting
        PROVE  \A u \in Thread : pc[u] \in Collecting => u = t
    BY <2>3 DEF Locks, NeedsGcLock
  <2>4. CASE ScanAlone(t)
    BY <2>3, <2>4 DEF ScanAlone, Collecting
  <2>5. CASE StopWorld(t)
    BY <2>3, <2>5 DEF StopWorld, Collecting
  <2>6. CASE SeeStopped(t)
    BY <2>6 DEF SeeStopped
  <2>7. CASE ScanStacks(t) \/ UnlockAllThreads(t) \/ MarkRoots(t) \/ Sweep(t)
    BY <2>7 DEF ScanStacks, UnlockAllThreads, MarkRoots, Sweep
  <2>8. CASE StartWorld(t)
    BY <2>3, <2>8 DEF StartWorld, Collecting, Caller
  <2> QED
    BY <1>6, <2>1, <2>2, <2>4, <2>5, <2>6, <2>7, <2>8 DEF GcStep
<1> QED
  BY <1>1, <1>2, <1>3, <1>4, <1>5, <1>6 DEF Next, RuntimeStep

THEOREM FlagHeld == Spec => []FlagOwned
<1>1. Init => FlagOwned
  BY DEF Init, FlagOwned, StopFlagNamesCollector
<1> QED
  BY <1>1, FlagStep, Typing, LocksHeld, RegistryKept, PTL DEF Spec

\* No thread ever waits for a collector that has gone.
THEOREM FlagNamesCollector == Spec => []StopFlagNamesCollector
BY FlagHeld, PTL DEF FlagOwned

----------------------------------------------------------------------------
(***************************************************************************)
(* The lone collector.  The count of threads is read without a lock, but   *)
(* a thread that is not counted has no code to run, and only the collector *)
(* itself could make another.                                              *)
(***************************************************************************)
LEMMA CountedAlone == ASSUME Types, Registry, ~Exited, Cardinality(allThreads) = 1,
                             NEW t \in Thread, pc[t] = "c_begin",
                             NEW u \in Thread, u # t
                      PROVE  pc[u] \in {"unborn", "dead"}
<1>1. t \in allThreads
  BY DEF Registry, RunningIsRegistered
<1>2. IsFiniteSet(allThreads)
  BY ThreadFinite, FS_Subset DEF Types, TypeOK
<1>3. PICK x : allThreads = {x}
  BY <1>2, FS_Singleton
<1>4. u \notin allThreads
  BY <1>1, <1>3
<1> QED
  BY <1>4 DEF Registry, RunningIsRegistered, Exited

LEMMA AloneStep == ASSUME Types, Locks, Registry, FlagOwned, AloneIsAlone, [Next]_vars
                   PROVE  AloneIsAlone'
<1> SUFFICES ASSUME NEW t \in Thread, (pc[t] \in {"c_alone"} \cup Tracing)',
                    (stopForGc # t)', NEW u \in Thread, u # t
             PROVE  pc'[u] \in {"unborn", "dead", "failed"}
  BY DEF AloneIsAlone, Absent
<1>a. pc[t] \in {"c_alone"} \cup Tracing /\ stopForGc # t => pc[u] \in {"unborn", "dead", "failed"}
  BY DEF AloneIsAlone, Absent
<1> USE <1>a, NilIsNoThread
    DEF Types, TypeOK, Tracing, Calls, At, Goto, threadVars, lockVars, handshake, inhibitVars,
        heapVars, gcVars
<1>1. CASE UNCHANGED vars
  BY <1>1 DEF vars
<1>2. ASSUME NEW v \in Thread, UserStep(v) \/ Yield(v) PROVE pc'[u] \in {"unborn", "dead", "failed"}
  <2>1. CASE Drop(v) \/ Put(v) \/ Take(v) \/ Clear(v)
    BY <2>1 DEF Drop, Put, Take, Clear
  <2>2. CASE \/ CallAlloc(v) \/ CallGc(v) \/ CallGcDisable(v) \/ CallJoin(v)
             \/ CallSafepoint(v) \/ CallFinish(v) \/ CallReset(v)
    BY <2>2 DEF CallAlloc, CallGc, CallGcDisable, CallJoin, CallSafepoint, CallFinish,
                CallReset, Enter
  <2>3. CASE CallGcEnable(v) \/ CallMake(v) \/ CallCreate(v)
    BY <2>3 DEF CallGcEnable, CallMake, CallCreate
  <2> QED
    BY <1>2, <2>1, <2>2, <2>3 DEF UserStep, Yield
<1>3. ASSUME NEW v \in Thread, StopStep(v) PROVE pc'[u] \in {"unborn", "dead", "failed"}
  <2>1. CASE AnnounceStop(v) \/ SaveRegisters(v) \/ SeeWorldStarted(v)
    BY <2>1 DEF AnnounceStop, SaveRegisters, SeeWorldStarted
  <2>2. CASE ResumeFromStop(v)
    BY <2>2 DEF ResumeFromStop, Resume, RunAgain
  <2>3. CASE JoinReturns(v)
    BY <2>3 DEF JoinReturns, RunAgain
  <2> QED
    BY <1>3, <2>1, <2>2, <2>3 DEF StopStep
<1>4. ASSUME NEW v \in Thread, LifeStep(v) PROVE pc'[u] \in {"unborn", "dead", "failed"}
  <2>1. CASE NameThread(v) \/ RegisterThread(v) \/ ThreadStarts(v) \/ ThreadResult(v)
    BY <2>1 DEF NameThread, RegisterThread, ThreadStarts, ThreadResult
  <2>2. CASE OsThreadCreate(v)
    <3>1. pc'[v] \in {"run", "start"} /\ pc[v] = "tc_start"
      BY <2>2 DEF OsThreadCreate
    <3>2. v # t
      BY <3>1
    <3>3. ~(pc[t] \in {"c_alone"} \cup Tracing /\ stopForGc # t)
      BY <3>1, <3>2 DEF AloneIsAlone, Absent
    <3> QED
      BY <2>2, <3>2, <3>3 DEF OsThreadCreate
  <2>3. CASE ThreadEnds(v) \/ ThreadAborts(v)
    BY <2>3 DEF ThreadEnds, ThreadAborts, Deregister
  <2> QED
    BY <1>4, <2>1, <2>2, <2>3 DEF LifeStep
<1>5. ASSUME NEW v \in Thread, HandleStep(v) PROVE pc'[u] \in {"unborn", "dead", "failed"}
  <2>1. CASE NewHandleSafepoint(v) \/ NewHandleTrylock(v) \/ NeedsGc(v)
    BY <2>1 DEF NewHandleSafepoint, NewHandleTrylock, NeedsGc
  <2>2. CASE GetHandle(v)
    <3>1. pc'[v] \in {"run", "mt_name", "tr_stop"}
      BY <2>2 DEF GetHandle, CallerKnown, InNewHandle, AllocOps
    <3> QED
      BY <2>2, <3>1 DEF GetHandle
  <2>3. CASE NewHandleTryGcLock(v) \/ NewHandleUnlockGc(v) \/ OutOfHandles(v)
    BY <2>3 DEF NewHandleTryGcLock, NewHandleUnlockGc, OutOfHandles
  <2> QED
    BY <1>5, <2>1, <2>2, <2>3 DEF HandleStep
<1>6. ASSUME NEW v \in Thread, GcStep(v) PROVE pc'[u] \in {"unborn", "dead", "failed"}
  <2>1. CASE GcTrylock(v) \/ GcLockHandles(v) \/ GcUnlockHandles(v) \/ GcUnlock(v)
    BY <2>1 DEF GcTrylock, GcLockHandles, GcUnlockHandles, GcUnlock, AfterGc
  <2>2. CASE SetInhibit(v) \/ PostponeCollect(v)
    BY <2>2 DEF SetInhibit, PostponeCollect, Caller
  <2>3. ASSUME pc[v] \in Collecting, pc[t] \in Collecting
        PROVE  v = t
    BY <2>3 DEF Locks, NeedsGcLock
  <2>4. CASE BeginCollect(v)
    <3>1. CASE v = t
      <4>1. Cardinality(allThreads) = 1 /\ ~Exited /\ pc[t] = "c_begin"
        BY <2>4, <3>1 DEF BeginCollect
      <4> QED
        BY <2>4, <3>1, <4>1, CountedAlone DEF BeginCollect
    <3>2. CASE v # t
      BY <2>3, <2>4, <3>2 DEF BeginCollect, Collecting
    <3> QED
      BY <3>1, <3>2
  <2>5. CASE ScanAlone(v)
    BY <2>5 DEF ScanAlone
  <2>6. CASE StopWorld(v)
    BY <2>3, <2>6 DEF StopWorld, Collecting
  <2>7. CASE SeeStopped(v) \/ ScanStacks(v)
    BY <2>7 DEF SeeStopped, ScanStacks
  <2>8. CASE UnlockAllThreads(v)
    BY <2>8 DEF UnlockAllThreads, FlagOwned
  <2>9. CASE MarkRoots(v) \/ Sweep(v)
    BY <2>9 DEF MarkRoots, Sweep
  <2>10. CASE StartWorld(v)
    BY <2>3, <2>10 DEF StartWorld, Collecting, Caller
  <2> QED
    BY <1>6, <2>1, <2>2, <2>4, <2>5, <2>6, <2>7, <2>8, <2>9, <2>10 DEF GcStep
<1> QED
  BY <1>1, <1>2, <1>3, <1>4, <1>5, <1>6 DEF Next, RuntimeStep

\* A collector that found itself alone stays alone until the collection is over.
THEOREM Alone == Spec => []AloneIsAlone
<1>1. Init => AloneIsAlone
  BY DEF Init, AloneIsAlone, Tracing
<1> QED
  BY <1>1, AloneStep, Typing, LocksHeld, RegistryKept, FlagHeld, PTL DEF Spec

----------------------------------------------------------------------------
(***************************************************************************)
(* The stopped world.  A thread object whose state is STOPPED belongs to a *)
(* thread that is parked or has ended: what the collector reads is true.   *)
(***************************************************************************)
StateTold == \A t \in Thread : state[t] = "STOPPED" => pc[t] \in Parked \cup {"dead"}

LEMMA StateStep == ASSUME Types, Registry, StateTold, [Next]_vars PROVE StateTold'
<1> USE DEF Types, TypeOK, StateTold, Parked, Waits, Calls, At, Goto, SetState, threadVars,
            lockVars, handshake, inhibitVars, heapVars, gcVars
<1>1. CASE UNCHANGED vars
  BY <1>1 DEF vars
<1>2. ASSUME NEW t \in Thread, UserStep(t) \/ Yield(t) PROVE StateTold'
  <2>1. CASE Drop(t) \/ Put(t) \/ Take(t) \/ Clear(t)
    BY <2>1 DEF Drop, Put, Take, Clear
  <2>2. CASE \/ CallAlloc(t) \/ CallGc(t) \/ CallGcDisable(t) \/ CallJoin(t)
             \/ CallSafepoint(t) \/ CallFinish(t) \/ CallReset(t)
    BY <2>2 DEF CallAlloc, CallGc, CallGcDisable, CallJoin, CallSafepoint, CallFinish,
                CallReset, Enter
  <2>3. CASE CallGcEnable(t) \/ CallMake(t)
    BY <2>3 DEF CallGcEnable, CallMake
  <2>4. CASE CallCreate(t)
    BY <2>4 DEF CallCreate, Unstarted
  <2> QED
    BY <1>2, <2>1, <2>2, <2>3, <2>4 DEF UserStep, Yield
<1>3. ASSUME NEW t \in Thread, StopStep(t) PROVE StateTold'
  <2>1. CASE AnnounceStop(t) \/ SaveRegisters(t) \/ SeeWorldStarted(t)
    BY <2>1 DEF AnnounceStop, SaveRegisters, SeeWorldStarted
  <2>2. CASE ResumeFromStop(t)
    BY <2>2 DEF ResumeFromStop, Resume, RunAgain
  <2>3. CASE JoinReturns(t)
    BY <2>3 DEF JoinReturns, RunAgain
  <2> QED
    BY <1>3, <2>1, <2>2, <2>3 DEF StopStep
<1>4. ASSUME NEW t \in Thread, LifeStep(t) PROVE StateTold'
  <2>1. CASE NameThread(t) \/ RegisterThread(t) \/ ThreadStarts(t) \/ ThreadResult(t)
    BY <2>1 DEF NameThread, RegisterThread, ThreadStarts, ThreadResult
  <2>2. CASE OsThreadCreate(t)
    BY <2>2 DEF OsThreadCreate, Registry, ChildUnborn
  <2>3. CASE ThreadEnds(t) \/ ThreadAborts(t)
    BY <2>3 DEF ThreadEnds, ThreadAborts, Deregister
  <2> QED
    BY <1>4, <2>1, <2>2, <2>3 DEF LifeStep
<1>5. ASSUME NEW t \in Thread, HandleStep(t) PROVE StateTold'
  <2>1. CASE NewHandleSafepoint(t) \/ NewHandleTrylock(t) \/ NeedsGc(t)
    BY <2>1 DEF NewHandleSafepoint, NewHandleTrylock, NeedsGc
  <2>2. CASE GetHandle(t)
    BY <2>2 DEF GetHandle
  <2>3. CASE NewHandleTryGcLock(t) \/ NewHandleUnlockGc(t) \/ OutOfHandles(t)
    BY <2>3 DEF NewHandleTryGcLock, NewHandleUnlockGc, OutOfHandles
  <2> QED
    BY <1>5, <2>1, <2>2, <2>3 DEF HandleStep
<1>6. ASSUME NEW t \in Thread, GcStep(t) PROVE StateTold'
  <2>1. CASE GcTrylock(t) \/ GcLockHandles(t) \/ GcUnlockHandles(t) \/ GcUnlock(t)
    BY <2>1 DEF GcTrylock, GcLockHandles, GcUnlockHandles, GcUnlock, AfterGc
  <2>2. CASE SetInhibit(t) \/ BeginCollect(t) \/ PostponeCollect(t) \/ ScanAlone(t)
    BY <2>2 DEF SetInhibit, BeginCollect, PostponeCollect, ScanAlone, Caller
  <2>3. CASE StopWorld(t) \/ SeeStopped(t) \/ ScanStacks(t) \/ UnlockAllThreads(t)
    BY <2>3 DEF StopWorld, SeeStopped, ScanStacks, UnlockAllThreads
  <2>4. CASE MarkRoots(t) \/ Sweep(t) \/ StartWorld(t)
    BY <2>4 DEF MarkRoots, Sweep, StartWorld, Caller
  <2> QED
    BY <1>6, <2>1, <2>2, <2>3, <2>4 DEF GcStep
<1> QED
  BY <1>1, <1>2, <1>3, <1>4, <1>5, <1>6 DEF Next, RuntimeStep

THEOREM StateTrue == Spec => []StateTold
<1>1. Init => StateTold
  BY DEF Init, StateTold
<1> QED
  BY <1>1, StateStep, Typing, RegistryKept, PTL DEF Spec

----------------------------------------------------------------------------
(***************************************************************************)
(* Whom the collector waits for.  It waits for registered threads only,    *)
(* none of which has ended; a parked thread has said so; and a registered  *)
(* thread that is not there yet is about to be created.                    *)
(***************************************************************************)
ParkedSaysSo == \A t \in Thread : pc[t] \in Parked => state[t] = "STOPPED"

RegisteredExists ==
  \A u \in allThreads :
    /\ pc[u] # "dead"
    /\ pc[u] = "unborn" => \E v \in Thread : pc[v] = "tc_start" /\ child[v] = u

WaitsForRegistered == \A t \in Thread : pc[t] = "c_wait" => waiting \subseteq allThreads

Waited == ParkedSaysSo /\ RegisteredExists /\ WaitsForRegistered

LEMMA WaitedStep == ASSUME Types, Locks, Registry, Waited, [Next]_vars PROVE Waited'
<1> USE NilIsNoThread
    DEF Types, TypeOK, Waited, ParkedSaysSo, RegisteredExists, WaitsForRegistered, Parked, Waits,
        Calls, At, Goto, SetState, threadVars, lockVars, handshake, inhibitVars, heapVars, gcVars
<1>1. CASE UNCHANGED vars
  BY <1>1 DEF vars
<1>2. ASSUME NEW t \in Thread, UserStep(t) \/ Yield(t) PROVE Waited'
  <2>1. CASE Drop(t) \/ Put(t) \/ Take(t) \/ Clear(t)
    BY <2>1 DEF Drop, Put, Take, Clear
  <2>2. CASE \/ CallAlloc(t) \/ CallGc(t) \/ CallGcDisable(t) \/ CallJoin(t)
             \/ CallSafepoint(t) \/ CallFinish(t) \/ CallReset(t)
    BY <2>2 DEF CallAlloc, CallGc, CallGcDisable, CallJoin, CallSafepoint, CallFinish,
                CallReset, Enter
  <2>3. CASE CallGcEnable(t)
    BY <2>3 DEF CallGcEnable
  <2>4. CASE CallMake(t)
    BY <2>4 DEF CallMake
  <2>5. CASE CallCreate(t)
    BY <2>5 DEF CallCreate, Unstarted
  <2> QED
    BY <1>2, <2>1, <2>2, <2>3, <2>4, <2>5 DEF UserStep, Yield
<1>3. ASSUME NEW t \in Thread, StopStep(t) PROVE Waited'
  <2>1. CASE AnnounceStop(t) \/ SaveRegisters(t) \/ SeeWorldStarted(t)
    BY <2>1 DEF AnnounceStop, SaveRegisters, SeeWorldStarted
  <2>2. CASE ResumeFromStop(t)
    BY <2>2 DEF ResumeFromStop, Resume, RunAgain
  <2>3. CASE JoinReturns(t)
    BY <2>3 DEF JoinReturns, RunAgain
  <2> QED
    BY <1>3, <2>1, <2>2, <2>3 DEF StopStep
<1>4. ASSUME NEW t \in Thread, LifeStep(t) PROVE Waited'
  <2>1. CASE NameThread(t) \/ ThreadStarts(t) \/ ThreadResult(t)
    BY <2>1 DEF NameThread, ThreadStarts, ThreadResult
  <2>2. CASE RegisterThread(t)
    <3>1. pc[child[t]] = "unborn" /\ child[t] \in Thread
      BY <2>2 DEF RegisterThread, Registry, ChildUnborn, ChildKnown
    <3> QED
      BY <2>2, <3>1 DEF RegisterThread
  <2>3. CASE OsThreadCreate(t)
    BY <2>3 DEF OsThreadCreate, Registry, ChildUnborn, ChildKnown
  <2>4. CASE ThreadEnds(t) \/ ThreadAborts(t)
    <3>1. \A c \in Thread : pc[c] # "c_wait"
      BY <2>4 DEF ThreadEnds, ThreadAborts, Deregister, Locks, NeedsAllThreadsLock
    <3>2. allThreads' = allThreads \ {t} /\ pc' = [pc EXCEPT ![t] = "dead"]
      BY <2>4 DEF ThreadEnds, ThreadAborts, Deregister
    <3>3. pc[t] # "tc_start" /\ UNCHANGED <<state, child>>
      BY <2>4 DEF ThreadEnds, ThreadAborts, Deregister
    <3>4. RegisteredExists'
      BY <3>2, <3>3
    <3> QED
      BY <3>1, <3>2, <3>3, <3>4
  <2> QED
    BY <1>4, <2>1, <2>2, <2>3, <2>4 DEF LifeStep
<1>5. ASSUME NEW t \in Thread, HandleStep(t) PROVE Waited'
  <2>1. CASE NewHandleSafepoint(t) \/ NewHandleTrylock(t) \/ NeedsGc(t)
    BY <2>1 DEF NewHandleSafepoint, NewHandleTrylock, NeedsGc
  <2>2. CASE GetHandle(t)
    <3>1. pc'[t] \in {"run", "mt_name", "tr_stop"}
      BY <2>2 DEF GetHandle, CallerKnown, InNewHandle, AllocOps
    <3>2. pc[t] \in {"nh_get", "nh_retry"} /\ \A u \in Thread \ {t} : pc'[u] = pc[u]
      BY <2>2 DEF GetHandle
    <3>3. UNCHANGED <<state, child, allThreads, waiting>>
      BY <2>2 DEF GetHandle
    <3> QED
      BY <3>1, <3>2, <3>3
  <2>3. CASE NewHandleTryGcLock(t) \/ NewHandleUnlockGc(t) \/ OutOfHandles(t)
    BY <2>3 DEF NewHandleTryGcLock, NewHandleUnlockGc, OutOfHandles
  <2> QED
    BY <1>5, <2>1, <2>2, <2>3 DEF HandleStep
<1>6. ASSUME NEW t \in Thread, GcStep(t) PROVE Waited'
  <2>1. CASE GcTrylock(t) \/ GcLockHandles(t) \/ GcUnlockHandles(t) \/ GcUnlock(t)
    BY <2>1 DEF GcTrylock, GcLockHandles, GcUnlockHandles, GcUnlock, AfterGc
  <2>2. CASE \/ SetInhibit(t) \/ BeginCollect(t) \/ PostponeCollect(t) \/ ScanAlone(t)
    BY <2>2 DEF SetInhibit, BeginCollect, PostponeCollect, ScanAlone, Caller
  <2>3. CASE StopWorld(t)
    BY <2>3 DEF StopWorld
  <2>4. CASE SeeStopped(t) \/ ScanStacks(t) \/ UnlockAllThreads(t)
    BY <2>4 DEF SeeStopped, ScanStacks, UnlockAllThreads
  <2>5. CASE MarkRoots(t) \/ Sweep(t) \/ StartWorld(t)
    BY <2>5 DEF MarkRoots, Sweep, StartWorld, Caller
  <2> QED
    BY <1>6, <2>1, <2>2, <2>3, <2>4, <2>5 DEF GcStep
<1> QED
  BY <1>1, <1>2, <1>3, <1>4, <1>5, <1>6 DEF Next, RuntimeStep

\* Whoever keeps a collector waiting has a step to take or is one of the threads that
\* can deadlock with it; neither the gc lock nor the handles lock, and neither a join nor
\* an earlier collection, closes a circle.
THEOREM NoOtherDeadlock == Spec => []CollectorWaitsForMovers
<1>1. Init => Waited
  BY PrimordialIsThread DEF Init, Waited, ParkedSaysSo, RegisteredExists, WaitsForRegistered, Parked, Waits
<1>2. Spec => []Waited
  BY <1>1, WaitedStep, Typing, LocksHeld, RegistryKept, PTL DEF Spec
<1>3. Types /\ Locks /\ Waited => CollectorWaitsForMovers
  <2> SUFFICES ASSUME Types, Locks, Waited, ~Exited,
                      NEW t \in Thread, pc[t] = "c_wait", NEW u \in waiting, u # t,
                      state[u] # "STOPPED"
               PROVE  \/ pc[u] \in Moving \cup Unstoppable
                      \/ \E v \in Thread : pc[v] = "tc_start" /\ child[v] = u
    BY DEF CollectorWaitsForMovers
  <2>1. u \in Thread /\ pc[u] \in Location
    BY DEF Types, TypeOK
  <2>2. pc[u] \notin NeedsGcLock \cup NeedsHandlesLock
    BY <2>1, NilIsNoThread DEF Types, TypeOK, Locks, NeedsGcLock, NeedsHandlesLock, Collecting
  <2>3. pc[u] \notin Parked \cup {"dead", "bye"}
    BY <2>1 DEF Waited, ParkedSaysSo, RegisteredExists, WaitsForRegistered, Exited
  <2>4. pc[u] = "unborn" => \E v \in Thread : pc[v] = "tc_start" /\ child[v] = u
    BY DEF Waited, RegisteredExists, WaitsForRegistered
  <2> QED
    BY <2>1, <2>2, <2>3, <2>4
    DEF Location, Absent, Collecting, Moving, Unstoppable, NeedsGcLock, NeedsHandlesLock
<1> QED
  BY <1>2, <1>3, Typing, LocksHeld, PTL

(***************************************************************************)
(* While the flag is up, a thread that the collector no longer waits for   *)
(* is parked, has no code to run, or slipped through.  A thread that is    *)
(* about to run on was seen to be late; one that starts without having     *)
(* been waited for was created by a thread that slipped through.           *)
(***************************************************************************)
StoppedStays ==
  stopForGc # NIL =>
    /\ \A u \in Thread \ waiting :
         u = stopForGc \/ pc[u] \in Parked \cup Absent \/ u \in escaped
    /\ \A u \in Thread : pc[u] = "sp_resume" => u \in late
    /\ \A u \in Thread \ waiting : pc[u] = "start" => escaped # {}
    /\ \A u \in waiting : pc[u] = "tc_start" => child[u] \in waiting \/ escaped # {}

LEMMA StoppedStep == ASSUME Types, Locks, Registry, FlagOwned, StateTold, StoppedStays,
                            [Next]_vars
                     PROVE  StoppedStays'
<1> USE NilIsNoThread
    DEF Types, TypeOK, StoppedStays, Parked, Waits, Absent, Calls, At, Goto, SetState,
        threadVars, lockVars, handshake, inhibitVars, heapVars, gcVars
<1>1. CASE UNCHANGED vars
  BY <1>1 DEF vars
<1>2. ASSUME NEW t \in Thread, UserStep(t) \/ Yield(t) PROVE StoppedStays'
  <2>1. CASE Drop(t) \/ Put(t) \/ Take(t) \/ Clear(t)
    BY <2>1 DEF Drop, Put, Take, Clear
  <2>2. CASE \/ CallAlloc(t) \/ CallGc(t) \/ CallGcDisable(t) \/ CallJoin(t)
             \/ CallSafepoint(t) \/ CallFinish(t) \/ CallReset(t)
    BY <2>2 DEF CallAlloc, CallGc, CallGcDisable, CallJoin, CallSafepoint, CallFinish,
                CallReset, Enter
  <2>3. CASE CallGcEnable(t)
    BY <2>3 DEF CallGcEnable
  <2>4. CASE CallMake(t) \/ CallCreate(t)
    BY <2>4 DEF CallMake, CallCreate
  <2> QED
    BY <1>2, <2>1, <2>2, <2>3, <2>4 DEF UserStep, Yield
<1>3. ASSUME NEW t \in Thread, StopStep(t) PROVE StoppedStays'
  <2>1. CASE AnnounceStop(t) \/ SaveRegisters(t) \/ SeeWorldStarted(t)
    BY <2>1 DEF AnnounceStop, SaveRegisters, SeeWorldStarted
  <2>2. CASE ResumeFromStop(t)
    BY <2>2 DEF ResumeFromStop, Resume, RunAgain, NoteEscape
  <2>3. CASE JoinReturns(t)
    BY <2>3 DEF JoinReturns, RunAgain, NoteEscape
  <2> QED
    BY <1>3, <2>1, <2>2, <2>3 DEF StopStep
<1>4. ASSUME NEW t \in Thread, LifeStep(t) PROVE StoppedStays'
  <2>1. CASE NameThread(t) \/ ThreadResult(t)
    BY <2>1 DEF NameThread, ThreadResult
  <2>2. CASE RegisterThread(t)
    <3>1. stopForGc # NIL => waiting = {}
      BY <2>2 DEF RegisterThread, FlagOwned, StopFlagNamesCollector, Locks, NeedsAllThreadsLock
    <3> QED
      BY <2>2, <3>1 DEF RegisterThread
  <2>3. CASE OsThreadCreate(t)
    <3>1. t # stopForGc
      BY <2>3 DEF OsThreadCreate, FlagOwned, StopFlagNamesCollector, Tracing
    <3> QED
      BY <2>3, <3>1 DEF OsThreadCreate, ChildKnown, Registry, ChildUnborn
  <2>4. CASE ThreadStarts(t)
    <3>1. stopForGc # NIL /\ t \notin waiting => t \in escaped'
      BY <2>4 DEF ThreadStarts, NoteEscape
    <3>2. escaped \subseteq escaped'
      BY <2>4 DEF ThreadStarts, NoteEscape
    <3> QED
      BY <2>4, <3>1, <3>2 DEF ThreadStarts
  <2>5. CASE ThreadEnds(t) \/ ThreadAborts(t)
    BY <2>5 DEF ThreadEnds, ThreadAborts, Deregister
  <2> QED
    BY <1>4, <2>1, <2>2, <2>3, <2>4, <2>5 DEF LifeStep
<1>5. ASSUME NEW t \in Thread, HandleStep(t) PROVE StoppedStays'
  <2>1. CASE NewHandleSafepoint(t) \/ NewHandleTrylock(t) \/ NeedsGc(t)
    BY <2>1 DEF NewHandleSafepoint, NewHandleTrylock, NeedsGc
  <2>2. CASE GetHandle(t)
    <3>1. pc'[t] \in {"run", "mt_name", "tr_stop"}
      BY <2>2 DEF GetHandle, CallerKnown, InNewHandle, AllocOps
    <3> QED
      BY <2>2, <3>1 DEF GetHandle
  <2>3. CASE NewHandleTryGcLock(t) \/ NewHandleUnlockGc(t) \/ OutOfHandles(t)
    BY <2>3 DEF NewHandleTryGcLock, NewHandleUnlockGc, OutOfHandles
  <2> QED
    BY <1>5, <2>1, <2>2, <2>3 DEF HandleStep
<1>6. ASSUME NEW t \in Thread, GcStep(t) PROVE StoppedStays'
  <2>1. CASE GcTrylock(t) \/ GcLockHandles(t) \/ GcUnlockHandles(t) \/ GcUnlock(t)
    BY <2>1 DEF GcTrylock, GcLockHandles, GcUnlockHandles, GcUnlock, AfterGc
  <2>2. CASE SetInhibit(t) \/ BeginCollect(t) \/ PostponeCollect(t) \/ ScanAlone(t)
    BY <2>2 DEF SetInhibit, BeginCollect, PostponeCollect, ScanAlone, Caller
  <2>3. CASE StopWorld(t)
    <3>1. waiting' = allThreads /\ stopForGc' = t /\ UNCHANGED child
      BY <2>3 DEF StopWorld
    <3>2. \A u \in Thread \ allThreads : pc[u] \in {"unborn", "dead"}
      BY <2>3 DEF StopWorld, Registry, RunningIsRegistered, Exited
    <3>3. \A u \in Thread : pc'[u] = IF u = t THEN "c_wait" ELSE pc[u]
      BY <2>3 DEF StopWorld
    <3>4. late' = {u \in Thread : pc[u] = "sp_resume"}
      BY <2>3 DEF StopWorld
    <3>5. \A u \in Thread : pc[u] = "tc_start" => child[u] \in allThreads
      BY DEF Registry, ChildRegistered
    <3> QED
      BY <3>1, <3>2, <3>3, <3>4, <3>5
  <2>4. CASE SeeStopped(t)
    <3>1. stopForGc = t
      BY <2>4 DEF SeeStopped, FlagOwned
    <3>2. PICK u \in waiting : waiting' = waiting \ {u} /\ (u = t \/ state[u] = "STOPPED")
      BY <2>4 DEF SeeStopped
    <3>3. u = t \/ pc[u] \in Parked \cup {"dead"}
      BY <3>2 DEF StateTold
    <3>4. pc[u] # "start" /\ pc[u] # "unborn"
      BY <2>4, <3>3 DEF SeeStopped
    <3>5. \A v \in Thread : pc[v] = "tc_start" => child[v] # u
      BY <3>4 DEF Registry, ChildUnborn
    <3> QED
      BY <2>4, <3>1, <3>2, <3>3, <3>4, <3>5 DEF SeeStopped
  <2>5. CASE ScanStacks(t) \/ UnlockAllThreads(t)
    BY <2>5 DEF ScanStacks, UnlockAllThreads
  <2>6. CASE MarkRoots(t) \/ Sweep(t)
    BY <2>6 DEF MarkRoots, Sweep
  <2>7. CASE StartWorld(t)
    BY <2>7 DEF StartWorld
  <2> QED
    BY <1>6, <2>1, <2>2, <2>3, <2>4, <2>5, <2>6, <2>7 DEF GcStep
<1> QED
  BY <1>1, <1>2, <1>3, <1>4, <1>5, <1>6 DEF Next, RuntimeStep

THEOREM StoppedStay == Spec => []StoppedStays
<1>1. Init => StoppedStays
  BY DEF Init, StoppedStays
<1> QED
  BY <1>1, StoppedStep, Typing, LocksHeld, RegistryKept, FlagHeld, StateTrue, PTL DEF Spec

\* Once stop_the_world has returned, only a thread that slipped through runs.
THEOREM WorldStopped == Spec => []WorldIsStopped
<1>1. Types /\ StoppedStays => WorldIsStopped
  BY DEF Types, TypeOK, StoppedStays, WorldIsStopped
<1> QED
  BY <1>1, StoppedStay, Typing, PTL

----------------------------------------------------------------------------
(***************************************************************************)
(* The heap.  As long as no collection has missed part of a stack, what    *)
(* the running collection has marked covers every stack from the scan on,  *)
(* and the roots too before it sweeps: nobody can change them meanwhile.   *)
(***************************************************************************)
IdleEmpty == \A t \in Thread : pc[t] \in Absent \cup {"tr_remove"} => stack[t] = {}

EscapeBreaches == escaped # {} => breached

Scanned == {"c_scan"} \cup Tracing

MarkedCovers ==
  ~breached => \A c \in Thread :
    /\ pc[c] \in Scanned => \A u \in Thread : stack[u] \subseteq marked
    /\ pc[c] \in {"c_sweep", "c_start"} => global \subseteq marked

HeapSafe == IdleEmpty /\ EscapeBreaches /\ MarkedCovers /\ NoDanglingHandle

Handshake == /\ Types /\ Locks /\ Registry /\ FlagOwned /\ AloneIsAlone /\ StateTold
             /\ StoppedStays

LEMMA QuietWorld ==
  ASSUME Handshake, EscapeBreaches, ~breached,
         NEW c \in Thread, pc[c] \in Scanned, NEW t \in Thread, t # c
  PROVE  pc[t] \in Parked \cup Absent
<1>1. CASE stopForGc = c
  <2>1. waiting = {}
    BY <1>1, NilIsNoThread DEF Handshake, FlagOwned, Scanned, Tracing
  <2> QED
    BY <1>1, <2>1, NilIsNoThread DEF Handshake, StoppedStays, EscapeBreaches
<1>2. CASE stopForGc # c
  <2>1. pc[c] \in Tracing
    BY <1>2 DEF Handshake, FlagOwned, Scanned
  <2> QED
    BY <1>2, <2>1 DEF Handshake, AloneIsAlone
<1> QED
  BY <1>1, <1>2

LEMMA OneCollector ==
  ASSUME Handshake, NEW c \in Thread, NEW t \in Thread,
         pc[c] \in Collecting, pc[t] \in Collecting
  PROVE  c = t
BY DEF Handshake, Locks, NeedsGcLock

LEMMA HeapStep == ASSUME Handshake, HeapSafe, [Next]_vars PROVE HeapSafe'
<1> USE DEF HeapSafe, IdleEmpty, EscapeBreaches, MarkedCovers, NoDanglingHandle, Handshake, Types,
            TypeOK, Scanned, Tracing, Absent, Calls, At, Goto, threadVars, lockVars, handshake,
            inhibitVars, heapVars, gcVars
<1>q. ASSUME ~breached, NEW c \in Thread, pc[c] \in Scanned, NEW t \in Thread,
             pc[t] \in {"run", "nh_get", "nh_retry", "tr_stop", "reset"}
      PROVE  FALSE
  <2>1. t # c
    BY <1>q
  <2> QED
    BY <1>q, <2>1, QuietWorld DEF Parked, Waits
<1>1. CASE UNCHANGED vars
  BY <1>1 DEF vars
<1>2. ASSUME NEW t \in Thread, UserStep(t) \/ Yield(t) PROVE HeapSafe'
  <2>1. CASE Drop(t) \/ Take(t)
    BY <1>q, <2>1 DEF Drop, Take
  <2>2. CASE Put(t) \/ Clear(t)
    BY <1>q, <2>2 DEF Put, Clear
  <2>3. CASE \/ CallAlloc(t) \/ CallGc(t) \/ CallGcDisable(t) \/ CallJoin(t)
             \/ CallSafepoint(t) \/ CallFinish(t) \/ CallReset(t)
    BY <2>3 DEF CallAlloc, CallGc, CallGcDisable, CallJoin, CallSafepoint, CallFinish,
                CallReset, Enter
  <2>4. CASE CallGcEnable(t)
    BY <2>4 DEF CallGcEnable
  <2>5. CASE CallMake(t) \/ CallCreate(t)
    BY <2>5 DEF CallMake, CallCreate
  <2> QED
    BY <1>2, <2>1, <2>2, <2>3, <2>4, <2>5 DEF UserStep, Yield
<1>3. ASSUME NEW t \in Thread, StopStep(t) PROVE HeapSafe'
  <2>1. CASE AnnounceStop(t) \/ SaveRegisters(t) \/ SeeWorldStarted(t)
    BY <2>1 DEF AnnounceStop, SaveRegisters, SeeWorldStarted
  <2>2. CASE ResumeFromStop(t)
    BY <2>2 DEF ResumeFromStop, Resume, RunAgain, NoteEscape
  <2>3. CASE JoinReturns(t)
    BY <2>3 DEF JoinReturns, RunAgain, NoteEscape
  <2> QED
    BY <1>3, <2>1, <2>2, <2>3 DEF StopStep
<1>4. ASSUME NEW t \in Thread, LifeStep(t) PROVE HeapSafe'
  <2>1. CASE NameThread(t) \/ RegisterThread(t)
    BY <2>1 DEF NameThread, RegisterThread
  <2>2. CASE OsThreadCreate(t)
    BY <2>2 DEF OsThreadCreate, Registry, ChildUnborn, ChildKnown
  <2>3. CASE ThreadStarts(t)
    BY <2>3 DEF ThreadStarts, NoteEscape
  <2>4. CASE ThreadResult(t)
    BY <1>q, <2>4 DEF ThreadResult
  <2>5. CASE ThreadEnds(t)
    BY <2>5 DEF ThreadEnds, Deregister
  <2>6. CASE ThreadAborts(t)
    BY <2>6 DEF ThreadAborts, Deregister
  <2> QED
    BY <1>4, <2>1, <2>2, <2>3, <2>4, <2>5, <2>6 DEF LifeStep
<1>5. ASSUME NEW t \in Thread, HandleStep(t) PROVE HeapSafe'
  <2>1. CASE NewHandleSafepoint(t) \/ NewHandleTrylock(t) \/ NeedsGc(t)
    BY <2>1 DEF NewHandleSafepoint, NewHandleTrylock, NeedsGc
  <2>2. CASE GetHandle(t)
    <3>1. pc'[t] \in {"run", "mt_name", "tr_stop"}
      BY <2>2 DEF GetHandle, CallerKnown, InNewHandle, AllocOps
    <3> QED
      BY <1>q, <2>2, <3>1 DEF GetHandle
  <2>3. CASE NewHandleTryGcLock(t) \/ NewHandleUnlockGc(t) \/ OutOfHandles(t)
    BY <2>3 DEF NewHandleTryGcLock, NewHandleUnlockGc, OutOfHandles
  <2> QED
    BY <1>5, <2>1, <2>2, <2>3 DEF HandleStep
<1>6. ASSUME NEW t \in Thread, GcStep(t) PROVE HeapSafe'
  <2>1. CASE GcTrylock(t) \/ GcLockHandles(t) \/ GcUnlockHandles(t) \/ GcUnlock(t)
    BY <2>1 DEF GcTrylock, GcLockHandles, GcUnlockHandles, GcUnlock, AfterGc
  <2>2. CASE SetInhibit(t) \/ BeginCollect(t) \/ PostponeCollect(t)
    BY <2>2 DEF SetInhibit, BeginCollect, PostponeCollect, Caller
  <2>3. ASSUME pc[t] \in Collecting, NEW c \in Thread, pc[c] \in Scanned
        PROVE  c = t
    BY <2>3, OneCollector DEF Collecting
  <2>4. CASE ScanAlone(t)
    <3>1. stopForGc # t
      BY <2>4, NilIsNoThread DEF ScanAlone, FlagOwned, StopFlagNamesCollector
    <3>2. \A u \in Thread : u # t => stack[u] = {}
      BY <2>4, <3>1 DEF ScanAlone, AloneIsAlone
    <3> QED
      BY <2>3, <2>4, <3>2 DEF ScanAlone, Collecting
  <2>5. CASE StopWorld(t)
    BY <2>5 DEF StopWorld
  <2>6. CASE SeeStopped(t)
    BY <2>6 DEF SeeStopped
  <2>7. CASE ScanStacks(t)
    <3>1. ~breached' => ~breached /\ \A u \in Thread : stack[u] \subseteq marked'
      BY <2>7 DEF ScanStacks
    <3> QED
      BY <2>3, <2>7, <3>1 DEF ScanStacks, Collecting
  <2>8. CASE UnlockAllThreads(t)
    BY <2>8 DEF UnlockAllThreads
  <2>9. CASE MarkRoots(t)
    BY <2>3, <2>9 DEF MarkRoots, Collecting
  <2>10. CASE Sweep(t)
    BY <2>3, <2>10 DEF Sweep, Collecting
  <2>11. CASE StartWorld(t)
    BY <2>3, <2>11 DEF StartWorld, Collecting, Caller
  <2> QED
    BY <1>6, <2>1, <2>2, <2>4, <2>5, <2>6, <2>7, <2>8, <2>9, <2>10, <2>11 DEF GcStep
<1> QED
  BY <1>1, <1>2, <1>3, <1>4, <1>5, <1>6 DEF Next, RuntimeStep

\* No collection takes a handle that is on a stack or reachable from the roots,
\* unless a thread slipped the handshake or had not saved its registers.
THEOREM HeapIsSafe == Spec => []NoDanglingHandle
<1>1. Init => HeapSafe
  BY DEF Init, HeapSafe, IdleEmpty, EscapeBreaches, MarkedCovers, NoDanglingHandle, Scanned, Tracing
<1>2. Spec => []Handshake
  BY Typing, LocksHeld, RegistryKept, FlagHeld, Alone, StateTrue, StoppedStay, PTL DEF Handshake
<1>3. Spec => []HeapSafe
  BY <1>1, <1>2, HeapStep, PTL DEF Spec
<1> QED
  BY <1>3, PTL DEF HeapSafe

\* No handle is handed out while a collection runs, from the first word of
\* gc2_collect to the last.
THEOREM NoAllocation == Spec => NoAllocationInGc
<1>1. Types /\ Locks /\ [Next]_vars =>
        [(\E t \in Thread : pc[t] \in Collecting) => live' \subseteq live]_vars
  <2> SUFFICES ASSUME Types, Locks, Next, NEW c \in Thread, pc[c] \in Collecting
               PROVE  live' \subseteq live
    BY DEF vars
  <2>1. PICK t \in Thread : UserStep(t) \/ Yield(t) \/ RuntimeStep(t)
    BY DEF Next
  <2>2. CASE GetHandle(t)
    BY <2>2 DEF GetHandle, At, Locks, NeedsHandlesLock, Collecting, Tracing
  <2>3. CASE Sweep(t)
    BY <2>3 DEF Sweep
  <2>4. CASE UserStep(t) \/ Yield(t)
    BY <2>4
    DEF UserStep, Yield, Drop, Put, Take, Clear, CallAlloc, CallGc, CallGcDisable, CallGcEnable,
        CallMake, CallCreate, CallJoin, CallSafepoint, CallFinish, CallReset, Enter, heapVars
  <2>5. CASE StopStep(t) \/ LifeStep(t)
    BY <2>5
    DEF StopStep, LifeStep, AnnounceStop, SaveRegisters, SeeWorldStarted, ResumeFromStop,
        JoinReturns, RunAgain, NameThread, RegisterThread, OsThreadCreate, ThreadStarts,
        ThreadResult, ThreadEnds, ThreadAborts, Deregister, heapVars
  <2>6. CASE HandleStep(t) /\ ~GetHandle(t)
    BY <2>6
    DEF HandleStep, NewHandleSafepoint, NewHandleTrylock, NeedsGc, NewHandleTryGcLock,
        NewHandleUnlockGc, OutOfHandles, heapVars
  <2>7. CASE GcStep(t) /\ ~Sweep(t)
    BY <2>7
    DEF GcStep, GcTrylock, GcLockHandles, GcUnlockHandles, GcUnlock, SetInhibit, BeginCollect,
        PostponeCollect, ScanAlone, StopWorld, SeeStopped, ScanStacks, UnlockAllThreads,
        MarkRoots, StartWorld, heapVars
  <2> QED
    BY <2>1, <2>2, <2>3, <2>4, <2>5, <2>6, <2>7 DEF RuntimeStep
<1> QED
  BY <1>1, Typing, LocksHeld, PTL DEF Spec, NoAllocationInGc
----------------------------------------------------------------------------
(***************************************************************************)
(* A program with one thread.  It never stops the world and finds the gc   *)
(* lock free whenever it tries it, so when new_handle looks once more it   *)
(* has collected, or gc-inhibit is set; and what a collection leaves is on *)
(* its stacks or behind a root.                                            *)
(***************************************************************************)
SoloLocation ==
  InNewHandle \cup Tracing \cup
  {"run", "bye", "gc_trylock", "gc_handles", "gc_unhandles", "gc_unlock", "dis_set",
   "c_begin", "c_pend", "c_alone"}

Held == global \cup stack[Primordial]

\* From gc-enable on its way to gc until the sweep is done.
Serving == {"gc_trylock", "gc_handles", "c_begin", "c_alone", "c_roots", "c_sweep"}

Solo ==
  LET here == pc[Primordial] IN
  /\ here \in SoloLocation
  /\ op[Primordial] \notin {"make", "finish"}
  /\ child[Primordial] = NIL /\ allThreads = {Primordial} /\ stopForGc = NIL
  /\ gcLock # NIL => here \in NeedsGcLock
  /\ here = "c_pend" => inhibit
  /\ here = "c_roots" => marked = stack[Primordial]
  /\ here = "c_sweep" => marked = Held
  /\ here = "c_start" => live \subseteq Held
  /\ here \in {"nh_ungc", "nh_retry", "bye"} => inhibit \/ live \subseteq Held
  /\ here = "bye" => live = Handle

\* What is owed is garbage, and gc-pending says so until gc-enable goes to have it
\* taken.
SoloOwes ==
  LET here == pc[Primordial] IN
  /\ owed \subseteq live \ Held
  /\ owed # {} => (inhibit /\ pending) \/ (~inhibit /\ here \in Serving)
  /\ here = "c_start" => owed = {}

LEMMA SoloStep ==
  ASSUME Thread = {Primordial}, Types, Locks, Solo, [Next]_vars
  PROVE  Solo'
<1> DEFINE t == Primordial
<1> USE PrimordialIsThread, NilIsNoThread
    DEF Types, TypeOK, Solo, SoloLocation, Held, NeedsGcLock, Collecting, Tracing, InNewHandle,
        Calls, At, Goto, threadVars, lockVars, handshake, inhibitVars, heapVars, gcVars
<1>1. CASE UNCHANGED vars
  BY <1>1 DEF vars
<1>2. CASE UserStep(t) \/ Yield(t)
  <2>1. CASE Drop(t) \/ Put(t) \/ Take(t) \/ Clear(t)
    BY <2>1 DEF Drop, Put, Take, Clear
  <2>2. CASE \/ CallAlloc(t) \/ CallGc(t) \/ CallGcDisable(t)
             \/ CallJoin(t) \/ CallSafepoint(t) \/ CallFinish(t) \/ CallReset(t)
    BY <2>2 DEF CallAlloc, CallGc, CallGcDisable, CallJoin, Joinable, CallSafepoint, CallFinish,
                CallReset, Enter
  <2>3. CASE CallGcEnable(t)
    BY <2>3 DEF CallGcEnable
  <2>4. CASE CallMake(t) \/ CallCreate(t)
    BY <2>4 DEF CallMake, CallCreate, FreeThread, Unstarted
  <2> QED
    BY <1>2, <2>1, <2>2, <2>3, <2>4 DEF UserStep, Yield
<1>3. CASE StopStep(t) \/ LifeStep(t)
  BY <1>3 DEF StopStep, LifeStep, AnnounceStop, SaveRegisters, SeeWorldStarted, ResumeFromStop,
     JoinReturns, NameThread, RegisterThread, OsThreadCreate, ThreadStarts, ThreadResult,
     ThreadEnds, ThreadAborts
<1>4. CASE HandleStep(t)
  <2>1. CASE NewHandleSafepoint(t) \/ NewHandleTrylock(t) \/ NeedsGc(t)
    BY <2>1 DEF NewHandleSafepoint, NewHandleTrylock, NeedsGc
  <2>2. CASE GetHandle(t)
    BY <2>2 DEF GetHandle, CallerKnown, AllocOps
  <2>3. CASE NewHandleTryGcLock(t)
    BY <2>3 DEF NewHandleTryGcLock
  <2>4. CASE NewHandleUnlockGc(t)
    BY <2>4 DEF NewHandleUnlockGc
  <2>5. CASE OutOfHandles(t)
    BY <2>5 DEF OutOfHandles, empty
  <2> QED
    BY <1>4, <2>1, <2>2, <2>3, <2>4, <2>5 DEF HandleStep
<1>5. CASE GcStep(t)
  <2>1. CASE GcTrylock(t) \/ GcLockHandles(t) \/ GcUnlockHandles(t) \/ GcUnlock(t) \/ SetInhibit(t)
    BY <2>1 DEF GcTrylock, GcLockHandles, GcUnlockHandles, GcUnlock, SetInhibit, AfterGc
  <2>2. CASE BeginCollect(t)
    <3>1. Cardinality(allThreads) = 1
      BY FS_Singleton
    <3> QED
      BY <2>2, <3>1 DEF BeginCollect
  <2>3. CASE PostponeCollect(t) \/ ScanAlone(t)
    BY <2>3 DEF PostponeCollect, ScanAlone, Caller
  <2>4. CASE StopWorld(t) \/ SeeStopped(t) \/ ScanStacks(t) \/ UnlockAllThreads(t)
    BY <2>4 DEF StopWorld, SeeStopped, ScanStacks, UnlockAllThreads
  <2>5. CASE MarkRoots(t) \/ Sweep(t)
    BY <2>5 DEF MarkRoots, Sweep
  <2>6. CASE StartWorld(t)
    BY <2>6 DEF StartWorld, Caller
  <2> QED
    BY <1>5, <2>1, <2>2, <2>3, <2>4, <2>5, <2>6 DEF GcStep
<1>6. [Next]_vars => UserStep(t) \/ Yield(t) \/ RuntimeStep(t) \/ UNCHANGED vars
  BY DEF Next
<1> QED
  BY <1>1, <1>2, <1>3, <1>4, <1>5, <1>6 DEF RuntimeStep

THEOREM SoloHolds == ASSUME Thread = {Primordial} PROVE Spec => []Solo
<1>1. Init => Solo
  BY PrimordialIsThread
  DEF Init, Solo, SoloLocation, InNewHandle, Tracing, NeedsGcLock, Collecting
<1>2. Types /\ Locks /\ Solo /\ [Next]_vars => Solo'
  BY SoloStep
<1> QED
  BY <1>1, <1>2, Typing, LocksHeld, PTL DEF Spec

\* In a program with one thread new_handle only gives up when every handle is on a stack or
\* behind a root, or gc-inhibit is set.
THEOREM OutOfHandlesOnlyWhenFull ==
  ASSUME Thread = {Primordial} PROVE Spec => []OutOfHandlesIsReal
<1>1. Types /\ Solo => OutOfHandlesIsReal
  <2> SUFFICES ASSUME Types, Solo, Exited, ~inhibit PROVE Reached = Handle
    BY DEF OutOfHandlesIsReal
  <2>1. Reached = Held
    BY DEF Reached, Held
  <2>2. pc[Primordial] = "bye"
    BY DEF Exited
  <2> QED
    BY <2>1, <2>2, PrimordialIsThread DEF Types, TypeOK, Solo, Held
<1> QED
  BY <1>1, SoloHolds, Typing, PTL

LEMMA OwesStep ==
  ASSUME Thread = {Primordial}, Types, Solo, SoloOwes, [Next]_vars
  PROVE  SoloOwes'
<1> DEFINE t == Primordial
<1>r. Reached = Held
  BY DEF Reached, Held
<1> USE PrimordialIsThread, NilIsNoThread
    DEF Types, TypeOK, Solo, SoloOwes, SoloLocation, Serving, Held, NeedsGcLock, Collecting,
        Tracing, InNewHandle, Calls, At, Goto, threadVars, lockVars, handshake, inhibitVars,
        heapVars, gcVars
<1>1. CASE UNCHANGED vars
  BY <1>1 DEF vars
<1>2. CASE UserStep(t) \/ Yield(t)
  <2>1. CASE Drop(t) \/ Put(t) \/ Take(t) \/ Clear(t)
    BY <2>1 DEF Drop, Put, Take, Clear
  <2>2. CASE \/ CallAlloc(t) \/ CallGc(t) \/ CallGcDisable(t)
             \/ CallJoin(t) \/ CallSafepoint(t) \/ CallFinish(t) \/ CallReset(t)
    BY <2>2 DEF CallAlloc, CallGc, CallGcDisable, CallJoin, Joinable, CallSafepoint, CallFinish,
                CallReset, Enter
  <2>3. CASE CallGcEnable(t)
    BY <2>3 DEF CallGcEnable
  <2>4. CASE CallMake(t) \/ CallCreate(t)
    BY <2>4 DEF CallMake, CallCreate, FreeThread, Unstarted
  <2> QED
    BY <1>2, <2>1, <2>2, <2>3, <2>4 DEF UserStep, Yield
<1>3. CASE StopStep(t) \/ LifeStep(t)
  BY <1>3 DEF StopStep, LifeStep, AnnounceStop, SaveRegisters, SeeWorldStarted, ResumeFromStop,
     JoinReturns, NameThread, RegisterThread, OsThreadCreate, ThreadStarts, ThreadResult,
     ThreadEnds, ThreadAborts
<1>4. CASE HandleStep(t)
  <2>1. CASE NewHandleSafepoint(t) \/ NewHandleTrylock(t) \/ NeedsGc(t)
    BY <2>1 DEF NewHandleSafepoint, NewHandleTrylock, NeedsGc
  <2>2. CASE GetHandle(t)
    <3>1. pc'[t] = "run"
      BY <2>2 DEF GetHandle, CallerKnown, AllocOps
    <3>2. PICK h \in Handle \ live : live' = live \cup {h} /\ stack'[t] = stack[t] \cup {h}
      BY <2>2 DEF GetHandle, empty
    <3>3. owed' \subseteq live' \ Held'
      BY <2>2, <3>2 DEF GetHandle
    <3> QED
      BY <2>2, <3>1, <3>3 DEF GetHandle
  <2>3. CASE NewHandleTryGcLock(t) \/ NewHandleUnlockGc(t) \/ OutOfHandles(t)
    BY <2>3 DEF NewHandleTryGcLock, NewHandleUnlockGc, OutOfHandles
  <2> QED
    BY <1>4, <2>1, <2>2, <2>3 DEF HandleStep
<1>5. CASE GcStep(t)
  <2>1. CASE GcTrylock(t) \/ GcLockHandles(t) \/ GcUnlockHandles(t) \/ GcUnlock(t) \/ SetInhibit(t)
    BY <2>1 DEF GcTrylock, GcLockHandles, GcUnlockHandles, GcUnlock, SetInhibit, AfterGc
  <2>2. CASE BeginCollect(t)
    <3>1. Cardinality(allThreads) = 1
      BY FS_Singleton
    <3> QED
      BY <2>2, <3>1 DEF BeginCollect
  <2>3. CASE PostponeCollect(t)
    BY <1>r, <2>3 DEF PostponeCollect, Caller
  <2>4. CASE ScanAlone(t) \/ MarkRoots(t)
    BY <2>4 DEF ScanAlone, MarkRoots
  <2>5. CASE StopWorld(t) \/ SeeStopped(t) \/ ScanStacks(t) \/ UnlockAllThreads(t)
    BY <2>5 DEF StopWorld, SeeStopped, ScanStacks, UnlockAllThreads
  <2>6. CASE Sweep(t)
    <3>1. owed' = {}
      BY <2>6 DEF Sweep
    <3> QED
      BY <2>6, <3>1 DEF Sweep
  <2>7. CASE StartWorld(t)
    <3>1. owed' = {}
      BY <2>7 DEF StartWorld
    <3> QED
      BY <2>7, <3>1 DEF StartWorld, Caller
  <2> QED
    BY <1>5, <2>1, <2>2, <2>3, <2>4, <2>5, <2>6, <2>7 DEF GcStep
<1>6. [Next]_vars => UserStep(t) \/ Yield(t) \/ RuntimeStep(t) \/ UNCHANGED vars
  BY DEF Next
<1> QED
  BY <1>1, <1>2, <1>3, <1>4, <1>5, <1>6 DEF RuntimeStep

\* In a program with one thread, what was garbage when gc-inhibit put a collection off has
\* been taken by the time gc-enable returns.
THEOREM PostponedIsTaken ==
  ASSUME Thread = {Primordial} PROVE Spec => []PostponedGcIsDone
<1>1. Init => SoloOwes
  BY DEF Init, SoloOwes
<1>2. SoloOwes => PostponedGcIsDone
  BY PrimordialIsThread DEF SoloOwes, PostponedGcIsDone, Serving
<1>3. Types /\ Solo /\ SoloOwes /\ [Next]_vars => SoloOwes'
  BY OwesStep
<1> QED
  BY <1>1, <1>2, <1>3, SoloHolds, Typing, PTL DEF Spec
=============================================================================
