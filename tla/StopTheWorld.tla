---------------------------- MODULE StopTheWorld ----------------------------
(***************************************************************************)
(* How Feline threads and the garbage collector share the runtime: the     *)
(* thread life cycle (thread.asm, os.c, reset in quit.asm), allocation of  *)
(* handles (new_handle in handles.asm) and the collector's stop-the-world  *)
(* handshake (gc2.asm).                                                    *)
(*                                                                         *)
(* Every thread has a location pc[t] in the code that it executes.  A      *)
(* thread at "run" executes user code and may call any operation of Ops.   *)
(* The three locks are Feline mutexes, taken and given back in one step    *)
(* here (module Mutex looks inside them).  The heap is what the handshake  *)
(* can tell apart: which handles are in use, and from which thread's       *)
(* stacks or from the shared roots each can be reached.                    *)
(***************************************************************************)
EXTENDS Naturals, FiniteSets

CONSTANTS Thread,      \* thread objects, at most one OS thread for each
          Primordial,  \* the thread that main starts on
          Handle,      \* the cells of the handle space
          NIL,
          GcThreshold, \* maybe_gc collects with fewer empty handles (10)
          Ops          \* what user code may call

AllocOps == {"alloc", "make", "finish"}  \* the operations that call new_handle

ASSUME PrimordialIsThread == Primordial \in Thread
ASSUME NilIsNoThread == NIL \notin Thread
ASSUME HandleFinite == IsFiniteSet(Handle)
ASSUME ThreadFinite == IsFiniteSet(Thread)
ASSUME OpsKnown ==
  Ops \subseteq {"alloc", "drop", "put", "take", "clear", "gc", "gc-disable",
                 "gc-enable", "safepoint", "make", "create", "join", "finish", "reset"}

VARIABLES
  pc,             \* where each thread is
  op,             \* the operation a thread has called from "run"
  state,          \* the state slot of the thread object
  saved,          \* the saved_rsp and saved_rbp slots describe the current stacks
  child,          \* the thread object made last by this thread
  allThreads,     \* all_threads_, the vector of registered threads
  gcLock,         \* who holds gc_lock_
  handlesLock,    \* who holds handles_lock_
  allThreadsLock, \* who holds all_threads_lock_ across a step
  stopForGc,      \* stop_for_gc?_: nil, or the collector
  waiting,        \* threads stop_the_world has still to see STOPPED
  marked,         \* handles marked by the running collection
  inhibit,        \* gc-inhibit
  pending,        \* gc-pending
  owed,           \* history: garbage that a postponed collection was to take
  live,           \* handles in use
  stack,          \* handles on the stacks of each thread
  global,         \* handles reachable from the roots and static symbols
  late,           \* history: threads past the wait loop when the flag was raised
  escaped,        \* history: threads that ran on in spite of this collection
  breached        \* history: some collection missed part of a stack

threadVars  == <<state, saved, child, allThreads>>
lockVars    == <<gcLock, handlesLock, allThreadsLock>>
handshake   == <<stopForGc, waiting, late, escaped>>
inhibitVars == <<inhibit, pending, owed>>
heapVars    == <<live, stack, global>>
gcVars      == <<marked, breached>>

vars == <<pc, op, threadVars, lockVars, handshake, inhibitVars, heapVars, gcVars>>

(***************************************************************************)
(* Locations                                                               *)
(***************************************************************************)
Waits == {"sp_save", "sp_wait", "sp_resume",   \* stop_current_thread_for_gc
          "tj_save", "tj_wait"}                \* thread-join
Parked == Waits \cup {"tr_remove"}             \* the end of thread_run_internal
Absent == {"unborn", "start", "dead",          \* no user code yet, or no more
           "failed"}                           \* the OS could not create it
Tracing == {"c_roots", "c_sweep", "c_start"}
Collecting == {"c_begin", "c_pend", "c_alone", "c_lock", "c_wait", "c_scan"}
                \cup Tracing
Moving == {"run", "start", "sp_state", "tj_state", "tr_stop", "nh_safepoint", "nh_trylock",
           "gc_trylock", "dis_set", "tc_start"}   \* the next step waits for nothing

\* RUNNING or STARTING, and cannot become STOPPED while a collector holds the lock on
\* all_threads: make-thread, thread-create and reset take that lock themselves, and a
\* thread that the OS has not created does nothing.
Unstoppable == {"mt_name", "tc_push", "reset", "failed"}

Location ==
  Parked \cup Absent \cup Collecting \cup
  {"run", "bye", "sp_state", "tj_state", "tr_stop", "reset",
   "nh_safepoint", "nh_trylock", "nh_get", "nh_trygc", "nh_ungc", "nh_retry",
   "gc_trylock", "gc_handles", "gc_unhandles", "gc_unlock",
   "dis_set", "mt_name", "tc_push", "tc_start"}

TypeOK ==
  /\ pc \in [Thread -> Location]
  /\ op \in [Thread -> Ops \cup {"none"}]
  /\ state \in [Thread -> {"NEW", "STARTING", "RUNNING", "STOPPED"}]
  /\ saved \in [Thread -> BOOLEAN]
  /\ child \in [Thread -> Thread \cup {NIL}]
  /\ allThreads \in SUBSET Thread
  /\ gcLock \in Thread \cup {NIL}
  /\ handlesLock \in Thread \cup {NIL}
  /\ allThreadsLock \in Thread \cup {NIL}
  /\ stopForGc \in Thread \cup {NIL}
  /\ waiting \in SUBSET Thread
  /\ marked \in SUBSET Handle
  /\ inhibit \in BOOLEAN
  /\ pending \in BOOLEAN
  /\ owed \in SUBSET Handle
  /\ live \in SUBSET Handle
  /\ stack \in [Thread -> SUBSET Handle]
  /\ global \in SUBSET Handle
  /\ late \in SUBSET Thread
  /\ escaped \in SUBSET Thread
  /\ breached \in BOOLEAN

(***************************************************************************)
(* initialize_threads: the primordial thread is registered and running.    *)
(***************************************************************************)
Init ==
  /\ pc = [t \in Thread |-> IF t = Primordial THEN "run" ELSE "unborn"]
  /\ op = [t \in Thread |-> "none"]
  /\ state = [t \in Thread |-> IF t = Primordial THEN "RUNNING" ELSE "NEW"]
  /\ saved = [t \in Thread |-> FALSE]
  /\ child = [t \in Thread |-> NIL]
  /\ allThreads = {Primordial}
  /\ gcLock = NIL /\ handlesLock = NIL /\ allThreadsLock = NIL
  /\ stopForGc = NIL
  /\ waiting = {}
  /\ marked = {}
  /\ inhibit = FALSE /\ pending = FALSE /\ owed = {}
  /\ live = {}
  /\ stack = [t \in Thread |-> {}]
  /\ global = {}
  /\ late = {}
  /\ escaped = {}
  /\ breached = FALSE

Exited == \E t \in Thread : pc[t] = "bye"   \* os_bye has ended the process

At(t, here) == ~Exited /\ pc[t] = here
Calls(t, o) == At(t, "run") /\ o \in Ops
Goto(t, there) == pc' = [pc EXCEPT ![t] = there]
SetState(t, s) == state' = [state EXCEPT ![t] = s]

\* t goes back to user code, or to the middle of new_handle.
Resume(t) == Goto(t, IF op[t] \in AllocOps THEN "nh_trylock" ELSE "run")

\* t starts to touch objects while a collector takes it to have stopped.  Only
\* what is excused counts as an escape; anything else breaks WorldIsStopped.
NoteEscape(t, excused) ==
  LET escapes == stopForGc # NIL /\ t \notin waiting /\ excused
  IN  /\ escaped' = IF escapes THEN escaped \cup {t} ELSE escaped
      /\ breached' = (breached \/ escapes)

\* gc2 returns to its caller; gc2_collect returns to gc2 or to new_handle.
AfterGc(t) == IF op[t] = "gc-disable" THEN "dis_set" ELSE "run"
Caller(t) == IF op[t] \in AllocOps THEN "nh_ungc" ELSE "gc_unhandles"

empty == Handle \ live
Reached == global \cup UNION {stack[t] : t \in Thread}

----------------------------------------------------------------------------
(***************************************************************************)
(* Faulty variants of operations below, with which the properties have     *)
(* been seen to fail.  No specification uses them.                         *)
(***************************************************************************)
\* The explicit roots are not visited.
MarkRoots_Forgotten(t) ==
  /\ At(t, "c_roots")
  /\ Goto(t, "c_sweep")
  /\ UNCHANGED <<op, threadVars, lockVars, handshake, inhibitVars, heapVars, gcVars>>

\* gc2 goes on to collect whatever trylock_handles says.
GcLockHandles_Unchecked(t) ==
  /\ At(t, "gc_handles")
  /\ handlesLock' = t
  /\ Goto(t, "c_begin")
  /\ UNCHANGED <<op, threadVars, gcLock, allThreadsLock, handshake, inhibitVars,
                 heapVars, gcVars>>

\* gc2_collect returns without start_the_world.
StartWorld_Forgotten(t) ==
  /\ At(t, "c_start")
  /\ pending' = FALSE
  /\ marked' = {}
  /\ Goto(t, Caller(t))
  /\ UNCHANGED <<op, threadVars, lockVars, handshake, inhibit, owed, heapVars, breached>>

\* The count of threads is off by one.
BeginCollect_OffByOne(t) ==
  /\ At(t, "c_begin")
  /\ Goto(t, IF inhibit THEN "c_pend"
             ELSE IF Cardinality(allThreads) <= 2 THEN "c_alone" ELSE "c_lock")
  /\ UNCHANGED <<op, threadVars, lockVars, handshake, inhibitVars, heapVars, gcVars>>

\* thread-join does not say that its thread has stopped.
AnnounceStop_NotInJoin(t) ==
  /\ \/ At(t, "sp_state") /\ Goto(t, "sp_save") /\ SetState(t, "STOPPED")
     \/ At(t, "tj_state") /\ Goto(t, "tj_save") /\ UNCHANGED state
  /\ UNCHANGED <<op, saved, child, allThreads, lockVars, handshake, inhibitVars,
                 heapVars, gcVars>>

\* A thread that is starting is not waited for.
SeeStopped_Starting(t) ==
  /\ At(t, "c_wait")
  /\ \E u \in waiting : /\ u = t \/ state[u] \in {"STARTING", "STOPPED"}
                        /\ waiting' = waiting \ {u}
  /\ UNCHANGED <<pc, op, threadVars, lockVars, stopForGc, late, escaped, inhibitVars,
                 heapVars, gcVars>>

\* The retry loop of new_handle does not pass a safepoint.
NewHandleSafepoint_None(t) ==
  /\ At(t, "nh_safepoint")
  /\ Goto(t, "nh_trylock")
  /\ UNCHANGED <<op, threadVars, lockVars, handshake, inhibitVars, heapVars, gcVars>>

\* gc2_collect keeps the lock on all_threads.
UnlockAllThreads_Forgotten(t) ==
  /\ At(t, "c_scan")
  /\ Goto(t, "c_roots")
  /\ UNCHANGED <<op, threadVars, lockVars, handshake, inhibitVars, heapVars, gcVars>>

\* gc-enable clears gc-pending and does not collect.
CallGcEnable_Dropped(t) ==
  /\ Calls(t, "gc-enable")
  /\ op' = [op EXCEPT ![t] = "gc-enable"]
  /\ inhibit' = FALSE
  /\ pending' = FALSE
  /\ Goto(t, "run")
  /\ UNCHANGED <<threadVars, lockVars, handshake, owed, heapVars, gcVars>>

\* new_handle gives up when the handles run out, without trying to collect.
NeedsGc_Skipped(t) ==
  /\ At(t, "nh_get")
  /\ empty = {}
  /\ Goto(t, "nh_retry")
  /\ UNCHANGED <<op, threadVars, lockVars, handshake, inhibitVars, heapVars, gcVars>>

----------------------------------------------------------------------------
(***************************************************************************)
(* User code: what happens between two calls into the runtime.  Words move *)
(* handles between the stacks and objects reachable from the roots.        *)
(***************************************************************************)
Drop(t) == /\ Calls(t, "drop")
           /\ stack' = [stack EXCEPT ![t] = {}]
           /\ UNCHANGED <<pc, op, threadVars, lockVars, handshake, inhibitVars,
                          live, global, gcVars>>

Put(t) == /\ Calls(t, "put")
          /\ \E h \in stack[t] : global' = global \cup {h}
          /\ UNCHANGED <<pc, op, threadVars, lockVars, handshake, inhibitVars,
                         live, stack, gcVars>>

Take(t) == /\ Calls(t, "take")
           /\ \E h \in global : stack' = [stack EXCEPT ![t] = @ \cup {h}]
           /\ UNCHANGED <<pc, op, threadVars, lockVars, handshake, inhibitVars,
                          live, global, gcVars>>

Clear(t) == /\ Calls(t, "clear")
            /\ \E h \in global : global' = global \ {h}
            /\ UNCHANGED <<pc, op, threadVars, lockVars, handshake, inhibitVars,
                           live, stack, gcVars>>

(***************************************************************************)
(* A call of a runtime operation from user code, up to its first step.     *)
(* gc-disable starts with maybe_gc.  A thread is made once and created     *)
(* once; its maker is the one that may join it.                            *)
(***************************************************************************)
Enter(t, o, there) ==
  /\ Calls(t, o)
  /\ op' = [op EXCEPT ![t] = o]
  /\ Goto(t, there)
  /\ UNCHANGED <<threadVars, lockVars, handshake, inhibitVars, heapVars, gcVars>>

Unstarted(t) == child[t] # NIL /\ pc[child[t]] = "unborn"
Joinable(t) == child[t] # NIL /\ pc[child[t]] # "unborn"
FreeThread == {u \in Thread : pc[u] = "unborn" /\ \A v \in Thread : child[v] # u}

CallAlloc(t) == Enter(t, "alloc", "nh_safepoint")
CallGc(t) == Enter(t, "gc", "gc_trylock")
CallJoin(t) == Joinable(t) /\ Enter(t, "join", "tj_state")
CallReset(t) == t # Primordial /\ Enter(t, "reset", "reset")
CallFinish(t) == t # Primordial /\ Enter(t, "finish", "nh_safepoint")
CallGcDisable(t) ==
  Enter(t, "gc-disable",
        IF Cardinality(empty) < GcThreshold THEN "gc_trylock" ELSE "dis_set")

\* safepoint, called by while, times, each and wait_for_key
CallSafepoint(t) == stopForGc \notin {NIL, t} /\ Enter(t, "safepoint", "sp_state")

CallMake(t) ==
  /\ Calls(t, "make")
  /\ ~Unstarted(t)
  /\ \E u \in FreeThread : child' = [child EXCEPT ![t] = u]
  /\ op' = [op EXCEPT ![t] = "make"]
  /\ Goto(t, "nh_safepoint")
  /\ UNCHANGED <<state, saved, allThreads, lockVars, handshake, inhibitVars, heapVars,
                 gcVars>>

SetInhibit(t) ==
  /\ At(t, "dis_set")
  /\ inhibit' = TRUE
  /\ Goto(t, "run")
  /\ UNCHANGED <<op, threadVars, lockVars, handshake, pending, owed, heapVars, gcVars>>

CallGcEnable(t) ==
  /\ Calls(t, "gc-enable")
  /\ op' = [op EXCEPT ![t] = "gc-enable"]
  /\ inhibit' = FALSE
  /\ pending' = FALSE
  /\ Goto(t, IF pending THEN "gc_trylock" ELSE "run")
  /\ UNCHANGED <<threadVars, lockVars, handshake, owed, heapVars, gcVars>>

----------------------------------------------------------------------------
(***************************************************************************)
(* stop_current_thread_for_gc: the state is announced BEFORE the registers *)
(* are saved.  When the flag is seen nil the thread runs on, whatever has  *)
(* happened to the flag since.                                             *)
(***************************************************************************)
AnnounceStop(t) ==
  /\ \/ At(t, "sp_state") /\ Goto(t, "sp_save")
     \/ At(t, "tj_state") /\ Goto(t, "tj_save")
  /\ SetState(t, "STOPPED")
  /\ UNCHANGED <<op, saved, child, allThreads, lockVars, handshake, inhibitVars,
                 heapVars, gcVars>>

SaveRegisters(t) ==
  /\ \/ At(t, "sp_save") /\ Goto(t, "sp_wait")
     \/ At(t, "tj_save") /\ Goto(t, "tj_wait")
  /\ saved' = [saved EXCEPT ![t] = TRUE]
  /\ UNCHANGED <<op, state, child, allThreads, lockVars, handshake, inhibitVars,
                 heapVars, gcVars>>

SeeWorldStarted(t) ==
  /\ At(t, "sp_wait")
  /\ stopForGc = NIL
  /\ Goto(t, "sp_resume")
  /\ UNCHANGED <<op, threadVars, lockVars, handshake, inhibitVars, heapVars, gcVars>>

RunAgain(t) ==
  /\ SetState(t, "RUNNING")
  /\ saved' = [saved EXCEPT ![t] = FALSE]
  /\ UNCHANGED <<op, allThreads, lockVars, stopForGc, waiting, late, inhibitVars, heapVars,
                 marked>>

ResumeFromStop(t) ==
  /\ At(t, "sp_resume")
  /\ Resume(t)
  /\ RunAgain(t)
  /\ NoteEscape(t, t \in late)
  /\ UNCHANGED child

\* thread-join: the OS thread has gone, or never was and the OS refuses to wait;
\* nothing looks at stop_for_gc?_ here.
JoinReturns(t) ==
  /\ At(t, "tj_wait")
  /\ pc[child[t]] \in {"dead", "failed"}
  /\ child' = [child EXCEPT ![t] = NIL]
  /\ Goto(t, "run")
  /\ RunAgain(t)
  /\ NoteEscape(t, TRUE)

----------------------------------------------------------------------------
(***************************************************************************)
(* Thread life cycle                                                       *)
(***************************************************************************)
\* make-thread, after new_thread: get_next_thread_debug_name takes and gives
\* back the lock on all_threads.
NameThread(t) ==
  /\ At(t, "mt_name")
  /\ allThreadsLock = NIL
  /\ Goto(t, "run")
  /\ UNCHANGED <<op, threadVars, lockVars, handshake, inhibitVars, heapVars, gcVars>>

CallCreate(t) ==
  /\ Calls(t, "create") /\ Unstarted(t)
  /\ op' = [op EXCEPT ![t] = "create"]
  /\ SetState(child[t], "STARTING")
  /\ Goto(t, "tc_push")
  /\ UNCHANGED <<saved, child, allThreads, lockVars, handshake, inhibitVars,
                 heapVars, gcVars>>

\* the critical section of thread-create: push, update the count, unlock
RegisterThread(t) ==
  /\ At(t, "tc_push")
  /\ allThreadsLock = NIL
  /\ allThreads' = allThreads \cup {child[t]}
  /\ Goto(t, "tc_start")
  /\ UNCHANGED <<op, state, saved, child, lockVars, handshake, inhibitVars, heapVars,
                 gcVars>>

\* os_thread_create prints that the OS refused and returns all the same: the
\* thread object stays in all_threads as STARTING.
OsThreadCreate(t) ==
  /\ At(t, "tc_start")
  /\ \E there \in {"start", "failed"} :
       pc' = [pc EXCEPT ![t] = "run", ![child[t]] = there]
  /\ UNCHANGED <<op, threadVars, lockVars, handshake, inhibitVars, heapVars, gcVars>>

\* the beginning of thread_run_internal
ThreadStarts(t) ==
  /\ At(t, "start")
  /\ SetState(t, "RUNNING")
  /\ Goto(t, "run")
  /\ NoteEscape(t, escaped # {})
  /\ UNCHANGED <<op, saved, child, allThreads, lockVars, stopForGc, waiting, late,
                 inhibitVars, heapVars, marked>>

\* The quotation has returned and get_datastack has made the result array, which
\* the thread object refers to from now on.  STOPPED, and no registers saved.
ThreadResult(t) ==
  /\ At(t, "tr_stop")
  /\ global' = global \cup stack[t]
  /\ stack' = [stack EXCEPT ![t] = {}]
  /\ SetState(t, "STOPPED")
  /\ Goto(t, "tr_remove")
  /\ UNCHANGED <<op, saved, child, allThreads, lockVars, handshake, inhibitVars, live,
                 gcVars>>

\* the critical section at the end of thread_run_internal, and that of reset,
\* which leaves the state RUNNING and drops whatever was on the stacks
Deregister(t) ==
  /\ allThreadsLock = NIL
  /\ allThreads' = allThreads \ {t}
  /\ Goto(t, "dead")
  /\ UNCHANGED <<op, state, saved, child, lockVars, handshake, inhibitVars, live, global,
                 gcVars>>

ThreadEnds(t) == At(t, "tr_remove") /\ Deregister(t) /\ UNCHANGED stack

ThreadAborts(t) == /\ At(t, "reset")
                   /\ Deregister(t)
                   /\ stack' = [stack EXCEPT ![t] = {}]

----------------------------------------------------------------------------
(***************************************************************************)
(* new_handle: pass a safepoint, try the handles lock, and start over when *)
(* it is taken.  Out of handles, collect while holding the handles lock;   *)
(* when somebody else holds the gc lock do not wait, look once more.       *)
(***************************************************************************)
NewHandleSafepoint(t) ==
  /\ At(t, "nh_safepoint")
  /\ Goto(t, IF stopForGc \in {NIL, t} THEN "nh_trylock" ELSE "sp_state")
  /\ UNCHANGED <<op, threadVars, lockVars, handshake, inhibitVars, heapVars, gcVars>>

NewHandleTrylock(t) ==
  /\ At(t, "nh_trylock")
  /\ \/ /\ handlesLock = NIL
        /\ handlesLock' = t
        /\ Goto(t, "nh_get")
     \/ /\ handlesLock # NIL
        /\ Goto(t, "nh_safepoint")
        /\ UNCHANGED handlesLock
  /\ UNCHANGED <<op, threadVars, gcLock, allThreadsLock, handshake, inhibitVars,
                 heapVars, gcVars>>

\* get_empty_handle, store the object address, unlock, push the handle
GetHandle(t) ==
  /\ At(t, "nh_get") \/ At(t, "nh_retry")
  /\ \E h \in empty : /\ live' = live \cup {h}
                      /\ stack' = [stack EXCEPT ![t] = @ \cup {h}]
  /\ handlesLock' = NIL
  /\ Goto(t, CASE op[t] = "alloc"  -> "run"
               [] op[t] = "make"   -> "mt_name"
               [] op[t] = "finish" -> "tr_stop")
  /\ UNCHANGED <<op, threadVars, gcLock, allThreadsLock, handshake, inhibitVars, global,
                 gcVars>>

NeedsGc(t) ==
  /\ At(t, "nh_get")
  /\ empty = {}
  /\ Goto(t, "nh_trygc")
  /\ UNCHANGED <<op, threadVars, lockVars, handshake, inhibitVars, heapVars, gcVars>>

NewHandleTryGcLock(t) ==
  /\ At(t, "nh_trygc")
  /\ \/ /\ gcLock = NIL
        /\ gcLock' = t
        /\ Goto(t, "c_begin")
     \/ /\ gcLock # NIL
        /\ Goto(t, "nh_retry")
        /\ UNCHANGED gcLock
  /\ UNCHANGED <<op, threadVars, handlesLock, allThreadsLock, handshake, inhibitVars,
                 heapVars, gcVars>>

NewHandleUnlockGc(t) ==
  /\ At(t, "nh_ungc")
  /\ gcLock' = NIL
  /\ Goto(t, "nh_retry")
  /\ UNCHANGED <<op, threadVars, handlesLock, allThreadsLock, handshake, inhibitVars,
                 heapVars, gcVars>>

\* "out of handles, exiting...": os_bye ends the process
OutOfHandles(t) ==
  /\ At(t, "nh_retry")
  /\ empty = {}
  /\ handlesLock' = NIL
  /\ Goto(t, "bye")
  /\ UNCHANGED <<op, threadVars, gcLock, allThreadsLock, handshake, inhibitVars,
                 heapVars, gcVars>>

(***************************************************************************)
(* gc2: give up when the gc lock is taken, otherwise spin on the handles   *)
(* lock (no safepoint in this loop), collect, and give both back.          *)
(***************************************************************************)
GcTrylock(t) ==
  /\ At(t, "gc_trylock")
  /\ \/ /\ gcLock = NIL
        /\ gcLock' = t
        /\ Goto(t, "gc_handles")
     \/ /\ gcLock # NIL
        /\ Goto(t, AfterGc(t))
        /\ UNCHANGED gcLock
  /\ UNCHANGED <<op, threadVars, handlesLock, allThreadsLock, handshake, inhibitVars,
                 heapVars, gcVars>>

GcLockHandles(t) ==
  /\ At(t, "gc_handles")
  /\ handlesLock = NIL
  /\ handlesLock' = t
  /\ Goto(t, "c_begin")
  /\ UNCHANGED <<op, threadVars, gcLock, allThreadsLock, handshake, inhibitVars,
                 heapVars, gcVars>>

GcUnlockHandles(t) ==
  /\ At(t, "gc_unhandles")
  /\ handlesLock' = NIL
  /\ Goto(t, "gc_unlock")
  /\ UNCHANGED <<op, threadVars, gcLock, allThreadsLock, handshake, inhibitVars,
                 heapVars, gcVars>>

GcUnlock(t) ==
  /\ At(t, "gc_unlock")
  /\ gcLock' = NIL
  /\ Goto(t, AfterGc(t))
  /\ UNCHANGED <<op, threadVars, handlesLock, allThreadsLock, handshake, inhibitVars,
                 heapVars, gcVars>>

(***************************************************************************)
(* gc2_collect: called with both locks held, from gc2 or from new_handle.  *)
(***************************************************************************)
\* gc-inhibit is read first; then the path is chosen by thread_count_ alone
BeginCollect(t) ==
  /\ At(t, "c_begin")
  /\ Goto(t, IF inhibit THEN "c_pend"
             ELSE IF Cardinality(allThreads) = 1 THEN "c_alone" ELSE "c_lock")
  /\ UNCHANGED <<op, threadVars, lockVars, handshake, inhibitVars, heapVars, gcVars>>

PostponeCollect(t) ==
  /\ At(t, "c_pend")
  /\ pending' = TRUE
  /\ owed' = owed \cup (live \ Reached)
  /\ Goto(t, Caller(t))
  /\ UNCHANGED <<op, threadVars, lockVars, handshake, inhibit, heapVars, gcVars>>

\* the only thread scans its own stacks
ScanAlone(t) ==
  /\ At(t, "c_alone")
  /\ marked' = stack[t]
  /\ Goto(t, "c_roots")
  /\ UNCHANGED <<op, threadVars, lockVars, handshake, inhibitVars, heapVars, breached>>

\* lock_all_threads, then stop_the_world raises the flag
StopWorld(t) ==
  /\ At(t, "c_lock")
  /\ allThreadsLock = NIL
  /\ allThreadsLock' = t
  /\ stopForGc' = t
  /\ waiting' = allThreads
  /\ late' = {u \in Thread : pc[u] = "sp_resume"}
  /\ Goto(t, "c_wait")
  /\ UNCHANGED <<op, threadVars, gcLock, handlesLock, escaped, inhibitVars, heapVars, gcVars>>

\* wait_for_thread_to_stop, for each thread but the collector
SeeStopped(t) ==
  /\ At(t, "c_wait")
  /\ \E u \in waiting : /\ u = t \/ state[u] = "STOPPED"
                        /\ waiting' = waiting \ {u}
  /\ UNCHANGED <<pc, op, threadVars, lockVars, stopForGc, late, escaped, inhibitVars,
                 heapVars, gcVars>>

(***************************************************************************)
(* Every registered thread's stacks are scanned between its saved registers*)
(* and the base.  Where those do not describe the current stacks the range *)
(* read is an old one and covers none, some or all of the handles.         *)
(***************************************************************************)
ScanStacks(t) ==
  /\ At(t, "c_wait")
  /\ waiting = {}
  /\ \E seen \in [Thread -> SUBSET Handle] :
       /\ \A u \in Thread :
            \/ u \notin allThreads /\ seen[u] = {}
            \/ u \in allThreads /\ (u = t \/ saved[u]) /\ seen[u] = stack[u]
            \/ u \in allThreads /\ u # t /\ ~saved[u] /\ seen[u] \subseteq stack[u]
       /\ marked' = UNION {seen[u] : u \in Thread}
       /\ breached' = (breached \/ \E u \in Thread : seen[u] # stack[u])
  /\ Goto(t, "c_scan")
  /\ UNCHANGED <<op, threadVars, lockVars, handshake, inhibitVars, heapVars>>

\* the lock goes before the roots are marked and anything is swept
UnlockAllThreads(t) ==
  /\ At(t, "c_scan")
  /\ allThreadsLock' = NIL
  /\ Goto(t, "c_roots")
  /\ UNCHANGED <<op, threadVars, gcLock, handlesLock, handshake, inhibitVars, heapVars,
                 gcVars>>

\* static symbols, explicit roots, gc2_process_work_list
MarkRoots(t) ==
  /\ At(t, "c_roots")
  /\ marked' = marked \cup global
  /\ Goto(t, "c_sweep")
  /\ UNCHANGED <<op, threadVars, lockVars, handshake, inhibitVars, heapVars, breached>>

\* each_handle gc2_maybe_collect_handle
Sweep(t) ==
  /\ At(t, "c_sweep")
  /\ live' = live \cap marked
  /\ owed' = owed \cap marked
  /\ Goto(t, "c_start")
  /\ UNCHANGED <<op, threadVars, lockVars, handshake, inhibit, pending, stack, global,
                 gcVars>>

StartWorld(t) ==
  /\ At(t, "c_start")
  /\ stopForGc' = NIL
  /\ late' = {}
  /\ escaped' = {}
  /\ pending' = FALSE
  /\ marked' = {}
  /\ Goto(t, Caller(t))
  /\ UNCHANGED <<op, threadVars, lockVars, waiting, inhibit, owed, heapVars, breached>>

----------------------------------------------------------------------------
UserStep(t) ==
  \/ Drop(t) \/ Put(t) \/ Take(t) \/ Clear(t)
  \/ CallAlloc(t) \/ CallGc(t) \/ CallGcDisable(t) \/ CallGcEnable(t)
  \/ CallMake(t) \/ CallCreate(t) \/ CallJoin(t)

\* What ends, or interrupts, the run of user code.
Yield(t) == CallSafepoint(t) \/ CallFinish(t) \/ CallReset(t)

StopStep(t) == \/ AnnounceStop(t) \/ SaveRegisters(t) \/ SeeWorldStarted(t)
               \/ ResumeFromStop(t) \/ JoinReturns(t)

LifeStep(t) == \/ NameThread(t) \/ RegisterThread(t) \/ OsThreadCreate(t)
               \/ ThreadStarts(t) \/ ThreadResult(t) \/ ThreadEnds(t)
               \/ ThreadAborts(t)

HandleStep(t) == \/ NewHandleSafepoint(t) \/ NewHandleTrylock(t) \/ GetHandle(t)
                 \/ NeedsGc(t) \/ NewHandleTryGcLock(t) \/ NewHandleUnlockGc(t)
                 \/ OutOfHandles(t)

GcStep(t) == \/ GcTrylock(t) \/ GcLockHandles(t) \/ GcUnlockHandles(t) \/ GcUnlock(t)
             \/ SetInhibit(t) \/ BeginCollect(t) \/ PostponeCollect(t) \/ ScanAlone(t)
             \/ StopWorld(t) \/ SeeStopped(t) \/ ScanStacks(t) \/ UnlockAllThreads(t)
             \/ MarkRoots(t) \/ Sweep(t) \/ StartWorld(t)

RuntimeStep(t) == StopStep(t) \/ LifeStep(t) \/ HandleStep(t) \/ GcStep(t)

Next == \E t \in Thread : UserStep(t) \/ Yield(t) \/ RuntimeStep(t)

Spec == Init /\ [][Next]_vars

(***************************************************************************)
(* Fairness.  A step of the runtime that is possible again and again is    *)
(* taken: a lock that keeps becoming free is obtained, a flag that keeps   *)
(* going down is seen down.  User code passes a safepoint again and again  *)
(* (the loops of the library poll stop_for_gc?_), and the quotation of a   *)
(* thread that was created ends.                                           *)
(***************************************************************************)
Fairness ==
  \A t \in Thread :
    /\ SF_vars(RuntimeStep(t))
    /\ SF_vars(CallSafepoint(t))
    /\ SF_vars(CallFinish(t) \/ CallReset(t))

FairSpec == Spec /\ Fairness

----------------------------------------------------------------------------
(***************************************************************************)
(* Safety                                                                  *)
(***************************************************************************)
\* A collection runs with both the gc lock and the handles lock held, although
\* gc2 takes the gc lock first and new_handle the handles lock first: at most
\* one collection at a time, and no thread allocates or frees beside it.
CollectorHoldsBothLocks ==
  \A t \in Thread : pc[t] \in Collecting => gcLock = t /\ handlesLock = t

\* stop_for_gc?_ names a thread only while that thread is between
\* stop_the_world and start_the_world, so no thread waits for a collector
\* that has gone.
StopFlagNamesCollector ==
  stopForGc # NIL => pc[stopForGc] \in {"c_wait", "c_scan"} \cup Tracing

\* gc2_collect decides that it is alone from thread_count_, without the lock on
\* all_threads and without stop_the_world: then no other thread runs Feline code
\* until the collection is over.
AloneIsAlone ==
  \A t, u \in Thread :
    /\ pc[t] \in {"c_alone"} \cup Tracing
    /\ stopForGc # t
    /\ u # t
    => pc[u] \in Absent \ {"start"}

\* A thread that can touch objects is in all_threads, where the collector looks
\* for stacks to scan.
RunningIsRegistered ==
  \A t \in Thread : pc[t] \notin {"unborn", "dead", "bye"} => t \in allThreads

\* Once stop_the_world has seen every thread STOPPED, no thread is anywhere but
\* parked until start_the_world, with three exceptions: it had seen the flag nil
\* before it was raised again, it came back from thread-join, or a thread that
\* slipped through in one of these ways created it.
WorldIsStopped ==
  stopForGc # NIL /\ waiting = {} =>
    \A u \in Thread \ {stopForGc} : pc[u] \in Parked \cup Absent \/ u \in escaped

\* The collector frees a handle that is still on a stack or reachable from the
\* roots only if a thread slipped the handshake, or had announced that it was
\* stopped before its registers were saved.
NoDanglingHandle ==
  ~breached => /\ global \subseteq live
               /\ \A t \in Thread : stack[t] \subseteq live

\* stop_the_world waits for nobody who waits in turn, with the exceptions that
\* Unstoppable names: a thread that has not announced its stop has a next step that
\* needs no lock and no flag, or the thread that creates it has.
CollectorWaitsForMovers ==
  \A t \in Thread : pc[t] = "c_wait" /\ ~Exited =>
    \A u \in waiting \ {t} :
      \/ state[u] = "STOPPED"
      \/ pc[u] \in Moving \cup Unstoppable
      \/ \E v \in Thread : pc[v] = "tc_start" /\ child[v] = u

\* In a program with one thread a collection that gc-inhibit has put off is only
\* put off: when user code runs with collection enabled again, whatever was
\* garbage when one was asked for has been taken.
PostponedGcIsDone ==
  ~inhibit /\ (\A t \in Thread : pc[t] = "run") => owed = {}

\* No handle is handed out while a collection runs.
NoAllocationInGc ==
  [][(\E t \in Thread : pc[t] \in Collecting) => live' \subseteq live]_vars

\* stress.feline says that a quotation "remains valid through gc, even if there
\* is no other reference to it" than the one on the stack of its thread.
StackStaysValid == \A t \in Thread : stack[t] \subseteq live

\* new_handle exits with "out of handles" only when no handle can be reclaimed,
\* or the program has inhibited collection.
OutOfHandlesIsReal ==
  Exited => inhibit \/ Reached = Handle

(***************************************************************************)
(* Liveness                                                                *)
(***************************************************************************)
\* The collector waits for a thread that cannot stop.
Deadlocked(t) == pc[t] = "c_wait" /\ \E u \in waiting : pc[u] \in Unstoppable

\* The wait of stop_the_world for a thread that cannot stop is the only thing that
\* keeps a collection from ending: spins for locks, joins, threads that start or
\* end, and the collection before it do not.
CollectionEnds ==
  (\E t \in Thread : pc[t] \in Collecting) ~>
    (\A t \in Thread : pc[t] \notin Collecting) \/ (\E t \in Thread : Deadlocked(t)) \/ Exited

\* A thread stopped for a collection runs again, unless that collection never ends.
StoppedResumes ==
  \A t \in Thread : pc[t] = "sp_wait" ~>
    (pc[t] # "sp_wait" \/ (\E c \in Thread : Deadlocked(c)) \/ Exited)

\* thread-join of a thread whose quotation ends returns (thread-test-2), unless a
\* collection that never ends keeps the one or the other.
JoinReturnsAtLast ==
  \A t \in Thread : pc[t] = "tj_wait" /\ pc[child[t]] # "failed" ~>
    (pc[t] = "run" \/ (\E c \in Thread : Deadlocked(c)) \/ Exited)

\* make-thread and thread-create return: the tests go on to join the new thread
\* (thread-test-2, thread-test-3).
CreateReturns ==
  \A t \in Thread : pc[t] \in {"mt_name", "tc_push"} ~> (pc[t] = "run" \/ Exited)
============================================================================
