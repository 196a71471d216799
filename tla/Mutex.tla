------------------------------- MODULE Mutex -------------------------------
(***************************************************************************)
(* A Feline mutex object: an OS mutex plus an owner slot (mutex.asm).      *)
(* The OS mutex is taken and given back inside os.c; the owner slot is     *)
(* written by a separate instruction AFTER the OS call has returned, both  *)
(* when locking and when unlocking, so the two are never changed together. *)
(*                                                                         *)
(* Threads use a mutex the way every caller in the runtime does: a thread  *)
(* unlocks only what it has locked and does not lock twice.                *)
(***************************************************************************)
CONSTANTS Thread,      \* the Feline threads that share the mutex
          NIL          \* the Feline value nil: "no owner"

ASSUME NilIsNoThread == NIL \notin Thread

VARIABLES holder,      \* who holds the OS mutex (the raw value slot), or NIL
          owner,       \* the owner slot
          pc           \* where each thread is in mutex-lock / -trylock / -unlock

vars == <<holder, owner, pc>>

Location == {"idle",   \* outside the critical section
             "lock",   \* inside os_mutex_lock, perhaps blocked
             "try",    \* inside os_mutex_trylock
             "stamp",  \* the OS mutex is ours, the owner slot not yet written
             "held",   \* mutex-lock or mutex-trylock has returned t
             "unlock", \* inside os_mutex_unlock
             "wipe"}   \* the OS mutex is free, the owner slot not yet nil

TypeOK == /\ holder \in Thread \cup {NIL}
          /\ owner \in Thread \cup {NIL}
          /\ pc \in [Thread -> Location]

Init == /\ holder = NIL
        /\ owner = NIL
        /\ pc = [t \in Thread |-> "idle"]

Goto(t, there) == pc' = [pc EXCEPT ![t] = there]

(***************************************************************************)
(* Faulty variants of the operations below.  No specification uses them:   *)
(* they show that the properties can fail.                                 *)
(***************************************************************************)
\* os_mutex_trylock that does not look at who holds the mutex.
OsTrylockWins_Unguarded(t) == /\ pc[t] = "try"
                              /\ holder' = t
                              /\ Goto(t, "stamp")
                              /\ UNCHANGED owner

\* mutex-trylock that returns without writing the owner slot.
OsTrylockWins_Unstamped(t) == /\ pc[t] = "try"
                              /\ holder = NIL
                              /\ holder' = t
                              /\ Goto(t, "held")
                              /\ UNCHANGED owner

(***************************************************************************)
(* mutex-lock: block in os_mutex_lock, then write the owner slot.          *)
(***************************************************************************)
CallLock(t) == /\ pc[t] = "idle"
               /\ Goto(t, "lock")
               /\ UNCHANGED <<holder, owner>>

OsLock(t) == /\ pc[t] = "lock"
             /\ holder = NIL
             /\ holder' = t
             /\ Goto(t, "stamp")
             /\ UNCHANGED owner

StampOwner(t) == /\ pc[t] = "stamp"
                 /\ owner' = t
                 /\ Goto(t, "held")
                 /\ UNCHANGED holder

(***************************************************************************)
(* mutex-trylock: returns nil at once when somebody holds the OS mutex.    *)
(***************************************************************************)
CallTrylock(t) == /\ pc[t] = "idle"
                  /\ Goto(t, "try")
                  /\ UNCHANGED <<holder, owner>>

OsTrylockWins(t) == /\ pc[t] = "try"
                    /\ holder = NIL
                    /\ holder' = t
                    /\ Goto(t, "stamp")
                    /\ UNCHANGED owner

OsTrylockFails(t) == /\ pc[t] = "try"
                     /\ holder # NIL
                     /\ Goto(t, "idle")
                     /\ UNCHANGED <<holder, owner>>

(***************************************************************************)
(* mutex-unlock: the OS mutex is released first, the owner slot is set to  *)
(* nil afterwards, when another thread may already be in.                  *)
(***************************************************************************)
CallUnlock(t) == /\ pc[t] = "held"
                 /\ Goto(t, "unlock")
                 /\ UNCHANGED <<holder, owner>>

OsUnlock(t) == /\ pc[t] = "unlock"
               /\ holder' = NIL
               /\ Goto(t, "wipe")
               /\ UNCHANGED owner

WipeOwner(t) == /\ pc[t] = "wipe"
                /\ owner' = NIL
                /\ Goto(t, "idle")
                /\ UNCHANGED holder

Next == \E t \in Thread :
          \/ CallLock(t) \/ OsLock(t) \/ StampOwner(t)
          \/ CallTrylock(t) \/ OsTrylockWins(t) \/ OsTrylockFails(t)
          \/ CallUnlock(t) \/ OsUnlock(t) \/ WipeOwner(t)

Spec == Init /\ [][Next]_vars

----------------------------------------------------------------------------
(***************************************************************************)
(* Properties                                                              *)
(***************************************************************************)
Inside(t) == pc[t] \in {"stamp", "held", "unlock"}

\* A thread that is between a successful lock and the OS unlock holds the OS
\* mutex, and nobody else does: mutex-lock and mutex-trylock exclude each other.
MutualExclusion == \A t \in Thread : Inside(t) <=> holder = t

\* A thread in the critical section that reads mutex-owner sees itself or nil,
\* never another thread: the only write that can come late is a nil.
NoForeignOwner == \A t \in Thread : pc[t] \in {"held", "unlock"} => owner \in {t, NIL}

\* When no thread is inside an operation or the critical section, the owner
\* slot is nil: whatever order the late writes took, none of them sticks.
OwnerClearAtRest == (\A t \in Thread : pc[t] \in {"idle", "lock", "try"}) => owner = NIL

============================================================================
