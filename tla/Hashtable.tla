------------------------------ MODULE Hashtable ------------------------------
(***************************************************************************)
(* The hashtables of Feline: hashtable.asm ("general", any key) and        *)
(* fixnum-hashtable.asm ("fixnum").  Both probe linearly from the slot     *)
(* that the hash code names, mark deleted entries, never reuse their       *)
(* slots, and enter all entries anew into twice the space when they grow.  *)
(* They differ in when they grow and in what ends a probe: the general     *)
(* table probes each slot once, the fixnum table goes on, past a sentinel  *)
(* and round again, until it meets the key or an empty slot.               *)
(*                                                                         *)
(* A table belongs to one thread; set-at and growth are split into their   *)
(* steps.  nil is no key: the general table marks empty slots with it.     *)
(***************************************************************************)
EXTENDS Integers, FiniteSets

CONSTANTS Key, Value,
          Absent,      \* no value; the mark of an empty slot: f, or +empty+
          Deleted,     \* +deleted+
          HashCode,    \* what the hash function may return
          Capacity0,   \* initial capacities: powers of 2, 2 at least
          MaxCapacity  \* bound: what would make a table larger is not done

ASSUME MarksApart == /\ {Absent, Deleted} \cap Key = {}
                     /\ {Absent, Deleted} \cap Value = {}
                     /\ Absent # Deleted
ASSUME HashCodes == HashCode \subseteq Nat
ASSUME Capacities == MaxCapacity \in Nat /\ Capacity0 \subseteq 2 .. MaxCapacity

VARIABLES kind,        \* "general" or "fixnum"
          hash,        \* the hash function
          capacity,
          slots,       \* the data: a key and a value each
          count,       \* count, or occupancy: slots taken since the table last grew
          deletions,   \* deletions, which only the fixnum table keeps
          phase,       \* "idle", or what is to be done next
          after,       \* what is to be done after growing
          arg,         \* the entry that set-at is to store
          old,         \* growing: the slots of the old table
          cursor,      \* growing: the next of them to enter
          answer       \* what the last lookup has returned

table == <<capacity, slots, count, deletions>>
growth == <<after, old, cursor>>
vars == <<kind, hash, table, growth, phase, arg, answer>>

Index == 0 .. capacity - 1
EmptySlot == [key |-> Absent, value |-> Absent]
Slot == [key : Key \cup {Absent, Deleted}, value : Value \cup {Absent, Deleted}]

TypeOK ==
  /\ kind \in {"general", "fixnum"}
  /\ hash \in [Key -> HashCode]
  /\ capacity \in 2 .. MaxCapacity
  /\ slots \in [Index -> Slot]
  /\ count \in Nat
  /\ deletions \in Nat
  /\ phase \in {"idle", "put", "check", "rehash"}
  /\ after \in {"idle", "put"}
  /\ arg \in [key : Key \cup {Absent}, value : Value \cup {Absent}]
  /\ cursor \in Nat
  /\ \E n \in 0 .. MaxCapacity : old \in [0 .. n - 1 -> Slot] /\ cursor <= n
  /\ answer \in Value \cup {Absent}

Init ==
  /\ kind \in {"general", "fixnum"}
  /\ hash \in [Key -> HashCode]
  /\ capacity \in Capacity0
  /\ slots = [i \in Index |-> EmptySlot]
  /\ count = 0
  /\ deletions = 0
  /\ phase = "idle"
  /\ after = "idle"
  /\ arg = EmptySlot
  /\ old = [i \in {} |-> EmptySlot]
  /\ cursor = 0
  /\ answer = Absent

(***************************************************************************)
(* Probing                                                                 *)
(***************************************************************************)
Home(k) == hash[k] % capacity

\* How many slots a probe that starts at h passes before it looks at i.
Distance(h, i) == IF i >= h THEN i - h ELSE capacity - h + i

\* A probe for k that starts at h ends at i.
Ends(h, k, i) ==
  /\ slots[i].key \in {k, Absent}
  /\ \A j \in Index : Distance(h, j) < Distance(h, i) => slots[j].key \notin {k, Absent}

\* In a general table all slots have been probed in vain.
Full(k) == kind = "general" /\ \A i \in Index : slots[i].key \notin {k, Absent}

----------------------------------------------------------------------------
(***************************************************************************)
(* Faulty variants of operations below, with which the properties have     *)
(* been seen to fail.  No specification uses them.                         *)
(***************************************************************************)
\* at takes the value in the first slot it looks at, the mark of a deleted one too.
At_NoProbe(k) == /\ phase = "idle"
                 /\ answer' = slots[Home(k)].value
                 /\ UNCHANGED <<kind, hash, table, growth, phase, arg>>

\* delete-at makes the slot empty.
DeleteAt_Empties(k) ==
  /\ phase = "idle"
  /\ \E i \in Index : /\ Ends(Home(k), k, i)
                       /\ slots' = [slots EXCEPT ![i] = EmptySlot]
  /\ UNCHANGED <<kind, hash, capacity, count, deletions, growth, phase, arg, answer>>

\* delete-at decrements the count.
DeleteAt_Decrements(k) ==
  /\ phase = "idle"
  /\ \E i \in Index :
       /\ Ends(Home(k), k, i)
       /\ slots[i].key = k
       /\ slots' = [slots EXCEPT ![i] = [key |-> Deleted, value |-> Deleted]]
  /\ count' = count - 1
  /\ UNCHANGED <<kind, hash, capacity, deletions, growth, phase, arg, answer>>

\* grow_fixnum_hashtable_internal leaves the number of deletions.
StartGrowth_KeepsDeletions(then) ==
  /\ capacity' = 2 * capacity
  /\ slots' = [i \in 0 .. 2 * capacity - 1 |-> EmptySlot]
  /\ count' = 0
  /\ old' = slots
  /\ cursor' = 0
  /\ after' = then
  /\ phase' = "rehash"
  /\ UNCHANGED deletions

\* set-at takes the first slot that has been deleted and does not look for the key.
Store_ReusesDeleted(k, v) ==
  \E i \in Index :
    /\ slots[i].key \in {k, Absent, Deleted}
    /\ \A j \in Index :
         Distance(Home(k), j) < Distance(Home(k), i) => slots[j].key \notin {k, Absent, Deleted}
    /\ slots' = [slots EXCEPT ![i] = [key |-> k, value |-> v]]
    /\ count' = IF slots[i].key = Absent THEN count + 1 ELSE count

----------------------------------------------------------------------------
(***************************************************************************)
(* at, at*, fixnum-hashtable-at                                            *)
(***************************************************************************)
At(k) ==
  /\ phase = "idle"
  /\ \/ \E i \in Index :
          /\ Ends(Home(k), k, i)
          /\ answer' = IF slots[i].key = k THEN slots[i].value ELSE Absent
     \/ Full(k) /\ answer' = Absent
  /\ UNCHANGED <<kind, hash, table, growth, phase, arg>>

(***************************************************************************)
(* delete-at, fixnum-hashtable-delete-at: a deleted entry keeps its slot,  *)
(* and goes on counting as one that is taken.                              *)
(***************************************************************************)
DeletedSlot == [key |-> Deleted, value |-> Deleted]

DeleteAt(k) ==
  /\ phase = "idle"
  /\ \/ \E i \in Index :
          /\ Ends(Home(k), k, i)
          /\ slots[i].key = k
          /\ slots' = [slots EXCEPT ![i] = DeletedSlot]
          /\ deletions' = IF kind = "fixnum" THEN deletions + 1 ELSE deletions
     \/ /\ \E i \in Index : Ends(Home(k), k, i) /\ slots[i].key # k
        /\ UNCHANGED <<slots, deletions>>
     \/ /\ Full(k)
        /\ UNCHANGED <<slots, deletions>>
  /\ UNCHANGED <<kind, hash, capacity, count, growth, phase, arg, answer>>

(***************************************************************************)
(* The growth of a table: what it holds is set aside, and entered anew.    *)
(***************************************************************************)
\* set-at will not make the table exceed the bound
Room == 2 * capacity <= MaxCapacity \/ count + 1 < capacity \div 2

StartGrowth(then) ==
  /\ capacity' = 2 * capacity
  /\ slots' = [i \in 0 .. 2 * capacity - 1 |-> EmptySlot]
  /\ count' = 0
  /\ deletions' = 0
  /\ old' = slots
  /\ cursor' = 0
  /\ after' = then
  /\ phase' = "rehash"

\* puthash_internal, and hashtable_set_at_unchecked
Store(k, v) ==
  \E i \in Index :
    /\ Ends(Home(k), k, i)
    /\ slots' = [slots EXCEPT ![i] = [key |-> k, value |-> v]]
    /\ count' = IF slots[i].key = k THEN count ELSE count + 1

Rehash ==
  /\ phase = "rehash"
  /\ cursor \in DOMAIN old
  /\ IF old[cursor].key \in Key
     THEN Store(old[cursor].key, old[cursor].value)
     ELSE UNCHANGED <<slots, count>>
  /\ cursor' = cursor + 1
  /\ UNCHANGED <<kind, hash, capacity, deletions, after, old, phase, arg, answer>>

EndGrowth ==
  /\ phase = "rehash"
  /\ cursor \notin DOMAIN old
  /\ old' = [i \in {} |-> EmptySlot]
  /\ cursor' = 0
  /\ phase' = after
  /\ UNCHANGED <<kind, hash, table, after, arg, answer>>

\* hashtable-grow, grow-fixnum-hashtable
Grow ==
  /\ phase = "idle"
  /\ 2 * capacity <= MaxCapacity
  /\ StartGrowth("idle")
  /\ UNCHANGED <<kind, hash, arg, answer>>

(***************************************************************************)
(* set-at grows a table that is more than two thirds full, then stores;    *)
(* fixnum-hashtable-set-at stores, then grows a table that is half full.   *)
(***************************************************************************)
SetAt(k, v) ==
  /\ phase = "idle"
  /\ Room
  /\ arg' = [key |-> k, value |-> v]
  /\ \/ /\ kind = "general" /\ 3 * count > 2 * capacity
        /\ StartGrowth("put")
     \/ /\ kind = "fixnum" \/ 3 * count <= 2 * capacity
        /\ phase' = "put"
        /\ UNCHANGED <<table, growth>>
  /\ UNCHANGED <<kind, hash, answer>>

Put ==
  /\ phase = "put"
  /\ Store(arg.key, arg.value)
  /\ phase' = IF kind = "fixnum" THEN "check" ELSE "idle"
  /\ UNCHANGED <<kind, hash, capacity, deletions, growth, arg, answer>>

Check ==
  /\ phase = "check"
  /\ \/ /\ count < capacity \div 2
        /\ phase' = "idle"
        /\ UNCHANGED <<table, growth>>
     \/ /\ count >= capacity \div 2
        /\ StartGrowth("idle")
  /\ UNCHANGED <<kind, hash, arg, answer>>

Next == \/ \E k \in Key : \/ At(k) \/ DeleteAt(k)
                          \/ \E v \in Value : SetAt(k, v)
        \/ Put \/ Check \/ Grow \/ Rehash \/ EndGrowth

Spec == Init /\ [][Next]_vars

----------------------------------------------------------------------------
(***************************************************************************)
(* Properties                                                              *)
(***************************************************************************)
\* The value of each key: in the table, or in the old one and still to enter.
Entry(k) ==
  IF \E i \in Index : slots[i].key = k
  THEN slots[CHOOSE i \in Index : slots[i].key = k].value
  ELSE IF \E i \in DOMAIN old : i >= cursor /\ old[i].key = k
  THEN old[CHOOSE i \in DOMAIN old : i >= cursor /\ old[i].key = k].value
  ELSE Absent

D == INSTANCE Dictionary WITH dict <- [k \in Key |-> Entry(k)]

\* Through any sequence of insertions, deletions and growth, a lookup returns the
\* value last stored for the key, and Absent after a deletion.
ActsAsDictionary == D!Spec

\* Every entry can be found from the home of its key, and no key has two.
EntriesFound ==
  \A i \in Index : slots[i].key \in Key => Ends(Home(slots[i].key), slots[i].key, i)

\* The count is that of the slots that are taken, deleted entries included: both
\* tables decide by it when to grow, and neither decrements it.  deletions says
\* how many of them are deleted.
Taken == {i \in Index : slots[i].key # Absent}
CountsAreExact ==
  /\ count = Cardinality(Taken)
  /\ kind = "fixnum" => deletions = Cardinality({i \in Index : slots[i].key = Deleted})

\* A probe for a key that is not there comes to an empty slot: always in a fixnum
\* table, which has nothing else to stop it, and in a general table when an entry
\* is to be stored.
ProbesEnd ==
  kind = "fixnum" \/ phase \in {"put", "rehash"} =>
    \E i \in Index : slots[i].key = Absent

=============================================================================
