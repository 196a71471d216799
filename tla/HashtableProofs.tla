--------------------------- MODULE HashtableProofs ---------------------------
(***************************************************************************)
(* Why a hashtable is a dictionary, whatever its keys, values, hash        *)
(* function, capacity and kind.                                            *)
(*                                                                         *)
(* Two places at which a probe for one key ends are the same place         *)
(* (ProbesAgree): so a key that EntriesFound puts at the end of its probe  *)
(* has one entry, and a probe that ends elsewhere proves it absent.  A     *)
(* table that grows is in two parts, which have no key in common.  Every   *)
(* probe ends because a table is never full when one must: that is a bound *)
(* on the count in every phase (Load), and the count is exact.             *)
(***************************************************************************)
EXTENDS Hashtable, FiniteSetTheorems, TLAPS

\* A key has a value, in the table and in the part that is still to be entered.
EntriesHaveValues ==
  /\ \A i \in Index : slots[i].key \in Key => slots[i].value \in Value
  /\ \A i \in DOMAIN old : old[i].key \in Key => old[i].value \in Value

\* What set-at is about to store is an entry.
ArgIsEntry ==
  phase = "put" \/ (phase = "rehash" /\ after = "put") =>
    arg.key \in Key /\ arg.value \in Value

\* Only a growing table has an old part: half as large, without a key twice, and
\* without one that has been entered.
Split ==
  IF phase = "rehash"
  THEN \E n \in 1 .. capacity :
         /\ capacity = 2 * n
         /\ DOMAIN old = 0 .. n - 1
         /\ cursor <= n
         /\ \A i, j \in DOMAIN old : old[i].key \in Key /\ old[i].key = old[j].key => i = j
         /\ \A i \in DOMAIN old : i >= cursor /\ old[i].key \in Key =>
              \A j \in Index : slots[j].key # old[i].key
  ELSE DOMAIN old = {} /\ cursor = 0

\* How many slots may be taken: in a fixnum table less than half of them, except
\* between the store and the check; in a general table less than all when an entry
\* is about to be stored.  A growing table has at most one entry for each slot it has
\* passed, and if it is a fixnum table one of those in the old table is free.
Load ==
  /\ kind = "fixnum" /\ phase \in {"idle", "put"} => count < capacity \div 2
  /\ kind = "fixnum" /\ phase = "check" => count <= capacity \div 2
  /\ kind = "general" /\ phase = "put" => count < capacity
  /\ kind = "general" => phase # "check"
  /\ phase = "rehash" =>
       /\ count <= cursor
       /\ kind = "fixnum" => \E i \in DOMAIN old :
                               old[i].key \notin Key /\ (i < cursor => count < cursor)
  /\ phase = "rehash" /\ after = "put" => kind = "general"

\* A fixnum table that the bound keeps from growing need not grow.
Bounded ==
  kind = "fixnum" =>
    /\ phase = "put" => 2 * capacity <= MaxCapacity \/ count + 1 < capacity \div 2
    /\ phase = "check" => 2 * capacity <= MaxCapacity \/ count < capacity \div 2

Inv == /\ TypeOK
       /\ EntriesFound
       /\ CountsAreExact
       /\ EntriesHaveValues
       /\ ArgIsEntry
       /\ Split
       /\ Load
       /\ Bounded

----------------------------------------------------------------------------
(***************************************************************************)
(* Probing                                                                 *)
(***************************************************************************)
LEMMA HomeIsIndex == ASSUME TypeOK, NEW k \in Key PROVE Home(k) \in Index
<1>1. hash \in [Key -> HashCode] /\ capacity \in 2 .. MaxCapacity
  BY DEF TypeOK
<1>2. hash[k] \in Nat
  BY <1>1, HashCodes
<1>3. capacity \in Nat \ {0}
  BY <1>1, Capacities
<1> QED
  BY <1>2, <1>3 DEF Home, Index

LEMMA DistanceApart ==
  ASSUME capacity \in Nat, NEW h \in Index, NEW i \in Index, NEW j \in Index
  PROVE  /\ Distance(h, i) \in Nat
         /\ i # j => Distance(h, i) < Distance(h, j) \/ Distance(h, j) < Distance(h, i)
  BY DEF Distance, Index

LEMMA CapacityNat == ASSUME TypeOK
                     PROVE  capacity \in Nat /\ MaxCapacity \in Nat
                            /\ 2 <= capacity /\ capacity <= MaxCapacity
  BY Capacities DEF TypeOK

\* A probe for one key ends at one place.
LEMMA ProbesAgree ==
  ASSUME TypeOK, NEW k \in Key, NEW i \in Index, NEW j \in Index,
         Ends(Home(k), k, i), Ends(Home(k), k, j)
  PROVE  i = j
  BY HomeIsIndex, CapacityNat, DistanceApart DEF Ends

\* So a key that is where its probe ends is there only,
LEMMA OneEntry ==
  ASSUME TypeOK, EntriesFound, NEW k \in Key, NEW i \in Index, NEW j \in Index,
         slots[i].key = k, slots[j].key = k
  PROVE  i = j
  BY ProbesAgree DEF EntriesFound

\* and a key whose probe ends at an empty slot is nowhere.
LEMMA NotThere ==
  ASSUME TypeOK, EntriesFound, NEW k \in Key, NEW i \in Index,
         Ends(Home(k), k, i), slots[i].key # k
  PROVE  \A j \in Index : slots[j].key # k
  BY ProbesAgree DEF EntriesFound

LEMMA FullHasNone == ASSUME NEW k \in Key, Full(k)
                     PROVE  \A j \in Index : slots[j].key # k
  BY DEF Full

LEMMA TakenFinite ==
  ASSUME TypeOK
  PROVE  /\ IsFiniteSet(Index) /\ Cardinality(Index) = capacity
         /\ IsFiniteSet(Taken) /\ Cardinality(Taken) \in Nat
         /\ IsFiniteSet({i \in Index : slots[i].key = Deleted})
<1>1. IsFiniteSet(Index) /\ Cardinality(Index) = capacity
  BY CapacityNat, FS_Interval, 0 \in Int, capacity - 1 \in Int DEF Index
<1>2. Taken \in SUBSET Index /\ {i \in Index : slots[i].key = Deleted} \in SUBSET Index
  BY DEF Taken
<1> QED
  BY <1>1, <1>2, FS_Subset, FS_CardinalityType

\* A table with a free slot left by its count has one.
LEMMA FreeSlot ==
  ASSUME TypeOK, CountsAreExact, count < capacity
  PROVE  \E i \in Index : slots[i].key = Absent
<1> SUFFICES ASSUME \A i \in Index : slots[i].key # Absent PROVE FALSE
  OBVIOUS
<1>1. Taken = Index
  BY DEF Taken
<1> QED
  BY <1>1, TakenFinite, CapacityNat DEF CountsAreExact

----------------------------------------------------------------------------
(***************************************************************************)
(* The two changes that are made to a table                                *)
(***************************************************************************)
\* An entry is stored.
LEMMA Stored ==
  ASSUME TypeOK, EntriesFound, count = Cardinality(Taken),
         NEW k \in Key, NEW v \in Value, Store(k, v), UNCHANGED <<hash, capacity>>
  PROVE  /\ slots' \in [Index -> Slot] /\ count' \in Nat
         /\ count <= count' /\ count' <= count + 1
         /\ EntriesFound'
         /\ count' = Cardinality(Taken')
         /\ {i \in Index : slots'[i].key = Deleted} = {i \in Index : slots[i].key = Deleted}
         /\ \E i \in Index :
              /\ slots[i].key \in {k, Absent}
              /\ slots'[i] = [key |-> k, value |-> v]
              /\ \A j \in Index \ {i} : slots'[j] = slots[j] /\ slots[j].key # k
<1> USE CapacityNat
<1>1. PICK i \in Index : /\ Ends(Home(k), k, i)
                         /\ slots' = [slots EXCEPT ![i] = [key |-> k, value |-> v]]
                         /\ count' = IF slots[i].key = k THEN count ELSE count + 1
  BY DEF Store
<1>2. slots \in [Index -> Slot] /\ slots[i].key \in {k, Absent} /\ count \in Nat
      /\ k \notin {Absent, Deleted} /\ Absent # Deleted
  BY <1>1, MarksApart DEF TypeOK, Ends
<1>3. slots' \in [Index -> Slot] /\ slots'[i] = [key |-> k, value |-> v]
      /\ \A j \in Index \ {i} : slots'[j] = slots[j]
  BY <1>1, <1>2 DEF Slot
<1>4. \A j \in Index \ {i} : slots[j].key # k
  <2>1. CASE slots[i].key = k
    BY <2>1, OneEntry
  <2>2. CASE slots[i].key # k
    BY <1>1, <2>2, NotThere
  <2> QED
    BY <2>1, <2>2
<1>5. Index' = Index /\ \A c \in Key : Home(c)' = Home(c)
  BY DEF Index, Home
<1>6. EntriesFound'
  <2> SUFFICES ASSUME NEW j \in Index, slots'[j].key \in Key
               PROVE  Ends(Home(slots[j].key), slots[j].key, j)'
    BY <1>5 DEF EntriesFound
  <2>1. CASE j = i
    <3>1. slots'[j].key = k
      BY <1>3, <2>1
    <3>2. \A m \in Index : Distance(Home(k), m) < Distance(Home(k), i) =>
             m # i /\ slots[m].key \notin {k, Absent}
      BY <1>1, HomeIsIndex, DistanceApart DEF Ends
    <3> QED
      BY <1>3, <1>5, <2>1, <3>1, <3>2 DEF Ends, Distance
  <2>2. CASE j # i
    <3> DEFINE c == slots[j].key
    <3>1. slots'[j] = slots[j] /\ c \in Key /\ c # k
      BY <1>3, <1>4, <2>2
    <3>2. Ends(Home(c), c, j)
      BY <3>1 DEF EntriesFound
    <3>3. \A m \in Index : Distance(Home(c), m) < Distance(Home(c), j) =>
             slots'[m].key \notin {c, Absent}
      BY <1>2, <1>3, <3>1, <3>2 DEF Ends
    <3>4. slots'[j].key = c /\ Home(c)' = Home(c)
      BY <1>5, <3>1
    <3>5. Ends(Home(c), c, j)' 
      BY <1>5, <3>3, <3>4 DEF Ends, Distance
    <3> QED
      BY <3>4, <3>5
  <2> QED
    BY <2>1, <2>2
<1>7. Taken' = Taken \cup {i}
  BY <1>2, <1>3, <1>5 DEF Taken
<1>8. i \in Taken <=> slots[i].key = k
  BY <1>2 DEF Taken
<1>9. count' = Cardinality(Taken')
  BY <1>1, <1>7, <1>8, TakenFinite, FS_AddElement
<1>10. {m \in Index : slots'[m].key = Deleted} = {m \in Index : slots[m].key = Deleted}
  BY <1>2, <1>3
<1>11. count <= count' /\ count' <= count + 1 /\ count' \in Nat
  BY <1>1, <1>2
<1> QED
  BY <1>2, <1>3, <1>4, <1>6, <1>9, <1>10, <1>11

\* A key is in no more than one of the slots that are set aside for growth.
LEMMA Grown ==
  ASSUME Inv, NEW then \in {"idle", "put"}, StartGrowth(then),
         phase # "rehash", 2 * capacity <= MaxCapacity, UNCHANGED <<kind, hash, answer>>,
         arg' \in [key : Key \cup {Absent}, value : Value \cup {Absent}],
         kind = "fixnum" => then = "idle" /\ count < capacity,
         then = "put" => arg'.key \in Key /\ arg'.value \in Value
  PROVE  Inv'
<1> USE CapacityNat DEF Inv
<1>1. /\ capacity' = 2 * capacity /\ Index' = 0 .. 2 * capacity - 1
      /\ slots' = [i \in Index' |-> EmptySlot]
      /\ count' = 0 /\ deletions' = 0 /\ old' = slots /\ cursor' = 0
      /\ after' = then /\ phase' = "rehash"
  BY DEF StartGrowth, Index
<1>2. /\ slots \in [Index -> Slot] /\ DOMAIN slots = Index
      /\ Absent \notin Key /\ Deleted \notin Key /\ Absent # Deleted
  BY MarksApart DEF TypeOK
<1>3. \A i \in Index' : slots'[i] = EmptySlot /\ slots'[i].key = Absent
  BY <1>1 DEF EmptySlot
<1>4. TypeOK'
  <2>1. slots' \in [Index' -> Slot]
    BY <1>1 DEF EmptySlot, Slot
  <2>2. \E n \in 0 .. MaxCapacity : old' \in [0 .. n - 1 -> Slot] /\ cursor' <= n
    BY <1>1, <1>2, capacity \in 0 .. MaxCapacity DEF Index
  <2>3. /\ kind' \in {"general", "fixnum"} /\ hash' \in [Key -> HashCode]
        /\ capacity' \in 2 .. MaxCapacity' /\ answer' \in Value \cup {Absent}
    BY <1>1 DEF TypeOK
  <2> QED
    BY <1>1, <2>1, <2>2, <2>3 DEF TypeOK
<1>5. EntriesFound' /\ \A i \in Index' : slots'[i].key \notin Key
  BY <1>2, <1>3 DEF EntriesFound
<1>6. CountsAreExact'
  <2>1. Taken' = {} /\ {i \in Index : slots[i].key = Deleted}' = {}
    BY <1>2, <1>3 DEF Taken
  <2> QED
    BY <1>1, <2>1, FS_EmptySet DEF CountsAreExact
<1>7. EntriesHaveValues'
  BY <1>1, <1>2, <1>5 DEF EntriesHaveValues
<1>8. ArgIsEntry'
  BY <1>1 DEF ArgIsEntry
<1>9. Split'
  <2>1. \A i, j \in Index : slots[i].key \in Key /\ slots[i].key = slots[j].key => i = j
    BY OneEntry
  <2>2. capacity \in 1 .. capacity' /\ Index = 0 .. capacity - 1
    BY <1>1 DEF Index
  <2>3. \A i \in Index : old'[i].key \in Key => \A j \in Index' : slots'[j].key # old'[i].key
    BY <1>5
  <2>4. DOMAIN old' = 0 .. capacity - 1 /\ cursor' <= capacity
    BY <1>1, <1>2, <2>2
  <2>5. \A i, j \in DOMAIN old' : old'[i].key \in Key /\ old'[i].key = old'[j].key => i = j
    BY <1>1, <1>2, <2>1
  <2>6. \A i \in DOMAIN old' : i >= cursor' /\ old'[i].key \in Key =>
           \A j \in Index' : slots'[j].key # old'[i].key
    BY <1>1, <1>2, <2>3
  <2> QED
    BY <1>1, <2>2, <2>4, <2>5, <2>6 DEF Split
<1>10. kind = "fixnum" => \E i \in Index : slots[i].key \notin Key
  BY <1>2, FreeSlot
<1>11. Load'
  <2>1. kind = "fixnum" => \E i \in DOMAIN old' :
                             old'[i].key \notin Key /\ (i < cursor' => count' < cursor')
    BY <1>1, <1>2, <1>10 DEF Index
  <2> QED
    BY <1>1, <2>1 DEF Load, TypeOK
<1>12. Bounded'
  BY <1>1 DEF Bounded
<1> QED
  BY <1>4, <1>5, <1>6, <1>7, <1>8, <1>9, <1>11, <1>12

----------------------------------------------------------------------------
(***************************************************************************)
(* Each operation preserves the invariant                                  *)
(***************************************************************************)
LEMMA InitInv == Init => Inv
<1> SUFFICES ASSUME Init PROVE Inv
  OBVIOUS
<1>1. /\ capacity \in 2 .. MaxCapacity /\ capacity \in Nat /\ MaxCapacity \in Nat
      /\ slots = [i \in Index |-> EmptySlot] /\ old = [i \in {} |-> EmptySlot]
      /\ count = 0 /\ deletions = 0 /\ phase = "idle" /\ after = "idle" /\ cursor = 0
      /\ DOMAIN old = {}
  BY Capacities DEF Init
<1>2. Absent \notin Key /\ Deleted \notin Key /\ Absent # Deleted
  BY MarksApart
<1>3. \A i \in Index : slots[i].key = Absent
  BY <1>1 DEF EmptySlot
<1>4. TypeOK
  <2>1. slots \in [Index -> Slot]
    BY <1>1 DEF EmptySlot, Slot
  <2>2. old \in [0 .. 0 - 1 -> Slot]
    BY <1>1
  <2>3. \E n \in 0 .. MaxCapacity : old \in [0 .. n - 1 -> Slot] /\ cursor <= n
    BY <1>1, <2>2
  <2>4. arg \in [key : Key \cup {Absent}, value : Value \cup {Absent}]
    BY DEF Init, EmptySlot
  <2>5. /\ kind \in {"general", "fixnum"} /\ hash \in [Key -> HashCode]
        /\ answer \in Value \cup {Absent}
    BY DEF Init
  <2> QED
    BY <1>1, <2>1, <2>3, <2>4, <2>5 DEF TypeOK
<1>5. EntriesFound /\ EntriesHaveValues
  BY <1>1, <1>2, <1>3 DEF EntriesFound, EntriesHaveValues
<1>6. CountsAreExact
  <2>1. Taken = {} /\ {i \in Index : slots[i].key = Deleted} = {}
    BY <1>2, <1>3 DEF Taken
  <2> QED
    BY <1>1, <2>1, FS_EmptySet DEF CountsAreExact
<1>7. ArgIsEntry /\ Split /\ Bounded
  BY <1>1 DEF ArgIsEntry, Split, Bounded
<1>8. Load
  BY <1>1 DEF Load
<1> QED
  BY <1>4, <1>5, <1>6, <1>7, <1>8 DEF Inv

\* An operation that leaves the table alone.
LEMMA AtInv == ASSUME Inv, NEW k \in Key, At(k) PROVE Inv'
<1>1. UNCHANGED <<kind, hash, capacity, slots, count, deletions, after, old, cursor, phase, arg>>
  BY DEF At, table, growth
<1>2. answer' \in Value \cup {Absent}
  BY DEF At, Inv, EntriesHaveValues
<1>3. TypeOK'
  BY <1>1, <1>2 DEF Inv, TypeOK, Index
<1>4. EntriesFound' /\ CountsAreExact' /\ EntriesHaveValues'
  BY <1>1 DEF Inv, EntriesFound, Ends, Distance, Home, Index, CountsAreExact, Taken,
              EntriesHaveValues
<1>5. ArgIsEntry' /\ Split' /\ Load' /\ Bounded'
  BY <1>1 DEF Inv, ArgIsEntry, Split, Load, Bounded, Index
<1> QED
  BY <1>3, <1>4, <1>5 DEF Inv

LEMMA DeleteAtInv == ASSUME Inv, NEW k \in Key, DeleteAt(k) PROVE Inv'
<1> USE DEF Inv
<1>1. UNCHANGED <<kind, hash, capacity, count, after, old, cursor, phase, arg, answer>>
      /\ phase = "idle" /\ Index' = Index
  BY DEF DeleteAt, growth, Index
<1>2. CASE UNCHANGED <<slots, deletions>>
  <2>1. TypeOK'
    BY <1>1, <1>2 DEF TypeOK
  <2>2. EntriesFound' /\ CountsAreExact' /\ EntriesHaveValues'
    BY <1>1, <1>2 DEF EntriesFound, Ends, Distance, Home, Index, CountsAreExact, Taken,
                      EntriesHaveValues
  <2>3. ArgIsEntry' /\ Split' /\ Load' /\ Bounded'
    BY <1>1, <1>2 DEF ArgIsEntry, Split, Load, Bounded, Index
  <2> QED
    BY <2>1, <2>2, <2>3
<1>3. CASE \E i \in Index :
             /\ slots[i].key = k
             /\ slots' = [slots EXCEPT ![i] = DeletedSlot]
             /\ deletions' = IF kind = "fixnum" THEN deletions + 1 ELSE deletions
  <2>1. PICK i \in Index :
             /\ slots[i].key = k
             /\ slots' = [slots EXCEPT ![i] = DeletedSlot]
             /\ deletions' = IF kind = "fixnum" THEN deletions + 1 ELSE deletions
    BY <1>3
  <2>2. /\ slots \in [Index -> Slot] /\ deletions \in Nat
        /\ k \notin {Absent, Deleted} /\ Absent # Deleted /\ Deleted \notin Key
    BY MarksApart DEF TypeOK
  <2>3. /\ slots' \in [Index -> Slot] /\ slots'[i].key = Deleted
        /\ \A j \in Index \ {i} : slots'[j] = slots[j]
    BY <2>1, <2>2 DEF Slot, DeletedSlot
  <2>4. TypeOK'
    BY <1>1, <2>1, <2>2, <2>3 DEF TypeOK
  <2>5. EntriesFound'
    <3> SUFFICES ASSUME NEW j \in Index, slots'[j].key \in Key
                 PROVE  Ends(Home(slots[j].key), slots[j].key, j)'
      BY <1>1 DEF EntriesFound
    <3> DEFINE c == slots[j].key
    <3>1. j # i /\ slots'[j] = slots[j] /\ c \in Key
      BY <2>2, <2>3
    <3>2. Ends(Home(c), c, j)
      BY <3>1 DEF EntriesFound
    <3>3. slots'[j].key = c /\ Home(c)' = Home(c)
      BY <1>1, <3>1 DEF Home
    <3>4. \A m \in Index : Distance(Home(c), m) < Distance(Home(c), j) =>
             slots'[m].key \notin {c, Absent}
      BY <2>2, <2>3, <3>1, <3>2 DEF Ends
    <3> QED
      BY <1>1, <3>1, <3>3, <3>4 DEF Ends, Distance
  <2>6. CountsAreExact'
    <3>1. Taken' = Taken
      BY <1>1, <2>1, <2>2, <2>3 DEF Taken
    <3> DEFINE gone == {j \in Index : slots[j].key = Deleted}
    <3>2. gone' = gone \cup {i} /\ i \notin gone
      BY <1>1, <2>1, <2>2, <2>3
    <3>3. Cardinality(gone') = Cardinality(gone) + 1
      BY <3>2, TakenFinite, FS_AddElement
    <3> QED
      BY <1>1, <2>1, <3>1, <3>3 DEF CountsAreExact
  <2>7. EntriesHaveValues'
    BY <1>1, <2>2, <2>3 DEF EntriesHaveValues
  <2>8. ArgIsEntry' /\ Split' /\ Load' /\ Bounded'
    BY <1>1 DEF ArgIsEntry, Split, Load, Bounded
  <2> QED
    BY <2>4, <2>5, <2>6, <2>7, <2>8
<1> QED
  BY <1>2, <1>3 DEF DeleteAt

LEMMA SetAtInv == ASSUME Inv, NEW k \in Key, NEW v \in Value, SetAt(k, v) PROVE Inv'
<1> USE DEF Inv
<1>1. /\ phase = "idle" /\ Room /\ arg' = [key |-> k, value |-> v]
      /\ UNCHANGED <<kind, hash, answer>>
  BY DEF SetAt
<1>2. /\ arg' \in [key : Key \cup {Absent}, value : Value \cup {Absent}]
      /\ arg'.key \in Key /\ arg'.value \in Value
  BY <1>1
<1>3. capacity \in Nat /\ count \in Nat /\ MaxCapacity \in Nat
  BY CapacityNat DEF TypeOK
<1>4. CASE kind = "general" /\ 3 * count > 2 * capacity /\ StartGrowth("put")
  <2>1. 2 * capacity <= MaxCapacity
    BY <1>1, <1>3, <1>4 DEF Room
  <2> QED
    BY <1>1, <1>2, <1>4, <2>1, Grown
<1>5. CASE /\ kind = "fixnum" \/ 3 * count <= 2 * capacity
           /\ phase' = "put" /\ UNCHANGED <<table, growth>>
  <2>1. UNCHANGED <<capacity, slots, count, deletions, after, old, cursor, Index>>
    BY <1>5 DEF table, growth, Index
  <2>2. TypeOK'
    BY <1>1, <1>2, <1>5, <2>1 DEF TypeOK
  <2>3. EntriesFound' /\ CountsAreExact' /\ EntriesHaveValues'
    BY <1>1, <2>1 DEF EntriesFound, Ends, Distance, Home, CountsAreExact, Taken,
                      EntriesHaveValues
  <2>4. ArgIsEntry' /\ Split'
    BY <1>1, <1>2, <1>5, <2>1 DEF ArgIsEntry, Split
  <2>5. 2 <= capacity
    BY CapacityNat
  <2>6. kind = "general" => count < capacity
    BY <1>3, <1>5, <2>5
  <2>7. kind = "fixnum" => count < capacity \div 2
    BY <1>1 DEF Load
  <2>8. Load'
    BY <1>1, <1>5, <2>1, <2>6, <2>7 DEF Load
  <2>9. Bounded'
    BY <1>1, <1>5, <2>1 DEF Bounded, Room
  <2> QED
    BY <2>2, <2>3, <2>4, <2>8, <2>9
<1> QED
  BY <1>4, <1>5 DEF SetAt

LEMMA PutInv == ASSUME Inv, Put PROVE Inv'
<1> USE DEF Inv
<1>1. /\ phase = "put" /\ Store(arg.key, arg.value)
      /\ phase' = IF kind = "fixnum" THEN "check" ELSE "idle"
      /\ UNCHANGED <<kind, hash, capacity, deletions, after, old, cursor, arg, answer, Index>>
  BY DEF Put, growth, Index
<1>2. arg.key \in Key /\ arg.value \in Value
  BY <1>1 DEF ArgIsEntry
<1>3. /\ slots' \in [Index -> Slot] /\ count' \in Nat
      /\ count <= count' /\ count' <= count + 1
      /\ EntriesFound'
      /\ count' = Cardinality(Taken')
      /\ {i \in Index : slots'[i].key = Deleted} = {i \in Index : slots[i].key = Deleted}
      /\ \E i \in Index : /\ slots'[i] = [key |-> arg.key, value |-> arg.value]
                          /\ \A j \in Index \ {i} : slots'[j] = slots[j]
  <2> HIDE DEF Store, EntriesFound, Taken, Slot
  <2> QED
    BY <1>1, <1>2, Stored DEF CountsAreExact
<1>4. TypeOK'
  BY <1>1, <1>3 DEF TypeOK
<1>5. CountsAreExact'
  BY <1>1, <1>3 DEF CountsAreExact
<1>6. EntriesHaveValues'
  <2>1. \A i \in Index : slots'[i].key \in Key => slots'[i].value \in Value
    BY <1>2, <1>3 DEF EntriesHaveValues
  <2> QED
    BY <1>1, <2>1 DEF EntriesHaveValues
<1>7. ArgIsEntry' /\ Split'
  BY <1>1 DEF ArgIsEntry, Split
<1>8. Load'
  <2>1. kind \in {"general", "fixnum"} /\ count \in Nat /\ capacity \in Nat
    BY CapacityNat DEF TypeOK
  <2> QED
    BY <1>1, <1>3, <2>1 DEF Load
<1>9. Bounded'
  <2>1. kind \in {"general", "fixnum"} /\ count \in Nat /\ capacity \in Nat
    BY CapacityNat DEF TypeOK
  <2> QED
    BY <1>1, <1>3, <2>1 DEF Bounded
<1> QED
  BY <1>3, <1>4, <1>5, <1>6, <1>7, <1>8, <1>9

LEMMA CheckInv == ASSUME Inv, Check PROVE Inv'
<1> USE DEF Inv
<1>1. phase = "check" /\ UNCHANGED <<kind, hash, arg, answer>>
  BY DEF Check
<1>2. /\ capacity \in Nat /\ count \in Nat /\ 2 <= capacity
      /\ arg \in [key : Key \cup {Absent}, value : Value \cup {Absent}]
      /\ kind \in {"general", "fixnum"}
  BY CapacityNat DEF TypeOK
<1>3. kind = "fixnum" /\ count <= capacity \div 2
  BY <1>1, <1>2 DEF Load
<1>4. CASE count < capacity \div 2 /\ phase' = "idle" /\ UNCHANGED <<table, growth>>
  <2>1. UNCHANGED <<capacity, slots, count, deletions, after, old, cursor, Index>>
    BY <1>4 DEF table, growth, Index
  <2>2. TypeOK'
    BY <1>1, <1>4, <2>1 DEF TypeOK
  <2>3. EntriesFound' /\ CountsAreExact' /\ EntriesHaveValues'
    BY <1>1, <2>1 DEF EntriesFound, Ends, Distance, Home, CountsAreExact, Taken,
                      EntriesHaveValues
  <2>4. ArgIsEntry' /\ Split'
    BY <1>1, <1>4, <2>1 DEF ArgIsEntry, Split
  <2>5. Load' /\ Bounded'
    BY <1>1, <1>3, <1>4, <2>1 DEF Load, Bounded
  <2> QED
    BY <2>2, <2>3, <2>4, <2>5
<1>5. CASE count >= capacity \div 2 /\ StartGrowth("idle")
  <2>1. 2 * capacity <= MaxCapacity
    BY <1>1, <1>2, <1>3, <1>5 DEF Bounded
  <2>2. count < capacity
    BY <1>2, <1>3
  <2> QED
    BY <1>1, <1>2, <1>5, <2>1, <2>2, Grown
<1> QED
  BY <1>4, <1>5 DEF Check

LEMMA GrowInv == ASSUME Inv, Grow PROVE Inv'
<1> USE DEF Inv
<1>1. /\ phase = "idle" /\ 2 * capacity <= MaxCapacity /\ StartGrowth("idle")
      /\ UNCHANGED <<kind, hash, arg, answer>>
  BY DEF Grow
<1>2. /\ capacity \in Nat /\ count \in Nat /\ 2 <= capacity
      /\ arg \in [key : Key \cup {Absent}, value : Value \cup {Absent}]
  BY CapacityNat DEF TypeOK
<1>3. kind = "fixnum" => count < capacity
  BY <1>1, <1>2 DEF Load
<1> QED
  BY <1>1, <1>2, <1>3, Grown

LEMMA RehashInv == ASSUME Inv, Rehash PROVE Inv'
<1> USE DEF Inv
<1> DEFINE e == old[cursor]
<1>1. /\ phase = "rehash" /\ phase' = "rehash" /\ cursor \in DOMAIN old /\ cursor' = cursor + 1
      /\ UNCHANGED <<kind, hash, capacity, deletions, after, old, arg, answer, Index>>
  BY DEF Rehash, Index
<1>2. PICK n \in 1 .. capacity :
         /\ capacity = 2 * n
         /\ DOMAIN old = 0 .. n - 1
         /\ cursor <= n
         /\ \A i, j \in DOMAIN old : old[i].key \in Key /\ old[i].key = old[j].key => i = j
         /\ \A i \in DOMAIN old : i >= cursor /\ old[i].key \in Key =>
              \A j \in Index : slots[j].key # old[i].key
  BY <1>1 DEF Split
<1>3. capacity \in Nat /\ count \in Nat /\ cursor \in Nat /\ n \in Nat /\ MaxCapacity \in Nat
      /\ capacity <= MaxCapacity
  BY <1>2, CapacityNat DEF TypeOK
<1>4. cursor < n
  BY <1>1, <1>2, <1>3
<1>5. /\ slots' \in [Index -> Slot] /\ count' \in Nat /\ EntriesFound'
      /\ count' <= count + 1 /\ (e.key \notin Key => count' = count)
      /\ count' = Cardinality(Taken')
      /\ {i \in Index : slots'[i].key = Deleted} = {i \in Index : slots[i].key = Deleted}
      /\ \A i \in Index : \/ slots'[i] = slots[i]
                          \/ e.key \in Key /\ slots'[i] = [key |-> e.key, value |-> e.value]
  <2>1. CASE e.key \in Key
    <3>1. e.value \in Value /\ Store(e.key, e.value) /\ UNCHANGED <<hash, capacity>>
      BY <1>1, <2>1 DEF Rehash, EntriesHaveValues
    <3> HIDE DEF Store, EntriesFound, Taken, Slot, e
    <3>2. /\ slots' \in [Index -> Slot] /\ count' \in Nat /\ EntriesFound'
          /\ count' <= count + 1
          /\ count' = Cardinality(Taken')
          /\ {i \in Index : slots'[i].key = Deleted} = {i \in Index : slots[i].key = Deleted}
          /\ \E i \in Index : /\ slots'[i] = [key |-> e.key, value |-> e.value]
                              /\ \A j \in Index \ {i} : slots'[j] = slots[j]
      BY <2>1, <3>1, Stored DEF CountsAreExact
    <3> QED
      BY <2>1, <3>2
  <2>2. CASE e.key \notin Key
    <3>1. UNCHANGED <<slots, count>>
      BY <1>1, <2>2 DEF Rehash
    <3>2. EntriesFound'
      BY <1>1, <3>1 DEF EntriesFound, Ends, Distance, Home
    <3> QED
      BY <1>1, <1>3, <2>2, <3>1, <3>2 DEF TypeOK, CountsAreExact, Taken
  <2> QED
    BY <2>1, <2>2
<1>6. TypeOK'
  <2>1. \E m \in 0 .. MaxCapacity : old' \in [0 .. m - 1 -> Slot] /\ cursor' <= m
    <3>1. PICK m \in 0 .. MaxCapacity : old \in [0 .. m - 1 -> Slot] /\ cursor <= m
      BY DEF TypeOK
    <3>2. cursor + 1 <= m
      BY <1>1, <1>3, <3>1
    <3> QED
      BY <1>1, <3>1, <3>2
  <2> QED
    BY <1>1, <1>3, <1>5, <2>1 DEF TypeOK
<1>7. CountsAreExact'
  BY <1>1, <1>5 DEF CountsAreExact
<1>8. EntriesHaveValues'
  <2>1. \A i \in Index : slots'[i].key \in Key => slots'[i].value \in Value
    BY <1>1, <1>5 DEF EntriesHaveValues
  <2> QED
    BY <1>1, <2>1 DEF EntriesHaveValues
<1>9. ArgIsEntry'
  BY <1>1 DEF ArgIsEntry
<1>10. Split'
  <2>1. \A i \in DOMAIN old : i >= cursor + 1 /\ old[i].key \in Key =>
              \A j \in Index : slots'[j].key # old[i].key
    <3> SUFFICES ASSUME NEW i \in DOMAIN old, i >= cursor + 1, old[i].key \in Key,
                        NEW j \in Index
                 PROVE  slots'[j].key # old[i].key
      OBVIOUS
    <3>1. i >= cursor /\ i # cursor
      BY <1>2, <1>3
    <3>2. slots[j].key # old[i].key
      BY <1>2, <3>1
    <3>3. e.key # old[i].key
      BY <1>1, <1>2, <3>1
    <3> QED
      BY <1>5, <3>2, <3>3
  <2>2. cursor' <= n
    BY <1>1, <1>2, <1>4, <1>3
  <2> QED
    BY <1>1, <1>2, <2>1, <2>2 DEF Split
<1>11. Load'
  <2>1. count' <= cursor'
    BY <1>1, <1>3, <1>5 DEF Load
  <2>2. kind = "fixnum" => \E i \in DOMAIN old :
                             old[i].key \notin Key /\ (i < cursor' => count' < cursor')
    <3> SUFFICES ASSUME kind = "fixnum"
                 PROVE  \E i \in DOMAIN old :
                             old[i].key \notin Key /\ (i < cursor' => count' < cursor')
      OBVIOUS
    <3>1. PICK i \in DOMAIN old : old[i].key \notin Key /\ (i < cursor => count < cursor)
      BY <1>1 DEF Load
    <3>2. i \in Nat /\ count <= cursor
      BY <1>1, <1>2, <1>3 DEF Load
    <3>3. i = cursor => count' = count
      BY <1>5, <3>1
    <3>4. i < cursor' => count' < cursor'
      BY <1>1, <1>3, <1>5, <3>1, <3>2, <3>3
    <3> QED
      BY <3>1, <3>4
  <2> QED
    BY <1>1, <2>1, <2>2 DEF Load
<1>12. Bounded'
  BY <1>1 DEF Bounded
<1> QED
  BY <1>5, <1>6, <1>7, <1>8, <1>9, <1>10, <1>11, <1>12

LEMMA EndGrowthInv == ASSUME Inv, EndGrowth PROVE Inv'
<1> USE DEF Inv
<1>1. /\ phase = "rehash" /\ cursor \notin DOMAIN old /\ phase' = after /\ cursor' = 0
      /\ old' = [i \in {} |-> EmptySlot] /\ DOMAIN old' = {}
      /\ UNCHANGED <<kind, hash, capacity, slots, count, deletions, after, arg, answer, Index>>
  BY DEF EndGrowth, table, Index
<1>2. PICK n \in 1 .. capacity :
         capacity = 2 * n /\ DOMAIN old = 0 .. n - 1 /\ cursor <= n
  BY <1>1 DEF Split
<1>3. capacity \in Nat /\ count \in Nat /\ cursor \in Nat /\ n \in Nat /\ MaxCapacity \in Nat
      /\ kind \in {"general", "fixnum"} /\ after \in {"idle", "put"}
  BY <1>2, CapacityNat DEF TypeOK
<1>4. cursor = n
  BY <1>1, <1>2, <1>3
<1>5. TypeOK'
  <2>1. \E m \in 0 .. MaxCapacity : old' \in [0 .. m - 1 -> Slot] /\ cursor' <= m
    <3>1. old' \in [0 .. 0 - 1 -> Slot]
      BY <1>1
    <3> QED
      BY <1>1, <1>3, <3>1
  <2> QED
    BY <1>1, <1>3, <2>1 DEF TypeOK
<1>6. EntriesFound' /\ CountsAreExact' /\ EntriesHaveValues'
  BY <1>1 DEF EntriesFound, Ends, Distance, Home, CountsAreExact, Taken, EntriesHaveValues
<1>7. ArgIsEntry' /\ Split'
  BY <1>1, <1>3 DEF ArgIsEntry, Split
<1>8. Load'
  <2>1. kind = "fixnum" => count < capacity \div 2 /\ after = "idle"
    <3> SUFFICES ASSUME kind = "fixnum" PROVE count < capacity \div 2 /\ after = "idle"
      OBVIOUS
    <3>1. PICK i \in DOMAIN old : old[i].key \notin Key /\ (i < cursor => count < cursor)
      BY <1>1 DEF Load
    <3>2. i < cursor
      BY <1>2, <1>3, <1>4, <3>1
    <3>3. count < n /\ capacity \div 2 = n
      BY <1>2, <1>3, <1>4, <3>1, <3>2
    <3> QED
      BY <1>1, <1>3, <3>3 DEF Load
  <2>2. count < capacity
    BY <1>1, <1>2, <1>3, <1>4 DEF Load
  <2> QED
    BY <1>1, <1>3, <2>1, <2>2 DEF Load
<1>9. Bounded'
  BY <1>1, <1>3 DEF Bounded, Load
<1> QED
  BY <1>5, <1>6, <1>7, <1>8, <1>9

LEMMA StepInv == Inv /\ [Next]_vars => Inv'
<1> SUFFICES ASSUME Inv, [Next]_vars PROVE Inv'
  OBVIOUS
<1>1. CASE UNCHANGED vars
  <2>1. UNCHANGED <<kind, hash, capacity, slots, count, deletions, after, old, cursor, phase,
                    arg, answer, Index>>
    BY <1>1 DEF vars, table, growth, Index
  <2>2. TypeOK'
    BY <2>1 DEF Inv, TypeOK
  <2>3. EntriesFound' /\ CountsAreExact' /\ EntriesHaveValues'
    BY <2>1 DEF Inv, EntriesFound, Ends, Distance, Home, CountsAreExact, Taken,
                EntriesHaveValues
  <2>4. ArgIsEntry' /\ Split' /\ Load' /\ Bounded'
    BY <2>1 DEF Inv, ArgIsEntry, Split, Load, Bounded
  <2> QED
    BY <2>2, <2>3, <2>4 DEF Inv
<1> QED
  BY <1>1, AtInv, DeleteAtInv, SetAtInv, PutInv, CheckInv, GrowInv, RehashInv, EndGrowthInv
     DEF Next

THEOREM Invariance == Spec => []Inv
  BY InitInv, StepInv, PTL DEF Spec

\* The types of Hashtable.
THEOREM Typing == Spec => []TypeOK
  BY Invariance, PTL DEF Inv

\* After any sequence of insertions, deletions and growth every entry lies where the
\* probe for its key ends, so at and set-at find it, and find no other.
THEOREM EntriesAreFound == Spec => []EntriesFound
  BY Invariance, PTL DEF Inv

\* The count by which a table decides to grow is the number of slots taken, and the
\* fixnum table knows how many of them are deleted.
THEOREM CountsHold == Spec => []CountsAreExact
  BY Invariance, PTL DEF Inv

\* A probe of a fixnum table comes to an empty slot at last, and so does that of
\* hashtable_set_at_unchecked and puthash_internal in any table.
THEOREM NoProbeRunsOn == Spec => []ProbesEnd
<1>1. ASSUME Inv PROVE ProbesEnd
  <2> USE <1>1 DEF Inv
  <2>1. /\ capacity \in Nat /\ count \in Nat /\ cursor \in Nat /\ 2 <= capacity
        /\ kind \in {"general", "fixnum"} /\ phase \in {"idle", "put", "check", "rehash"}
    BY CapacityNat DEF TypeOK
  <2>2. phase = "rehash" => count < capacity
    <3> SUFFICES ASSUME phase = "rehash" PROVE count < capacity
      OBVIOUS
    <3>1. PICK n \in 1 .. capacity : capacity = 2 * n /\ cursor <= n
      BY DEF Split
    <3> QED
      BY <2>1, <3>1 DEF Load
  <2>3. kind = "fixnum" \/ phase \in {"put", "rehash"} => count < capacity
    BY <2>1, <2>2 DEF Load
  <2> QED
    BY <2>3, FreeSlot DEF ProbesEnd
<1> QED
  BY <1>1, Invariance, PTL

\* Where there is an empty slot, a probe ends: at the nearest slot, in its order, that
\* is empty or has the key.
LEMMA ProbeEnds ==
  ASSUME TypeOK, NEW k \in Key, \E i \in Index : slots[i].key = Absent
  PROVE  \E i \in Index : Ends(Home(k), k, i)
<1> DEFINE d(i) == Distance(Home(k), i)
           Stops == {i \in Index : slots[i].key \in {k, Absent}}
           Far == {d(i) : i \in Stops}
<1>1. Home(k) \in Index /\ capacity \in Nat
  BY HomeIsIndex, CapacityNat
<1>2. \A i \in Index : d(i) \in Nat
  BY <1>1, DistanceApart
<1>3. Far \subseteq Nat /\ Far # {}
  BY <1>2
<1>4. PICK x \in Far : \A y \in Far : <<y, x>> \notin OpToRel(<, Nat)
  <2> HIDE DEF Far
  <2> QED
    BY <1>3, NatLessThanWellFounded, WFMin
<1>5. \A y \in Far : ~(y < x)
  BY <1>3, <1>4 DEF OpToRel
<1>6. PICK i \in Stops : x = d(i)
  BY <1>4
<1>7. \A j \in Index : d(j) < d(i) => j \notin Stops
  BY <1>5, <1>6
<1> QED
  BY <1>6, <1>7 DEF Ends

\* So a lookup in a fixnum table, which has no other end, ends; and an entry that is to
\* be stored, or to be entered anew, finds its place.
THEOREM PlaceIsFound ==
  Spec => [](\A k \in Key : kind = "fixnum" \/ phase \in {"put", "rehash"} =>
                              \E i \in Index : Ends(Home(k), k, i))
<1>1. TypeOK /\ ProbesEnd =>
        \A k \in Key : kind = "fixnum" \/ phase \in {"put", "rehash"} =>
                         \E i \in Index : Ends(Home(k), k, i)
  BY ProbeEnds DEF ProbesEnd
<1> QED
  BY <1>1, Typing, NoProbeRunsOn, PTL

----------------------------------------------------------------------------
(***************************************************************************)
(* The table implements a dictionary                                       *)
(***************************************************************************)
\* What a key is mapped to, in terms of a place where it is found.
EntryIsThere ==
  \A k \in Key :
    /\ \A i \in Index : slots[i].key = k => Entry(k) = slots[i].value
    /\ (\A i \in Index : slots[i].key # k) =>
         /\ \A i \in DOMAIN old : i >= cursor /\ old[i].key = k => Entry(k) = old[i].value
         /\ (\A i \in DOMAIN old : i >= cursor => old[i].key # k) => Entry(k) = Absent

LEMMA EntryFound == Inv => EntryIsThere
<1> SUFFICES ASSUME Inv, NEW k \in Key
             PROVE  /\ \A i \in Index : slots[i].key = k => Entry(k) = slots[i].value
                    /\ (\A i \in Index : slots[i].key # k) =>
                         /\ \A i \in DOMAIN old : i >= cursor /\ old[i].key = k =>
                               Entry(k) = old[i].value
                         /\ (\A i \in DOMAIN old : i >= cursor => old[i].key # k) =>
                               Entry(k) = Absent
  BY DEF EntryIsThere
<1>1. ASSUME NEW i \in Index, slots[i].key = k PROVE Entry(k) = slots[i].value
  <2>1. \A j \in Index : slots[j].key = k => j = i
    BY <1>1, OneEntry DEF Inv
  <2>2. (CHOOSE j \in Index : slots[j].key = k) = i
    BY <1>1, <2>1
  <2> QED
    BY <1>1, <2>2 DEF Entry
<1>2. ASSUME \A j \in Index : slots[j].key # k,
             NEW i \in DOMAIN old, i >= cursor, old[i].key = k
      PROVE  Entry(k) = old[i].value
  <2>1. \A j \in DOMAIN old : j >= cursor /\ old[j].key = k => j = i
    BY <1>2 DEF Inv, Split
  <2>2. (CHOOSE j \in DOMAIN old : j >= cursor /\ old[j].key = k) = i
    BY <1>2, <2>1
  <2> QED
    BY <1>2, <2>2 DEF Entry
<1>3. ASSUME \A j \in Index : slots[j].key # k,
             \A i \in DOMAIN old : i >= cursor => old[i].key # k
      PROVE  Entry(k) = Absent
  BY <1>3 DEF Entry
<1> QED
  BY <1>1, <1>2, <1>3

LEMMA EntryFoundNext == Inv' => EntryIsThere'
  BY EntryFound, PTL

\* A step that leaves every key its value does nothing to the dictionary.
LEMMA Stutters ==
  ASSUME \A k \in Key : Entry(k)' = Entry(k), answer' = answer
  PROVE  UNCHANGED <<[k \in Key |-> Entry(k)], answer>>
  OBVIOUS

LEMMA AtRefines == ASSUME Inv, NEW k \in Key, At(k) PROVE D!At(k)
<1>1. phase = "idle" /\ UNCHANGED <<capacity, slots, old, cursor>>
  BY DEF At, table, growth
<1>2. \A c \in Key : Entry(c)' = Entry(c)
  BY <1>1 DEF Entry, Index
<1>3. answer' = Entry(k)
  <2>1. DOMAIN old = {}
    BY <1>1 DEF Inv, Split
  <2>2. CASE Full(k) /\ answer' = Absent
    BY <2>1, <2>2, FullHasNone, EntryFound DEF EntryIsThere
  <2>3. CASE \E i \in Index :
               /\ Ends(Home(k), k, i)
               /\ answer' = IF slots[i].key = k THEN slots[i].value ELSE Absent
    <3>1. PICK i \in Index :
               /\ Ends(Home(k), k, i)
               /\ answer' = IF slots[i].key = k THEN slots[i].value ELSE Absent
      BY <2>3
    <3>2. CASE slots[i].key = k
      BY <3>1, <3>2, EntryFound DEF EntryIsThere
    <3>3. CASE slots[i].key # k
      <4>1. \A j \in Index : slots[j].key # k
        BY <3>1, <3>3, NotThere DEF Inv
      <4> QED
        BY <2>1, <3>1, <3>3, <4>1, EntryFound DEF EntryIsThere
    <3> QED
      BY <3>2, <3>3
  <2> QED
    BY <2>2, <2>3 DEF At
<1> QED
  BY <1>2, <1>3 DEF D!At

LEMMA DeleteAtRefines == ASSUME Inv, Inv', NEW k \in Key, DeleteAt(k) PROVE D!Delete(k)
<1>1. phase = "idle" /\ UNCHANGED <<capacity, old, cursor, answer>> /\ Index' = Index
      /\ DOMAIN old = {}
  BY DEF DeleteAt, growth, Index, Inv, Split
<1>2. (\A c \in Key \ {k} : Entry(c)' = Entry(c)) /\ Entry(k)' = Absent
  <2>1. CASE /\ \A i \in Index : slots[i].key # k
             /\ UNCHANGED slots
    <3>1. \A c \in Key : Entry(c)' = Entry(c)
      BY <1>1, <2>1 DEF Entry
    <3>2. Entry(k) = Absent
      BY <1>1, <2>1, EntryFound DEF EntryIsThere
    <3> QED
      BY <3>1, <3>2
  <2>2. CASE \E i \in Index : slots[i].key = k /\ slots' = [slots EXCEPT ![i] = DeletedSlot]
    <3>1. PICK i \in Index : slots[i].key = k /\ slots' = [slots EXCEPT ![i] = DeletedSlot]
      BY <2>2
    <3>2. /\ slots' [i].key = Deleted /\ Deleted \notin Key
          /\ \A j \in Index \ {i} : slots'[j] = slots[j]
      BY <3>1, MarksApart DEF Inv, TypeOK, DeletedSlot
    <3>3. \A j \in Index \ {i} : slots[j].key # k
      BY <3>1, OneEntry DEF Inv
    <3>4. Entry(k)' = Absent
      BY <1>1, <3>2, <3>3, EntryFoundNext DEF EntryIsThere
    <3>5. ASSUME NEW c \in Key \ {k} PROVE Entry(c)' = Entry(c)
      <4>1. CASE \E j \in Index : slots[j].key = c
        <5>1. PICK j \in Index : slots[j].key = c
          BY <4>1
        <5>2. slots'[j] = slots[j]
          BY <3>1, <3>2, <5>1
        <5> QED
          BY <1>1, <5>1, <5>2, EntryFound, EntryFoundNext DEF EntryIsThere
      <4>2. CASE \A j \in Index : slots[j].key # c
        <5>1. \A j \in Index : slots'[j].key # c
          BY <3>2, <4>2
        <5> QED
          BY <1>1, <4>2, <5>1, EntryFound, EntryFoundNext DEF EntryIsThere
      <4> QED
        BY <4>1, <4>2
    <3> QED
      BY <3>4, <3>5
  <2>3. ASSUME NEW i \in Index, Ends(Home(k), k, i), slots[i].key # k
        PROVE  \A j \in Index : slots[j].key # k
    BY <2>3, NotThere DEF Inv
  <2> QED
    BY <2>1, <2>2, <2>3, FullHasNone DEF DeleteAt
<1> QED
  BY <1>1, <1>2 DEF D!Delete

\* Growth sets the entries aside with their values.
LEMMA GrowthStutters ==
  ASSUME Inv, Inv', phase # "rehash", NEW then, StartGrowth(then), answer' = answer
  PROVE  UNCHANGED <<[k \in Key |-> Entry(k)], answer>>
<1>1. /\ slots \in [Index -> Slot] /\ DOMAIN slots = Index /\ DOMAIN old = {}
      /\ \A i \in Index : i >= 0
  BY DEF Inv, TypeOK, Split, Index
<1>2. /\ old' = slots /\ cursor' = 0
      /\ \A i \in Index' : slots'[i].key \notin Key
  BY MarksApart DEF StartGrowth, Index, EmptySlot
<1>3. ASSUME NEW k \in Key PROVE Entry(k)' = Entry(k)
  <2>1. \A i \in Index' : slots'[i].key # k
    BY <1>2
  <2>2. CASE \E i \in Index : slots[i].key = k
    <3>1. PICK i \in Index : slots[i].key = k
      BY <2>2
    <3>2. Entry(k) = slots[i].value
      BY <3>1, EntryFound DEF EntryIsThere
    <3>3. Entry(k)' = old'[i].value
      BY <1>1, <1>2, <2>1, <3>1, EntryFoundNext DEF EntryIsThere
    <3> QED
      BY <1>2, <3>2, <3>3
  <2>3. CASE \A i \in Index : slots[i].key # k
    <3>1. Entry(k) = Absent
      BY <1>1, <2>3, EntryFound DEF EntryIsThere
    <3>2. Entry(k)' = Absent
      BY <1>1, <1>2, <2>1, <2>3, EntryFoundNext DEF EntryIsThere
    <3> QED
      BY <3>1, <3>2
  <2> QED
    BY <2>2, <2>3
<1> QED
  BY <1>3, Stutters

\* A store gives its key a value, and leaves the others theirs.
LEMMA StoreRefines ==
  ASSUME Inv, Inv', NEW k \in Key, NEW v \in Value, Store(k, v),
         UNCHANGED <<hash, capacity, old>>, cursor' \in {cursor, cursor + 1},
         \A i \in DOMAIN old : i >= cursor /\ ~(i >= cursor') => old[i].key = k
  PROVE  /\ Entry(k)' = v
         /\ \A c \in Key \ {k} : Entry(c)' = Entry(c)
<1>1. PICK i \in Index :
         /\ slots[i].key \in {k, Absent}
         /\ slots'[i] = [key |-> k, value |-> v]
         /\ \A j \in Index \ {i} : slots'[j] = slots[j] /\ slots[j].key # k
  <2> HIDE DEF Store, EntriesFound, Taken, Slot
  <2> QED
    BY Stored DEF Inv, CountsAreExact
<1>2. Index' = Index /\ Absent \notin Key
  BY MarksApart DEF Index
<1>3. Entry(k)' = v
  BY <1>1, <1>2, EntryFoundNext DEF EntryIsThere
<1>4. ASSUME NEW c \in Key \ {k} PROVE Entry(c)' = Entry(c)
  <2>1. CASE \E j \in Index : slots[j].key = c
    <3>1. PICK j \in Index : slots[j].key = c
      BY <2>1
    <3>2. slots'[j] = slots[j]
      BY <1>1, <1>2, <3>1
    <3> QED
      BY <1>2, <3>1, <3>2, EntryFound, EntryFoundNext DEF EntryIsThere
  <2>2. CASE \A j \in Index : slots[j].key # c
    <3>1. \A j \in Index' : slots'[j].key # c
      BY <1>1, <1>2, <2>2
    <3>2. cursor \in Nat /\ \A j \in DOMAIN old : j \in Nat
      BY DEF Inv, TypeOK
    <3>3. \A j \in DOMAIN old : old[j].key = c => (j >= cursor <=> j >= cursor')
      BY <3>2
    <3>4. CASE \E j \in DOMAIN old : j >= cursor /\ old[j].key = c
      <4>1. PICK j \in DOMAIN old : j >= cursor /\ old[j].key = c
        BY <3>4
      <4>2. Entry(c) = old[j].value
        BY <2>2, <4>1, EntryFound DEF EntryIsThere
      <4>3. Entry(c)' = old[j].value
        BY <3>1, <3>3, <4>1, EntryFoundNext DEF EntryIsThere
      <4> QED
        BY <4>2, <4>3
    <3>5. CASE \A j \in DOMAIN old : j >= cursor => old[j].key # c
      <4>1. Entry(c) = Absent
        BY <2>2, <3>5, EntryFound DEF EntryIsThere
      <4>2. Entry(c)' = Absent
        BY <3>1, <3>3, <3>5, EntryFoundNext DEF EntryIsThere
      <4> QED
        BY <4>1, <4>2
    <3> QED
      BY <3>4, <3>5
  <2> QED
    BY <2>1, <2>2
<1> QED
  BY <1>3, <1>4

LEMMA PutRefines == ASSUME Inv, Inv', Put PROVE D!Set(arg.key, arg.value)
<1>1. /\ phase = "put" /\ Store(arg.key, arg.value)
      /\ UNCHANGED <<hash, capacity, old, cursor, answer>>
  BY DEF Put, growth
<1>2. PICK k \in Key, v \in Value : k = arg.key /\ v = arg.value
  BY <1>1 DEF Inv, ArgIsEntry
<1>3. /\ Entry(k)' = v
      /\ \A c \in Key \ {k} : Entry(c)' = Entry(c)
  <2>1. \A i \in DOMAIN old : i >= cursor /\ ~(i >= cursor') => old[i].key = k
    BY <1>1
  <2> QED
    BY <1>1, <1>2, <2>1, StoreRefines
<1> QED
  BY <1>1, <1>2, <1>3 DEF D!Set

\* An entry that goes from the old table to the new one keeps its value.
LEMMA RehashStutters ==
  ASSUME Inv, Inv', Rehash PROVE UNCHANGED <<[k \in Key |-> Entry(k)], answer>>
<1> DEFINE e == old[cursor]
<1>1. /\ phase = "rehash" /\ cursor \in DOMAIN old /\ cursor' = cursor + 1
      /\ UNCHANGED <<hash, capacity, old, answer>> /\ Index' = Index
      /\ cursor \in Nat /\ \A i \in DOMAIN old : i \in Nat
  BY DEF Rehash, Inv, TypeOK, Index
<1>2. CASE e.key \in Key
  <2>1. PICK k \in Key, v \in Value : k = e.key /\ v = e.value
    BY <1>1, <1>2 DEF Inv, EntriesHaveValues
  <2>2. \A i \in DOMAIN old : i >= cursor /\ ~(i >= cursor') => old[i].key = k
    BY <1>1, <2>1
  <2>3. \A i \in Index : slots[i].key # k
    BY <1>1, <2>1 DEF Inv, Split
  <2>4. Entry(k) = v
    BY <1>1, <2>1, <2>3, EntryFound DEF EntryIsThere
  <2>5. /\ Entry(k)' = v
        /\ \A c \in Key \ {k} : Entry(c)' = Entry(c)
    <3>1. Store(k, v)
      BY <2>1 DEF Rehash
    <3> QED
      BY <1>1, <2>2, <3>1, StoreRefines
  <2> QED
    BY <1>1, <2>4, <2>5, Stutters
<1>3. CASE e.key \notin Key
  <2>1. UNCHANGED slots
    BY <1>3 DEF Rehash
  <2>2. ASSUME NEW k \in Key PROVE Entry(k)' = Entry(k)
    <3>1. \A i \in DOMAIN old : old[i].key = k => (i >= cursor <=> i >= cursor')
      BY <1>1, <1>3
    <3>2. CASE \E i \in Index : slots[i].key = k
      BY <1>1, <2>1, <3>2, EntryFound, EntryFoundNext DEF EntryIsThere
    <3>3. CASE /\ \A i \in Index : slots[i].key # k
               /\ \E i \in DOMAIN old : i >= cursor /\ old[i].key = k
      BY <1>1, <2>1, <3>1, <3>3, EntryFound, EntryFoundNext DEF EntryIsThere
    <3>4. CASE /\ \A i \in Index : slots[i].key # k
               /\ \A i \in DOMAIN old : i >= cursor => old[i].key # k
      BY <1>1, <2>1, <3>1, <3>4, EntryFound, EntryFoundNext DEF EntryIsThere
    <3> QED
      BY <3>2, <3>3, <3>4
  <2> QED
    BY <1>1, <2>2, Stutters
<1> QED
  BY <1>2, <1>3

LEMMA EndGrowthStutters ==
  ASSUME Inv, Inv', EndGrowth PROVE UNCHANGED <<[k \in Key |-> Entry(k)], answer>>
<1>1. /\ phase = "rehash" /\ cursor \notin DOMAIN old /\ DOMAIN old' = {}
      /\ UNCHANGED <<capacity, slots, answer>> /\ Index' = Index
  BY DEF EndGrowth, table, Index
<1>2. PICK n \in 1 .. capacity : DOMAIN old = 0 .. n - 1 /\ cursor <= n
  BY <1>1 DEF Inv, Split
<1>3. \A i \in DOMAIN old : ~(i >= cursor)
  <2>1. cursor \in Nat /\ capacity \in Nat
    BY CapacityNat DEF Inv, TypeOK
  <2> QED
    BY <1>1, <1>2, <2>1
<1>4. ASSUME NEW k \in Key PROVE Entry(k)' = Entry(k)
  <2>1. CASE \E i \in Index : slots[i].key = k
    BY <1>1, <2>1, EntryFound, EntryFoundNext DEF EntryIsThere
  <2>2. CASE \A i \in Index : slots[i].key # k
    BY <1>1, <1>3, <2>2, EntryFound, EntryFoundNext DEF EntryIsThere
  <2> QED
    BY <2>1, <2>2
<1> QED
  BY <1>1, <1>4, Stutters

LEMMA StepRefines ==
  ASSUME Inv, Inv', [Next]_vars
  PROVE  [D!Next]_<<[k \in Key |-> Entry(k)], answer>>
<1> DEFINE dict == [k \in Key |-> Entry(k)]
<1>1. ASSUME NEW k \in Key, At(k) PROVE D!Next
  BY <1>1, AtRefines DEF D!Next
<1>2. ASSUME NEW k \in Key, DeleteAt(k) PROVE D!Next
  BY <1>2, DeleteAtRefines DEF D!Next
<1>3. CASE Put
  <2>1. arg.key \in Key /\ arg.value \in Value
    BY <1>3 DEF Put, Inv, ArgIsEntry
  <2> QED
    BY <1>3, <2>1, PutRefines DEF D!Next
<1>4. ASSUME NEW k \in Key, NEW v \in Value, SetAt(k, v)
      PROVE  UNCHANGED <<dict, answer>>
  <2>1. CASE StartGrowth("put")
    BY <1>4, <2>1, GrowthStutters DEF SetAt
  <2>2. CASE UNCHANGED <<table, growth>>
    BY <1>4, <2>2 DEF SetAt, Entry, table, growth, Index
  <2> QED
    BY <1>4, <2>1, <2>2 DEF SetAt
<1>5. CASE Check
  <2>1. CASE StartGrowth("idle")
    BY <1>5, <2>1, GrowthStutters DEF Check
  <2>2. CASE UNCHANGED <<table, growth>>
    BY <1>5, <2>2 DEF Check, Entry, table, growth, Index
  <2> QED
    BY <1>5, <2>1, <2>2 DEF Check
<1>6. CASE Grow
  BY <1>6, GrowthStutters DEF Grow
<1>7. CASE Rehash
  BY <1>7, RehashStutters
<1>8. CASE EndGrowth
  BY <1>8, EndGrowthStutters
<1>9. CASE UNCHANGED vars
  BY <1>9 DEF vars, table, growth, Entry, Index
<1> QED
  BY <1>1, <1>2, <1>3, <1>4, <1>5, <1>6, <1>7, <1>8, <1>9 DEF Next

\* A hashtable, of either kind, with any hash function, is a dictionary to those that
\* use it: a lookup returns what was last stored for the key, whatever collides with
\* it, was deleted before it, or has made the table grow.
THEOREM TablesAreDictionaries == Spec => ActsAsDictionary
<1>1. Init => D!Init
  <2> SUFFICES ASSUME Init PROVE D!Init
    OBVIOUS
  <2>1. \A k \in Key : Entry(k) = Absent
    <3>1. \A i \in Index : slots[i].key = Absent
      BY DEF Init, EmptySlot
    <3>2. Absent \notin Key /\ DOMAIN old = {}
      BY MarksApart DEF Init
    <3> QED
      BY <3>1, <3>2 DEF Entry
  <2> QED
    BY <2>1 DEF D!Init, Init
<1>2. Inv /\ Inv' /\ [Next]_vars => [D!Next]_<<[k \in Key |-> Entry(k)], answer>>
  BY StepRefines
<1> QED
  BY <1>1, <1>2, Invariance, PTL DEF Spec, ActsAsDictionary, D!Spec
=============================================================================
