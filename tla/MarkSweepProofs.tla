-------------------------- MODULE MarkSweepProofs --------------------------
(***************************************************************************)
(* Safety of MarkSweep for a handle space of any size and any division of  *)
(* the types into leaf, traced and opaque ones.                            *)
(***************************************************************************)
EXTENDS MarkSweep, TLAPS, SequenceTheorems

LEMMA TopPop == ASSUME NEW S, NEW s \in Seq(S), s # <<>>
                PROVE  /\ Len(s) \in Nat \ {0}
                       /\ Top(s) \in S
                       /\ Pop(s) \in Seq(S)
                       /\ Len(Pop(s)) = Len(s) - 1
                       /\ \A i \in 1 .. Len(s) - 1 : Pop(s)[i] = s[i]
<1>1. Len(s) \in Nat \ {0}
  BY EmptySeq
<1>2. \A i \in 1 .. Len(s) : s[i] \in S
  BY ElementOfSeq
<1>3. ASSUME NEW n \in Nat, n <= Len(s)
      PROVE  /\ SubSeq(s, 1, n) \in Seq(S)
             /\ Len(SubSeq(s, 1, n)) = n
             /\ \A i \in 1 .. n : SubSeq(s, 1, n)[i] = s[i]
  <2>1. SubSeq(s, 1, n) \in Seq(S)
    BY <1>3
  <2>2. Len(SubSeq(s, 1, n)) = n
    BY <1>3
  <2>3. \A i \in 1 .. n : SubSeq(s, 1, n)[i] = s[i]
    BY <1>3
  <2> QED
    BY <2>1, <2>2, <2>3
<1>4. Len(s) - 1 \in Nat /\ Len(s) - 1 <= Len(s)
  BY <1>1
<1>5. /\ Pop(s) \in Seq(S)
      /\ Len(Pop(s)) = Len(s) - 1
      /\ \A i \in 1 .. Len(s) - 1 : Pop(s)[i] = s[i]
  BY <1>3, <1>4 DEF Pop
<1>6. Top(s) \in S
  BY <1>1, <1>2 DEF Top
<1> QED
  BY <1>1, <1>5, <1>6

LEMMA AppendFacts == ASSUME NEW S, NEW s \in Seq(S), NEW x \in S
                     PROVE  /\ Append(s, x) \in Seq(S)
                            /\ Len(Append(s, x)) = Len(s) + 1
                            /\ \A i \in 1 .. Len(s) : Append(s, x)[i] = s[i]
                            /\ Append(s, x)[Len(s) + 1] = x
OBVIOUS

----------------------------------------------------------------------------
(***************************************************************************)
(* Types                                                                   *)
(***************************************************************************)
LEMMA CellFacts == /\ R!EmptyCell \in R!Cell
                   /\ \A k \in R!Kind : [kind |-> k, slots |-> {}] \in R!Cell
                   /\ \A k \in R!Kind : k # "empty"
BY KindsApart DEF R!EmptyCell, R!Cell, R!Kind

LEMMA GetEmptyTypes == ASSUME TypeOK, FreeListExact, NEW h \in Handle, GetEmptyHandle(h)
                       PROVE  /\ nextFree' \in 1 .. Limit + 1
                              /\ unused' \in 0 .. Limit
                              /\ recycled' \in Seq(Handle)
<1> USE LimitPositive DEF TypeOK, GetEmptyHandle
<1>1. CASE recycled # <<>>
  BY <1>1, TopPop
<1>2. CASE recycled = <<>>
  BY <1>2
<1> QED
  BY <1>1, <1>2

LEMMA MaybePushTypes == ASSUME TypeOK, NEW h \in Handle, MaybePush(h)
                        PROVE  /\ mark' \in [Handle -> {"white", "gray", "black"}]
                               /\ workList' \in Seq(Handle)
<1> USE DEF TypeOK, MaybePush
<1>1. CASE object[h].kind = "empty" \/ mark[h] # "white"
  BY <1>1
<1>2. CASE /\ ~(object[h].kind = "empty" \/ mark[h] # "white")
           /\ object[h].kind \in LeafKind
  BY <1>2
<1>3. CASE /\ ~(object[h].kind = "empty" \/ mark[h] # "white")
           /\ object[h].kind \notin LeafKind
  <2>1. Append(workList, h) \in Seq(Handle)
    BY AppendFacts
  <2> QED
    BY <1>3, <2>1
<1> QED
  BY <1>1, <1>2, <1>3

LEMMA TypeStep == ASSUME TypeOK, FreeListExact, [Next]_vars PROVE TypeOK'
<1> USE LimitPositive DEF TypeOK, R!TypeOK, heapVars, handleVars, gcVars
<1>1. CASE UNCHANGED vars
  BY <1>1 DEF vars
<1>2. ASSUME NEW h \in Handle, NEW k \in R!Kind, NewHandle(h, k) PROVE TypeOK'
  BY <1>2, GetEmptyTypes, CellFacts DEF NewHandle
<1>3. CASE Mutate
  <2>1. ASSUME NEW h \in Handle, NEW k \in Handle, R!Store(h, k) PROVE R!TypeOK'
    BY <2>1 DEF R!Store, R!Cell
  <2>2. ASSUME NEW h \in Handle, NEW k \in Handle, R!Erase(h, k) PROVE R!TypeOK'
    BY <2>2 DEF R!Erase, R!Cell
  <2>3. ASSUME NEW h \in Handle, NEW k \in Handle, R!Fetch(h, k) PROVE R!TypeOK'
    BY <2>3 DEF R!Fetch
  <2>4. ASSUME NEW h \in Handle, R!Drop(h) PROVE R!TypeOK'
    BY <2>4 DEF R!Drop
  <2> QED
    BY <1>3, <2>1, <2>2, <2>3, <2>4 DEF Mutate
<1>4. CASE StartMark
  BY <1>4 DEF StartMark
<1>5. ASSUME NEW h \in Handle, Visit(h) PROVE TypeOK'
  BY <1>5, MaybePushTypes DEF Visit
<1>6. CASE ScanObject
  <2>1. R!Traced(Top(workList)) \in SUBSET Handle
    BY <1>6, TopPop DEF ScanObject, R!Traced, R!Cell
  <2> QED
    BY <1>6, <2>1, TopPop DEF ScanObject
<1>7. CASE StartSweep \/ EndSweep
  BY <1>7 DEF StartSweep, EndSweep
<1>8. CASE SkipEmpty \/ KeepMarked
  BY <1>8 DEF SkipEmpty, KeepMarked, Sweeping, Advance
<1>9. CASE CollectWhite
  <2>1. cursor \in Handle /\ cursor' \in 1 .. Limit + 1
    BY <1>9 DEF CollectWhite, Sweeping, Advance, Handle
  <2> QED
    BY <1>9, <2>1, CellFacts, AppendFacts DEF CollectWhite
<1> QED
  BY <1>1, <1>2, <1>3, <1>4, <1>5, <1>6, <1>7, <1>8, <1>9 DEF Next, CollectStep

----------------------------------------------------------------------------
(***************************************************************************)
(* The free list                                                           *)
(***************************************************************************)
\* The program changes what objects refer to, never what they are.
LEMMA MutateKeepsKinds == ASSUME TypeOK, Mutate
                          PROVE  \A h \in Handle : object'[h].kind = object[h].kind
<1> USE DEF TypeOK, R!TypeOK, R!Cell
<1>1. ASSUME NEW h \in Handle, NEW k \in Handle, R!Store(h, k) \/ R!Erase(h, k)
      PROVE  \A g \in Handle : object'[g].kind = object[g].kind
  BY <1>1 DEF R!Store, R!Erase
<1>2. ASSUME NEW h \in Handle, NEW k \in Handle, R!Fetch(h, k) \/ R!Drop(h)
      PROVE  \A g \in Handle : object'[g].kind = object[g].kind
  BY <1>2 DEF R!Fetch, R!Drop
<1> QED
  BY <1>1, <1>2 DEF Mutate

LEMMA HandedOutOnce == ASSUME TypeOK, FreeListExact, NEW h \in Handle, GetEmptyHandle(h)
                       PROVE  h \notin R!InUse
BY LimitPositive, TopPop DEF TypeOK, FreeListExact, GetEmptyHandle, R!InUse, Top

LEMMA FreeListStep == ASSUME TypeOK, FreeListExact, [Next]_vars PROVE FreeListExact'
<1> USE LimitPositive DEF TypeOK, R!TypeOK, FreeListExact, heapVars, handleVars, gcVars
<1>1. CASE UNCHANGED vars
  BY <1>1 DEF vars
<1>2. ASSUME NEW h \in Handle, NEW k \in R!Kind, NewHandle(h, k) PROVE FreeListExact'
  <2>1. /\ object'[h].kind # "empty"
        /\ \A g \in Handle : g # h => object'[g] = object[g]
    BY <1>2, CellFacts DEF NewHandle
  <2>2. CASE recycled # <<>>
    <3>1. /\ recycled' = Pop(recycled) /\ UNCHANGED <<nextFree, unused>>
          /\ h = recycled[Len(recycled)]
      BY <1>2, <2>2 DEF NewHandle, GetEmptyHandle, Top
    <3>2. /\ Len(recycled) \in Nat \ {0}
          /\ Len(recycled') = Len(recycled) - 1
          /\ \A i \in 1 .. Len(recycled) - 1 : recycled'[i] = recycled[i]
      BY <2>2, <3>1, TopPop
    <3>3. \A i \in 1 .. Len(recycled) : recycled[i] \in Handle
      BY ElementOfSeq
    <3>4. \A i \in 1 .. Len(recycled) - 1 : recycled[i] # h
      BY <3>1, <3>2
    <3>5. \A g \in Handle : g < nextFree /\ object'[g].kind = "empty"
                              => \E i \in 1 .. Len(recycled') : recycled'[i] = g
      <4> SUFFICES ASSUME NEW g \in Handle, g < nextFree, object'[g].kind = "empty"
                   PROVE  \E i \in 1 .. Len(recycled') : recycled'[i] = g
        OBVIOUS
      <4>1. g # h /\ object[g].kind = "empty"
        BY <2>1
      <4>2. PICK i \in 1 .. Len(recycled) : recycled[i] = g
        BY <4>1
      <4>3. i \in 1 .. Len(recycled') /\ recycled'[i] = g
        BY <3>1, <3>2, <4>1, <4>2
      <4> QED
        BY <4>3
    <3>6. ASSUME NEW i \in 1 .. Len(recycled')
          PROVE  /\ recycled'[i] < nextFree' /\ object'[recycled'[i]].kind = "empty"
                 /\ \A j \in 1 .. Len(recycled') : recycled'[i] = recycled'[j] => i = j
      <4>1. i \in 1 .. Len(recycled) - 1 /\ i \in 1 .. Len(recycled)
        BY <3>2
      <4>2. recycled'[i] = recycled[i] /\ recycled[i] # h /\ recycled[i] \in Handle
        BY <3>2, <3>3, <3>4, <4>1
      <4>3. recycled'[i] < nextFree' /\ object'[recycled'[i]].kind = "empty"
        BY <2>1, <3>1, <4>1, <4>2
      <4>4. \A j \in 1 .. Len(recycled') : recycled'[i] = recycled'[j] => i = j
        BY <3>2, <4>1
      <4> QED
        BY <4>3, <4>4
    <3>7. /\ unused' = Limit + 1 - nextFree'
          /\ \A g \in Handle : g >= nextFree' => object'[g].kind = "empty"
      <4>1. h < nextFree
        BY <3>1, <3>2
      <4>2. unused' = Limit + 1 - nextFree'
        BY <3>1
      <4>3. \A g \in Handle : g >= nextFree => g # h
        BY <4>1 DEF Handle
      <4>4. nextFree' = nextFree
        BY <3>1
      <4> QED
        BY <2>1, <4>2, <4>3, <4>4
    <3> QED
      BY <3>1, <3>5, <3>6, <3>7
  <2>3. CASE recycled = <<>>
    BY <1>2, <2>1, <2>3 DEF NewHandle, GetEmptyHandle, Handle
  <2> QED
    BY <2>2, <2>3
<1>3. CASE Mutate
  <2>1. \A h \in Handle : object'[h].kind = object[h].kind
    BY <1>3, MutateKeepsKinds
  <2>2. \A i \in 1 .. Len(recycled) : recycled[i] \in Handle
    BY ElementOfSeq
  <2> QED
    BY <1>3, <2>1, <2>2 DEF Mutate
<1>4. CASE StartMark \/ ScanObject \/ StartSweep \/ EndSweep \/ SkipEmpty \/ KeepMarked
  BY <1>4 DEF StartMark, ScanObject, StartSweep, EndSweep, SkipEmpty, KeepMarked
<1>5. ASSUME NEW h \in Handle, Visit(h) PROVE FreeListExact'
  BY <1>5 DEF Visit
<1>6. CASE CollectWhite
  <2>1. /\ cursor \in Handle /\ cursor < nextFree /\ object[cursor].kind # "empty"
        /\ recycled' = Append(recycled, cursor) /\ UNCHANGED <<nextFree, unused>>
    BY <1>6 DEF CollectWhite, Sweeping, Handle
  <2>2. /\ object'[cursor].kind = "empty"
        /\ \A g \in Handle : g # cursor => object'[g] = object[g]
    BY <1>6, <2>1 DEF CollectWhite, R!EmptyCell
  <2>3. /\ Len(recycled') = Len(recycled) + 1
        /\ \A i \in 1 .. Len(recycled) : recycled'[i] = recycled[i]
        /\ recycled'[Len(recycled) + 1] = cursor
        /\ Len(recycled) \in Nat
    BY <2>1, AppendFacts
  <2>4. \A i \in 1 .. Len(recycled) : recycled[i] \in Handle /\ recycled[i] # cursor
    BY <2>1, ElementOfSeq
  <2>5. \A i \in 1 .. Len(recycled') :
          /\ recycled'[i] < nextFree' /\ object'[recycled'[i]].kind = "empty"
          /\ \A j \in 1 .. Len(recycled') : recycled'[i] = recycled'[j] => i = j
    <3>1. ASSUME NEW i \in 1 .. Len(recycled') PROVE i \in 1 .. Len(recycled) \/ i = Len(recycled) + 1
      BY <2>3
    <3>2. ASSUME NEW i \in 1 .. Len(recycled')
          PROVE  recycled'[i] < nextFree' /\ object'[recycled'[i]].kind = "empty"
      <4>1. CASE i \in 1 .. Len(recycled)
        <5>1. recycled'[i] = recycled[i] /\ recycled[i] \in Handle /\ recycled[i] # cursor
          BY <2>3, <2>4, <4>1
        <5>2. recycled[i] < nextFree /\ object[recycled[i]].kind = "empty"
          BY <4>1
        <5> QED
          BY <2>1, <2>2, <5>1, <5>2
      <4>2. CASE i = Len(recycled) + 1
        BY <2>1, <2>2, <2>3, <4>2
      <4> QED
        BY <3>1, <4>1, <4>2
    <3>3. ASSUME NEW i \in 1 .. Len(recycled'), NEW j \in 1 .. Len(recycled'),
                 recycled'[i] = recycled'[j]
          PROVE  i = j
      <4>1. CASE i \in 1 .. Len(recycled) /\ j \in 1 .. Len(recycled)
        BY <2>3, <3>3, <4>1
      <4>2. CASE i = Len(recycled) + 1 /\ j \in 1 .. Len(recycled)
        BY <2>3, <2>4, <3>3, <4>2
      <4>3. CASE i \in 1 .. Len(recycled) /\ j = Len(recycled) + 1
        BY <2>3, <2>4, <3>3, <4>3
      <4> QED
        BY <3>1, <4>1, <4>2, <4>3
    <3> QED
      BY <3>2, <3>3
  <2>6. \A g \in Handle : g < nextFree' /\ object'[g].kind = "empty"
                            => \E i \in 1 .. Len(recycled') : recycled'[i] = g
    BY <2>1, <2>2, <2>3
  <2>7. /\ unused' = Limit + 1 - nextFree'
        /\ \A g \in Handle : g >= nextFree' => object'[g].kind = "empty"
    BY <2>1, <2>2 DEF Handle
  <2> QED
    BY <2>5, <2>6, <2>7
<1> QED
  BY <1>1, <1>2, <1>3, <1>4, <1>5, <1>6 DEF Next, CollectStep

LEMMA FreeListInit == Init => TypeOK /\ FreeListExact
<1>1. Init => TypeOK
  <2> SUFFICES ASSUME Init PROVE TypeOK
    OBVIOUS
  <2>1. R!TypeOK
    BY CellFacts DEF Init, R!Init, R!TypeOK
  <2>2. 1 \in Handle /\ <<1>> \in Seq(Handle)
    BY LimitPositive DEF Handle
  <2>3. <<>> \in Seq(Handle) /\ [h \in Handle |-> "white"] \in [Handle -> {"white", "gray", "black"}]
    OBVIOUS
  <2>4. recycled \in Seq(Handle) /\ workList \in Seq(Handle)
    BY <2>2, <2>3 DEF Init
  <2>5. /\ nextFree \in 1 .. Limit + 1
        /\ unused \in 0 .. Limit
        /\ cursor \in 1 .. Limit + 1
    BY LimitPositive DEF Init
  <2>6. /\ mark \in [Handle -> {"white", "gray", "black"}]
        /\ scan \in SUBSET Handle
        /\ phase \in {"mutate", "mark", "sweep"}
        /\ orphaned \in BOOLEAN
    BY <2>3 DEF Init
  <2> QED
    BY <2>1, <2>4, <2>5, <2>6 DEF TypeOK
<1>2. Init => FreeListExact
  <2> SUFFICES ASSUME Init PROVE FreeListExact
    OBVIOUS
  <2>1. Len(recycled) = 1 /\ recycled[1] = 1
    BY DEF Init
  <2>2. \A h \in Handle : object[h].kind = "empty"
    BY DEF Init, R!Init, R!EmptyCell
  <2>3. 1 \in Handle /\ nextFree = 2 /\ unused = Limit + 1 - nextFree
    BY LimitPositive DEF Init, Handle
  <2>4. \A h \in Handle : h < nextFree => h = 1
    BY <2>3, LimitPositive DEF Handle
  <2> QED
    BY <2>1, <2>2, <2>3, <2>4 DEF FreeListExact
<1> QED
  BY <1>1, <1>2

\* get_empty_handle never gives out a cell that holds an object: the vector of
\* recycled handles and the counters describe the empty cells exactly.
THEOREM FreeList == Spec => [](TypeOK /\ FreeListExact)
BY FreeListInit, TypeStep, FreeListStep, PTL DEF Spec

\* The same for the types alone.
THEOREM Typing == Spec => []TypeOK
BY FreeList, PTL

----------------------------------------------------------------------------
(***************************************************************************)
(* Why a collection takes nothing that can be reached, and all the rest.   *)
(*                                                                         *)
(* While marking: what is gray is on the work list, a black object and a   *)
(* root refer to nothing white that is not waiting for its visit, and only *)
(* what can be reached is coloured.  While sweeping: the survivors are the *)
(* objects the cursor has passed and the marked ones before it; they form  *)
(* a closed set with the roots in it, and no smaller set does.             *)
(***************************************************************************)
EmptyIsWhite == \A h \in Handle : object[h].kind = "empty" => mark[h] = "white"

WorkListAtRest == phase # "mark" => workList = <<>>

RootsAreSeen == phase = "mark" => \A h \in roots \cap R!InUse : mark[h] # "white" \/ h \in scan

Survivors == {h \in R!InUse : h < cursor \/ mark[h] # "white"}

SweepIsExact ==
  phase = "sweep" => /\ cursor <= nextFree
                     /\ \A h \in Handle : h < cursor => mark[h] = "white"
                     /\ roots \cap R!InUse \subseteq Survivors
                     /\ R!Closed(Survivors)

Colours == /\ TypeOK
           /\ FreeListExact
           /\ EmptyIsWhite
           /\ AllWhiteAtStart
           /\ WorkListAtRest
           /\ WorkListIsGray
           /\ TriColour
           /\ RootsAreSeen
           /\ SweepIsExact

----------------------------------------------------------------------------
(***************************************************************************)
(* Each step preserves the colours                                         *)
(***************************************************************************)
LEMMA NewHandleColours == ASSUME Colours, NEW h \in Handle, NEW k \in R!Kind, NewHandle(h, k)
                          PROVE  /\ EmptyIsWhite' /\ AllWhiteAtStart' /\ WorkListAtRest'
                                 /\ WorkListIsGray' /\ TriColour' /\ RootsAreSeen' /\ SweepIsExact'
<1>1. phase = "mutate" /\ phase' = "mutate"
  BY DEF NewHandle
<1>2. mark' = [mark EXCEPT ![h] = "white"] /\ mark \in [Handle -> {"white", "gray", "black"}]
  BY DEF NewHandle, Colours, TypeOK
<1>3. \A g \in Handle : mark[g] = "white"
  BY <1>1 DEF Colours, AllWhiteAtStart
<1>4. \A g \in Handle : mark'[g] = "white"
  BY <1>2, <1>3
<1>5. workList' = <<>>
  BY <1>1 DEF Colours, WorkListAtRest, NewHandle
<1> QED
  BY <1>1, <1>4, <1>5 DEF EmptyIsWhite, AllWhiteAtStart, WorkListAtRest, WorkListIsGray, TriColour,
                    RootsAreSeen, SweepIsExact

LEMMA MutateColours == ASSUME Colours, Mutate
                       PROVE  /\ EmptyIsWhite' /\ AllWhiteAtStart' /\ WorkListAtRest'
                              /\ WorkListIsGray' /\ TriColour' /\ RootsAreSeen' /\ SweepIsExact'
<1>1. phase = "mutate" /\ phase' = "mutate" /\ mark' = mark
  BY DEF Mutate, gcVars
<1>2. \A g \in Handle : mark[g] = "white"
  BY <1>1 DEF Colours, AllWhiteAtStart
<1>3. workList = <<>> /\ workList' = workList
  BY <1>1 DEF Colours, WorkListAtRest, Mutate, gcVars
<1> QED
  BY <1>1, <1>2, <1>3 DEF EmptyIsWhite, AllWhiteAtStart, WorkListAtRest, WorkListIsGray, TriColour,
                    RootsAreSeen, SweepIsExact

LEMMA StartMarkColours == ASSUME Colours, StartMark
                          PROVE  /\ EmptyIsWhite' /\ AllWhiteAtStart' /\ WorkListAtRest'
                                 /\ WorkListIsGray' /\ TriColour' /\ RootsAreSeen' /\ SweepIsExact'
<1>1. /\ phase = "mutate" /\ phase' = "mark" /\ scan' = roots
      /\ UNCHANGED <<heapVars, mark, workList>>
  BY DEF StartMark
<1>2. \A g \in Handle : mark[g] = "white"
  BY <1>1 DEF Colours, AllWhiteAtStart
<1>3. workList = <<>> /\ workList' = workList
  BY <1>1 DEF Colours, WorkListAtRest, Mutate, gcVars
<1> QED
  BY <1>1, <1>2, <1>3 DEF EmptyIsWhite, AllWhiteAtStart, WorkListAtRest, WorkListIsGray, TriColour,
                    RootsAreSeen, SweepIsExact, heapVars

\* gc2_maybe_push_handle: the object is white no more, and if it turned gray it is
\* the new last entry of the work list.
LEMMA MaybePushColours == ASSUME Colours, phase = "mark", NEW h \in Handle, MaybePush(h),
                                 UNCHANGED object
                          PROVE  /\ EmptyIsWhite'
                                 /\ h \in R!InUse => mark'[h] # "white"
                                 /\ \A g \in Handle : g # h => mark'[g] = mark[g]
                                 /\ mark[h] # "white" => mark'[h] = mark[h]
                                 /\ mark'[h] = "black" /\ mark[h] = "white" =>
                                      object[h].kind \in LeafKind
                                 /\ \A i \in 1 .. Len(workList') :
                                      /\ mark'[workList'[i]] = "gray"
                                      /\ \A j \in 1 .. Len(workList') :
                                           workList'[i] = workList'[j] => i = j
                                 /\ \A g \in Handle : mark'[g] = "gray" =>
                                      \E i \in 1 .. Len(workList') : workList'[i] = g
<1> USE DEF Colours, TypeOK, WorkListIsGray, EmptyIsWhite, R!InUse
<1>1. CASE object[h].kind = "empty" \/ mark[h] # "white"
  BY <1>1 DEF MaybePush
<1>2. CASE /\ ~(object[h].kind = "empty" \/ mark[h] # "white")
           /\ object[h].kind \in LeafKind
  <2>1. mark' = [mark EXCEPT ![h] = "black"] /\ workList' = workList
    BY <1>2 DEF MaybePush
  <2>2. \A i \in 1 .. Len(workList) : workList[i] \in Handle /\ workList[i] # h
    BY <1>2, ElementOfSeq
  <2>3. \A g \in Handle : g # h => mark'[g] = mark[g]
    BY <2>1
  <2>4. mark'[h] = "black"
    BY <2>1
  <2> QED
    BY <1>2, <2>1, <2>2, <2>3, <2>4
<1>3. CASE /\ ~(object[h].kind = "empty" \/ mark[h] # "white")
           /\ object[h].kind \notin LeafKind
  <2>1. mark' = [mark EXCEPT ![h] = "gray"] /\ workList' = Append(workList, h)
    BY <1>3 DEF MaybePush
  <2>2. \A i \in 1 .. Len(workList) : workList[i] \in Handle /\ workList[i] # h
    BY <1>3, ElementOfSeq
  <2>3. /\ Len(workList) \in Nat
        /\ Len(workList') = Len(workList) + 1
        /\ \A i \in 1 .. Len(workList) : workList'[i] = workList[i]
        /\ workList'[Len(workList) + 1] = h
    BY <2>1, AppendFacts
  <2>4. mark'[h] = "gray" /\ \A g \in Handle : g # h => mark'[g] = mark[g]
    BY <2>1
  <2>5. ASSUME NEW i \in 1 .. Len(workList') PROVE i \in 1 .. Len(workList) \/ i = Len(workList) + 1
    BY <2>3
  <2>6. ASSUME NEW i \in 1 .. Len(workList') PROVE mark'[workList'[i]] = "gray"
    <3>1. CASE i \in 1 .. Len(workList)
      BY <2>2, <2>3, <2>4, <3>1
    <3>2. CASE i = Len(workList) + 1
      BY <2>3, <2>4, <3>2
    <3> QED
      BY <2>5, <3>1, <3>2
  <2>7. ASSUME NEW i \in 1 .. Len(workList'), NEW j \in 1 .. Len(workList'),
               workList'[i] = workList'[j]
        PROVE  i = j
    <3>1. CASE i \in 1 .. Len(workList) /\ j \in 1 .. Len(workList)
      BY <2>3, <2>7, <3>1
    <3>2. CASE i = Len(workList) + 1 /\ j \in 1 .. Len(workList)
      BY <2>2, <2>3, <2>7, <3>2
    <3>3. CASE i \in 1 .. Len(workList) /\ j = Len(workList) + 1
      BY <2>2, <2>3, <2>7, <3>3
    <3> QED
      BY <2>5, <3>1, <3>2, <3>3
  <2>8. ASSUME NEW g \in Handle, mark'[g] = "gray"
        PROVE  \E i \in 1 .. Len(workList') : workList'[i] = g
    <3>1. CASE g = h
      BY <2>3, <3>1
    <3>2. CASE g # h
      <4>1. PICK i \in 1 .. Len(workList) : workList[i] = g
        BY <2>4, <2>8, <3>2
      <4>2. i \in 1 .. Len(workList') /\ workList'[i] = g
        BY <2>3, <4>1
      <4> QED
        BY <4>2
    <3> QED
      BY <3>1, <3>2
  <2>9. EmptyIsWhite' /\ (h \in R!InUse => mark'[h] # "white")
    BY <1>3, <2>4
  <2> QED
    BY <1>3, <2>4, <2>6, <2>7, <2>8, <2>9
<1> QED
  BY <1>1, <1>2, <1>3

LEMMA VisitColours == ASSUME Colours, NEW h \in Handle, Visit(h)
                      PROVE  /\ EmptyIsWhite' /\ AllWhiteAtStart' /\ WorkListAtRest'
                             /\ WorkListIsGray' /\ TriColour' /\ RootsAreSeen' /\ SweepIsExact'
<1>1. /\ phase = "mark" /\ phase' = "mark" /\ scan' = scan \ {h}
      /\ MaybePush(h) /\ object' = object /\ roots' = roots
  BY DEF Visit, heapVars
<1>2. /\ EmptyIsWhite'
      /\ h \in R!InUse => mark'[h] # "white"
      /\ \A g \in Handle : g # h => mark'[g] = mark[g]
      /\ mark[h] # "white" => mark'[h] = mark[h]
      /\ mark'[h] = "black" /\ mark[h] = "white" => object[h].kind \in LeafKind
  BY <1>1, MaybePushColours
<1>3. WorkListIsGray'
  BY <1>1, MaybePushColours DEF WorkListIsGray
<1>4. R!InUse' = R!InUse /\ \A g \in Handle : R!Traced(g)' = R!Traced(g)
  BY <1>1 DEF R!InUse, R!Traced
<1>5. R!InUse \subseteq Handle
  BY DEF R!InUse
<1>6. \A g \in R!InUse : mark[g] # "white" \/ g \in scan => mark'[g] # "white" \/ g \in scan'
  BY <1>1, <1>2, <1>5
<1>7. RootsAreSeen'
  BY <1>1, <1>4, <1>6 DEF Colours, RootsAreSeen
<1>8. TriColour'
  <2> SUFFICES ASSUME NEW g \in Handle, mark'[g] = "black",
                      NEW k \in R!Traced(g) \cap R!InUse
               PROVE  mark'[k] # "white" \/ k \in scan'
    BY <1>1, <1>4 DEF TriColour
  <2>1. CASE mark[g] = "black"
    BY <1>1, <1>6, <2>1 DEF Colours, TriColour
  <2>2. CASE mark[g] # "black"
    <3>1. g = h /\ mark[h] = "white"
      BY <1>2, <2>2
    <3>2. object[h].kind \in LeafKind
      BY <1>2, <3>1
    <3>3. R!Traced(g) = {}
      BY <3>1, <3>2, KindsApart DEF R!Traced
    <3> QED
      BY <3>3
  <2> QED
    BY <2>1, <2>2
<1> QED
  BY <1>1, <1>2, <1>3, <1>7, <1>8 DEF AllWhiteAtStart, WorkListAtRest, SweepIsExact

LEMMA ScanObjectColours == ASSUME Colours, ScanObject
                           PROVE  /\ EmptyIsWhite' /\ AllWhiteAtStart' /\ WorkListAtRest'
                                  /\ WorkListIsGray' /\ TriColour' /\ RootsAreSeen' /\ SweepIsExact'
<1> DEFINE t == Top(workList)
<1>1. /\ phase = "mark" /\ phase' = "mark" /\ scan = {} /\ scan' = R!Traced(t)
      /\ mark' = [mark EXCEPT ![t] = "black"] /\ workList' = Pop(workList)
      /\ object' = object /\ roots' = roots /\ workList # <<>>
  BY DEF ScanObject, heapVars
<1>2. workList \in Seq(Handle) /\ mark \in [Handle -> {"white", "gray", "black"}]
  BY DEF Colours, TypeOK
<1>3. /\ t \in Handle
      /\ Len(workList) \in Nat \ {0}
      /\ Len(workList') = Len(workList) - 1
      /\ \A i \in 1 .. Len(workList) - 1 : workList'[i] = workList[i]
  BY <1>1, <1>2, TopPop
<1>4. mark'[t] = "black" /\ \A g \in Handle : g # t => mark'[g] = mark[g]
  BY <1>1, <1>2, <1>3
<1>5. t = workList[Len(workList)] /\ mark[t] = "gray"
  BY <1>1, <1>3 DEF Top, Colours, WorkListIsGray
<1>6. \A i \in 1 .. Len(workList) : workList[i] \in Handle
  BY <1>2, ElementOfSeq
<1>7. \A i \in 1 .. Len(workList) - 1 : workList[i] # t
  BY <1>1, <1>3, <1>5 DEF Colours, WorkListIsGray
<1>8. EmptyIsWhite'
  BY <1>1, <1>4, <1>5 DEF Colours, EmptyIsWhite
<1>9. WorkListIsGray'
  <2>1. ASSUME NEW i \in 1 .. Len(workList') PROVE mark'[workList'[i]] = "gray"
    <3>1. i \in 1 .. Len(workList) - 1 /\ i \in 1 .. Len(workList)
      BY <1>3
    <3>2. workList'[i] = workList[i] /\ workList[i] # t /\ workList[i] \in Handle
      BY <1>3, <1>6, <1>7, <3>1
    <3>3. mark[workList[i]] = "gray"
      BY <1>1, <3>1 DEF Colours, WorkListIsGray
    <3> QED
      BY <1>4, <3>2, <3>3
  <2>2. ASSUME NEW i \in 1 .. Len(workList'), NEW j \in 1 .. Len(workList'),
               workList'[i] = workList'[j]
        PROVE  i = j
    <3>1. /\ i \in 1 .. Len(workList) - 1 /\ i \in 1 .. Len(workList)
          /\ j \in 1 .. Len(workList) - 1 /\ j \in 1 .. Len(workList)
      BY <1>3
    <3>2. workList[i] = workList[j]
      BY <1>3, <2>2, <3>1
    <3> QED
      BY <1>1, <3>1, <3>2 DEF Colours, WorkListIsGray
  <2>3. ASSUME NEW g \in Handle, mark'[g] = "gray"
        PROVE  \E i \in 1 .. Len(workList') : workList'[i] = g
    <3>1. g # t /\ mark[g] = "gray"
      BY <1>4, <2>3
    <3>2. PICK i \in 1 .. Len(workList) : workList[i] = g
      BY <1>1, <3>1 DEF Colours, WorkListIsGray
    <3>3. i \in 1 .. Len(workList') /\ workList'[i] = g
      BY <1>3, <1>5, <3>1, <3>2
    <3> QED
      BY <3>3
  <2> QED
    BY <2>1, <2>2, <2>3 DEF WorkListIsGray
<1>10. R!InUse' = R!InUse /\ \A g \in Handle : R!Traced(g)' = R!Traced(g)
  BY <1>1 DEF R!InUse, R!Traced
<1>11. \A g \in R!InUse : mark[g] # "white" => mark'[g] # "white"
  BY <1>4 DEF R!InUse
<1>12. RootsAreSeen'
  BY <1>1, <1>10, <1>11 DEF Colours, RootsAreSeen
<1>13. TriColour'
  <2> SUFFICES ASSUME NEW g \in Handle, mark'[g] = "black",
                      NEW k \in R!Traced(g) \cap R!InUse
               PROVE  mark'[k] # "white" \/ k \in scan'
    BY <1>1, <1>10 DEF TriColour
  <2>1. CASE g = t
    BY <1>1, <2>1
  <2>2. CASE g # t
    <3>1. mark[g] = "black"
      BY <1>4, <2>2
    <3>2. mark[k] # "white"
      BY <1>1, <3>1 DEF Colours, TriColour
    <3> QED
      BY <1>11, <3>2
  <2> QED
    BY <2>1, <2>2
<1> QED
  BY <1>1, <1>8, <1>9, <1>12, <1>13 DEF AllWhiteAtStart, WorkListAtRest, SweepIsExact

LEMMA StartSweepColours == ASSUME Colours, StartSweep
                           PROVE  /\ EmptyIsWhite' /\ AllWhiteAtStart' /\ WorkListAtRest'
                                  /\ WorkListIsGray' /\ TriColour' /\ RootsAreSeen' /\ SweepIsExact'
<1>1. /\ phase = "mark" /\ phase' = "sweep" /\ scan = {} /\ workList = <<>>
      /\ cursor' = 1 /\ mark' = mark /\ workList' = workList
      /\ object' = object /\ roots' = roots /\ nextFree' = nextFree
  BY DEF StartSweep, heapVars, handleVars
<1>2. \A g \in Handle : mark[g] \in {"white", "black"}
  BY <1>1 DEF Colours, TypeOK, WorkListIsGray
<1>3. R!InUse' = R!InUse /\ \A g \in Handle : R!Traced(g)' = R!Traced(g)
  BY <1>1 DEF R!InUse, R!Traced
<1>4. Survivors' = {g \in R!InUse : mark[g] = "black"}
  BY <1>1, <1>2, <1>3 DEF Survivors, Handle, R!InUse
<1>5. roots' \cap R!InUse' \subseteq Survivors'
  BY <1>1, <1>2, <1>3, <1>4 DEF Colours, RootsAreSeen, R!InUse
<1>6. \A g \in Survivors' : R!Traced(g)' \cap R!InUse' \subseteq Survivors'
  <2> SUFFICES ASSUME NEW g \in R!InUse, mark[g] = "black", NEW k \in R!Traced(g) \cap R!InUse
               PROVE  mark[k] = "black"
    BY <1>3, <1>4 DEF R!InUse
  <2>1. g \in Handle /\ k \in Handle
    BY DEF R!InUse
  <2>2. mark[k] # "white"
    BY <1>1, <2>1 DEF Colours, TriColour
  <2> QED
    BY <1>2, <2>1, <2>2
<1>7. R!Closed(Survivors)'
  BY <1>6 DEF R!Closed
<1>8. 1 <= nextFree
  BY DEF Colours, TypeOK
<1>9. SweepIsExact'
  BY <1>1, <1>5, <1>7, <1>8 DEF SweepIsExact, Handle
<1> QED
  BY <1>1, <1>9 DEF Colours, EmptyIsWhite, AllWhiteAtStart, WorkListAtRest, WorkListIsGray,
                    TriColour, RootsAreSeen

\* The cursor passes a cell without an object, or a survivor, which turns white:
\* the same objects survive.
LEMMA PassColours == ASSUME Colours, SkipEmpty \/ KeepMarked
                     PROVE  /\ EmptyIsWhite' /\ AllWhiteAtStart' /\ WorkListAtRest'
                            /\ WorkListIsGray' /\ TriColour' /\ RootsAreSeen' /\ SweepIsExact'
                            /\ Survivors' = Survivors
<1>1. /\ phase = "sweep" /\ phase' = "sweep" /\ cursor < nextFree /\ cursor' = cursor + 1
      /\ object' = object /\ roots' = roots /\ nextFree' = nextFree /\ workList' = workList
      /\ \/ object[cursor].kind = "empty" /\ mark' = mark
         \/ /\ object[cursor].kind # "empty" /\ mark[cursor] # "white"
            /\ mark' = [mark EXCEPT ![cursor] = "white"]
  BY DEF SkipEmpty, KeepMarked, Sweeping, Advance, heapVars, handleVars
<1>2. cursor \in Handle /\ cursor \in Nat /\ nextFree \in Nat
  BY <1>1, LimitPositive DEF Colours, TypeOK, Handle
<1>3. /\ mark'[cursor] = "white"
      /\ \A g \in Handle : g # cursor => mark'[g] = mark[g]
  BY <1>1, <1>2 DEF Colours, TypeOK, EmptyIsWhite
<1>4. R!InUse' = R!InUse /\ \A g \in Handle : R!Traced(g)' = R!Traced(g)
  BY <1>1 DEF R!InUse, R!Traced
<1>5. cursor \in R!InUse => mark[cursor] # "white"
  BY <1>1 DEF R!InUse
<1>6. \A g \in Handle : g < cursor' <=> g < cursor \/ g = cursor
  BY <1>1, <1>2 DEF Handle
<1>7. \A g \in R!InUse : g < cursor' \/ mark'[g] # "white" <=> g < cursor \/ mark[g] # "white"
  BY <1>3, <1>5, <1>6 DEF R!InUse
<1>8. Survivors' = Survivors
  BY <1>4, <1>7 DEF Survivors
<1>9. R!Closed(Survivors)'
  BY <1>1, <1>4, <1>8 DEF R!Closed, Colours, SweepIsExact, Survivors, R!InUse
<1>10. SweepIsExact'
  BY <1>1, <1>2, <1>3, <1>4, <1>6, <1>8, <1>9 DEF Colours, SweepIsExact
<1>11. EmptyIsWhite'
  BY <1>1, <1>3 DEF Colours, EmptyIsWhite
<1> QED
  BY <1>1, <1>8, <1>10, <1>11 DEF Colours, AllWhiteAtStart, WorkListAtRest, WorkListIsGray,
                                  TriColour, RootsAreSeen

\* The object the cursor takes is not a survivor, and the survivors stay.
LEMMA CollectWhiteColours == ASSUME Colours, CollectWhite
                             PROVE  /\ EmptyIsWhite' /\ AllWhiteAtStart' /\ WorkListAtRest'
                                    /\ WorkListIsGray' /\ TriColour' /\ RootsAreSeen'
                                    /\ SweepIsExact'
                                    /\ cursor \in R!InUse \ Survivors
                                    /\ Survivors' = Survivors
                                    /\ R!InUse' = R!InUse \ {cursor}
                                    /\ \A g \in R!InUse' : R!Traced(g)' = R!Traced(g)
<1>1. /\ phase = "sweep" /\ phase' = "sweep" /\ cursor < nextFree /\ cursor' = cursor + 1
      /\ object[cursor].kind # "empty" /\ mark[cursor] = "white"
      /\ object' = [object EXCEPT ![cursor] = R!EmptyCell]
      /\ roots' = roots /\ nextFree' = nextFree /\ workList' = workList /\ mark' = mark
  BY DEF CollectWhite, Sweeping, Advance
<1>2. cursor \in Handle /\ cursor \in Nat /\ nextFree \in Nat
  BY <1>1, LimitPositive DEF Colours, TypeOK, Handle
<1>3. /\ object'[cursor].kind = "empty"
      /\ \A g \in Handle : g # cursor => object'[g] = object[g]
  BY <1>1, <1>2 DEF Colours, TypeOK, R!TypeOK, R!EmptyCell
<1>4. R!InUse' = R!InUse \ {cursor}
  BY <1>3 DEF R!InUse
<1>5. \A g \in R!InUse' : R!Traced(g)' = R!Traced(g)
  BY <1>3, <1>4 DEF R!Traced, R!InUse
<1>6. cursor \in R!InUse \ Survivors
  BY <1>1, <1>2 DEF Survivors, R!InUse
<1>7. \A g \in Handle : g < cursor' <=> g < cursor \/ g = cursor
  BY <1>1, <1>2 DEF Handle
<1>8. Survivors' = Survivors
  BY <1>1, <1>4, <1>6, <1>7 DEF Survivors, R!InUse
<1>9. R!Closed(Survivors)'
  <2>1. \A g \in Survivors : R!Traced(g)' = R!Traced(g)
    BY <1>4, <1>5, <1>6 DEF Survivors
  <2>2. \A g \in Survivors : R!Traced(g) \cap R!InUse \subseteq Survivors
    BY <1>1 DEF Colours, SweepIsExact, R!Closed
  <2>3. \A g \in Survivors : R!Traced(g)' \cap R!InUse' \subseteq Survivors
    BY <1>4, <2>1, <2>2
  <2> QED
    BY <1>8, <2>3 DEF R!Closed
<1>10. roots' \cap R!InUse' \subseteq Survivors'
  BY <1>1, <1>4, <1>8 DEF Colours, SweepIsExact
<1>11. SweepIsExact'
  BY <1>1, <1>2, <1>7, <1>9, <1>10 DEF Colours, SweepIsExact
<1>12. EmptyIsWhite'
  BY <1>1, <1>3 DEF Colours, EmptyIsWhite
<1> QED
  BY <1>1, <1>4, <1>5, <1>6, <1>8, <1>11, <1>12
     DEF Colours, AllWhiteAtStart, WorkListAtRest, WorkListIsGray, TriColour, RootsAreSeen

LEMMA EndSweepColours == ASSUME Colours, EndSweep
                         PROVE  /\ EmptyIsWhite' /\ AllWhiteAtStart' /\ WorkListAtRest'
                                /\ WorkListIsGray' /\ TriColour' /\ RootsAreSeen' /\ SweepIsExact'
<1>1. /\ phase = "sweep" /\ phase' = "mutate" /\ cursor = nextFree
      /\ object' = object /\ mark' = mark /\ workList' = workList
  BY DEF EndSweep, heapVars
<1>2. ASSUME NEW g \in Handle PROVE mark[g] = "white"
  <2>1. CASE g < nextFree
    BY <1>1, <2>1 DEF Colours, SweepIsExact
  <2>2. CASE g >= nextFree
    BY <2>2 DEF Colours, FreeListExact, EmptyIsWhite
  <2> QED
    BY <2>1, <2>2 DEF Colours, TypeOK, Handle
<1> QED
  BY <1>1, <1>2 DEF Colours, EmptyIsWhite, AllWhiteAtStart, WorkListAtRest, WorkListIsGray,
                    TriColour, RootsAreSeen, SweepIsExact

LEMMA ColoursStep == ASSUME Colours, [Next]_vars PROVE Colours'
<1>1. TypeOK' /\ FreeListExact'
  BY TypeStep, FreeListStep DEF Colours
<1>2. CASE UNCHANGED vars
  <2>1. R!InUse' = R!InUse /\ \A g \in Handle : R!Traced(g)' = R!Traced(g)
    BY <1>2 DEF vars, heapVars, R!InUse, R!Traced
  <2>2. Survivors' = Survivors
    BY <1>2, <2>1 DEF vars, gcVars, Survivors
  <2>3. R!Closed(Survivors)' <=> R!Closed(Survivors)
    BY <2>1, <2>2 DEF R!Closed, Survivors, R!InUse
  <2> QED
    BY <1>1, <1>2, <2>1, <2>2, <2>3
       DEF vars, heapVars, handleVars, gcVars, Colours, EmptyIsWhite, AllWhiteAtStart,
           WorkListAtRest, WorkListIsGray, TriColour, RootsAreSeen, SweepIsExact
<1> QED
  BY <1>1, <1>2, NewHandleColours, MutateColours, StartMarkColours, VisitColours,
     ScanObjectColours, StartSweepColours, PassColours, CollectWhiteColours, EndSweepColours
     DEF Next, CollectStep, Colours

----------------------------------------------------------------------------
LEMMA ColoursInit == ASSUME Init, TypeOK, FreeListExact PROVE Colours
<1>1. /\ phase = "mutate" /\ workList = <<>>
      /\ \A g \in Handle : mark[g] = "white"
  BY DEF Init
<1> QED
  BY <1>1 DEF Colours, EmptyIsWhite, AllWhiteAtStart, WorkListAtRest, WorkListIsGray,
              TriColour, RootsAreSeen, SweepIsExact

\* The invariant that the theorems below rest on.
LEMMA ColoursHold == Spec => []Colours
<1>1. Init => TypeOK /\ FreeListExact
  BY FreeListInit
<1> QED
  BY <1>1, ColoursInit, ColoursStep, PTL DEF Spec

\* gc2_assert_white finds nothing: the mark bytes are zero when a collection begins.
THEOREM WhiteAtStart == Spec => []AllWhiteAtStart
BY ColoursHold, PTL DEF Colours

\* gc2_process_work_list never meets a handle that is not gray.
THEOREM WorkListGray == Spec => []WorkListIsGray
BY ColoursHold, PTL DEF Colours

\* No black object refers to a white one that the scanner has passed over.
THEOREM NoBlackToWhite == Spec => []TriColour
BY ColoursHold, PTL DEF Colours

----------------------------------------------------------------------------
(***************************************************************************)
(* The program sees of a collection only that garbage goes                 *)
(***************************************************************************)
\* Whatever can be reached survives, so the cell taken is of the rest.
LEMMA TakenIsGarbage == ASSUME Colours, CollectWhite PROVE R!Free(cursor)
<1>1. phase = "sweep" /\ cursor \in R!InUse \ Survivors
  BY CollectWhiteColours DEF CollectWhite, Sweeping
<1>2. /\ Survivors \in SUBSET R!InUse
      /\ roots \cap R!InUse \subseteq Survivors
      /\ R!Closed(Survivors)
  BY <1>1 DEF Colours, SweepIsExact, Survivors
<1>3. R!Reachable \subseteq Survivors
  BY <1>2 DEF R!Reachable
<1> QED
  BY <1>1, <1>3 DEF CollectWhite, R!Free

LEMMA NextReclaims == ASSUME Colours, [Next]_vars PROVE [R!Next]_<<object, roots>>
<1>1. CASE UNCHANGED vars
  BY <1>1 DEF vars, heapVars
<1>2. ASSUME NEW h \in Handle, NEW k \in R!Kind, NewHandle(h, k) PROVE R!Next
  <2>1. h \notin R!InUse
    BY <1>2, HandedOutOnce DEF NewHandle, Colours
  <2> QED
    BY <1>2, <2>1 DEF NewHandle, R!New, R!Next
<1>3. CASE Mutate
  BY <1>3 DEF Mutate, R!Next
<1>4. CASE StartMark \/ ScanObject \/ StartSweep \/ EndSweep \/ SkipEmpty \/ KeepMarked
  BY <1>4 DEF StartMark, ScanObject, StartSweep, EndSweep, SkipEmpty, KeepMarked, heapVars
<1>5. ASSUME NEW h \in Handle, Visit(h) PROVE UNCHANGED <<object, roots>>
  BY <1>5 DEF Visit, heapVars
<1>6. CASE CollectWhite
  <2>1. cursor \in Handle
    BY <1>6, CollectWhiteColours DEF R!InUse
  <2> QED
    BY <1>6, <2>1, TakenIsGarbage DEF R!Next
<1> QED
  BY <1>1, <1>2, <1>3, <1>4, <1>5, <1>6 DEF Next, CollectStep

\* The handle space with its collector implements the heap of Reclaim: new_handle
\* gives out a cell that holds nothing, and a collection only ever takes the cells
\* of objects that no chain of scanned references from the roots leads to.
THEOREM Reclaims == Spec => ReclaimsOnlyGarbage
<1>1. Init => R!Init
  BY DEF Init
<1> QED
  BY <1>1, ColoursHold, NextReclaims, PTL DEF Spec, R!Spec, ReclaimsOnlyGarbage

----------------------------------------------------------------------------
(***************************************************************************)
(* And all garbage goes                                                    *)
(***************************************************************************)
OnlyReached ==
  /\ phase = "mark" => \A g \in R!InUse : mark[g] # "white" \/ g \in scan => g \in R!Reachable
  /\ phase = "sweep" => Survivors \subseteq R!Reachable

LEMMA ReachableFacts == /\ roots \cap R!InUse \subseteq R!Reachable
                        /\ \A g \in R!Reachable : R!Traced(g) \cap R!InUse \subseteq R!Reachable
                        /\ R!Reachable \subseteq R!InUse
<1>1. ASSUME NEW g \in R!Reachable, NEW k \in R!Traced(g) \cap R!InUse PROVE k \in R!Reachable
  <2> SUFFICES ASSUME NEW S \in SUBSET R!InUse, roots \cap R!InUse \subseteq S, R!Closed(S)
               PROVE  k \in S
    BY DEF R!Reachable
  <2>1. g \in S
    BY DEF R!Reachable
  <2> QED
    BY <2>1 DEF R!Closed
<1> QED
  BY <1>1 DEF R!Reachable

LEMMA SameReachable == ASSUME UNCHANGED <<object, roots>>
                       PROVE  R!InUse' = R!InUse /\ R!Reachable' = R!Reachable
<1>1. R!InUse' = R!InUse
  BY DEF R!InUse
<1>2. \A S : R!Closed(S)' <=> R!Closed(S)
  BY <1>1 DEF R!Closed, R!Traced
<1> QED
  BY <1>1, <1>2 DEF R!Reachable, R!Closed, R!Traced, R!InUse

\* Taking an object that cannot be reached leaves what can be reached as it was.
LEMMA TakenLeavesReached == ASSUME Colours, OnlyReached, CollectWhite
                            PROVE  Survivors \subseteq R!Reachable'
<1>1. /\ phase = "sweep" /\ roots' = roots
      /\ cursor \in R!InUse \ Survivors
      /\ R!InUse' = R!InUse \ {cursor}
      /\ \A g \in R!InUse' : R!Traced(g)' = R!Traced(g)
      /\ Survivors' = Survivors /\ SweepIsExact'
  BY CollectWhiteColours DEF CollectWhite, Sweeping
<1>2. /\ Survivors \subseteq R!InUse
      /\ roots \cap R!InUse \subseteq Survivors
      /\ \A g \in Survivors : R!Traced(g) \cap R!InUse \subseteq Survivors
      /\ Survivors \subseteq R!Reachable
  BY <1>1 DEF Colours, SweepIsExact, OnlyReached, Survivors, R!Closed
<1>3. ASSUME NEW S \in SUBSET R!InUse', roots' \cap R!InUse' \subseteq S,
             \A g \in S : R!Traced(g)' \cap R!InUse' \subseteq S
      PROVE  Survivors \subseteq S
  <2> DEFINE T == S \cap Survivors
  <2>1. T \in SUBSET R!InUse
    BY <1>2
  <2>2. roots \cap R!InUse \subseteq T
    BY <1>1, <1>2, <1>3
  <2>3. ASSUME NEW g \in T, NEW k \in R!Traced(g) \cap R!InUse PROVE k \in T
    <3>1. k \in Survivors
      BY <1>2
    <3>2. k \in R!InUse' /\ g \in R!InUse'
      BY <1>1, <1>2, <3>1
    <3>3. k \in S
      BY <1>1, <1>3, <3>2
    <3> QED
      BY <3>1, <3>3
  <2>4. R!Closed(T)
    BY <2>3 DEF R!Closed
  <2>5. R!Reachable \subseteq T
    BY <2>1, <2>2, <2>4 DEF R!Reachable
  <2> QED
    BY <1>2, <2>5
<1>4. Survivors \subseteq R!InUse'
  BY <1>1, <1>2
<1> QED
  BY <1>3, <1>4 DEF R!Reachable, R!Closed

LEMMA OnlyReachedStep == ASSUME Colours, OnlyReached, [Next]_vars PROVE OnlyReached'
<1>1. CASE UNCHANGED vars
  BY <1>1, SameReachable DEF OnlyReached, vars, heapVars, gcVars, Survivors
<1>2. ASSUME NEW h \in Handle, NEW k \in R!Kind, NewHandle(h, k) PROVE OnlyReached'
  BY <1>2 DEF NewHandle, OnlyReached
<1>3. CASE Mutate \/ EndSweep
  BY <1>3 DEF Mutate, EndSweep, gcVars, OnlyReached
<1>4. CASE StartMark
  <2>1. \A g \in R!InUse : mark[g] = "white"
    BY <1>4 DEF StartMark, Colours, AllWhiteAtStart, R!InUse
  <2> QED
    BY <1>4, <2>1, SameReachable, ReachableFacts DEF StartMark, OnlyReached, heapVars
<1>5. ASSUME NEW h \in Handle, Visit(h) PROVE OnlyReached'
  <2>1. /\ phase = "mark" /\ phase' = "mark" /\ scan' = scan \ {h} /\ h \in scan
        /\ MaybePush(h) /\ UNCHANGED <<object, roots>>
    BY <1>5 DEF Visit, heapVars
  <2>2. \A g \in Handle : g # h => mark'[g] = mark[g]
    BY <2>1, MaybePushColours
  <2> QED
    BY <2>1, <2>2, SameReachable DEF OnlyReached, R!InUse
<1>6. CASE ScanObject
  <2> DEFINE t == Top(workList)
  <2>1. /\ phase = "mark" /\ phase' = "mark" /\ scan' = R!Traced(t) /\ workList # <<>>
        /\ mark' = [mark EXCEPT ![t] = "black"] /\ UNCHANGED <<object, roots>>
    BY <1>6 DEF ScanObject, heapVars
  <2>2. t \in Handle /\ Len(workList) \in Nat \ {0}
    BY <2>1, TopPop DEF Colours, TypeOK
  <2>3. mark[t] = "gray"
    BY <2>1, <2>2 DEF Top, Colours, WorkListIsGray
  <2>4. t \in R!InUse
    BY <2>2, <2>3 DEF Colours, EmptyIsWhite, R!InUse
  <2>5. t \in R!Reachable
    BY <2>1, <2>3, <2>4 DEF OnlyReached
  <2>6. \A g \in Handle : g # t => mark'[g] = mark[g]
    BY <2>1, <2>2 DEF Colours, TypeOK
  <2> QED
    BY <2>1, <2>5, <2>6, SameReachable, ReachableFacts DEF OnlyReached, R!InUse
<1>7. CASE StartSweep
  BY <1>7, SameReachable
     DEF StartSweep, OnlyReached, heapVars, Survivors, R!InUse, Handle
<1>8. CASE SkipEmpty \/ KeepMarked
  <2>1. Survivors' = Survivors
    BY <1>8, PassColours
  <2> QED
    BY <1>8, <2>1, SameReachable DEF SkipEmpty, KeepMarked, Sweeping, heapVars, OnlyReached
<1>9. CASE CollectWhite
  <2>1. Survivors' = Survivors /\ phase' = "sweep"
    BY <1>9, CollectWhiteColours DEF CollectWhite, Sweeping
  <2> QED
    BY <1>9, <2>1, TakenLeavesReached DEF OnlyReached
<1> QED
  BY <1>1, <1>2, <1>3, <1>4, <1>5, <1>6, <1>7, <1>8, <1>9 DEF Next, CollectStep

\* When the sweep is over the objects left are those that can be reached: cycles of
\* objects nobody refers to are gone with the rest.
THEOREM AllGarbage == Spec => []CollectsAllGarbage
<1>1. ASSUME Colours, OnlyReached PROVE CollectsAllGarbage
  <2> SUFFICES ASSUME phase = "sweep", cursor = nextFree PROVE R!InUse = R!Reachable
    BY DEF CollectsAllGarbage
  <2>1. ASSUME NEW g \in R!InUse PROVE g \in Survivors
    <3>1. g \in Handle /\ object[g].kind # "empty"
      BY DEF R!InUse
    <3>2. g \in Int /\ nextFree \in Int
      BY <1>1, <3>1, LimitPositive DEF Colours, TypeOK, Handle
    <3>3. ~(g >= nextFree)
      BY <1>1, <3>1 DEF Colours, FreeListExact
    <3>4. g < nextFree
      BY <3>2, <3>3
    <3> QED
      BY <3>4 DEF Survivors
  <2> QED
    BY <1>1, <2>1, ReachableFacts DEF OnlyReached
<1>2. Init => OnlyReached
  BY DEF Init, OnlyReached
<1> QED
  BY <1>1, <1>2, ColoursHold, OnlyReachedStep, PTL DEF Spec

----------------------------------------------------------------------------
(***************************************************************************)
(* And no handle is left without an object                                 *)
(***************************************************************************)
\* Outside a sweep every object, whether it can be reached or not, refers to cells
\* with objects in them; a sweep keeps that for those that can be reached, and
\* leaves no others.
SlotsInUse ==
  /\ \A h \in R!InUse : object[h].kind \in LeafKind => object[h].slots = {}
  /\ ~orphaned =>
       /\ roots \subseteq R!InUse
       /\ phase # "sweep" => \A h \in R!InUse : object[h].slots \subseteq R!InUse
       /\ phase = "sweep" => \A h \in R!Reachable : object[h].slots \subseteq R!InUse

LEMMA NewSlots == ASSUME Colours, SlotsInUse, NEW h \in Handle, NEW k \in R!Kind, NewHandle(h, k)
                  PROVE  SlotsInUse'
<1>1. /\ phase = "mutate" /\ phase' = "mutate" /\ orphaned' = orphaned
      /\ object' = [object EXCEPT ![h] = [kind |-> k, slots |-> {}]] /\ roots' = roots \cup {h}
  BY DEF NewHandle
<1>2. object'[h].kind = k /\ object'[h].slots = {} /\ \A g \in Handle : g # h => object'[g] = object[g]
  BY <1>1 DEF Colours, TypeOK, R!TypeOK
<1>3. R!InUse' = R!InUse \cup {h}
  BY <1>2, CellFacts DEF R!InUse
<1> QED
  BY <1>1, <1>2, <1>3 DEF SlotsInUse, R!InUse

LEMMA MutateSlots == ASSUME Colours, SlotsInUse, Mutate PROVE SlotsInUse'
<1>1. phase = "mutate" /\ phase' = "mutate" /\ orphaned' = orphaned
  BY DEF Mutate, gcVars
<1>2. R!InUse' = R!InUse
  BY MutateKeepsKinds DEF Colours, R!InUse
<1>3. object \in [Handle -> R!Cell]
  BY DEF Colours, TypeOK, R!TypeOK
<1>4. ASSUME NEW h \in Handle, NEW k \in Handle, R!Store(h, k) PROVE SlotsInUse'
  <2>1. /\ {h, k} \subseteq roots /\ object[h].kind \in TracedKind \cup OpaqueKind
        /\ object' = [object EXCEPT ![h].slots = object[h].slots \cup {k}] /\ roots' = roots
    BY <1>4 DEF R!Store
  <2>2. /\ object'[h].kind = object[h].kind /\ object'[h].slots = object[h].slots \cup {k}
        /\ \A g \in Handle : g # h => object'[g] = object[g]
    BY <1>3, <2>1 DEF R!Cell
  <2>3. object[h].kind \notin LeafKind
    BY <2>1, KindsApart
  <2> QED
    BY <1>1, <1>2, <2>1, <2>2, <2>3 DEF SlotsInUse, R!InUse
<1>5. ASSUME NEW h \in Handle, NEW k \in Handle, R!Erase(h, k) PROVE SlotsInUse'
  <2>1. object' = [object EXCEPT ![h].slots = object[h].slots \ {k}] /\ roots' = roots
    BY <1>5 DEF R!Erase
  <2>2. /\ object'[h].kind = object[h].kind /\ object'[h].slots \subseteq object[h].slots
        /\ \A g \in Handle : g # h => object'[g] = object[g]
    BY <1>3, <2>1 DEF R!Cell
  <2> QED
    BY <1>1, <1>2, <2>1, <2>2 DEF SlotsInUse, R!InUse
<1>6. ASSUME NEW h \in Handle, NEW k \in Handle, R!Fetch(h, k) PROVE SlotsInUse'
  BY <1>1, <1>2, <1>6 DEF R!Fetch, SlotsInUse, R!InUse
<1>7. ASSUME NEW h \in Handle, R!Drop(h) PROVE SlotsInUse'
  BY <1>1, <1>2, <1>7 DEF R!Drop, SlotsInUse, R!InUse
<1> QED
  BY <1>4, <1>5, <1>6, <1>7 DEF Mutate

\* What is taken is neither in a root nor in what can be reached, unless that has no
\* scanner.
LEMMA CollectSlots == ASSUME Colours, SlotsInUse, CollectWhite PROVE SlotsInUse'
<1>1. /\ phase = "sweep" /\ phase' = "sweep" /\ roots' = roots
      /\ object' = [object EXCEPT ![cursor] = R!EmptyCell]
      /\ orphaned' = (orphaned \/ \E h \in R!Reachable :
                        object[h].kind \in OpaqueKind /\ cursor \in object[h].slots)
  BY DEF CollectWhite, Sweeping
<1>2. /\ cursor \in R!InUse \ Survivors /\ cursor \in Handle
      /\ R!InUse' = R!InUse \ {cursor}
      /\ \A g \in R!InUse' : R!Traced(g)' = R!Traced(g)
  BY CollectWhiteColours DEF R!InUse
<1>3. cursor \notin R!Reachable
  BY TakenIsGarbage DEF R!Free
<1>4. object \in [Handle -> R!Cell] /\ R!InUse \subseteq Handle
  BY DEF Colours, TypeOK, R!TypeOK, R!InUse
<1>5. \A g \in R!InUse' : g \in R!InUse /\ object'[g] = object[g]
  BY <1>1, <1>2, <1>4
<1>6. R!Reachable' \subseteq R!Reachable
  <2>1. R!Reachable \in SUBSET R!InUse' /\ roots' \cap R!InUse' \subseteq R!Reachable
    BY <1>1, <1>2, <1>3, ReachableFacts
  <2>2. \A g \in R!Reachable : R!Traced(g)' \cap R!InUse' \subseteq R!Reachable
    BY <1>2, <2>1, ReachableFacts
  <2> QED
    BY <2>1, <2>2 DEF R!Reachable, R!Closed
<1>7. ASSUME ~orphaned' PROVE roots' \subseteq R!InUse'
  <2>1. roots \subseteq R!InUse
    BY <1>1, <1>7 DEF SlotsInUse
  <2>2. roots \cap R!InUse \subseteq R!Reachable
    BY ReachableFacts
  <2> QED
    BY <1>1, <1>2, <1>3, <2>1, <2>2
<1>8. ASSUME ~orphaned', NEW h \in R!Reachable' PROVE object'[h].slots \subseteq R!InUse'
  <2>1. h \in R!Reachable /\ h \in R!InUse /\ h \in R!InUse'
    BY <1>2, <1>3, <1>6, <1>8, ReachableFacts
  <2>2. object'[h] = object[h] /\ object[h].slots \subseteq R!InUse
    BY <1>1, <1>5, <1>8, <2>1 DEF SlotsInUse
  <2>3. object[h].kind \in LeafKind \cup TracedKind \cup OpaqueKind
    BY <1>4, <2>1 DEF R!Cell, R!Kind, R!InUse
  <2>4. cursor \notin object[h].slots
    <3>1. CASE object[h].kind \in LeafKind
      BY <2>1, <3>1 DEF SlotsInUse
    <3>2. CASE object[h].kind \in TracedKind
      <4>1. R!Traced(h) = object[h].slots
        BY <3>2 DEF R!Traced
      <4> QED
        BY <1>2, <1>3, <2>1, <4>1, ReachableFacts
    <3>3. CASE object[h].kind \in OpaqueKind
      BY <1>1, <1>8, <2>1, <3>3
    <3> QED
      BY <2>3, <3>1, <3>2, <3>3
  <2> QED
    BY <1>2, <2>2, <2>4
<1>9. \A h \in R!InUse' : object'[h].kind \in LeafKind => object'[h].slots = {}
  BY <1>5 DEF SlotsInUse
<1> QED
  BY <1>1, <1>7, <1>8, <1>9 DEF SlotsInUse

LEMMA SlotsStep == ASSUME Colours, CollectsAllGarbage, SlotsInUse, [Next]_vars PROVE SlotsInUse'
<1>1. CASE UNCHANGED <<object, roots, phase, orphaned>>
  <2>1. R!InUse' = R!InUse /\ R!Reachable' = R!Reachable
    BY <1>1, SameReachable
  <2> QED
    BY <1>1, <2>1 DEF SlotsInUse
<1>2. CASE StartMark \/ StartSweep
  <2>1. /\ UNCHANGED <<object, roots, orphaned>> /\ phase # "sweep"
        /\ R!InUse' = R!InUse /\ R!Reachable' = R!Reachable
    BY <1>2, SameReachable DEF StartMark, StartSweep, heapVars
  <2> QED
    BY <2>1, ReachableFacts DEF SlotsInUse
<1>3. CASE EndSweep
  <2>1. /\ UNCHANGED <<object, roots, orphaned>> /\ phase = "sweep" /\ phase' = "mutate"
        /\ R!InUse' = R!InUse /\ R!InUse = R!Reachable
    BY <1>3, SameReachable DEF EndSweep, heapVars, CollectsAllGarbage
  <2> QED
    BY <2>1 DEF SlotsInUse
<1>4. CASE UNCHANGED vars \/ ScanObject \/ SkipEmpty \/ KeepMarked \/ \E h \in Handle : Visit(h)
  BY <1>1, <1>4 DEF vars, heapVars, gcVars, ScanObject, SkipEmpty, KeepMarked, Sweeping, Visit
<1> QED
  BY <1>2, <1>3, <1>4, NewSlots, MutateSlots, CollectSlots DEF Next, CollectStep

\* A handle on a stack, or in an object that can be reached, names an object, until
\* a collection takes one to which only an object without a scanner refers.
THEOREM HandlesNameObjects == Spec => []NoDanglingHandle
<1>1. Init => SlotsInUse
  <2>1. Init => roots = {} /\ phase = "mutate" /\ R!InUse = {}
    BY DEF Init, R!Init, R!InUse, R!EmptyCell
  <2> QED
    BY <2>1 DEF SlotsInUse
<1>2. SlotsInUse => NoDanglingHandle
  BY ReachableFacts DEF SlotsInUse, NoDanglingHandle
<1> QED
  BY <1>1, <1>2, ColoursHold, AllGarbage, SlotsStep, PTL DEF Spec
============================================================================
