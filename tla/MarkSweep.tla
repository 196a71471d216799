----------------------------- MODULE MarkSweep -----------------------------
(***************************************************************************)
(* The handle space (handles.asm) and one collection of it (gc2.asm), by a *)
(* collector that has the world to itself: StopTheWorld says when it has.  *)
(*                                                                         *)
(* A handle is the address of a cell that holds the address of an object,  *)
(* or zero.  The program makes, links and forgets objects; the collector   *)
(* colours what it can reach from the roots, with a work list of gray      *)
(* objects, and then goes over the handle space from its first cell to     *)
(* handle_space_free_, releasing the cells of the objects left white.      *)
(***************************************************************************)
EXTENDS Integers, Sequences, FiniteSets

CONSTANTS Limit,       \* handle_space_limit_, in cells
          LeafKind,    \* string, sbuf
          TracedKind,  \* the typecodes with an entry in gc2_dispatch_table_, tuples
          OpaqueKind   \* the other typecodes whose objects hold handles

ASSUME LimitPositive == Limit \in Nat \ {0}
ASSUME KindsApart == /\ "empty" \notin LeafKind \cup TracedKind \cup OpaqueKind
                     /\ LeafKind \cap TracedKind = {}
                     /\ LeafKind \cap OpaqueKind = {}
                     /\ TracedKind \cap OpaqueKind = {}

Handle == 1 .. Limit

VARIABLES object,      \* what each cell points to
          roots,       \* cells of the stacks, static symbols, gc_roots
          nextFree,    \* handle_space_free_
          unused,      \* unused_
          recycled,    \* recycled_handles_vector_
          mark,        \* the mark byte in the header of each object
          workList,    \* gc2_work_list_
          scan,        \* handles still to be passed to gc2_maybe_push_handle
          phase,       \* "mutate", "mark" or "sweep"
          cursor,      \* the next cell that each_handle visits
          orphaned     \* history: an object without a scanner lost what it refers to

heapVars == <<object, roots>>
handleVars == <<nextFree, unused, recycled>>
gcVars == <<mark, workList, scan, phase, cursor>>
vars == <<heapVars, handleVars, gcVars, orphaned>>

R == INSTANCE Reclaim

White == {h \in Handle : mark[h] = "white"}

TypeOK ==
  /\ R!TypeOK
  /\ nextFree \in 1 .. Limit + 1
  /\ unused \in 0 .. Limit
  /\ recycled \in Seq(Handle)
  /\ mark \in [Handle -> {"white", "gray", "black"}]
  /\ workList \in Seq(Handle)
  /\ scan \in SUBSET Handle
  /\ phase \in {"mutate", "mark", "sweep"}
  /\ cursor \in 1 .. Limit + 1
  /\ orphaned \in BOOLEAN

(***************************************************************************)
(* initialize_handle_space makes the vector of recycled handles, a heap    *)
(* object like any other, and releases its handle: the first to recycle.   *)
(***************************************************************************)
Init ==
  /\ R!Init
  /\ nextFree = 2
  /\ unused = Limit - 1
  /\ recycled = <<1>>
  /\ mark = [h \in Handle |-> "white"]
  /\ workList = <<>>
  /\ scan = {}
  /\ phase = "mutate"
  /\ cursor = 1
  /\ orphaned = FALSE

Top(s) == s[Len(s)]
Pop(s) == SubSeq(s, 1, Len(s) - 1)

----------------------------------------------------------------------------
(***************************************************************************)
(* Faulty variants of operations below, with which the properties have     *)
(* been seen to fail.  No specification uses them.                         *)
(***************************************************************************)
\* get_empty_handle reads the last recycled handle and leaves it there.
GetEmptyHandle_Peek(h) ==
  \/ recycled # <<>> /\ h = Top(recycled) /\ UNCHANGED handleVars
  \/ /\ recycled = <<>> /\ unused # 0 /\ nextFree <= Limit /\ h = nextFree
     /\ nextFree' = nextFree + 1
     /\ unused' = unused - 1
     /\ UNCHANGED recycled

\* The stacks are not scanned.
StartMark_NoStacks == /\ phase = "mutate"
                      /\ phase' = "mark"
                      /\ scan' = {}
                      /\ UNCHANGED <<heapVars, handleVars, mark, workList, cursor, orphaned>>

\* gc2_maybe_push_handle looks for black only and pushes gray objects twice.
MaybePush_Twice(h) ==
  IF object[h].kind = "empty" \/ mark[h] = "black"
  THEN UNCHANGED <<mark, workList>>
  ELSE /\ mark' = [mark EXCEPT ![h] = "gray"]
       /\ workList' = Append(workList, h)

\* gc2_maybe_push_handle does not look at the mark.
MaybePush_Again(h) ==
  IF object[h].kind = "empty"
  THEN UNCHANGED <<mark, workList>>
  ELSE /\ mark' = [mark EXCEPT ![h] = "gray"]
       /\ workList' = IF mark[h] = "gray" THEN workList ELSE Append(workList, h)

\* gc2_process_work_list blackens an object and calls no scanner.
ScanObject_NoScanner == /\ phase = "mark"
                        /\ scan = {}
                        /\ workList # <<>>
                        /\ mark' = [mark EXCEPT ![Top(workList)] = "black"]
                        /\ workList' = Pop(workList)
                        /\ UNCHANGED <<heapVars, handleVars, scan, phase, cursor, orphaned>>

\* each_handle starts one cell late.
StartSweep_OffByOne == /\ phase = "mark"
                       /\ scan = {}
                       /\ workList = <<>>
                       /\ phase' = "sweep"
                       /\ cursor' = 2
                       /\ UNCHANGED <<heapVars, handleVars, mark, workList, scan, orphaned>>

----------------------------------------------------------------------------
(***************************************************************************)
(* get_empty_handle: the handle recycled last; a new cell of the handle    *)
(* space only when there is none.  new_handle stores the object there; its *)
(* header starts with a zero mark byte.                                    *)
(***************************************************************************)
GetEmptyHandle(h) ==
  \/ /\ recycled # <<>>
     /\ h = Top(recycled)
     /\ recycled' = Pop(recycled)
     /\ UNCHANGED <<nextFree, unused>>
  \/ /\ recycled = <<>>
     /\ unused # 0
     /\ nextFree <= Limit
     /\ h = nextFree
     /\ nextFree' = nextFree + 1
     /\ unused' = unused - 1
     /\ UNCHANGED recycled

NewHandle(h, k) ==
  /\ phase = "mutate"
  /\ GetEmptyHandle(h)
  /\ object' = [object EXCEPT ![h] = [kind |-> k, slots |-> {}]]
  /\ roots' = roots \cup {h}
  /\ mark' = [mark EXCEPT ![h] = "white"]
  /\ UNCHANGED <<workList, scan, phase, cursor, orphaned>>

(***************************************************************************)
(* The program between two allocations.                                    *)
(***************************************************************************)
Mutate == /\ phase = "mutate"
          /\ \E h \in Handle : \/ \E k \in Handle : \/ R!Store(h, k)
                                                    \/ R!Erase(h, k)
                                                    \/ R!Fetch(h, k)
                               \/ R!Drop(h)
          /\ UNCHANGED <<handleVars, gcVars, orphaned>>

----------------------------------------------------------------------------
\* gc2_collect: the scanners of stacks, static symbols and explicit roots go
\* over the roots before the work list is touched.
StartMark == /\ phase = "mutate"
             /\ phase' = "mark"
             /\ scan' = roots
             /\ UNCHANGED <<heapVars, handleVars, mark, workList, cursor, orphaned>>

(***************************************************************************)
(* gc2_maybe_push_handle: an empty handle and an object already marked are *)
(* left alone, strings and sbufs have nothing to scan and are black at     *)
(* once, any other object turns gray and goes to the work list.            *)
(***************************************************************************)
MaybePush(h) ==
  IF object[h].kind = "empty" \/ mark[h] # "white"
  THEN UNCHANGED <<mark, workList>>
  ELSE IF object[h].kind \in LeafKind
  THEN /\ mark' = [mark EXCEPT ![h] = "black"]
       /\ UNCHANGED workList
  ELSE /\ mark' = [mark EXCEPT ![h] = "gray"]
       /\ workList' = Append(workList, h)

Visit(h) == /\ phase = "mark"
            /\ h \in scan
            /\ MaybePush(h)
            /\ scan' = scan \ {h}
            /\ UNCHANGED <<heapVars, handleVars, phase, cursor, orphaned>>

\* gc2_process_work_list takes the last gray object, blackens it, and has its
\* scanner, if its type has one, visit the references.
ScanObject == /\ phase = "mark"
              /\ scan = {}
              /\ workList # <<>>
              /\ mark' = [mark EXCEPT ![Top(workList)] = "black"]
              /\ scan' = R!Traced(Top(workList))
              /\ workList' = Pop(workList)
              /\ UNCHANGED <<heapVars, handleVars, phase, cursor, orphaned>>

StartSweep == /\ phase = "mark"
              /\ scan = {}
              /\ workList = <<>>
              /\ phase' = "sweep"
              /\ cursor' = 1
              /\ UNCHANGED <<heapVars, handleVars, mark, workList, scan, orphaned>>

(***************************************************************************)
(* each_handle gc2_maybe_collect_handle                                    *)
(***************************************************************************)
Sweeping == phase = "sweep" /\ cursor < nextFree

Advance == cursor' = cursor + 1

SkipEmpty == /\ Sweeping
             /\ object[cursor].kind = "empty"
             /\ Advance
             /\ UNCHANGED <<heapVars, handleVars, mark, workList, scan, phase, orphaned>>

KeepMarked == /\ Sweeping
              /\ object[cursor].kind # "empty"
              /\ mark[cursor] # "white"
              /\ mark' = [mark EXCEPT ![cursor] = "white"]
              /\ Advance
              /\ UNCHANGED <<heapVars, handleVars, workList, scan, phase, orphaned>>

\* destroy_heap_object, release_handle_unsafe
CollectWhite == /\ Sweeping
                /\ object[cursor].kind # "empty"
                /\ mark[cursor] = "white"
                /\ object' = [object EXCEPT ![cursor] = R!EmptyCell]
                /\ recycled' = Append(recycled, cursor)
                /\ Advance
                /\ orphaned' = (orphaned \/ \E h \in R!Reachable :
                                  object[h].kind \in OpaqueKind /\ cursor \in object[h].slots)
                /\ UNCHANGED <<roots, nextFree, unused, mark, workList, scan, phase>>

EndSweep == /\ phase = "sweep"
            /\ cursor = nextFree
            /\ phase' = "mutate"
            /\ cursor' = 1
            /\ UNCHANGED <<heapVars, handleVars, mark, workList, scan, orphaned>>

CollectStep == \/ \E h \in Handle : Visit(h)
               \/ ScanObject \/ StartSweep
               \/ SkipEmpty \/ KeepMarked \/ CollectWhite \/ EndSweep

Next == \/ \E h \in Handle, k \in R!Kind : NewHandle(h, k)
        \/ Mutate
        \/ StartMark
        \/ CollectStep

Spec == Init /\ [][Next]_vars

\* A collection that has begun goes on: gc2_collect waits for nobody here.
FairSpec == Spec /\ WF_vars(CollectStep)

----------------------------------------------------------------------------
(***************************************************************************)
(* Properties                                                              *)
(***************************************************************************)
\* The cells that were handed out and hold no object are exactly those in the
\* vector of recycled handles, each once; the cells never handed out are empty
\* and counted by unused_.  So new_handle never gives away a handle in use, and
\* empty-handles, which decides in maybe_gc, counts them all.
FreeListExact ==
  /\ unused = Limit + 1 - nextFree
  /\ \A h \in Handle : h >= nextFree => object[h].kind = "empty"
  /\ \A i \in 1 .. Len(recycled) :
       /\ recycled[i] < nextFree
       /\ object[recycled[i]].kind = "empty"
       /\ \A j \in 1 .. Len(recycled) : recycled[i] = recycled[j] => i = j
  /\ \A h \in Handle : h < nextFree /\ object[h].kind = "empty"
                         => \E i \in 1 .. Len(recycled) : recycled[i] = h

\* What gc2_assert_white checks in a DEBUG build when a collection begins.
AllWhiteAtStart == phase = "mutate" => \A h \in Handle : mark[h] = "white"

\* The objects on the work list are the gray ones, each once: the error "handle
\* on work list is not gray", marked "shouldn't get here", cannot happen.
WorkListIsGray ==
  phase = "mark" =>
    /\ \A i \in 1 .. Len(workList) :
         /\ mark[workList[i]] = "gray"
         /\ \A j \in 1 .. Len(workList) : workList[i] = workList[j] => i = j
    /\ \A h \in Handle : mark[h] = "gray" => \E i \in 1 .. Len(workList) : workList[i] = h

\* While marking, a black object refers to a white one only while the scanner
\* has still to visit it: what is white in the end cannot be reached.
TriColour ==
  phase = "mark" =>
    \A h \in Handle : mark[h] = "black" =>
      \A k \in R!Traced(h) \cap R!InUse : mark[k] # "white" \/ k \in scan

\* A collection leaves no garbage behind: when the sweep is over the objects
\* left are those that can be reached, cycles or not.
CollectsAllGarbage == phase = "sweep" /\ cursor = nextFree => R!InUse = R!Reachable

\* The collector only ever takes the cells of objects that no chain of scanned
\* references leads to, and the program sees nothing else of it.
ReclaimsOnlyGarbage == R!Spec

\* A handle on a stack, or in an object that can be reached, never names an empty
\* cell - until a collection takes an object to which only an object without a
\* scanner still refers.
NoDanglingHandle ==
  ~orphaned => /\ roots \subseteq R!InUse
               /\ \A h \in R!Reachable : object[h].slots \subseteq R!InUse

\* A collection comes to an end, whatever cycles the objects form.
CollectionEnds == phase # "mutate" ~> phase = "mutate"
============================================================================
