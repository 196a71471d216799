------------------------------ MODULE Reclaim ------------------------------
(***************************************************************************)
(* What the Feline heap promises to the code above it, whatever the        *)
(* collector does inside: a program makes objects, links them and lets go  *)
(* of them, and the runtime may at any moment take back the cell of an     *)
(* object that cannot be reached - one cell at a time, never another one.  *)
(***************************************************************************)
CONSTANTS Handle,      \* the cells of the handle space
          LeafKind,    \* kinds without references: strings and sbufs
          TracedKind,  \* kinds whose references the collector follows
          OpaqueKind   \* kinds with references and no scanner

VARIABLES object,      \* what each cell of the handle space points to
          roots        \* handles on stacks, in static symbols and explicit roots

Kind == LeafKind \cup TracedKind \cup OpaqueKind
Cell == [kind : Kind \cup {"empty"}, slots : SUBSET Handle]
EmptyCell == [kind |-> "empty", slots |-> {}]

InUse == {h \in Handle : object[h].kind # "empty"}

\* The references the collector follows from an object.
Traced(h) == IF object[h].kind \in TracedKind THEN object[h].slots ELSE {}

\* A set of objects that no followed reference leaves.
Closed(S) == \A h \in S : Traced(h) \cap InUse \subseteq S

\* The least closed set that holds the objects in the roots.
Reachable == {h \in InUse : \A S \in SUBSET InUse :
                              roots \cap InUse \subseteq S /\ Closed(S) => h \in S}

TypeOK == /\ object \in [Handle -> Cell]
          /\ roots \in SUBSET Handle

Init == /\ object = [h \in Handle |-> EmptyCell]
        /\ roots = {}

\* A constructor fills an empty cell and leaves the handle on the stack.
New(h, k) == /\ h \notin InUse
             /\ object' = [object EXCEPT ![h] = [kind |-> k, slots |-> {}]]
             /\ roots' = roots \cup {h}

\* One object is made to refer to another, or no longer does.
Store(h, k) == /\ {h, k} \subseteq roots
               /\ object[h].kind \in TracedKind \cup OpaqueKind
               /\ object' = [object EXCEPT ![h].slots = @ \cup {k}]
               /\ UNCHANGED roots

Erase(h, k) == /\ h \in roots
               /\ k \in object[h].slots
               /\ object' = [object EXCEPT ![h].slots = @ \ {k}]
               /\ UNCHANGED roots

\* A reference is copied to the stack, or dropped from there.
Fetch(h, k) == /\ h \in roots
               /\ k \in object[h].slots
               /\ roots' = roots \cup {k}
               /\ UNCHANGED object

Drop(h) == /\ h \in roots
           /\ roots' = roots \ {h}
           /\ UNCHANGED object

\* The collector takes back the cell of an object that cannot be reached.
Free(h) == /\ h \in InUse \ Reachable
           /\ object' = [object EXCEPT ![h] = EmptyCell]
           /\ UNCHANGED roots

Next == \E h \in Handle :
          \/ \E k \in Kind : New(h, k)
          \/ \E k \in Handle : Store(h, k) \/ Erase(h, k) \/ Fetch(h, k)
          \/ Drop(h) \/ Free(h)

Spec == Init /\ [][Next]_<<object, roots>>
============================================================================
