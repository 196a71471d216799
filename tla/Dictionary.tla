----------------------------- MODULE Dictionary -----------------------------
(***************************************************************************)
(* What a Feline hashtable is to its users: a partial function from keys   *)
(* to values.  Absent stands for "no value", the answer f f of at*.        *)
(***************************************************************************)
CONSTANTS Key, Value, Absent

VARIABLES dict,        \* the value of each key
          answer       \* what the last lookup has returned

TypeOK == /\ dict \in [Key -> Value \cup {Absent}]
          /\ answer \in Value \cup {Absent}

Init == /\ dict = [k \in Key |-> Absent]
        /\ answer = Absent

Set(k, v) == /\ dict' = [dict EXCEPT ![k] = v]
             /\ UNCHANGED answer

Delete(k) == /\ dict' = [dict EXCEPT ![k] = Absent]
             /\ UNCHANGED answer

At(k) == /\ answer' = dict[k]
         /\ UNCHANGED dict

Next == \E k \in Key : \/ \E v \in Value : Set(k, v)
                       \/ Delete(k)
                       \/ At(k)

Spec == Init /\ [][Next]_<<dict, answer>>
=============================================================================
