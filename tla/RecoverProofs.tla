----------------------------- MODULE RecoverProofs -----------------------------
(***************************************************************************)
(* A throw goes to the innermost catch, recover gives its handler the data *)
(* stack it has found and the error, and the dynamic scope is the scopes   *)
(* that run and those that were cut off, for any number of threads and     *)
(* whatever the bounds are.                                                *)
(***************************************************************************)
EXTENDS Recover, SequenceTheorems, FiniteSetTheorems, TLAPS

Fns == {"catch", "recover"}

\* On the catch stack c, above the s entries that a reset has left, are the places
\* of the tries among the first n frames of f, in order, and the i-th try has
\* found the data stack w[i].
Counted(c, s, w) == s + Len(w) = Len(c)
Placed(c, s, f, n, w) ==
    \A i \in 1..Len(w) :
        /\ c[s + i] \in 1..n
        /\ f[c[s + i]].fn \in Fns
        /\ f[c[s + i]].fn = "recover" => f[c[s + i]].saved = w[i]
Ordered(c, s, w) == \A i, j \in 1..Len(w) : i < j => c[s + i] < c[s + j]
Complete(c, s, f, n, w) ==
    \A k \in 1..n : f[k].fn \in Fns => \E i \in 1..Len(w) : c[s + i] = k
Matched(c, s, f, n, w) ==
    /\ Counted(c, s, w) /\ Placed(c, s, f, n, w)
    /\ Ordered(c, s, w) /\ Complete(c, s, f, n, w)

LEMMA FrontIs ==
    ASSUME NEW S, NEW q \in Seq(S)
    PROVE  /\ Front(q) \in Seq(S)
           /\ q # <<>> => /\ Len(q) \in Nat /\ Len(q) >= 1
                          /\ Len(Front(q)) = Len(q) - 1
                          /\ \A i \in 1..Len(q) - 1 : Front(q)[i] = q[i]
<1>1. Len(q) \in Nat /\ \A i \in 1..Len(q) - 1 : q[i] \in S
  OBVIOUS
<1>2. /\ Front(q) \in Seq(S)
      /\ Len(Front(q)) = IF 1 <= Len(q) - 1 THEN (Len(q) - 1) - 1 + 1 ELSE 0
      /\ \A i \in 1..(Len(q) - 1) - 1 + 1 : Front(q)[i] = q[1 + i - 1]
  BY <1>1, SubSeqProperties DEF Front
<1>3. q # <<>> => Len(q) >= 1
  OBVIOUS
<1>4. ASSUME NEW i \in 1..Len(q) - 1 PROVE Front(q)[i] = q[i]
  <2>1. i \in 1..(Len(q) - 1) - 1 + 1 /\ 1 + i - 1 = i
    BY <1>1
  <2> QED
    BY <1>2, <2>1
<1>5. ASSUME q # <<>> PROVE Len(Front(q)) = Len(q) - 1
  <2>1. PICK n \in Nat : Len(q) = n + 1
    <3>1. Len(q) - 1 \in Nat /\ Len(q) = (Len(q) - 1) + 1
      BY <1>1, <1>3, <1>5
    <3> QED
      BY <3>1
  <2>2. (1 <= n => (n - 1) + 1 = n) /\ (~(1 <= n) => n = 0) /\ Len(q) - 1 = n
    BY <2>1
  <2> QED
    BY <1>2, <2>2
<1> HIDE DEF Front
<1> QED
  BY <1>1, <1>2, <1>3, <1>4, <1>5

LEMMA AppendIs ==
    ASSUME NEW S, NEW q \in Seq(S), NEW g \in S
    PROVE  /\ Append(q, g) \in Seq(S) /\ Append(q, g) # <<>>
           /\ Len(q) \in Nat /\ Len(Append(q, g)) = Len(q) + 1
           /\ Append(q, g)[Len(q) + 1] = g
           /\ \A i \in 1..Len(q) : Append(q, g)[i] = q[i]
           /\ q # <<>> => Len(q) >= 1 /\ Append(q, g)[1] = q[1]
<1>1. Append(q, g) \in Seq(S) /\ Len(q) \in Nat /\ Len(Append(q, g)) = Len(q) + 1
  OBVIOUS
<1>2. Append(q, g)[Len(q) + 1] = g /\ \A i \in 1..Len(q) : Append(q, g)[i] = q[i]
  OBVIOUS
<1>3. Append(q, g) # <<>>
  BY <1>1
<1>4. q # <<>> => Len(q) >= 1
  OBVIOUS
<1>5. q # <<>> => 1 \in 1..Len(q)
  BY <1>1, <1>4
<1>6. q # <<>> => Append(q, g)[1] = q[1]
  BY <1>2, <1>5
<1> QED
  BY <1>1, <1>2, <1>3, <1>4, <1>6

LEMMA CutIs ==
    ASSUME NEW S, NEW q \in Seq(S), NEW n \in 1..Len(q)
    PROVE  /\ SubSeq(q, 1, n) \in Seq(S) /\ Len(SubSeq(q, 1, n)) = n
           /\ SubSeq(q, 1, n) # <<>>
           /\ \A i \in 1..n : SubSeq(q, 1, n)[i] = q[i]
<1>1. n \in Nat /\ 1 <= n /\ \A i \in 1..n : q[i] \in S
  OBVIOUS
<1>2. /\ SubSeq(q, 1, n) \in Seq(S)
      /\ Len(SubSeq(q, 1, n)) = IF 1 <= n THEN n - 1 + 1 ELSE 0
      /\ \A i \in 1..n - 1 + 1 : SubSeq(q, 1, n)[i] = q[1 + i - 1]
  BY <1>1, SubSeqProperties
<1>3. n - 1 + 1 = n
  BY <1>1
<1>4. Len(SubSeq(q, 1, n)) = n
  BY <1>1, <1>2, <1>3
<1>5. ASSUME NEW i \in 1..n PROVE SubSeq(q, 1, n)[i] = q[i]
  <2>1. 1 + i - 1 = i
    BY <1>1
  <2> QED
    BY <2>1, <1>2, <1>3
<1> QED
  BY <1>1, <1>2, <1>4, <1>5

LEMMA PlacesCounted ==
    ASSUME NEW S, NEW q \in Seq(S), NEW A, A \subseteq DOMAIN q
    PROVE  Cardinality(A) \in Nat
<1>1. DOMAIN q = 1..Len(q) /\ Len(q) \in Nat
  OBVIOUS
<1>2. IsFiniteSet(1..Len(q))
  BY <1>1, FS_Interval
<1> QED
  BY <1>1, <1>2, FS_Subset, FS_CardinalityType

\* The frames behind those that count are of no account.
LEMMA MatchedBelow ==
    ASSUME NEW c \in Seq(Nat), NEW s \in Nat, NEW f \in Seq(Frame), NEW n \in Nat,
           NEW h \in Seq(Frame), NEW w \in Seq(Seq(Errors)),
           \A k \in 1..n : h[k] = f[k], Matched(c, s, f, n, w)
    PROVE  Matched(c, s, h, n, w)
<1>1. Placed(c, s, h, n, w)
  BY DEF Matched, Placed
<1>2. Complete(c, s, h, n, w)
  BY DEF Matched, Complete
<1> QED
  BY <1>1, <1>2 DEF Matched

\* The last of them is no try.
LEMMA MatchedNoTry ==
    ASSUME NEW c \in Seq(Nat), NEW s \in Nat, NEW f \in Seq(Frame), NEW n \in Nat,
           NEW w \in Seq(Seq(Errors)), f[n + 1].fn \notin Fns
    PROVE  Matched(c, s, f, n, w) <=> Matched(c, s, f, n + 1, w)
<1>1. Placed(c, s, f, n, w) <=> Placed(c, s, f, n + 1, w)
  <2>1. ASSUME NEW x \in 1..n + 1, f[x].fn \in Fns PROVE x \in 1..n
    <3>1. x # n + 1
      BY <2>1
    <3>2. x \in Nat /\ 1 <= x /\ x <= n + 1
      OBVIOUS
    <3> QED
      BY <3>1, <3>2
  <2>2. 1..n \subseteq 1..n + 1
    OBVIOUS
  <2> QED
    BY <2>1, <2>2 DEF Placed
<1>2. Complete(c, s, f, n, w) <=> Complete(c, s, f, n + 1, w)
  <2>1. \A k \in 1..n + 1 : k \in 1..n \/ k = n + 1
    OBVIOUS
  <2>2. 1..n \subseteq 1..n + 1
    OBVIOUS
  <2> QED
    BY <2>1, <2>2 DEF Complete
<1> QED
  BY <1>1, <1>2 DEF Matched

\* A frame that is no try is pushed.
LEMMA MatchedPush ==
    ASSUME NEW c \in Seq(Nat), NEW s \in Nat, NEW f \in Seq(Frame), NEW g \in Frame,
           NEW w \in Seq(Seq(Errors)), g.fn \notin Fns, Matched(c, s, f, Len(f), w)
    PROVE  Matched(c, s, Append(f, g), Len(Append(f, g)), w)
<1> DEFINE F == Append(f, g)
<1>1. F \in Seq(Frame) /\ Len(F) = Len(f) + 1 /\ F[Len(f) + 1] = g
  OBVIOUS
<1>2. \A k \in 1..Len(f) : F[k] = f[k]
  OBVIOUS
<1>3. Len(f) \in Nat
  OBVIOUS
<1> HIDE DEF F
<1>4. Matched(c, s, F, Len(f), w)
  BY <1>1, <1>2, <1>3, MatchedBelow
<1>5. Matched(c, s, F, Len(f) + 1, w)
  BY <1>1, <1>3, <1>4, MatchedNoTry
<1> QED
  BY <1>1, <1>5 DEF F

\* A try is pushed.
LEMMA MatchedTry ==
    ASSUME NEW c \in Seq(Nat), NEW s \in Nat, NEW f \in Seq(Frame), NEW g \in Frame,
           NEW w \in Seq(Seq(Errors)), NEW d \in Seq(Errors),
           g.fn \in Fns, g.fn = "recover" => g.saved = d,
           Matched(c, s, f, Len(f), w)
    PROVE  Matched(Append(c, Len(f) + 1), s, Append(f, g), Len(Append(f, g)), Append(w, d))
<1> DEFINE C == Append(c, Len(f) + 1)
           F == Append(f, g)
           W == Append(w, d)
           n == Len(f)
           m == Len(w)
<1>1. /\ Len(F) = n + 1 /\ F[n + 1] = g
      /\ Len(W) = m + 1 /\ W[m + 1] = d
      /\ n \in Nat /\ m \in Nat /\ Len(c) \in Nat
  OBVIOUS
<1>2. (\A k \in 1..n : F[k] = f[k]) /\ (\A k \in 1..m : W[k] = w[k])
  OBVIOUS
<1>3. Len(C) = Len(c) + 1 /\ C[Len(c) + 1] = n + 1 /\ \A k \in 1..Len(c) : C[k] = c[k]
  OBVIOUS
<1>4. s + m = Len(c)
  BY DEF Matched, Counted
<1>5. C[s + (m + 1)] = n + 1 /\ \A i \in 1..m : C[s + i] = c[s + i]
  BY <1>1, <1>3, <1>4
<1>6. Placed(c, s, f, n, w) /\ Ordered(c, s, w) /\ Complete(c, s, f, n, w)
  BY DEF Matched
<1> HIDE DEF C, F, W, n, m
<1>7. 1..Len(W) = 1..m \cup {m + 1} /\ 1..Len(F) = 1..n \cup {n + 1}
  <2>1. \A x \in Nat : 1..x + 1 = 1..x \cup {x + 1}
    OBVIOUS
  <2> QED
    BY <2>1, <1>1
<1>8. Counted(C, s, W)
  BY <1>1, <1>3, <1>4 DEF Counted
<1>9. Placed(C, s, F, Len(F), W)
  <2>1. ASSUME NEW i \in 1..m
        PROVE  /\ C[s + i] \in 1..n
               /\ F[C[s + i]].fn \in Fns
               /\ F[C[s + i]].fn = "recover" => F[C[s + i]].saved = W[i]
    BY <1>2, <1>5, <1>6 DEF Placed, m
  <2>2. /\ C[s + (m + 1)] \in 1..Len(F)
        /\ F[C[s + (m + 1)]].fn \in Fns
        /\ F[C[s + (m + 1)]].fn = "recover" => F[C[s + (m + 1)]].saved = W[m + 1]
    BY <1>1, <1>5, <1>7
  <2> QED
    BY <2>1, <2>2, <1>7 DEF Placed
<1>10. Ordered(C, s, W)
  <2>1. ASSUME NEW i \in 1..m, NEW j \in 1..m, i < j PROVE C[s + i] < C[s + j]
    BY <2>1, <1>5, <1>6 DEF Ordered, m
  <2>2. ASSUME NEW i \in 1..m PROVE C[s + i] < C[s + (m + 1)]
    <3>1. c[s + i] \in 1..n
      BY <1>6 DEF Placed, m
    <3>2. C[s + i] \in 1..n /\ C[s + (m + 1)] = n + 1
      BY <3>1, <1>5
    <3> QED
      BY <3>2, <1>1
  <2>3. \A i \in 1..Len(W) : i = m + 1 => \A j \in 1..Len(W) : ~(i < j)
    BY <1>1
  <2> QED
    BY <2>1, <2>2, <2>3, <1>7 DEF Ordered
<1>11. Complete(C, s, F, Len(F), W)
  <2>1. ASSUME NEW k \in 1..n, F[k].fn \in Fns PROVE \E i \in 1..Len(W) : C[s + i] = k
    <3>1. f[k].fn \in Fns
      BY <2>1, <1>2
    <3>2. PICK i \in 1..m : c[s + i] = k
      BY <3>1, <1>6 DEF Complete, m
    <3> QED
      BY <3>2, <1>5, <1>7
  <2>2. \E i \in 1..Len(W) : C[s + i] = n + 1
    BY <1>5, <1>7
  <2> QED
    BY <2>1, <2>2, <1>7 DEF Complete
<1> QED
  BY <1>8, <1>9, <1>10, <1>11 DEF Matched, C, F, W, n

\* If there is a try, the last entry of the catch stack is the innermost.
LEMMA MatchedLast ==
    ASSUME NEW c \in Seq(Nat), NEW s \in Nat, NEW f \in Seq(Frame), NEW n \in Nat,
           NEW w \in Seq(Seq(Errors)), NEW k \in 1..n, f[k].fn \in Fns,
           Matched(c, s, f, n, w)
    PROVE  /\ w # <<>> /\ c # <<>> /\ s < Len(c)
           /\ c[Len(c)] \in 1..n /\ k <= c[Len(c)]
           /\ f[c[Len(c)]].fn = "recover" => f[c[Len(c)]].saved = w[Len(w)]
<1>1. PICK i \in 1..Len(w) : c[s + i] = k
  BY DEF Matched, Complete
<1>2. Len(w) \in Nat /\ Len(w) \in 1..Len(w) /\ Len(c) \in Nat
  OBVIOUS
<1>3. s + Len(w) = Len(c)
  BY DEF Matched, Counted
<1>4. i < Len(w) => c[s + i] < c[s + Len(w)]
  BY <1>2 DEF Matched, Ordered
<1>5. /\ c[s + Len(w)] \in 1..n
      /\ f[c[s + Len(w)]].fn = "recover" => f[c[s + Len(w)]].saved = w[Len(w)]
  BY <1>2 DEF Matched, Placed
<1>6. k <= c[s + Len(w)]
  <2> DEFINE x == c[s + Len(w)]
  <2>1. x \in Nat /\ k \in Nat
    BY <1>5
  <2>2. k = x \/ k < x
    <3>1. i = Len(w) \/ i < Len(w)
      BY <1>2
    <3> QED
      BY <3>1, <1>1, <1>4
  <2> HIDE DEF x
  <2>3. k <= x
    BY <2>1, <2>2
  <2> QED
    BY <2>3 DEF x
<1>7. w # <<>> /\ c # <<>> /\ s < Len(c)
  BY <1>2, <1>3
<1> QED
  BY <1>3, <1>5, <1>6, <1>7

\* Its entry is taken away, and with it the frames from its own on.
LEMMA MatchedPop ==
    ASSUME NEW c \in Seq(Nat), NEW s \in Nat, NEW f \in Seq(Frame), NEW n \in Nat,
           NEW w \in Seq(Seq(Errors)), w # <<>>, Matched(c, s, f, n, w)
    PROVE  Matched(Front(c), s, f, c[Len(c)] - 1, Front(w))
<1> DEFINE C == Front(c)
           W == Front(w)
           at == c[Len(c)]
           m == Len(w)
<1>1. m \in Nat /\ m >= 1 /\ Len(c) \in Nat
  OBVIOUS
<1>2. s + m = Len(c)
  BY DEF Matched, Counted
<1>3. Len(W) = m - 1 /\ \A i \in 1..m - 1 : W[i] = w[i]
  BY FrontIs
<1>4. Len(C) = Len(c) - 1 /\ \A i \in 1..Len(c) - 1 : C[i] = c[i]
  <2>1. c # <<>>
    BY <1>1, <1>2
  <2> QED
    BY <2>1, FrontIs
<1>5. ASSUME NEW i \in 1..m - 1 PROVE C[s + i] = c[s + i]
  <2>1. s + i \in 1..Len(c) - 1
    BY <1>1, <1>2
  <2> QED
    BY <2>1, <1>4
<1>6. Placed(c, s, f, n, w) /\ Ordered(c, s, w) /\ Complete(c, s, f, n, w)
  BY DEF Matched
<1> HIDE DEF C, W, m
<1>7. m \in 1..m /\ \A i \in 1..m - 1 : i \in 1..m /\ i < m
  BY <1>1
<1>8. at = c[s + m] /\ at \in 1..n
  BY <1>2, <1>6, <1>7 DEF Placed, m
<1> HIDE DEF at
<1>9. Counted(C, s, W)
  BY <1>1, <1>2, <1>3, <1>4 DEF Counted
<1>10. Placed(C, s, f, at - 1, W)
  <2>1. ASSUME NEW i \in 1..m - 1
        PROVE  /\ C[s + i] \in 1..at - 1
               /\ f[C[s + i]].fn \in Fns
               /\ f[C[s + i]].fn = "recover" => f[C[s + i]].saved = W[i]
    <3>1. C[s + i] = c[s + i] /\ W[i] = w[i] /\ i \in 1..m /\ i < m
      BY <1>3, <1>5, <1>7
    <3>2. /\ c[s + i] \in 1..n
          /\ f[c[s + i]].fn \in Fns
          /\ f[c[s + i]].fn = "recover" => f[c[s + i]].saved = w[i]
      BY <3>1, <1>6 DEF Placed, m
    <3>3. c[s + i] < at
      BY <3>1, <1>6, <1>7, <1>8 DEF Ordered, m
    <3>4. c[s + i] \in 1..at - 1
      <4>1. \A x \in 1..n : x < at => x \in 1..at - 1
        BY <1>8
      <4> QED
        BY <3>2, <3>3, <4>1
    <3> QED
      BY <3>1, <3>2, <3>4
  <2> QED
    BY <2>1, <1>3 DEF Placed
<1>11. Ordered(C, s, W)
  <2>1. ASSUME NEW i \in 1..m - 1, NEW j \in 1..m - 1, i < j PROVE C[s + i] < C[s + j]
    <3>1. c[s + i] < c[s + j]
      BY <2>1, <1>6, <1>7 DEF Ordered, m
    <3> QED
      BY <3>1, <1>5
  <2> QED
    BY <2>1, <1>3 DEF Ordered
<1>12. Complete(C, s, f, at - 1, W)
  <2>1. ASSUME NEW k \in 1..at - 1, f[k].fn \in Fns PROVE \E i \in 1..m - 1 : C[s + i] = k
    <3>1. k \in 1..n /\ k < at
      BY <1>8
    <3>2. PICK i \in 1..m : c[s + i] = k
      BY <2>1, <3>1, <1>6 DEF Complete, m
    <3>3. i # m
      BY <3>1, <3>2, <1>8
    <3>4. i \in 1..m - 1
      BY <3>3, <1>1
    <3> QED
      BY <3>2, <3>4, <1>5
  <2> QED
    BY <2>1, <1>3 DEF Complete
<1> QED
  BY <1>9, <1>10, <1>11, <1>12 DEF Matched, C, W, at

----------------------------------------------------------------------------
(* The invariant.                                                          *)

Types ==
    /\ TypeOK
    /\ want \in [Threads -> {<<>>} \cup (Seq(Errors) \X Errors)]
    /\ \A t \in Threads : pc[t] = "push" => seen[t] < plan.scopes

\* The frames of which the catch stack knows: after a throw all but the top, which
\* is that of the try that has failed.
Known(t) == IF pc[t] \in {"caught", "stored"} THEN Len(rs[t]) - 1 ELSE Len(rs[t])

Tries(t) ==
    Alive(t) => /\ rs[t] # <<>> /\ rs[t][1].fn = "base"
                /\ pc[t] \in {"push", "set", "pop"} => Scoped(Top(t))
                /\ Matched(catchstack[t], stale[t], rs[t], Known(t), tries[t])

\* Between the throw and the handler.
Promise(t) ==
    /\ pc[t] \in {"caught", "stored"} => Top(t).fn \in Fns
    /\ pc[t] = "caught" =>
         /\ ds[t] # <<>> /\ want[t] # <<>> /\ Last(ds[t]) = want[t][2]
         /\ Top(t).fn = "recover" => Top(t).saved = want[t][1]
    /\ pc[t] = "stored" =>
         /\ error_object \in Errors
         /\ Top(t).saved = want[t][1]
         /\ t \notin crossed => error_object = want[t][2]

Inv == Types /\ \A t \in Threads : Tries(t) /\ Promise(t)

LEMMA InitInv == Init => Inv
<1> SUFFICES ASSUME Init PROVE Inv
  OBVIOUS
<1> USE DEF Init
<1>1. Base \in Frame /\ <<Base>> \in Seq(Frame)
  BY DEF Base, Run, Frame
<1>2. Types
  <2>1. plan \in Plans /\ plan.scopes \in Nat /\ plan.scopes >= 1
    BY PlansAssumption
  <2>2. length \in 0..plan.scopes /\ seen \in [Threads -> 0..plan.scopes]
    BY <2>1
  <2>3. data \in [1..plan.scopes -> (Threads \X Nat) \cup {None}]
    BY <2>1, PrimordialAssumption
  <2>4. /\ rs \in [Threads -> Seq(Frame)] /\ ds \in [Threads -> Seq(Errors)]
        /\ catchstack \in [Threads -> Seq(Nat)] /\ stale \in [Threads -> Nat]
        /\ tries \in [Threads -> Seq(Seq(Errors))]
    BY <1>1
  <2> QED
    BY <2>1, <2>2, <2>3, <2>4 DEF Types, TypeOK
<1>3. ASSUME NEW t \in Threads PROVE Tries(t) /\ Promise(t)
  <2>1. rs[t] = <<Base>> /\ catchstack[t] = <<>> /\ stale[t] = 0 /\ tries[t] = <<>>
        /\ pc[t] = "run"
    BY <1>3
  <2>2. Len(rs[t]) = 1 /\ rs[t][1].fn = "base" /\ rs[t] # <<>>
    BY <2>1 DEF Base, Run
  <2>3. Matched(catchstack[t], stale[t], rs[t], 1, tries[t])
    BY <2>1, <2>2 DEF Matched, Counted, Placed, Ordered, Complete, Fns
  <2> QED
    BY <2>1, <2>2, <2>3 DEF Tries, Promise, Known
<1> QED
  BY <1>2, <1>3 DEF Inv

\* What a step of thread t leaves to the others.
Others(t) ==
    \A u \in Threads \ {t} :
        /\ pc'[u] = pc[u] /\ rs'[u] = rs[u] /\ ds'[u] = ds[u]
        /\ catchstack'[u] = catchstack[u] /\ stale'[u] = stale[u]
        /\ tries'[u] = tries[u] /\ want'[u] = want[u]
        /\ error_object' = error_object \/ error_object' \in Errors
        /\ pc[u] = "stored" /\ u \notin crossed'
             => u \notin crossed /\ error_object' = error_object

LEMMA Alone ==
    ASSUME Inv, NEW t \in Threads, Types', Others(t), Tries(t)', Promise(t)'
    PROVE  Inv'
<1>1. ASSUME NEW u \in Threads \ {t} PROVE Tries(u)' /\ Promise(u)'
  <2>1. Tries(u) /\ Promise(u)
    BY DEF Inv
  <2>2. /\ pc'[u] = pc[u] /\ rs'[u] = rs[u] /\ ds'[u] = ds[u]
        /\ catchstack'[u] = catchstack[u] /\ stale'[u] = stale[u]
        /\ tries'[u] = tries[u] /\ want'[u] = want[u]
    BY DEF Others
  <2>3. Tries(u)'
    BY <2>1, <2>2 DEF Tries, Known, Alive, Top, Scoped
  <2>4. Promise(u)'
    BY <2>1, <2>2 DEF Promise, Others, Top
  <2> QED
    BY <2>3, <2>4
<1> QED
  BY <1>1 DEF Inv

\* A step of user code that leaves the tries alone.
LEMMA NoTryStep ==
    ASSUME Inv, NEW t \in Threads, Types', Others(t),
           Alive(t), pc[t] \notin {"caught", "stored"},
           pc'[t] \in {"run", "push", "set", "pop"},
           pc'[t] # "run" => Scoped(Top(t))',
           catchstack'[t] = catchstack[t], stale'[t] = stale[t], tries'[t] = tries[t],
           \/ rs'[t] = rs[t]
           \/ \E g \in Frame : g.fn \notin Fns /\ rs'[t] = Append(rs[t], g)
           \/ Top(t).fn \notin Fns \cup {"base"} /\ rs'[t] = Front(rs[t])
    PROVE  Inv'
<1>1. /\ rs[t] \in Seq(Frame) /\ catchstack[t] \in Seq(Nat) /\ stale[t] \in Nat
      /\ tries[t] \in Seq(Seq(Errors)) /\ rs'[t] \in Seq(Frame)
  BY DEF Inv, Types, TypeOK
<1>2. /\ rs[t] # <<>> /\ rs[t][1].fn = "base"
      /\ Matched(catchstack[t], stale[t], rs[t], Len(rs[t]), tries[t])
  BY DEF Inv, Tries, Known
<1>3. Promise(t)'
  <2>1. pc'[t] \notin {"caught", "stored"}
    OBVIOUS
  <2> QED
    BY <2>1 DEF Promise
<1> DEFINE Kept == /\ rs'[t] # <<>> /\ rs'[t][1].fn = "base"
                   /\ Matched(catchstack[t], stale[t], rs'[t], Len(rs'[t]), tries[t])
<1>4. Kept
  <2>1. CASE rs'[t] = rs[t]
    BY <2>1, <1>2
  <2>2. ASSUME NEW g \in Frame, g.fn \notin Fns, rs'[t] = Append(rs[t], g) PROVE Kept
    <3>1. Append(rs[t], g) # <<>> /\ Append(rs[t], g)[1] = rs[t][1]
      <4> DEFINE q == rs[t]
      <4>1. q \in Seq(Frame) /\ q # <<>>
        BY <1>1, <1>2
      <4> HIDE DEF q
      <4>2. Append(q, g) # <<>> /\ Append(q, g)[1] = q[1]
        BY <4>1, AppendIs
      <4> QED
        BY <4>2 DEF q
    <3>2. Matched(catchstack[t], stale[t], Append(rs[t], g), Len(Append(rs[t], g)), tries[t])
      BY <2>2, <1>1, <1>2, MatchedPush
    <3> QED
      BY <2>2, <3>1, <3>2, <1>2
  <2>3. CASE Top(t).fn \notin Fns \cup {"base"} /\ rs'[t] = Front(rs[t])
    <3>1. rs[t][Len(rs[t])].fn \notin Fns \cup {"base"}
      BY <2>3 DEF Top, Last
    <3>2. PICK n \in Nat : n + 1 = Len(rs[t])
      <4>1. Len(rs[t]) \in Nat /\ Len(rs[t]) >= 1
        BY <1>1, <1>2
      <4>2. Len(rs[t]) - 1 \in Nat /\ (Len(rs[t]) - 1) + 1 = Len(rs[t])
        BY <4>1
      <4> QED
        BY <4>2
    <3>3. Len(rs'[t]) = n /\ \A k \in 1..n : rs'[t][k] = rs[t][k]
      <4>1. Len(rs[t]) - 1 = n
        BY <3>2
      <4>2. /\ Len(Front(rs[t])) = Len(rs[t]) - 1
            /\ \A k \in 1..Len(rs[t]) - 1 : Front(rs[t])[k] = rs[t][k]
        BY <1>1, <1>2, FrontIs
      <4> QED
        BY <4>1, <4>2, <2>3
    <3>4. n >= 1
      <4>1. n + 1 # 1
        BY <3>1, <3>2, <1>2
      <4> QED
        BY <4>1
    <3>5. rs'[t] # <<>> /\ rs'[t][1] = rs[t][1]
      BY <3>3, <3>4
    <3>6. Matched(catchstack[t], stale[t], rs[t], n, tries[t])
      <4>1. rs[t][n + 1].fn \notin Fns
        BY <3>1, <3>2
      <4>2. Matched(catchstack[t], stale[t], rs[t], n + 1, tries[t])
        BY <3>2, <1>2
      <4> QED
        BY <4>1, <4>2, <1>1, MatchedNoTry
    <3>7. Matched(catchstack[t], stale[t], rs'[t], n, tries[t])
      BY <3>6, <3>3, <1>1, MatchedBelow
    <3> QED
      BY <3>3, <3>5, <3>7, <1>2
  <2> QED
    BY <2>1, <2>2, <2>3
<1>5. Tries(t)'
  BY <1>4 DEF Tries, Known
<1> QED
  BY <1>3, <1>5, Alone

\* A thread that ends, or is lost.
LEMMA DeadStep ==
    ASSUME Inv, NEW t \in Threads, Types', Others(t), pc'[t] \in {"gone", "lost"}
    PROVE  Inv'
<1>1. Tries(t)' /\ Promise(t)'
  BY DEF Tries, Promise, Alive
<1> QED
  BY <1>1, Alone

\* catch and recover begin.
LEMMA EnterStep ==
    ASSUME Inv, NEW t \in Threads, Types', Others(t), NEW g \in Frame,
           Alive(t), pc[t] \notin {"caught", "stored"}, pc'[t] = "run",
           g.fn \in Fns, g.fn = "recover" => g.saved = ds[t],
           rs'[t] = Append(rs[t], g),
           catchstack'[t] = Append(catchstack[t], Len(rs[t]) + 1),
           stale'[t] = stale[t], tries'[t] = Append(tries[t], ds[t])
    PROVE  Inv'
<1> DEFINE q == rs[t]
<1>1. /\ q \in Seq(Frame) /\ catchstack[t] \in Seq(Nat) /\ stale[t] \in Nat
      /\ tries[t] \in Seq(Seq(Errors)) /\ ds[t] \in Seq(Errors)
  BY DEF Inv, Types, TypeOK
<1>2. /\ q # <<>> /\ q[1].fn = "base" /\ Len(q) \in Nat /\ Len(q) >= 1
      /\ Matched(catchstack[t], stale[t], q, Len(q), tries[t])
  BY <1>1 DEF Inv, Tries, Known
<1>3. rs'[t] # <<>> /\ rs'[t][1].fn = "base"
  <2>1. q \in Seq(Frame) /\ q # <<>>
    BY <1>1, <1>2
  <2> HIDE DEF q
  <2>2. Append(q, g) # <<>> /\ Append(q, g)[1] = q[1]
    BY <2>1, AppendIs
  <2> QED
    BY <2>2, <1>2 DEF q
<1>4. Matched(catchstack'[t], stale'[t], rs'[t], Len(rs'[t]), tries'[t])
  <2>1. Matched(Append(catchstack[t], Len(q) + 1), stale[t], Append(q, g),
                Len(Append(q, g)), Append(tries[t], ds[t]))
    BY <1>1, <1>2, MatchedTry
  <2> QED
    BY <2>1
<1>5. Tries(t)'
  BY <1>3, <1>4 DEF Tries, Known
<1>6. Promise(t)'
  BY DEF Promise
<1> QED
  BY <1>5, <1>6, Alone

\* catch and recover end without an error: their entry is the last.
LEMMA LeaveStep ==
    ASSUME Inv, NEW t \in Threads, Types', Others(t),
           Alive(t), pc[t] \notin {"caught", "stored"}, pc'[t] = "run",
           Top(t).fn \in Fns, rs'[t] = Front(rs[t]),
           catchstack'[t] = Front(catchstack[t]),
           stale'[t] = stale[t], tries'[t] = Front(tries[t])
    PROVE  Inv'
<1> DEFINE q == rs[t]
           c == catchstack[t]
           s == stale[t]
           w == tries[t]
<1>1. /\ q \in Seq(Frame) /\ c \in Seq(Nat) /\ s \in Nat /\ w \in Seq(Seq(Errors))
  BY DEF Inv, Types, TypeOK
<1>2. /\ q # <<>> /\ q[1].fn = "base" /\ Len(q) \in Nat /\ Len(q) >= 1
      /\ Matched(c, s, q, Len(q), w)
  BY <1>1 DEF Inv, Tries, Known
<1>3. q[Len(q)].fn \in Fns
  BY DEF Top, Last
<1>4. /\ Front(q) \in Seq(Frame) /\ Len(Front(q)) = Len(q) - 1
      /\ \A i \in 1..Len(q) - 1 : Front(q)[i] = q[i]
  BY <1>1, <1>2, FrontIs
<1>5. Front(c) \in Seq(Nat) /\ Front(w) \in Seq(Seq(Errors))
  BY <1>1, FrontIs
<1>6. rs'[t] = Front(q) /\ catchstack'[t] = Front(c) /\ stale'[t] = s /\ tries'[t] = Front(w)
  OBVIOUS
<1> HIDE DEF q, c, s, w
<1>7. Len(q) \in 1..Len(q) /\ Len(q) - 1 \in Nat
  BY <1>2
<1>8. w # <<>> /\ c[Len(c)] = Len(q)
  <2>1. w # <<>> /\ c[Len(c)] \in 1..Len(q) /\ Len(q) <= c[Len(c)]
    BY <1>1, <1>2, <1>3, <1>7, MatchedLast
  <2> QED
    BY <2>1, <1>2
<1>9. Matched(Front(c), s, q, Len(q) - 1, Front(w))
  <2>1. Matched(Front(c), s, q, c[Len(c)] - 1, Front(w))
    BY <1>1, <1>2, <1>8, MatchedPop
  <2> QED
    BY <2>1, <1>8
<1>10. Matched(Front(c), s, Front(q), Len(Front(q)), Front(w))
  BY <1>1, <1>4, <1>5, <1>7, <1>9, MatchedBelow
<1>11. Front(q) # <<>> /\ Front(q)[1].fn = "base"
  <2>1. Len(q) # 1
    BY <1>2, <1>3 DEF Fns
  <2>2. \A n \in Nat : n >= 1 /\ n # 1 => 1 \in 1..n - 1 /\ n - 1 # 0
    OBVIOUS
  <2>3. 1 \in 1..Len(q) - 1 /\ Len(q) - 1 # 0
    BY <2>1, <2>2, <1>2
  <2> QED
    BY <2>3, <1>2, <1>4
<1>12. Tries(t)'
  BY <1>6, <1>10, <1>11 DEF Tries, Known
<1>13. Promise(t)'
  BY DEF Promise
<1> QED
  BY <1>12, <1>13, Alone

\* The handler takes the place of the try.
LEMMA HandlerStep ==
    ASSUME Inv, NEW t \in Threads, Types', Others(t), NEW g \in Frame,
           pc[t] \in {"caught", "stored"}, pc'[t] = "run", g.fn = "handler",
           rs'[t] = Append(Front(rs[t]), g),
           catchstack'[t] = catchstack[t], stale'[t] = stale[t], tries'[t] = tries[t]
    PROVE  Inv'
<1> DEFINE q == rs[t]
           c == catchstack[t]
           s == stale[t]
           w == tries[t]
           r == Append(Front(q), g)
<1>1. /\ q \in Seq(Frame) /\ c \in Seq(Nat) /\ s \in Nat /\ w \in Seq(Seq(Errors))
  BY DEF Inv, Types, TypeOK
<1>2. /\ q # <<>> /\ q[1].fn = "base" /\ Len(q) \in Nat /\ Len(q) >= 1
      /\ Matched(c, s, q, Len(q) - 1, w)
  <2>1. Alive(t) /\ Known(t) = Len(q) - 1
    BY DEF Alive, Known
  <2>2. Tries(t)
    BY DEF Inv
  <2>3. q # <<>> => Len(q) \in Nat /\ Len(q) >= 1
    BY <1>1
  <2> QED
    BY <2>1, <2>2, <2>3 DEF Tries
<1>3. q[Len(q)].fn \in Fns
  BY DEF Inv, Promise, Top, Last
<1>4. /\ Front(q) \in Seq(Frame) /\ Len(Front(q)) = Len(q) - 1
      /\ \A i \in 1..Len(q) - 1 : Front(q)[i] = q[i]
  BY <1>1, <1>2, FrontIs
<1>5. /\ r \in Seq(Frame) /\ r # <<>> /\ Len(r) = Len(Front(q)) + 1
      /\ r[Len(Front(q)) + 1] = g
      /\ \A i \in 1..Len(Front(q)) : r[i] = Front(q)[i]
  BY <1>4, AppendIs
<1>6. rs'[t] = r /\ catchstack'[t] = c /\ stale'[t] = s /\ tries'[t] = w
  OBVIOUS
<1> HIDE DEF q, c, s, w, r
<1>7. PICK n \in Nat : n = Len(q) - 1 /\ n + 1 = Len(q) /\ n >= 1
  <2>1. Len(q) # 1
    BY <1>2, <1>3 DEF Fns
  <2>2. \A m \in Nat : m >= 1 /\ m # 1 => m - 1 \in Nat /\ (m - 1) + 1 = m /\ m - 1 >= 1
    OBVIOUS
  <2> QED
    BY <2>1, <2>2, <1>2
<1>8. Len(r) = n + 1 /\ r[n + 1] = g /\ \A i \in 1..n : r[i] = q[i]
  BY <1>4, <1>5, <1>7
<1>9. Matched(c, s, r, n, w)
  BY <1>1, <1>2, <1>5, <1>7, <1>8, MatchedBelow
<1>10. Matched(c, s, r, n + 1, w)
  <2>1. r[n + 1].fn \notin Fns
    BY <1>8 DEF Fns
  <2> QED
    BY <2>1, <1>1, <1>5, <1>9, MatchedNoTry
<1>11. r[1].fn = "base"
  <2>1. 1 \in 1..n
    BY <1>7
  <2> QED
    BY <2>1, <1>2, <1>8
<1>12. Tries(t)'
  BY <1>5, <1>6, <1>8, <1>10, <1>11 DEF Tries, Known
<1>13. Promise(t)'
  BY DEF Promise
<1> QED
  BY <1>12, <1>13, Alone

\* A throw cuts the return stack at the innermost try, or ends.
LEMMA ThrowStep ==
    ASSUME Inv, NEW t \in Threads, NEW e \in Errors, Throw(t, e),
           Alive(t), pc[t] \notin {"caught", "stored"},
           plan' = plan, upset' \subseteq {"shared", "torn", "cut"}
    PROVE  Inv'
<1> DEFINE q == rs[t]
           c == catchstack[t]
           s == stale[t]
           w == tries[t]
           at == Last(c)
<1>1. /\ q \in Seq(Frame) /\ c \in Seq(Nat) /\ s \in Nat /\ w \in Seq(Seq(Errors))
      /\ Types /\ TypeOK
  BY DEF Inv, Types, TypeOK
<1>2. /\ q # <<>> /\ q[1].fn = "base" /\ Len(q) \in Nat /\ Len(q) >= 1
      /\ Matched(c, s, q, Len(q), w)
  BY <1>1 DEF Inv, Tries, Known
<1>3. /\ error_object' = error_object /\ length' = length /\ data' = data
      /\ seen' = seen /\ crossed' = crossed
  BY DEF Throw
<1>4. CASE c = <<>>
  <2>1. /\ pc' = [u \in Threads |-> "gone"]
        /\ UNCHANGED <<rs, ds, catchstack, stale, tries, want, leaked>>
    BY <1>4 DEF Throw
  <2>2. Types'
    BY <1>1, <1>3, <2>1 DEF Types, TypeOK
  <2>3. ASSUME NEW u \in Threads PROVE Tries(u)' /\ Promise(u)'
    <3>1. pc'[u] = "gone"
      BY <2>1
    <3> QED
      BY <3>1 DEF Tries, Promise, Alive
  <2> QED
    BY <2>2, <2>3 DEF Inv
<1>5. CASE c # <<>>
  <2>1. /\ catchstack' = [catchstack EXCEPT ![t] = Front(c)]
        /\ stale' = [stale EXCEPT ![t] = IF s < Len(c) THEN s ELSE Len(c) - 1]
    BY <1>5 DEF Throw
  <2>2. Front(c) \in Seq(Nat) /\ Len(c) \in Nat /\ Len(c) >= 1 /\ Len(c) - 1 \in Nat
    BY <1>1, <1>5, FrontIs
  <2>3. catchstack' \in [Threads -> Seq(Nat)] /\ stale' \in [Threads -> Nat]
    BY <2>1, <2>2, <1>1 DEF TypeOK
  <2>4. CASE at \notin TryFrames(t)
    <3>1. pc' = [pc EXCEPT ![t] = "lost"] /\ UNCHANGED <<rs, ds, want, tries, leaked>>
      BY <1>5, <2>4 DEF Throw, Goto
    <3>2. Types'
      BY <1>1, <1>3, <2>3, <3>1 DEF Types, TypeOK
    <3>3. Others(t) /\ pc'[t] = "lost"
      BY <1>1, <1>3, <2>1, <3>1 DEF Others, TypeOK
    <3> QED
      BY <3>2, <3>3, DeadStep
  <2>5. CASE at \in TryFrames(t)
    <3>1. /\ pc' = [pc EXCEPT ![t] = "caught"]
          /\ rs' = [rs EXCEPT ![t] = SubSeq(q, 1, at)]
          /\ ds' = [ds EXCEPT ![t] = Append(Printed(t), e)]
          /\ want' = [want EXCEPT ![t] = <<Last(w), e>>]
          /\ tries' = [tries EXCEPT ![t] = Front(w)]
          /\ leaked' = leaked + Cardinality({i \in OpenScopes(t) : i > at})
      BY <1>5, <2>5 DEF Throw, Goto, Frames
    <3>2. at \in 1..Len(q) /\ q[at].fn \in Fns
      BY <2>5, <1>1 DEF TryFrames, Fns
    <3>3. w # <<>> /\ s < Len(c) /\ (q[at].fn = "recover" => q[at].saved = Last(w))
      <4> DEFINE n == Len(q)
      <4>1. at = c[Len(c)] /\ Last(w) = w[Len(w)] /\ n \in Nat
        BY <1>2 DEF Last
      <4>2. Matched(c, s, q, n, w) /\ at \in 1..n /\ q[at].fn \in Fns
        BY <1>2, <3>2
      <4> HIDE DEF q, c, s, w, at, n
      <4>3. /\ w # <<>> /\ s < Len(c)
            /\ q[c[Len(c)]].fn = "recover" => q[c[Len(c)]].saved = w[Len(w)]
        BY <4>1, <4>2, <1>1, MatchedLast
      <4> QED
        BY <4>1, <4>3
    <3>4. Matched(Front(c), s, q, at - 1, Front(w))
      BY <3>3, <1>1, <1>2, MatchedPop DEF Last
    <3>5. /\ SubSeq(q, 1, at) \in Seq(Frame) /\ Len(SubSeq(q, 1, at)) = at
          /\ SubSeq(q, 1, at) # <<>>
          /\ \A i \in 1..at : SubSeq(q, 1, at)[i] = q[i]
      BY <3>2, <1>1, CutIs
    <3>6. Front(w) \in Seq(Seq(Errors)) /\ Last(w) \in Seq(Errors)
      BY <3>3, <1>1, FrontIs DEF Last
    <3>7. /\ Append(Printed(t), e) \in Seq(Errors) /\ Append(Printed(t), e) # <<>>
          /\ Last(Append(Printed(t), e)) = e
      <4>1. Printed(t) \in Seq(Errors)
        <5>1. ds[t] \in Seq(Errors)
          BY <1>1 DEF TypeOK
        <5>2. Front(ds[t]) \in Seq(Errors)
          BY <5>1, FrontIs
        <5> QED
          BY <5>1, <5>2 DEF Printed
      <4> HIDE DEF at
      <4> QED
        BY <4>1, AppendIs DEF Last
    <3>8. Types'
      <4>1. leaked' \in Nat
        <5>1. {i \in OpenScopes(t) : i > at} \subseteq DOMAIN q
          BY DEF OpenScopes
        <5>2. Cardinality({i \in OpenScopes(t) : i > at}) \in Nat
          BY <5>1, <1>1, PlacesCounted
        <5> QED
          BY <5>2, <3>1, <1>1 DEF TypeOK
      <4>2. /\ pc' \in [Threads -> {"run", "push", "set", "pop", "caught", "stored",
                                    "gone", "lost"}]
            /\ rs' \in [Threads -> Seq(Frame)]
            /\ ds' \in [Threads -> Seq(Errors)] /\ tries' \in [Threads -> Seq(Seq(Errors))]
            /\ want' \in [Threads -> {<<>>} \cup (Seq(Errors) \X Errors)]
        BY <1>1, <3>1, <3>5, <3>6, <3>7 DEF Types, TypeOK
      <4>3. \A u \in Threads : pc'[u] = "push" => seen'[u] < plan'.scopes
        BY <1>1, <1>3, <3>1 DEF Types, TypeOK
      <4> QED
        BY <1>1, <1>3, <2>3, <4>1, <4>2, <4>3 DEF Types, TypeOK
    <3>9. Others(t)
      BY <1>1, <1>3, <2>1, <3>1 DEF Others, Types, TypeOK
    <3>10. /\ pc'[t] = "caught" /\ rs'[t] = SubSeq(q, 1, at) /\ catchstack'[t] = Front(c)
           /\ stale'[t] = s /\ tries'[t] = Front(w) /\ want'[t] = <<Last(w), e>>
           /\ ds'[t] = Append(Printed(t), e)
      BY <1>1, <2>1, <3>1, <3>3 DEF Types, TypeOK
    <3> HIDE DEF q, c, s, w, at
    <3>11. Tries(t)'
      <4>1. at - 1 \in Nat /\ \A k \in 1..at - 1 : k \in 1..at
        BY <3>2, <1>2
      <4>2. Matched(Front(c), s, SubSeq(q, 1, at), at - 1, Front(w))
        BY <4>1, <3>4, <3>5, <3>6, <2>2, <1>1, MatchedBelow
      <4>3. SubSeq(q, 1, at)[1] = q[1]
        <5>1. 1 \in 1..at
          BY <3>2, <1>2
        <5> QED
          BY <5>1, <3>5
      <4> QED
        BY <4>2, <4>3, <3>5, <3>10, <1>2 DEF Tries, Known
    <3>12. Promise(t)'
      <4>1. Top(t)' = q[at]
        <5>1. at \in 1..at
          BY <3>2, <1>2
        <5> QED
          BY <5>1, <3>5, <3>10 DEF Top, Last
      <4> QED
        BY <4>1, <3>2, <3>3, <3>7, <3>10 DEF Promise
    <3> QED
      BY <3>8, <3>9, <3>11, <3>12, Alone
  <2> QED
    BY <2>4, <2>5
<1> QED
  BY <1>4, <1>5

----------------------------------------------------------------------------
(* Every step keeps the invariant.                                         *)

\* What a step of a thread can rely on.
LEMMA Given ==
    ASSUME Inv, NEW t \in Threads
    PROVE  /\ Types /\ TypeOK /\ Tries(t) /\ Promise(t)
           /\ rs[t] \in Seq(Frame) /\ ds[t] \in Seq(Errors)
           /\ Front(rs[t]) \in Seq(Frame) /\ Front(ds[t]) \in Seq(Errors)
           /\ Front(catchstack[t]) \in Seq(Nat)
           /\ Front(tries[t]) \in Seq(Seq(Errors))
           /\ Depth(t) \in Nat /\ Depth(t) + 1 \in Nat
           /\ plan.scopes \in Nat /\ plan.scopes >= 1 /\ plan.errors \subseteq Errors
           /\ Printed(t) \in Seq(Errors)
<1>1. Types /\ TypeOK /\ Tries(t) /\ Promise(t)
  BY DEF Inv, Types
<1>2. /\ rs[t] \in Seq(Frame) /\ ds[t] \in Seq(Errors) /\ catchstack[t] \in Seq(Nat)
      /\ tries[t] \in Seq(Seq(Errors)) /\ plan \in Plans
  BY <1>1 DEF TypeOK
<1>3. /\ Front(rs[t]) \in Seq(Frame) /\ Front(ds[t]) \in Seq(Errors)
      /\ Front(catchstack[t]) \in Seq(Nat) /\ Front(tries[t]) \in Seq(Seq(Errors))
  BY <1>2, FrontIs
<1>4. Depth(t) \in Nat /\ Depth(t) + 1 \in Nat
  BY <1>2 DEF Depth
<1>5. plan.scopes \in Nat /\ plan.scopes >= 1 /\ plan.errors \subseteq Errors
  BY <1>2, PlansAssumption
<1>6. Printed(t) \in Seq(Errors)
  BY <1>2, <1>3 DEF Printed
<1> QED
  BY <1>1, <1>2, <1>3, <1>4, <1>5, <1>6

LEMMA PushInv == ASSUME Inv, NEW t \in Threads, Push(t) PROVE Inv'
<1>1. PICK v \in plan.errors : ds' = [ds EXCEPT ![t] = Append(ds[t], v)]
  BY DEF Push
<1>2. /\ UNCHANGED <<pc, rs, catchstack, error_object, scopeVars, tryVars, leaked, upset, plan>>
      /\ pc[t] = "run"
  BY DEF Push, UserCode
<1>3. Append(ds[t], v) \in Seq(Errors)
  BY Given
<1>4. Types'
  BY <1>1, <1>2, <1>3, Given DEF Types, TypeOK, scopeVars, tryVars
<1>5. Others(t)
  BY <1>1, <1>2, Given DEF Others, TypeOK, tryVars
<1> QED
  BY <1>2, <1>4, <1>5, NoTryStep DEF Alive, tryVars

LEMMA DropInv == ASSUME Inv, NEW t \in Threads, Drop(t) PROVE Inv'
<1>1. /\ UNCHANGED <<pc, rs, catchstack, error_object, scopeVars, tryVars, leaked, upset, plan>>
      /\ pc[t] = "run" /\ ds' = [ds EXCEPT ![t] = Front(ds[t])]
  BY DEF Drop, UserCode
<1>2. Types'
  BY <1>1, Given DEF Types, TypeOK, scopeVars, tryVars
<1>3. Others(t)
  BY <1>1, Given DEF Others, TypeOK, tryVars
<1> QED
  BY <1>1, <1>2, <1>3, NoTryStep DEF Alive, tryVars

LEMMA LeaveHandlerInv == ASSUME Inv, NEW t \in Threads, LeaveHandler(t) PROVE Inv'
<1>1. /\ UNCHANGED <<pc, ds, catchstack, error_object, scopeVars, tryVars, leaked, upset, plan>>
      /\ pc[t] = "run" /\ rs' = [rs EXCEPT ![t] = Front(rs[t])] /\ Top(t).fn = "handler"
  BY DEF LeaveHandler, UserCode, Frames
<1>2. Types'
  BY <1>1, Given DEF Types, TypeOK, scopeVars, tryVars
<1>3. Others(t)
  BY <1>1, Given DEF Others, TypeOK, tryVars
<1>4. rs'[t] = Front(rs[t]) /\ Top(t).fn \notin Fns \cup {"base"}
  BY <1>1, Given DEF TypeOK, Fns
<1> QED
  BY <1>1, <1>2, <1>3, <1>4, NoTryStep DEF Alive, tryVars

\* catch and recover begin: Recover, Query and EvaluateTry without an error.
LEMMA EnterCatchInv ==
    ASSUME Inv, NEW t \in Threads, NEW g \in Frame, EnterCatch(t, g),
           g.fn \in Fns, g.fn = "recover" => g.saved = ds[t],
           pc[t] \in {"run", "set"}, pc' = [pc EXCEPT ![t] = "run"],
           UNCHANGED <<scopeVars, upset, plan>>
    PROVE  Inv'
<1>1. /\ rs' = [rs EXCEPT ![t] = Append(rs[t], g)]
      /\ catchstack' = [catchstack EXCEPT ![t] = Append(catchstack[t], Depth(t) + 1)]
      /\ tries' = [tries EXCEPT ![t] = Append(tries[t], ds[t])]
      /\ UNCHANGED <<ds, error_object, stale, want, crossed, leaked>>
  BY DEF EnterCatch, Frames
<1>2. /\ Append(rs[t], g) \in Seq(Frame)
      /\ Append(catchstack[t], Depth(t) + 1) \in Seq(Nat)
      /\ Append(tries[t], ds[t]) \in Seq(Seq(Errors))
  BY Given DEF TypeOK
<1>3. Types'
  BY <1>1, <1>2, Given DEF Types, TypeOK, scopeVars
<1>4. Others(t)
  BY <1>1, Given DEF Others, TypeOK
<1>5. /\ rs'[t] = Append(rs[t], g) /\ pc'[t] = "run"
      /\ catchstack'[t] = Append(catchstack[t], Len(rs[t]) + 1)
      /\ stale'[t] = stale[t] /\ tries'[t] = Append(tries[t], ds[t])
  BY <1>1, Given DEF TypeOK, Depth
<1> QED
  BY <1>3, <1>4, <1>5, EnterStep DEF Alive

LEMMA RecoverInv == ASSUME Inv, NEW t \in Threads, Recover(t) PROVE Inv'
<1> DEFINE g == Run("recover", ds[t], "user")
<1>1. /\ EnterCatch(t, g) /\ pc[t] = "run" /\ pc' = pc /\ UNCHANGED <<scopeVars, upset, plan>>
  BY DEF Recover, UserCode
<1>2. g \in Frame /\ g.fn \in Fns /\ g.saved = ds[t]
  BY Given DEF Run, Frame, Fns
<1>3. pc' = [pc EXCEPT ![t] = "run"]
  BY <1>1, Given DEF TypeOK
<1> HIDE DEF g
<1> QED
  BY <1>1, <1>2, <1>3, EnterCatchInv

LEMMA QueryInv == ASSUME Inv, NEW t \in Threads, Query(t) PROVE Inv'
<1> DEFINE g == Run("catch", <<>>, "do_error")
<1>1. /\ EnterCatch(t, g) /\ pc[t] = "run" /\ pc' = pc /\ UNCHANGED <<scopeVars, upset, plan>>
  BY DEF Query, AtPrompt
<1>2. g \in Frame /\ g.fn \in Fns /\ g.fn # "recover"
  BY DEF Run, Frame, Fns
<1>3. pc' = [pc EXCEPT ![t] = "run"]
  BY <1>1, Given DEF TypeOK
<1> HIDE DEF g
<1> QED
  BY <1>1, <1>2, <1>3, EnterCatchInv

LEMMA EvaluateTryInv == ASSUME Inv, NEW t \in Threads, EvaluateTry(t) PROVE Inv'
<1> DEFINE g == Run("recover", ds[t], "do_error")
<1>1. pc[t] = "set" /\ UNCHANGED <<upset, plan>>
  BY DEF EvaluateTry
<1>2. CASE \E e \in plan.errors : Throw(t, e)
  <2>1. PICK e \in plan.errors : Throw(t, e)
    BY <1>2
  <2>2. e \in Errors /\ upset' \subseteq {"shared", "torn", "cut"}
    BY <1>1, Given DEF TypeOK
  <2> QED
    BY <1>1, <2>1, <2>2, ThrowStep DEF Alive
<1>3. CASE ~\E e \in plan.errors : Throw(t, e)
  <2>1. EnterCatch(t, g) /\ pc' = [pc EXCEPT ![t] = "run"] /\ UNCHANGED scopeVars
    BY <1>3 DEF EvaluateTry, Goto
  <2>2. g \in Frame /\ g.fn \in Fns /\ g.saved = ds[t]
    BY Given DEF Run, Frame, Fns
  <2> HIDE DEF g
  <2> QED
    BY <1>1, <2>1, <2>2, EnterCatchInv
<1> QED
  BY <1>2, <1>3

LEMMA LeaveCatchInv == ASSUME Inv, NEW t \in Threads, LeaveCatch(t) PROVE Inv'
<1>1. /\ rs' = [rs EXCEPT ![t] = Front(rs[t])]
      /\ catchstack' = [catchstack EXCEPT ![t] = Front(catchstack[t])]
      /\ tries' = [tries EXCEPT ![t] = Front(tries[t])]
      /\ UNCHANGED <<pc, ds, error_object, scopeVars, stale, want, crossed, leaked, upset, plan>>
      /\ pc[t] = "run" /\ Top(t).fn \in Fns
  BY DEF LeaveCatch, UserCode, Frames, Fns
<1>2. Types'
  BY <1>1, Given DEF Types, TypeOK, scopeVars
<1>3. Others(t)
  BY <1>1, Given DEF Others, TypeOK
<1>4. /\ rs'[t] = Front(rs[t]) /\ catchstack'[t] = Front(catchstack[t])
      /\ stale'[t] = stale[t] /\ tries'[t] = Front(tries[t]) /\ pc'[t] = "run"
  BY <1>1, Given DEF TypeOK
<1> QED
  BY <1>1, <1>2, <1>3, <1>4, LeaveStep DEF Alive

LEMMA UserThrowInv == ASSUME Inv, NEW t \in Threads, UserThrow(t) PROVE Inv'
<1>1. PICK e \in plan.errors : Throw(t, e)
  BY DEF UserThrow
<1>2. pc[t] = "run" /\ UNCHANGED <<upset, plan>>
  BY DEF UserThrow, UserCode, AtPrompt, DoingError
<1>3. e \in Errors /\ upset' \subseteq {"shared", "torn", "cut"}
  BY <1>2, Given DEF TypeOK
<1> QED
  BY <1>1, <1>2, <1>3, ThrowStep DEF Alive

\* Between the throw and the handler, recover stores the error; query goes on to
\* do-error.
LEMMA CaughtInv == ASSUME Inv, NEW t \in Threads, Caught(t) PROVE Inv'
<1>1. pc[t] = "caught" /\ UNCHANGED <<catchstack, scopeVars, stale, tries, leaked, upset, plan>>
  BY DEF Caught
<1>2. CASE Top(t).fn = "recover"
  <2>1. /\ pc' = [pc EXCEPT ![t] = "stored"] /\ error_object' = Last(ds[t])
        /\ ds' = [ds EXCEPT ![t] = <<>>]
        /\ crossed' = crossed \cup {u \in Threads \ {t} : pc[u] = "stored"}
        /\ UNCHANGED <<rs, want>>
    BY <1>2 DEF Caught, Goto
  <2>2. /\ ds[t] # <<>> /\ want[t] # <<>> /\ Last(ds[t]) = want[t][2]
        /\ Top(t).saved = want[t][1]
    BY <1>1, <1>2, Given DEF Promise
  <2>3. Last(ds[t]) \in Errors
    BY <2>2, Given DEF Last
  <2>4. Types'
    <3>1. /\ error_object' \in Errors /\ ds' \in [Threads -> Seq(Errors)]
          /\ crossed' \subseteq Threads
          /\ pc' \in [Threads -> {"run", "push", "set", "pop", "caught", "stored",
                                  "gone", "lost"}]
      BY <2>1, <2>3, Given DEF TypeOK
    <3>2. \A u \in Threads : pc'[u] = "push" => seen'[u] < plan'.scopes
      BY <1>1, <2>1, Given DEF Types, TypeOK, scopeVars
    <3> QED
      BY <1>1, <2>1, <3>1, <3>2, Given DEF Types, TypeOK, scopeVars
  <2>5. Others(t)
    BY <1>1, <2>1, <2>3, Given DEF Others, TypeOK
  <2>6. pc'[t] = "stored" /\ rs'[t] = rs[t] /\ want'[t] = want[t]
    BY <2>1, Given DEF TypeOK
  <2>7. Tries(t)'
    BY <1>1, <2>6, Given DEF Tries, Known, Alive
  <2>8. Promise(t)'
    BY <1>2, <2>1, <2>2, <2>3, <2>6 DEF Promise, Top, Fns
  <2> QED
    BY <2>4, <2>5, <2>7, <2>8, Alone
<1>3. CASE Top(t).fn # "recover"
  <2> DEFINE g == Run("handler", <<>>, Top(t).by)
  <2>1. /\ pc' = [pc EXCEPT ![t] = "run"]
        /\ rs' = [rs EXCEPT ![t] = Append(Front(rs[t]), g)]
        /\ want' = [want EXCEPT ![t] = <<>>]
        /\ UNCHANGED <<error_object, ds, crossed>>
    BY <1>3 DEF Caught, Goto, Frames
  <2>2. g \in Frame /\ g.fn = "handler"
    <3>1. rs[t] # <<>>
      BY <1>1, Given DEF Tries, Alive
    <3>2. Top(t) \in Frame
      BY <3>1, Given DEF Top, Last
    <3> QED
      BY <3>2 DEF Run, Frame
  <2> HIDE DEF g
  <2>3. Append(Front(rs[t]), g) \in Seq(Frame)
    BY <2>2, Given
  <2>4. Types'
    BY <1>1, <2>1, <2>3, Given DEF Types, TypeOK, scopeVars
  <2>5. Others(t)
    BY <1>1, <2>1, Given DEF Others, Types, TypeOK
  <2>6. pc'[t] = "run" /\ rs'[t] = Append(Front(rs[t]), g)
    BY <2>1, Given DEF TypeOK
  <2> QED
    BY <1>1, <2>2, <2>4, <2>5, <2>6, HandlerStep
<1> QED
  BY <1>2, <1>3

LEMMA HandleInv == ASSUME Inv, NEW t \in Threads, Handle(t) PROVE Inv'
<1> DEFINE g == Run("handler", <<>>, Top(t).by)
<1>1. /\ pc' = [pc EXCEPT ![t] = "run"]
      /\ ds' = [ds EXCEPT ![t] = Append(Top(t).saved, error_object)]
      /\ rs' = [rs EXCEPT ![t] = Append(Front(rs[t]), g)]
      /\ crossed' = crossed \ {t} /\ want' = [want EXCEPT ![t] = <<>>]
      /\ UNCHANGED <<catchstack, error_object, scopeVars, stale, tries, leaked, upset, plan>>
      /\ pc[t] = "stored"
  BY DEF Handle, Goto, Frames
<1>2. Top(t) \in Frame
  <2>1. rs[t] # <<>>
    BY <1>1, Given DEF Tries, Alive
  <2> QED
    BY <2>1, Given DEF Top, Last
<1>3. g \in Frame /\ g.fn = "handler"
  BY <1>2 DEF Run, Frame
<1>4. Append(Top(t).saved, error_object) \in Seq(Errors)
  <2>1. Top(t).saved \in Seq(Errors) /\ error_object \in Errors
    BY <1>1, <1>2, Given DEF Frame, Promise
  <2> QED
    BY <2>1
<1> HIDE DEF g
<1>5. Append(Front(rs[t]), g) \in Seq(Frame)
  BY <1>3, Given
<1>6. Types'
  BY <1>1, <1>4, <1>5, Given DEF Types, TypeOK, scopeVars
<1>7. Others(t)
  BY <1>1, Given DEF Others, Types, TypeOK
<1>8. pc'[t] = "run" /\ rs'[t] = Append(Front(rs[t]), g)
  BY <1>1, Given DEF TypeOK
<1> QED
  BY <1>1, <1>3, <1>6, <1>7, <1>8, HandlerStep

LEMMA BeginScopeInv ==
    ASSUME Inv, NEW t \in Threads, NEW fn \in {"scope", "evaluate"}, BeginScope(t, fn),
           pc[t] = "run"
    PROVE  Inv'
<1> DEFINE g == Run(fn, <<>>, "user")
<1>1. /\ rs' = [rs EXCEPT ![t] = Append(rs[t], g)] /\ pc' = [pc EXCEPT ![t] = "push"]
      /\ seen' = [seen EXCEPT ![t] = length] /\ length < plan.scopes
      /\ UNCHANGED <<ds, catchstack, error_object, length, data, tryVars, leaked, plan>>
      /\ upset' = upset \/ upset' = upset \cup {"shared"}
  BY DEF BeginScope, Frames, Goto
<1>2. g \in Frame /\ g.fn = fn
  BY DEF Run, Frame
<1> HIDE DEF g
<1>3. Append(rs[t], g) \in Seq(Frame) /\ Append(rs[t], g)[Len(Append(rs[t], g))] = g
  BY <1>2, Given, AppendIs
<1>4. Types'
  <2>1. /\ rs' \in [Threads -> Seq(Frame)] /\ seen' \in [Threads -> 0..plan.scopes]
        /\ pc' \in [Threads -> {"run", "push", "set", "pop", "caught", "stored",
                                "gone", "lost"}]
        /\ upset' \subseteq {"shared", "torn", "cut"}
    BY <1>1, <1>3, Given DEF TypeOK
  <2>2. \A u \in Threads : pc'[u] = "push" => seen'[u] < plan'.scopes
    BY <1>1, Given DEF Types, TypeOK
  <2> QED
    BY <1>1, <2>1, <2>2, Given DEF Types, TypeOK, tryVars
<1>5. Others(t)
  BY <1>1, Given DEF Others, TypeOK, tryVars
<1>6. /\ pc'[t] = "push" /\ rs'[t] = Append(rs[t], g)
      /\ catchstack'[t] = catchstack[t] /\ stale'[t] = stale[t] /\ tries'[t] = tries[t]
  BY <1>1, Given DEF TypeOK, tryVars
<1>7. Scoped(Top(t))' /\ g.fn \notin Fns
  BY <1>2, <1>3, <1>6 DEF Scoped, Top, Last, Fns
<1> QED
  BY <1>2, <1>4, <1>5, <1>6, <1>7, NoTryStep DEF Alive

LEMMA PushScopeInv == ASSUME Inv, NEW t \in Threads, PushScope(t) PROVE Inv'
<1>1. /\ data' = [data EXCEPT ![seen[t] + 1] = <<t, Depth(t)>>]
      /\ length' = length + 1 /\ length < plan.scopes
      /\ pc' = [pc EXCEPT ![t] = IF Top(t).fn = "evaluate" THEN "set" ELSE "run"]
      /\ seen' = [seen EXCEPT ![t] = 0]
      /\ UNCHANGED <<rs, ds, catchstack, error_object, tryVars, leaked, plan>>
      /\ upset' = upset \/ upset' = upset \cup {"torn"}
      /\ pc[t] = "push"
  BY DEF PushScope, Goto
<1>2. Types'
  <2>1. /\ length' \in 0..plan.scopes /\ seen' \in [Threads -> 0..plan.scopes]
        /\ pc' \in [Threads -> {"run", "push", "set", "pop", "caught", "stored",
                                "gone", "lost"}]
        /\ upset' \subseteq {"shared", "torn", "cut"}
    <3>1. \A n \in 0..plan.scopes : n < plan.scopes => n + 1 \in 0..plan.scopes
      BY Given
    <3>2. length' \in 0..plan.scopes /\ 0 \in 0..plan.scopes
      <4>1. length \in 0..plan.scopes
        BY Given DEF TypeOK
      <4>2. length + 1 \in 0..plan.scopes /\ 0 \in 0..plan.scopes
        BY <3>1, <4>1, <1>1, Given
      <4> QED
        BY <4>2, <1>1
    <3> QED
      BY <3>2, <1>1, Given DEF TypeOK
  <2>2. data' \in [1..plan.scopes -> (Threads \X Nat) \cup {None}]
    BY <1>1, Given DEF TypeOK
  <2>3. \A u \in Threads : pc'[u] = "push" => seen'[u] < plan'.scopes
    BY <1>1, Given DEF Types, TypeOK
  <2> QED
    BY <1>1, <2>1, <2>2, <2>3, Given DEF Types, TypeOK, tryVars
<1>3. Others(t)
  BY <1>1, Given DEF Others, TypeOK, tryVars
<1>4. pc'[t] \in {"set", "run"} /\ rs'[t] = rs[t] /\ catchstack'[t] = catchstack[t]
      /\ stale'[t] = stale[t] /\ tries'[t] = tries[t]
  BY <1>1, Given DEF TypeOK, tryVars
<1>5. Scoped(Top(t))'
  BY <1>1, Given DEF Tries, Alive, Scoped, Top
<1> QED
  BY <1>1, <1>2, <1>3, <1>4, <1>5, NoTryStep DEF Alive

LEMMA EndScopeInv == ASSUME Inv, NEW t \in Threads, EndScope(t) PROVE Inv'
<1>1. /\ pc' = [pc EXCEPT ![t] = "pop"] /\ seen' = [seen EXCEPT ![t] = length]
      /\ UNCHANGED <<rs, ds, catchstack, error_object, length, data, tryVars, leaked, upset, plan>>
      /\ pc[t] = "run" /\ Scoped(Top(t))
  BY DEF EndScope, Goto
<1>2. Types'
  <2>1. /\ seen' \in [Threads -> 0..plan.scopes]
        /\ pc' \in [Threads -> {"run", "push", "set", "pop", "caught", "stored",
                                "gone", "lost"}]
    BY <1>1, Given DEF TypeOK
  <2>2. \A u \in Threads : pc'[u] = "push" => seen'[u] < plan'.scopes
    BY <1>1, Given DEF Types, TypeOK
  <2> QED
    BY <1>1, <2>1, <2>2, Given DEF Types, TypeOK, tryVars
<1>3. Others(t)
  BY <1>1, Given DEF Others, TypeOK, tryVars
<1>4. pc'[t] = "pop" /\ rs'[t] = rs[t] /\ catchstack'[t] = catchstack[t]
      /\ stale'[t] = stale[t] /\ tries'[t] = tries[t] /\ Scoped(Top(t))'
  BY <1>1, Given DEF TypeOK, tryVars, Scoped, Top
<1> QED
  BY <1>1, <1>2, <1>3, <1>4, NoTryStep DEF Alive

LEMMA PopScopeInv == ASSUME Inv, NEW t \in Threads, PopScope(t) PROVE Inv'
<1>1. /\ pc[t] = "pop" /\ plan' = plan
      /\ upset' = upset \/ upset' = upset \cup {"torn"}
  BY DEF PopScope
<1>2. CASE seen[t] = 0
  <2>1. PICK e \in plan.errors : Throw(t, e)
    BY <1>2 DEF PopScope
  <2>2. e \in Errors /\ upset' \subseteq {"shared", "torn", "cut"}
    BY <1>1, Given DEF TypeOK
  <2> QED
    BY <1>1, <2>1, <2>2, ThrowStep DEF Alive
<1>3. CASE seen[t] # 0
  <2>1. /\ length' = seen[t] - 1 /\ data' = [data EXCEPT ![seen[t]] = None]
        /\ pc' = [pc EXCEPT ![t] = "run"] /\ rs' = [rs EXCEPT ![t] = Front(rs[t])]
        /\ seen' = [seen EXCEPT ![t] = 0]
        /\ UNCHANGED <<ds, catchstack, error_object, tryVars, leaked>>
    BY <1>3 DEF PopScope, Goto, Frames
  <2>2. Types'
    <3>1. /\ length' \in 0..plan.scopes /\ seen' \in [Threads -> 0..plan.scopes]
          /\ upset' \subseteq {"shared", "torn", "cut"}
      <4>1. seen[t] \in 0..plan.scopes /\ 0 \in 0..plan.scopes
        BY Given DEF TypeOK
      <4>2. seen[t] - 1 \in 0..plan.scopes
        BY <4>1, <1>3, Given
      <4> QED
        BY <4>1, <4>2, <1>1, <2>1, Given DEF TypeOK
    <3>2. data' \in [1..plan.scopes -> (Threads \X Nat) \cup {None}]
      BY <1>3, <2>1, Given DEF TypeOK
    <3>3. /\ rs' \in [Threads -> Seq(Frame)]
          /\ pc' \in [Threads -> {"run", "push", "set", "pop", "caught", "stored",
                                  "gone", "lost"}]
      BY <2>1, Given DEF TypeOK
    <3>4. \A u \in Threads : pc'[u] = "push" => seen'[u] < plan'.scopes
      BY <1>1, <2>1, Given DEF Types, TypeOK
    <3> QED
      BY <1>1, <2>1, <3>1, <3>2, <3>3, <3>4, Given DEF Types, TypeOK, tryVars
  <2>3. Others(t)
    BY <2>1, Given DEF Others, TypeOK, tryVars
  <2>4. pc'[t] = "run" /\ rs'[t] = Front(rs[t]) /\ catchstack'[t] = catchstack[t]
        /\ stale'[t] = stale[t] /\ tries'[t] = tries[t]
    BY <2>1, Given DEF TypeOK, tryVars
  <2>5. Top(t).fn \notin Fns \cup {"base"}
    BY <1>1, Given DEF Tries, Alive, Scoped, Fns
  <2> QED
    BY <1>1, <2>2, <2>3, <2>4, <2>5, NoTryStep DEF Alive
<1> QED
  BY <1>2, <1>3

LEMMA ResetInv == ASSUME Inv, NEW t \in Threads, Reset(t) PROVE Inv'
<1>1. ds' = [ds EXCEPT ![t] = Printed(t)]
  BY DEF Reset
<1>2. CASE ResetPrimordial(t)
  <2>1. /\ pc' = [pc EXCEPT ![t] = "run"] /\ rs' = [rs EXCEPT ![t] = <<Base>>]
        /\ length' = 1 /\ leaked' = 0
        /\ stale' = [stale EXCEPT ![t] = Len(catchstack[t])]
        /\ tries' = [tries EXCEPT ![t] = <<>>]
        /\ upset' = upset \/ upset' = upset \cup {"cut"}
        /\ UNCHANGED <<catchstack, error_object, data, seen, want, crossed, plan>>
    BY <1>2 DEF ResetPrimordial, Goto, Frames
  <2>2. Base \in Frame /\ Base.fn = "base" /\ <<Base>> \in Seq(Frame)
    BY DEF Base, Run, Frame
  <2>3. Len(catchstack[t]) \in Nat
    BY Given DEF TypeOK
  <2>4. Types'
    <3>1. /\ pc' \in [Threads -> {"run", "push", "set", "pop", "caught", "stored",
                                  "gone", "lost"}]
          /\ rs' \in [Threads -> Seq(Frame)] /\ ds' \in [Threads -> Seq(Errors)]
      BY <1>1, <2>1, <2>2, Given DEF TypeOK
    <3>4. stale' \in [Threads -> Nat] /\ tries' \in [Threads -> Seq(Seq(Errors))]
      <4>1. <<>> \in Seq(Seq(Errors))
        OBVIOUS
      <4> QED
        BY <4>1, <2>1, <2>3, Given DEF TypeOK
    <3>2. length' \in 0..plan.scopes /\ upset' \subseteq {"shared", "torn", "cut"}
      BY <2>1, Given DEF TypeOK
    <3>3. \A u \in Threads : pc'[u] = "push" => seen'[u] < plan'.scopes
      BY <2>1, Given DEF Types, TypeOK
    <3> QED
      BY <2>1, <3>1, <3>2, <3>3, <3>4, Given DEF Types, TypeOK
  <2>5. Others(t)
    BY <1>1, <2>1, Given DEF Others, TypeOK
  <2>6. /\ pc'[t] = "run" /\ rs'[t] = <<Base>> /\ catchstack'[t] = catchstack[t]
        /\ stale'[t] = Len(catchstack[t]) /\ tries'[t] = <<>>
    BY <2>1, Given DEF TypeOK
  <2>7. Matched(catchstack[t], Len(catchstack[t]), <<Base>>, 1, <<>>)
    <3>1. \A k \in 1..1 : <<Base>>[k].fn \notin Fns
      BY <2>2 DEF Fns
    <3> QED
      BY <2>3, <3>1 DEF Matched, Counted, Placed, Ordered, Complete
  <2>8. Tries(t)'
    <3>1. Len(<<Base>>) = 1 /\ <<Base>> # <<>> /\ <<Base>>[1] = Base
      OBVIOUS
    <3> QED
      BY <3>1, <2>2, <2>6, <2>7 DEF Tries, Known
  <2>9. Promise(t)'
    BY <2>6 DEF Promise
  <2> QED
    BY <2>4, <2>5, <2>8, <2>9, Alone
<1>3. CASE ResetOther(t)
  <2>1. /\ pc' = [pc EXCEPT ![t] = "gone"] /\ rs' = [rs EXCEPT ![t] = <<>>]
        /\ leaked' = leaked + Cardinality(OpenScopes(t))
        /\ UNCHANGED <<catchstack, error_object, scopeVars, tryVars, upset, plan>>
    BY <1>3 DEF ResetOther, Goto, Frames
  <2>2. leaked' \in Nat
    <3>1. OpenScopes(t) \subseteq DOMAIN rs[t]
      BY DEF OpenScopes
    <3>2. Cardinality(OpenScopes(t)) \in Nat
      BY <3>1, Given, PlacesCounted
    <3>3. leaked \in Nat
      BY Given DEF TypeOK
    <3> QED
      BY <3>2, <3>3, <2>1
  <2>3. Types'
    <3>1. /\ pc' \in [Threads -> {"run", "push", "set", "pop", "caught", "stored",
                                  "gone", "lost"}]
          /\ rs' \in [Threads -> Seq(Frame)] /\ ds' \in [Threads -> Seq(Errors)]
      <4>1. <<>> \in Seq(Frame) /\ Printed(t) \in Seq(Errors)
        BY Given
      <4> QED
        BY <4>1, <1>1, <2>1, Given DEF TypeOK
    <3>2. \A u \in Threads : pc'[u] = "push" => seen'[u] < plan'.scopes
      BY <2>1, Given DEF Types, TypeOK, scopeVars
    <3> QED
      BY <2>1, <2>2, <3>1, <3>2, Given DEF Types, TypeOK, scopeVars, tryVars
  <2>4. Others(t) /\ pc'[t] = "gone"
    BY <1>1, <2>1, Given DEF Others, TypeOK, tryVars
  <2> QED
    BY <2>3, <2>4, DeadStep
<1> QED
  BY <1>2, <1>3 DEF Reset

LEMMA FinishInv == ASSUME Inv, NEW t \in Threads, Finish(t) PROVE Inv'
<1>1. /\ pc' = [pc EXCEPT ![t] = "gone"] /\ rs' = [rs EXCEPT ![t] = <<>>]
      /\ UNCHANGED <<ds, catchstack, error_object, scopeVars, tryVars, leaked, upset, plan>>
  BY DEF Finish, Goto, Frames
<1>2. Types'
  <2>1. /\ pc' \in [Threads -> {"run", "push", "set", "pop", "caught", "stored",
                                "gone", "lost"}]
        /\ rs' \in [Threads -> Seq(Frame)]
    BY <1>1, Given DEF TypeOK
  <2>2. \A u \in Threads : pc'[u] = "push" => seen'[u] < plan'.scopes
    BY <1>1, Given DEF Types, TypeOK, scopeVars
  <2> QED
    BY <1>1, <2>1, <2>2, Given DEF Types, TypeOK, scopeVars, tryVars
<1>3. Others(t) /\ pc'[t] = "gone"
  BY <1>1, Given DEF Others, TypeOK, tryVars
<1> QED
  BY <1>2, <1>3, DeadStep

LEMMA StutterInv == Inv /\ UNCHANGED vars => Inv'
BY DEF Inv, Types, TypeOK, Tries, Promise, Known, Alive, Top, Scoped, vars, threadVars,
       scopeVars, tryVars

LEMMA StepInv == Inv /\ [Next]_vars => Inv'
<1>1. ASSUME Inv, NEW t \in Threads, Step(t) PROVE Inv'
  <2>1. CASE WithDynamicScope(t)
    BY <1>1, <2>1, BeginScopeInv DEF WithDynamicScope, UserCode
  <2>2. CASE Evaluate(t)
    BY <1>1, <2>2, BeginScopeInv DEF Evaluate, UserCode, AtPrompt
  <2> QED
    BY <1>1, <2>1, <2>2, PushInv, DropInv, RecoverInv, QueryInv, LeaveCatchInv,
       UserThrowInv, CaughtInv, HandleInv, LeaveHandlerInv, PushScopeInv, EvaluateTryInv,
       EndScopeInv, PopScopeInv, ResetInv, FinishInv DEF Step
<1> QED
  BY <1>1, StutterInv DEF Next

\* Whatever is thrown and reset, and however threads interleave: the variables
\* have their types, and what a thread keeps of its tries agrees.
THEOREM Invariance == Spec => []Inv
<1>1. Init => Inv
  BY InitInv
<1>2. Inv /\ [Next]_vars => Inv'
  BY StepInv
<1> QED
  BY <1>1, <1>2, PTL DEF Spec

\* The variables of errors and of the dynamic scope have their types.
THEOREM Typing == Spec => []TypeOK
<1>1. Inv => TypeOK
  BY DEF Inv, Types
<1> QED
  BY <1>1, Invariance, PTL

\* A throw goes to the innermost catch: the catch stack, above what a reset has
\* left, is the places of the tries on the return stack, in order.
THEOREM CatchStackIsExact == Spec => []CatchesMatch
<1>1. Inv => CatchesMatch
  <2> SUFFICES ASSUME Inv, NEW t \in Threads, Alive(t)
               PROVE  LET c == catchstack[t]
                          live == stale[t] + 1 .. Len(c)
                      IN  /\ {c[i] : i \in live} = TryFrames(t)
                          /\ \A i, j \in live : i < j => c[i] < c[j]
    BY DEF CatchesMatch
  <2> DEFINE c == catchstack[t]
             s == stale[t]
             q == rs[t]
             w == tries[t]
             n == Known(t)
             live == s + 1 .. Len(c)
  <2>1. /\ c \in Seq(Nat) /\ s \in Nat /\ q \in Seq(Frame) /\ Len(w) \in Nat
        /\ DOMAIN q = 1..Len(q) /\ Len(q) \in Nat /\ Len(c) \in Nat
    BY DEF Inv, Types, TypeOK
  <2>2. /\ s + Len(w) = Len(c) /\ Placed(c, s, q, n, w)
        /\ Ordered(c, s, w) /\ Complete(c, s, q, n, w)
    BY DEF Inv, Tries, Matched, Counted
  <2>3. TryFrames(t) = {k \in 1..n : q[k].fn \in Fns}
    <3>1. CASE pc[t] \in {"caught", "stored"}
      <4>1. n = Len(q) - 1 /\ Depth(t) = Len(q)
        BY <3>1 DEF Known, Depth
      <4>2. \A k : k \in 1..n <=> k \in 1..Len(q) /\ k # Len(q)
        BY <4>1, <2>1
      <4> QED
        BY <3>1, <4>1, <4>2, <2>1 DEF TryFrames, Fns
    <3>2. CASE pc[t] \notin {"caught", "stored"}
      BY <3>2, <2>1 DEF TryFrames, Fns, Known
    <3> QED
      BY <3>1, <3>2
  <2>4. /\ \A i \in live : i - s \in 1..Len(w) /\ s + (i - s) = i
        /\ \A i \in 1..Len(w) : s + i \in live
    <3> DEFINE m == Len(w)
               l == Len(c)
    <3>1. s \in Nat /\ m \in Nat /\ l \in Nat /\ s + m = l
      BY <2>1, <2>2
    <3> HIDE DEF c, s, w, m, l
    <3>2. /\ \A i \in s + 1 .. l : i - s \in 1..m /\ s + (i - s) = i
          /\ \A i \in 1..m : s + i \in s + 1 .. l
      BY <3>1
    <3> QED
      BY <3>2 DEF m, l
  <2> HIDE DEF c, s, q, w, n, live
  <2>5. ASSUME NEW i \in live PROVE c[i] \in TryFrames(t)
    <3>1. i - s \in 1..Len(w) /\ s + (i - s) = i
      BY <2>4
    <3>2. c[s + (i - s)] \in 1..n /\ q[c[s + (i - s)]].fn \in Fns
      BY <3>1, <2>2 DEF Placed
    <3> QED
      BY <3>1, <3>2, <2>3
  <2>6. ASSUME NEW k \in TryFrames(t) PROVE \E i \in live : c[i] = k
    <3>1. PICK i \in 1..Len(w) : c[s + i] = k
      BY <2>2, <2>3 DEF Complete
    <3> QED
      BY <3>1, <2>4
  <2>7. ASSUME NEW i \in live, NEW j \in live, i < j PROVE c[i] < c[j]
    <3>1. i - s \in 1..Len(w) /\ s + (i - s) = i /\ j - s \in 1..Len(w) /\ s + (j - s) = j
      BY <2>4
    <3>2. i - s < j - s
      BY <2>1, <2>7 DEF live
    <3>3. c[s + (i - s)] < c[s + (j - s)]
      BY <3>1, <3>2, <2>2 DEF Ordered
    <3> QED
      BY <3>1, <3>3
  <2>8. {c[i] : i \in live} = TryFrames(t)
    BY <2>5, <2>6
  <2> QED
    BY <2>7, <2>8 DEF c, live, s
<1> QED
  BY <1>1, Invariance, PTL

\* The handler of a recover is given the data stack that the recover has found,
\* and the error that was thrown, unless another thread is in recover too.
THEOREM RecoverKeepsItsPromise == Spec => []RecoverRestores
<1>1. Inv => RecoverRestores
  BY DEF Inv, Promise, RecoverRestores
<1> QED
  BY <1>1, Invariance, PTL

----------------------------------------------------------------------------
(* Where scopes are on a return stack.                                     *)

Places(q) == {i \in 1..Len(q) : Scoped(q[i])}
OnlyFirstIsBase(q) == \A i \in 1..Len(q) : q[i].fn = "base" => i = 1

LEMMA PlacesAppend ==
    ASSUME NEW q \in Seq(Frame), NEW g \in Frame, q # <<>>, g.fn # "base"
    PROVE  /\ Places(Append(q, g)) =
                IF Scoped(g) THEN Places(q) \cup {Len(q) + 1} ELSE Places(q)
           /\ Len(q) + 1 \notin Places(q)
           /\ OnlyFirstIsBase(q) => OnlyFirstIsBase(Append(q, g))
<1> DEFINE h == Append(q, g)
<1>1. /\ Len(q) \in Nat /\ Len(h) = Len(q) + 1 /\ h[Len(q) + 1] = g
      /\ \A i \in 1..Len(q) : h[i] = q[i]
  BY AppendIs
<1> HIDE DEF h
<1>2. \A i : i \in 1..Len(q) + 1 <=> i \in 1..Len(q) \/ i = Len(q) + 1
  BY <1>1
<1>3. Len(q) + 1 \notin 1..Len(q)
  BY <1>1
<1>4. Places(h) = IF Scoped(g) THEN Places(q) \cup {Len(q) + 1} ELSE Places(q)
  BY <1>1, <1>2, <1>3 DEF Places
<1>5. OnlyFirstIsBase(q) => OnlyFirstIsBase(h)
  BY <1>1, <1>2 DEF OnlyFirstIsBase
<1> QED
  BY <1>3, <1>4, <1>5 DEF h, Places

LEMMA PlacesFront ==
    ASSUME NEW q \in Seq(Frame), q # <<>>
    PROVE  /\ Places(Front(q)) = Places(q) \ {Len(q)}
           /\ Len(q) \in Places(q) <=> Scoped(Last(q))
           /\ OnlyFirstIsBase(q) => OnlyFirstIsBase(Front(q))
<1> DEFINE h == Front(q)
<1>1. /\ Len(q) \in Nat /\ Len(q) >= 1 /\ Len(h) = Len(q) - 1
      /\ \A i \in 1..Len(q) - 1 : h[i] = q[i]
  BY FrontIs
<1> HIDE DEF h
<1>2. \A i : i \in 1..Len(q) - 1 <=> i \in 1..Len(q) /\ i # Len(q)
  BY <1>1
<1>3. Len(q) \in 1..Len(q)
  BY <1>1
<1>4. Places(h) = Places(q) \ {Len(q)}
  BY <1>1, <1>2 DEF Places
<1>5. OnlyFirstIsBase(q) => OnlyFirstIsBase(h)
  BY <1>1, <1>2 DEF OnlyFirstIsBase
<1> QED
  BY <1>3, <1>4, <1>5 DEF h, Places, Last

LEMMA PlacesCut ==
    ASSUME NEW q \in Seq(Frame), NEW n \in 1..Len(q)
    PROVE  /\ Places(SubSeq(q, 1, n)) = {i \in Places(q) : ~(i > n)}
           /\ OnlyFirstIsBase(q) => OnlyFirstIsBase(SubSeq(q, 1, n))
<1> DEFINE h == SubSeq(q, 1, n)
<1>1. Len(h) = n /\ \A i \in 1..n : h[i] = q[i]
  BY CutIs
<1> HIDE DEF h
<1>2. Len(q) \in Nat
  OBVIOUS
<1>3. \A i : i \in 1..n <=> i \in 1..Len(q) /\ ~(i > n)
  BY <1>2
<1>4. Places(h) = {i \in Places(q) : ~(i > n)}
  BY <1>1, <1>3 DEF Places
<1>5. OnlyFirstIsBase(q) => OnlyFirstIsBase(h)
  BY <1>1, <1>3 DEF OnlyFirstIsBase
<1> QED
  BY <1>4, <1>5 DEF h

\* A handler takes the place of a try.
LEMMA PlacesReplace ==
    ASSUME NEW q \in Seq(Frame), NEW g \in Frame, Len(q) >= 1,
           ~Scoped(Last(q)), ~Scoped(g), g.fn # "base"
    PROVE  /\ Places(Append(Front(q), g)) = Places(q)
           /\ OnlyFirstIsBase(q) => OnlyFirstIsBase(Append(Front(q), g))
<1> DEFINE f == Front(q)
           h == Append(f, g)
<1>1. q # <<>>
  OBVIOUS
<1>2. /\ Len(q) \in Nat /\ Len(q) >= 1 /\ Len(f) = Len(q) - 1 /\ f \in Seq(Frame)
      /\ \A i \in 1..Len(q) - 1 : f[i] = q[i]
  BY <1>1, FrontIs
<1>3. Len(h) = Len(f) + 1 /\ h[Len(f) + 1] = g /\ \A i \in 1..Len(f) : h[i] = f[i]
  BY <1>2, AppendIs
<1> HIDE DEF h, f
<1>4. Len(f) + 1 = Len(q)
  BY <1>2
<1>5. Len(h) = Len(q) /\ h[Len(q)] = g /\ \A i \in 1..Len(q) - 1 : h[i] = q[i]
  BY <1>2, <1>3, <1>4
<1>6. \A i : i \in 1..Len(q) <=> i \in 1..Len(q) - 1 \/ i = Len(q)
  BY <1>2
<1>7. Places(h) = Places(q)
  BY <1>5, <1>6 DEF Places, Last
<1>8. OnlyFirstIsBase(q) => OnlyFirstIsBase(h)
  BY <1>5, <1>6 DEF OnlyFirstIsBase
<1> QED
  BY <1>7, <1>8 DEF h, f

----------------------------------------------------------------------------
(* The scopes of a thread, and of all threads.                             *)

\* A thread's scopes that are there or whose end was cut off, as pairs.
Mine(t) == IF pc[t] = "gone" THEN {} ELSE OpenScopes(t)
Pairs(t, A) == {<<t, i>> : i \in A}
There == UNION {{<<t, i>> : i \in OpenScopes(t)} : t \in {u \in Threads : pc[u] # "gone"}}

LEMMA MineIs ==
    ASSUME NEW t \in Threads, TypeOK
    PROVE  /\ Mine(t) = IF pc[t] = "gone" THEN {}
                        ELSE IF pc[t] = "push" THEN Places(rs[t]) \ {Len(rs[t])}
                        ELSE Places(rs[t])
           /\ Mine(t) \subseteq Places(rs[t]) /\ Mine(t) \subseteq 1..Len(rs[t])
           /\ IsFiniteSet(Mine(t)) /\ Cardinality(Mine(t)) \in Nat
<1>1. rs[t] \in Seq(Frame) /\ DOMAIN rs[t] = 1..Len(rs[t]) /\ Len(rs[t]) \in Nat
  BY DEF TypeOK
<1>2. Mine(t) = IF pc[t] = "gone" THEN {}
                ELSE IF pc[t] = "push" THEN Places(rs[t]) \ {Len(rs[t])}
                ELSE Places(rs[t])
  BY <1>1 DEF Mine, OpenScopes, Places, Depth
<1>3. Mine(t) \subseteq Places(rs[t]) /\ Mine(t) \subseteq 1..Len(rs[t])
  BY <1>2 DEF Places
<1>4. IsFiniteSet(1..Len(rs[t]))
  BY <1>1, FS_Interval
<1> QED
  BY <1>2, <1>3, <1>4, FS_Subset, FS_CardinalityType

LEMMA MinesFinite ==
    TypeOK => \A t \in Threads : IsFiniteSet(Mine(t)) /\ Cardinality(Mine(t)) \in Nat
BY MineIs

LEMMA MinesFiniteNext ==
    TypeOK' => \A t \in Threads : IsFiniteSet(Mine(t)') /\ Cardinality(Mine(t)') \in Nat
<1>1. TypeOK' => (\A t \in Threads : IsFiniteSet(Mine(t)) /\ Cardinality(Mine(t)) \in Nat)'
  BY MinesFinite, PTL
<1> QED
  BY <1>1

LEMMA PairsCounted ==
    ASSUME NEW t, NEW A, IsFiniteSet(A)
    PROVE  IsFiniteSet(Pairs(t, A)) /\ Cardinality(Pairs(t, A)) = Cardinality(A)
<1> DEFINE f == [i \in A |-> <<t, i>>]
<1>1. f \in Bijection(A, Pairs(t, A))
  <2>1. f \in [A -> Pairs(t, A)]
    BY DEF Pairs
  <2>2. \A i, j \in A : f[i] = f[j] => i = j
    OBVIOUS
  <2>3. \A p \in Pairs(t, A) : \E i \in A : f[i] = p
    BY DEF Pairs
  <2> QED
    BY <2>1, <2>2, <2>3 DEF Bijection, Injection, Surjection, IsInjective
<1>2. ExistsBijection(A, Pairs(t, A))
  BY <1>1 DEF ExistsBijection
<1> QED
  BY <1>2, FS_Bijection

\* What a step of thread t leaves to the others, as far as scopes are concerned.
Untouched(t) ==
    \A u \in Threads \ {t} : pc'[u] = pc[u] /\ rs'[u] = rs[u] /\ seen'[u] = seen[u]

\* Then the number of scopes changes as that of thread t does.
LEMMA Counting ==
    ASSUME TypeOK, TypeOK', NEW t \in Threads, Untouched(t), IsFiniteSet(There)
    PROVE  /\ IsFiniteSet(There') /\ Cardinality(There) \in Nat /\ Cardinality(There') \in Nat
           /\ Cardinality(There') + Cardinality(Mine(t))
                = Cardinality(There) + Cardinality(Mine(t)')
<1> DEFINE R == UNION {Pairs(u, Mine(u)) : u \in Threads \ {t}}
           A == Mine(t)
           B == Mine(t)'
<1>1. \A u \in Threads \ {t} : Mine(u)' = Mine(u)
  BY DEF Mine, OpenScopes, Depth, Untouched
<1>2. There = UNION {Pairs(u, Mine(u)) : u \in Threads}
  BY DEF There, Mine, Pairs
<1>3. There' = UNION {Pairs(u, Mine(u)') : u \in Threads}
  BY DEF There, Mine, Pairs
<1>4. There = R \cup Pairs(t, A)
  BY <1>2
<1>5. There' = R \cup Pairs(t, B)
  BY <1>1, <1>3
<1>6. R \cap Pairs(t, A) = {} /\ R \cap Pairs(t, B) = {}
  BY DEF Pairs
<1>7. IsFiniteSet(A) /\ IsFiniteSet(B) /\ Cardinality(A) \in Nat /\ Cardinality(B) \in Nat
  BY MinesFinite, MinesFiniteNext
<1> HIDE DEF R, A, B
<1>8. R \subseteq There
  BY <1>4
<1>9. IsFiniteSet(R) /\ Cardinality(R) \in Nat
  BY <1>8, FS_Subset, FS_CardinalityType
<1>10. \A X : IsFiniteSet(X) /\ R \cap Pairs(t, X) = {} =>
         /\ IsFiniteSet(R \cup Pairs(t, X))
         /\ Cardinality(R \cup Pairs(t, X)) = Cardinality(R) + Cardinality(X)
  <2> SUFFICES ASSUME NEW X, IsFiniteSet(X), R \cap Pairs(t, X) = {}
               PROVE  /\ IsFiniteSet(R \cup Pairs(t, X))
                      /\ Cardinality(R \cup Pairs(t, X)) = Cardinality(R) + Cardinality(X)
    OBVIOUS
  <2> DEFINE P == Pairs(t, X)
  <2>1. IsFiniteSet(P) /\ Cardinality(P) = Cardinality(X) /\ Cardinality(X) \in Nat
    BY PairsCounted, FS_CardinalityType
  <2>2. R \cap P = {}
    OBVIOUS
  <2> HIDE DEF P
  <2>3. /\ IsFiniteSet(R \cup P)
        /\ Cardinality(R \cup P) = Cardinality(R) + Cardinality(P) - 0
    BY <1>9, <2>1, <2>2, FS_Union, FS_EmptySet
  <2>4. Cardinality(R) + Cardinality(X) - 0 = Cardinality(R) + Cardinality(X)
    BY <1>9, <2>1
  <2> QED
    BY <2>1, <2>3, <2>4 DEF P
<1>11. /\ IsFiniteSet(There') /\ Cardinality(There) = Cardinality(R) + Cardinality(A)
       /\ Cardinality(There') = Cardinality(R) + Cardinality(B)
  BY <1>4, <1>5, <1>6, <1>7, <1>10
<1> QED
  BY <1>7, <1>9, <1>11 DEF A, B

----------------------------------------------------------------------------
(* What holds of the scopes, step by step.                                 *)

Undisturbed == upset \cap {"torn", "cut"} = {}
Running == \E t \in Threads : Alive(t)

\* On the dynamic scope, above the first, are the scopes of thread t, in order.
Stacked(t) ==
    /\ \A k \in 2..length : \E i \in Mine(t) : data[k] = <<t, i>>
    /\ \A i \in Mine(t) : \E k \in 2..length : data[k] = <<t, i>>
    /\ \A k, m \in 2..length : k < m => data[k][2] < data[m][2]

BaseIsFirst == \A t \in Threads : Alive(t) => OnlyFirstIsBase(rs[t])
SeenIsLength == Undisturbed => \A t \in Threads : pc[t] \in {"push", "pop"} => seen[t] = length
OneHasScopes ==
    upset = {} => \A t, u \in Threads : Places(rs[t]) # {} /\ Places(rs[u]) # {} => t = u
Count == Undisturbed /\ Running => IsFiniteSet(There) /\ length = 1 + leaked + Cardinality(There)
Nest == upset = {} /\ leaked = 0 /\ Running => \A t \in Threads : Mine(t) # {} => Stacked(t)

Scopes == BaseIsFirst /\ SeenIsLength /\ OneHasScopes /\ Count /\ Nest

LEMMA InitScopes == Init => Scopes
<1> SUFFICES ASSUME Init PROVE Scopes
  OBVIOUS
<1>1. \A t \in Threads : rs[t] = <<Base>> /\ Len(rs[t]) = 1 /\ pc[t] = "run"
  BY DEF Init
<1>2. ~Scoped(Base)
  BY DEF Base, Run, Scoped
<1>3. \A t \in Threads : Places(rs[t]) = {} /\ OnlyFirstIsBase(rs[t])
  <2>1. \A i : i \in 1..1 => i = 1
    OBVIOUS
  <2> QED
    BY <1>1, <1>2, <2>1 DEF Places, OnlyFirstIsBase
<1>4. TypeOK
  BY InitInv DEF Inv, Types
<1>5. \A t \in Threads : Mine(t) = {}
  BY <1>3, <1>4, MineIs
<1>6. There = {}
  BY <1>5 DEF There, Mine
<1>7. IsFiniteSet(There) /\ Cardinality(There) = 0
  BY <1>6, FS_EmptySet
<1>8. length = 1 /\ leaked = 0
  BY DEF Init
<1> QED
  BY <1>1, <1>3, <1>5, <1>7, <1>8
     DEF Scopes, BaseIsFirst, SeenIsLength, OneHasScopes, Count, Nest

\* Each part of it, when thread t makes a step.

LEMMA BaseStep ==
    ASSUME Scopes, NEW t \in Threads, Untouched(t), Alive(t)' => OnlyFirstIsBase(rs'[t])
    PROVE  BaseIsFirst'
BY DEF Scopes, BaseIsFirst, Untouched, Alive

LEMMA SeenStep ==
    ASSUME Scopes, NEW t \in Threads, Untouched(t), upset \subseteq upset', length' = length,
           pc'[t] \in {"push", "pop"} => seen'[t] = length
    PROVE  SeenIsLength'
BY DEF Scopes, SeenIsLength, Untouched, Undisturbed

LEMMA OneStep ==
    ASSUME Scopes, NEW t \in Threads, Untouched(t), upset \subseteq upset',
           upset' = {} /\ Places(rs'[t]) # {} =>
             Places(rs[t]) # {} \/ \A u \in Threads \ {t} : Places(rs[u]) = {}
    PROVE  OneHasScopes'
BY DEF Scopes, OneHasScopes, Untouched, Places

LEMMA CountStep ==
    ASSUME TypeOK, TypeOK', Scopes, NEW t \in Threads, Untouched(t), upset \subseteq upset',
           Alive(t),
           Undisturbed /\ Undisturbed' =>
             length' + leaked + Cardinality(Mine(t))
               = length + leaked' + Cardinality(Mine(t)')
    PROVE  Count'
<1> SUFFICES ASSUME Undisturbed'
             PROVE  IsFiniteSet(There') /\ length' = 1 + leaked' + Cardinality(There')
  BY DEF Count
<1>1. Undisturbed /\ Running
  BY DEF Undisturbed, Running
<1>2. IsFiniteSet(There) /\ length = 1 + leaked + Cardinality(There)
  BY <1>1 DEF Scopes, Count
<1>3. /\ IsFiniteSet(There') /\ Cardinality(There) \in Nat /\ Cardinality(There') \in Nat
      /\ Cardinality(There') + Cardinality(Mine(t)) = Cardinality(There) + Cardinality(Mine(t)')
  BY <1>2, Counting
<1>4. Cardinality(Mine(t)) \in Nat /\ Cardinality(Mine(t)') \in Nat
  BY MinesFinite, MinesFiniteNext
<1>5. length \in Int /\ length' \in Int /\ leaked \in Nat /\ leaked' \in Nat
  BY PlansAssumption DEF TypeOK
<1> QED
  BY <1>1, <1>2, <1>3, <1>4, <1>5

LEMMA NestStep ==
    ASSUME TypeOK, TypeOK', Scopes, NEW t \in Threads, Untouched(t), upset \subseteq upset',
           Alive(t), length' = length, data' = data,
           leaked' = 0 => leaked = 0 /\ Mine(t)' = Mine(t)
    PROVE  Nest'
<1> SUFFICES ASSUME upset' = {}, leaked' = 0, NEW u \in Threads, Mine(u)' # {}
             PROVE  Stacked(u)'
  BY DEF Nest
<1>1. Mine(u)' = Mine(u)
  BY DEF Mine, OpenScopes, Depth, Untouched
<1>2. upset = {} /\ leaked = 0 /\ Running
  BY DEF Running
<1>3. Stacked(u)
  BY <1>1, <1>2 DEF Scopes, Nest
<1> QED
  BY <1>1, <1>3 DEF Stacked

\* A step that opens no scope and closes none, but may cut off some.
LEMMA QuietStep ==
    ASSUME TypeOK, TypeOK', Scopes, NEW t \in Threads, Untouched(t), upset \subseteq upset',
           Alive(t), length' = length, data' = data,
           Alive(t)' => OnlyFirstIsBase(rs'[t]),
           pc'[t] \in {"push", "pop"} => seen'[t] = length,
           upset' = {} /\ Places(rs'[t]) # {} =>
             Places(rs[t]) # {} \/ \A u \in Threads \ {t} : Places(rs[u]) = {},
           leaked' + Cardinality(Mine(t)') = leaked + Cardinality(Mine(t)),
           leaked' = 0 => leaked = 0 /\ Mine(t)' = Mine(t)
    PROVE  Scopes'
<1>1. BaseIsFirst' /\ SeenIsLength' /\ OneHasScopes' /\ Nest'
  BY BaseStep, SeenStep, OneStep, NestStep
<1>2. Count'
  <2>1. Cardinality(Mine(t)) \in Nat /\ Cardinality(Mine(t)') \in Nat
    BY MinesFinite, MinesFiniteNext
  <2>2. length \in Int /\ length' \in Int /\ leaked \in Nat /\ leaked' \in Nat
    BY PlansAssumption DEF TypeOK
  <2>3. length' + leaked + Cardinality(Mine(t)) = length + leaked' + Cardinality(Mine(t)')
    BY <2>1, <2>2
  <2> QED
    BY <2>3, CountStep
<1> QED
  BY <1>1, <1>2 DEF Scopes

\* Tries and handlers come and go, and the scopes are as they were.
LEMMA FrameStep ==
    ASSUME TypeOK, TypeOK', Scopes, NEW t \in Threads, Untouched(t), upset' = upset,
           length' = length, data' = data, leaked' = leaked,
           Alive(t), pc[t] # "push", pc'[t] \notin {"push", "pop", "gone"},
           Places(rs'[t]) = Places(rs[t]),
           OnlyFirstIsBase(rs[t]) => OnlyFirstIsBase(rs'[t])
    PROVE  Scopes'
<1>1. Mine(t) = Places(rs[t])
  BY MineIs DEF Alive
<1>2. Mine(t)' = Places(rs'[t])
  <2>1. rs'[t] \in Seq(Frame) /\ DOMAIN rs'[t] = 1..Len(rs'[t])
    BY DEF TypeOK
  <2> QED
    BY <2>1 DEF Mine, OpenScopes, Places, Depth
<1>3. OnlyFirstIsBase(rs'[t])
  BY DEF Scopes, BaseIsFirst
<1> QED
  BY <1>1, <1>2, <1>3, QuietStep

----------------------------------------------------------------------------
(* Every step keeps it.                                                    *)

\* What a step of a thread that runs can rely on.
LEMMA GivenScopes ==
    ASSUME Inv, Inv', Scopes, NEW t \in Threads, Alive(t)
    PROVE  /\ TypeOK /\ TypeOK' /\ rs[t] \in Seq(Frame) /\ rs[t] # <<>>
           /\ Len(rs[t]) \in Nat /\ Len(rs[t]) >= 1 /\ Top(t) = rs[t][Len(rs[t])]
           /\ Top(t) \in Frame /\ Top(t) = Last(rs[t]) /\ OnlyFirstIsBase(rs[t])
           /\ pc[t] \in {"push", "set", "pop"} => Scoped(Top(t))
           /\ pc[t] \in {"caught", "stored"} => Top(t).fn \in Fns
           /\ \A f : f.fn \in {"base", "catch", "recover", "handler"} => ~Scoped(f)
<1>1. TypeOK /\ TypeOK' /\ rs[t] \in Seq(Frame) /\ rs[t] # <<>>
  BY DEF Inv, Types, TypeOK, Tries
<1>2. Len(rs[t]) \in Nat /\ Len(rs[t]) >= 1
  BY <1>1
<1>3. Top(t) = rs[t][Len(rs[t])] /\ Top(t) = Last(rs[t])
  BY DEF Top, Last
<1>4. Top(t) \in Frame
  <2>1. \A q \in Seq(Frame) : q # <<>> => q[Len(q)] \in Frame
    OBVIOUS
  <2> QED
    BY <1>1, <1>3, <2>1
<1> QED
  BY <1>1, <1>2, <1>3, <1>4 DEF Inv, Tries, Promise, Scopes, BaseIsFirst, Scoped

LEMMA PushScopes ==
    ASSUME Inv, Inv', Scopes, NEW t \in Threads, Push(t) \/ Drop(t) PROVE Scopes'
<1>1. /\ UNCHANGED <<pc, rs, scopeVars, leaked, upset>> /\ pc[t] = "run"
  BY DEF Push, Drop, UserCode
<1> QED
  BY <1>1, GivenScopes, FrameStep DEF Alive, Untouched, scopeVars

LEMMA EnterCatchScopes ==
    ASSUME Inv, Inv', Scopes, NEW t \in Threads, NEW g \in Frame, EnterCatch(t, g),
           g.fn \in Fns, pc[t] \in {"run", "set"}, pc' = [pc EXCEPT ![t] = "run"],
           UNCHANGED <<scopeVars, upset>>
    PROVE  Scopes'
<1>1. rs' = [rs EXCEPT ![t] = Append(rs[t], g)] /\ leaked' = leaked /\ Alive(t)
  BY DEF EnterCatch, Frames, Alive
<1>2. TypeOK /\ TypeOK' /\ rs[t] \in Seq(Frame) /\ rs[t] # <<>> /\ ~Scoped(g) /\ g.fn # "base"
  BY <1>1, GivenScopes DEF Fns
<1>3. rs'[t] = Append(rs[t], g) /\ pc'[t] = "run" /\ Untouched(t)
  BY <1>1, <1>2 DEF TypeOK, Untouched, scopeVars
<1>4. /\ Places(rs'[t]) = Places(rs[t])
      /\ OnlyFirstIsBase(rs[t]) => OnlyFirstIsBase(rs'[t])
  BY <1>2, <1>3, PlacesAppend
<1> QED
  BY <1>1, <1>2, <1>3, <1>4, FrameStep DEF scopeVars

LEMMA RecoverScopes ==
    ASSUME Inv, Inv', Scopes, NEW t \in Threads, Recover(t) \/ Query(t) PROVE Scopes'
<1>1. PICK g \in {Run("recover", ds[t], "user"), Run("catch", <<>>, "do_error")} :
        /\ EnterCatch(t, g) /\ pc[t] = "run" /\ pc' = pc /\ UNCHANGED <<scopeVars, upset>>
  BY DEF Recover, Query, UserCode, AtPrompt
<1>2. g \in Frame /\ g.fn \in Fns
  <2>1. ds[t] \in Seq(Errors)
    BY Given
  <2>2. CASE g = Run("recover", ds[t], "user")
    BY <2>1, <2>2 DEF Run, Frame, Fns
  <2>3. CASE g = Run("catch", <<>>, "do_error")
    BY <2>3 DEF Run, Frame, Fns
  <2> QED
    BY <2>2, <2>3
<1>3. pc' = [pc EXCEPT ![t] = "run"]
  BY <1>1, Given DEF TypeOK
<1> QED
  BY <1>1, <1>2, <1>3, EnterCatchScopes

LEMMA LeaveScopes ==
    ASSUME Inv, Inv', Scopes, NEW t \in Threads, LeaveCatch(t) \/ LeaveHandler(t)
    PROVE  Scopes'
<1>1. /\ rs' = [rs EXCEPT ![t] = Front(rs[t])] /\ UNCHANGED <<pc, scopeVars, leaked, upset>>
      /\ pc[t] = "run" /\ Top(t).fn \in {"catch", "recover", "handler"} /\ Alive(t)
  BY DEF LeaveCatch, LeaveHandler, UserCode, Frames, Alive
<1>2. /\ TypeOK /\ TypeOK' /\ rs[t] \in Seq(Frame) /\ rs[t] # <<>>
      /\ ~Scoped(Last(rs[t]))
  BY <1>1, GivenScopes
<1>3. rs'[t] = Front(rs[t]) /\ Untouched(t)
  BY <1>1, <1>2 DEF TypeOK, Untouched, scopeVars
<1>4. /\ Places(rs'[t]) = Places(rs[t])
      /\ OnlyFirstIsBase(rs[t]) => OnlyFirstIsBase(rs'[t])
  BY <1>2, <1>3, PlacesFront
<1> QED
  BY <1>1, <1>2, <1>3, <1>4, FrameStep DEF scopeVars

LEMMA CaughtScopes ==
    ASSUME Inv, Inv', Scopes, NEW t \in Threads, Caught(t) \/ Handle(t) PROVE Scopes'
<1> DEFINE g == Run("handler", <<>>, Top(t).by)
<1>1. /\ pc[t] \in {"caught", "stored"} /\ UNCHANGED <<scopeVars, leaked, upset>>
      /\ \/ pc' = [pc EXCEPT ![t] = "stored"] /\ rs' = rs
         \/ /\ pc' = [pc EXCEPT ![t] = "run"]
            /\ rs' = [rs EXCEPT ![t] = Append(Front(rs[t]), g)]
  BY DEF Caught, Handle, Goto, Frames
<1>2. Alive(t)
  BY <1>1 DEF Alive
<1>3. /\ TypeOK /\ TypeOK' /\ rs[t] \in Seq(Frame) /\ Len(rs[t]) >= 1
      /\ Top(t) = Last(rs[t]) /\ Top(t) \in Frame /\ Top(t).fn \in Fns
  BY <1>1, <1>2, GivenScopes
<1>4. g \in Frame /\ g.fn = "handler" /\ ~Scoped(g) /\ ~Scoped(Last(rs[t]))
  BY <1>3 DEF Run, Frame, Scoped, Fns
<1> HIDE DEF g
<1>5. /\ Untouched(t) /\ pc'[t] \in {"run", "stored"}
      /\ rs'[t] = rs[t] \/ rs'[t] = Append(Front(rs[t]), g)
  BY <1>1, <1>3 DEF TypeOK, Untouched, scopeVars
<1>6. /\ Places(Append(Front(rs[t]), g)) = Places(rs[t])
      /\ OnlyFirstIsBase(rs[t]) => OnlyFirstIsBase(Append(Front(rs[t]), g))
  BY <1>3, <1>4, PlacesReplace
<1>7. /\ Places(rs'[t]) = Places(rs[t])
      /\ OnlyFirstIsBase(rs[t]) => OnlyFirstIsBase(rs'[t])
  BY <1>5, <1>6
<1> QED
  BY <1>1, <1>2, <1>3, <1>5, <1>7, FrameStep DEF scopeVars

LEMMA EndScopeScopes ==
    ASSUME Inv, Inv', Scopes, NEW t \in Threads, EndScope(t) PROVE Scopes'
<1>1. /\ pc' = [pc EXCEPT ![t] = "pop"] /\ seen' = [seen EXCEPT ![t] = length]
      /\ UNCHANGED <<rs, length, data, leaked, upset>> /\ pc[t] = "run" /\ Alive(t)
  BY DEF EndScope, Goto, Alive
<1>2. TypeOK /\ TypeOK' /\ OnlyFirstIsBase(rs[t])
  BY <1>1, GivenScopes
<1>3. Untouched(t) /\ pc'[t] = "pop" /\ seen'[t] = length /\ rs'[t] = rs[t]
  BY <1>1, <1>2 DEF TypeOK, Untouched
<1>4. Mine(t)' = Mine(t)
  BY <1>1, <1>3 DEF Mine, OpenScopes, Depth
<1> QED
  BY <1>1, <1>2, <1>3, <1>4, QuietStep

LEMMA BeginScopeScopes ==
    ASSUME Inv, Inv', Scopes, NEW t \in Threads, NEW fn \in {"scope", "evaluate"},
           BeginScope(t, fn), pc[t] = "run"
    PROVE  Scopes'
<1> DEFINE g == Run(fn, <<>>, "user")
           Shared == \E u \in Threads \ {t} : \E i \in DOMAIN rs[u] : Scoped(rs[u][i])
<1>1. /\ rs' = [rs EXCEPT ![t] = Append(rs[t], g)] /\ pc' = [pc EXCEPT ![t] = "push"]
      /\ seen' = [seen EXCEPT ![t] = length] /\ UNCHANGED <<length, data, leaked>>
      /\ upset' = upset \cup (IF Shared THEN {"shared"} ELSE {}) /\ Alive(t)
  BY DEF BeginScope, Frames, Goto, Alive
<1>2. /\ TypeOK /\ TypeOK' /\ OnlyFirstIsBase(rs[t]) /\ rs[t] \in Seq(Frame) /\ rs[t] # <<>>
      /\ Len(rs[t]) \in Nat
  BY <1>1, GivenScopes
<1>3. g \in Frame /\ Scoped(g) /\ g.fn # "base"
  BY DEF Run, Frame, Scoped
<1> HIDE DEF g
<1>4. Untouched(t) /\ pc'[t] = "push" /\ seen'[t] = length /\ rs'[t] = Append(rs[t], g)
  BY <1>1, <1>2 DEF TypeOK, Untouched
<1>5. /\ Places(rs'[t]) = Places(rs[t]) \cup {Len(rs[t]) + 1}
      /\ Len(rs[t]) + 1 \notin Places(rs[t]) /\ OnlyFirstIsBase(rs'[t])
      /\ Len(rs'[t]) = Len(rs[t]) + 1 /\ rs'[t] \in Seq(Frame)
  BY <1>2, <1>3, <1>4, PlacesAppend, AppendIs
<1>6. Mine(t) = Places(rs[t])
  BY <1>2, MineIs
<1>7. Mine(t)' = Places(rs'[t]) \ {Len(rs'[t])}
  <2>1. DOMAIN rs'[t] = 1..Len(rs'[t])
    BY <1>5
  <2> QED
    BY <1>4, <2>1 DEF Mine, OpenScopes, Places, Depth
<1>8. Mine(t)' = Mine(t)
  BY <1>5, <1>6, <1>7
<1>9. upset' = {} => \A u \in Threads \ {t} : Places(rs[u]) = {}
  <2>1. \A u \in Threads : DOMAIN rs[u] = 1..Len(rs[u])
    BY <1>2 DEF TypeOK
  <2>2. ~Shared => \A u \in Threads \ {t} : Places(rs[u]) = {}
    BY <2>1 DEF Places
  <2> QED
    BY <1>1, <2>2
<1> QED
  BY <1>1, <1>2, <1>4, <1>5, <1>8, <1>9, QuietStep

LEMMA FinishScopes ==
    ASSUME Inv, Inv', Scopes, NEW t \in Threads, Finish(t) PROVE Scopes'
<1>1. /\ pc' = [pc EXCEPT ![t] = "gone"] /\ rs' = [rs EXCEPT ![t] = <<>>]
      /\ UNCHANGED <<scopeVars, leaked, upset>> /\ pc[t] = "run" /\ Top(t).fn = "base"
      /\ Alive(t)
  BY DEF Finish, UserCode, Goto, Frames, Alive
<1>2. /\ TypeOK /\ TypeOK' /\ Len(rs[t]) \in Nat /\ Len(rs[t]) >= 1
      /\ Top(t) = rs[t][Len(rs[t])] /\ OnlyFirstIsBase(rs[t]) /\ ~Scoped(Top(t))
  BY <1>1, GivenScopes
<1>3. Untouched(t) /\ pc'[t] = "gone" /\ rs'[t] = <<>>
  BY <1>1, <1>2 DEF TypeOK, Untouched, scopeVars
<1>4. Places(rs[t]) = {}
  <2>1. Len(rs[t]) = 1
    <3>1. Len(rs[t]) \in 1..Len(rs[t]) /\ rs[t][Len(rs[t])].fn = "base"
      BY <1>1, <1>2
    <3> QED
      BY <1>2, <3>1 DEF OnlyFirstIsBase
  <2>2. \A i : i \in 1..1 => i = 1
    OBVIOUS
  <2> QED
    BY <1>2, <2>1, <2>2 DEF Places
<1>5. Mine(t) = {} /\ Mine(t)' = {}
  <2>1. Mine(t) \subseteq Places(rs[t])
    BY <1>2, MineIs
  <2> QED
    BY <1>3, <1>4, <2>1 DEF Mine
<1>6. Places(rs'[t]) = {} /\ ~Alive(t)'
  BY <1>3 DEF Places, Alive
<1> QED
  BY <1>1, <1>2, <1>3, <1>5, <1>6, QuietStep DEF scopeVars

\* A throw cuts off the scopes above the try, and leaves them on the dynamic scope.
LEMMA ThrowScopes ==
    ASSUME Inv, Inv', Scopes, NEW t \in Threads, NEW e, Throw(t, e), Alive(t),
           pc[t] # "push", upset \subseteq upset'
    PROVE  Scopes'
<1> DEFINE c == catchstack[t]
           at == Last(c)
<1>1. /\ TypeOK /\ TypeOK' /\ OnlyFirstIsBase(rs[t]) /\ rs[t] \in Seq(Frame)
      /\ Len(rs[t]) \in Nat
  BY GivenScopes
<1>2. length' = length /\ data' = data /\ seen' = seen
  BY DEF Throw
<1>3. Mine(t) = Places(rs[t])
  BY <1>1, MineIs DEF Alive
<1>4. CASE c = <<>>
  <2>1. pc' = [u \in Threads |-> "gone"] /\ rs' = rs
    BY <1>4 DEF Throw
  <2>2. ~Running' /\ \A u \in Threads : ~Alive(u)' /\ pc'[u] = "gone"
    BY <2>1 DEF Running, Alive
  <2>3. OneHasScopes'
    BY <2>1 DEF Scopes, OneHasScopes, Places
  <2> QED
    BY <2>2, <2>3 DEF Scopes, BaseIsFirst, SeenIsLength, Count, Nest
<1>5. CASE c # <<>> /\ at \notin TryFrames(t)
  <2>1. pc' = [pc EXCEPT ![t] = "lost"] /\ rs' = rs /\ leaked' = leaked
    BY <1>5 DEF Throw, Goto
  <2>2. Untouched(t) /\ pc'[t] = "lost" /\ ~Alive(t)' /\ rs'[t] = rs[t]
    BY <1>1, <1>2, <2>1 DEF TypeOK, Untouched, Alive
  <2>3. Mine(t)' = Mine(t)
    BY <2>1, <2>2 DEF Mine, OpenScopes, Depth, Alive
  <2> QED
    BY <1>1, <1>2, <2>1, <2>2, <2>3, QuietStep
<1>6. CASE c # <<>> /\ at \in TryFrames(t)
  <2> DEFINE cut == {i \in OpenScopes(t) : i > at}
             B == Mine(t)'
  <2>1. /\ pc' = [pc EXCEPT ![t] = "caught"] /\ rs' = [rs EXCEPT ![t] = SubSeq(rs[t], 1, at)]
        /\ leaked' = leaked + Cardinality(cut)
    BY <1>6 DEF Throw, Goto, Frames
  <2>2. at \in 1..Len(rs[t])
    BY <1>1, <1>6 DEF TryFrames
  <2>3. Untouched(t) /\ pc'[t] = "caught" /\ rs'[t] = SubSeq(rs[t], 1, at)
    BY <1>1, <1>2, <2>1 DEF TypeOK, Untouched
  <2>4. /\ Places(rs'[t]) = {i \in Places(rs[t]) : ~(i > at)}
        /\ OnlyFirstIsBase(rs'[t])
    BY <1>1, <2>2, <2>3, PlacesCut
  <2>5. B = Places(rs'[t])
    <3>1. rs'[t] \in Seq(Frame) /\ DOMAIN rs'[t] = 1..Len(rs'[t])
      BY <1>1 DEF TypeOK
    <3> QED
      BY <2>3, <3>1 DEF Mine, OpenScopes, Places, Depth
  <2>6. OpenScopes(t) = Mine(t)
    BY DEF Mine, Alive
  <2>7. Mine(t) = B \cup cut /\ B \cap cut = {}
    BY <1>3, <2>4, <2>5, <2>6
  <2> HIDE DEF cut, B
  <2>8. IsFiniteSet(Mine(t)) /\ Cardinality(Mine(t)) \in Nat
    BY <1>1, MineIs
  <2>9. /\ IsFiniteSet(B) /\ IsFiniteSet(cut)
        /\ Cardinality(B) \in Nat /\ Cardinality(cut) \in Nat
    BY <2>7, <2>8, FS_Subset, FS_CardinalityType
  <2>10. Cardinality(Mine(t)) = Cardinality(B) + Cardinality(cut)
    <3>1. Cardinality(B \cup cut) = Cardinality(B) + Cardinality(cut) - Cardinality(B \cap cut)
      BY <2>9, FS_Union
    <3>2. Cardinality(B \cap cut) = 0
      BY <2>7, FS_EmptySet
    <3> QED
      BY <2>7, <2>9, <3>1, <3>2
  <2>11. leaked \in Nat
    BY <1>1 DEF TypeOK
  <2>12. leaked' + Cardinality(B) = leaked + Cardinality(Mine(t))
    BY <2>1, <2>9, <2>10, <2>11
  <2>13. ASSUME leaked' = 0 PROVE leaked = 0 /\ B = Mine(t)
    <3>1. leaked = 0 /\ Cardinality(cut) = 0
      BY <2>13, <2>1, <2>9, <2>11
    <3>2. cut = {}
      BY <3>1, <2>9, FS_EmptySet
    <3> QED
      BY <3>1, <3>2, <2>7
  <2>14. Places(rs'[t]) \subseteq Places(rs[t])
    BY <2>4
  <2> QED
    BY <1>1, <1>2, <2>3, <2>4, <2>12, <2>13, <2>14, QuietStep DEF B
<1> QED
  BY <1>4, <1>5, <1>6

LEMMA UserThrowScopes ==
    ASSUME Inv, Inv', Scopes, NEW t \in Threads, UserThrow(t) PROVE Scopes'
<1>1. (\E e \in plan.errors : Throw(t, e)) /\ pc[t] = "run" /\ upset' = upset
  BY DEF UserThrow, UserCode, AtPrompt, DoingError
<1> QED
  BY <1>1, ThrowScopes DEF Alive

LEMMA EvaluateTryScopes ==
    ASSUME Inv, Inv', Scopes, NEW t \in Threads, EvaluateTry(t) PROVE Scopes'
<1> DEFINE g == Run("recover", ds[t], "do_error")
<1>1. pc[t] = "set" /\ UNCHANGED <<upset, plan>>
  BY DEF EvaluateTry
<1>2. CASE \E e \in plan.errors : Throw(t, e)
  BY <1>1, <1>2, ThrowScopes DEF EvaluateTry, Alive
<1>3. CASE ~\E e \in plan.errors : Throw(t, e)
  <2>1. EnterCatch(t, g) /\ pc' = [pc EXCEPT ![t] = "run"] /\ UNCHANGED scopeVars
    BY <1>3 DEF EvaluateTry, Goto
  <2>2. g \in Frame /\ g.fn \in Fns
    BY Given DEF Run, Frame, Fns
  <2> HIDE DEF g
  <2> QED
    BY <1>1, <2>1, <2>2, EnterCatchScopes
<1> QED
  BY <1>2, <1>3

\* A thread that ends cuts off its scopes.
LEMMA ResetOtherScopes ==
    ASSUME Inv, Inv', Scopes, NEW t \in Threads, ResetOther(t), pc[t] = "run" PROVE Scopes'
<1>1. /\ pc' = [pc EXCEPT ![t] = "gone"] /\ rs' = [rs EXCEPT ![t] = <<>>]
      /\ leaked' = leaked + Cardinality(OpenScopes(t)) /\ UNCHANGED <<scopeVars, upset>>
      /\ Alive(t)
  BY DEF ResetOther, Goto, Frames, Alive
<1>2. TypeOK /\ TypeOK'
  BY <1>1, GivenScopes
<1>3. Untouched(t) /\ pc'[t] = "gone" /\ rs'[t] = <<>>
  BY <1>1, <1>2 DEF TypeOK, Untouched, scopeVars
<1>4. OpenScopes(t) = Mine(t) /\ Mine(t)' = {} /\ Places(rs'[t]) = {} /\ ~Alive(t)'
  BY <1>3 DEF Mine, Places, Alive
<1>5. IsFiniteSet(Mine(t)) /\ Cardinality(Mine(t)) \in Nat /\ leaked \in Nat
  BY <1>2, MineIs DEF TypeOK
<1>6. Cardinality(Mine(t)') = 0
  BY <1>4, FS_EmptySet
<1>7. leaked' + Cardinality(Mine(t)') = leaked + Cardinality(Mine(t))
  BY <1>1, <1>4, <1>5, <1>6
<1>8. ASSUME leaked' = 0 PROVE leaked = 0 /\ Mine(t)' = Mine(t)
  <2>1. leaked = 0 /\ Cardinality(Mine(t)) = 0
    BY <1>8, <1>1, <1>4, <1>5
  <2> QED
    BY <2>1, <1>4, <1>5, FS_EmptySet
<1> QED
  BY <1>1, <1>2, <1>3, <1>4, <1>7, <1>8, QuietStep DEF scopeVars

\* A reset of the REPL leaves the first scope, and no other thread has one unless
\* it is cut off.
LEMMA ResetPrimordialScopes ==
    ASSUME Inv, Inv', Scopes, NEW t \in Threads, ResetPrimordial(t), pc[t] = "run"
    PROVE  Scopes'
<1> DEFINE Shared == \E u \in Threads \ {t} : \E i \in DOMAIN rs[u] : Scoped(rs[u][i])
<1>1. /\ pc' = [pc EXCEPT ![t] = "run"] /\ rs' = [rs EXCEPT ![t] = <<Base>>]
      /\ length' = 1 /\ leaked' = 0 /\ UNCHANGED <<data, seen>>
      /\ upset' = upset \cup (IF Shared THEN {"cut"} ELSE {}) /\ Alive(t)
  BY DEF ResetPrimordial, Goto, Frames, Alive
<1>2. TypeOK /\ TypeOK'
  BY <1>1, GivenScopes
<1>3. Untouched(t) /\ pc'[t] = "run" /\ rs'[t] = <<Base>>
  BY <1>1, <1>2 DEF TypeOK, Untouched
<1>4. Places(<<Base>>) = {} /\ OnlyFirstIsBase(<<Base>>)
  <2>1. Len(<<Base>>) = 1 /\ <<Base>>[1] = Base /\ ~Scoped(Base)
    BY DEF Base, Run, Scoped
  <2>2. \A i : i \in 1..1 => i = 1
    OBVIOUS
  <2> QED
    BY <2>1, <2>2 DEF Places, OnlyFirstIsBase
<1>5. BaseIsFirst' /\ OneHasScopes'
  <2>1. Places(rs'[t]) = {} /\ OnlyFirstIsBase(rs'[t]) /\ upset \subseteq upset'
    BY <1>1, <1>3, <1>4
  <2> QED
    BY <1>3, <2>1, BaseStep, OneStep
<1>6. ASSUME Undisturbed'
      PROVE  \A u \in Threads : Mine(u)' = {} /\ pc'[u] \notin {"push", "pop"}
  <2>1. ~Shared
    BY <1>1, <1>6 DEF Undisturbed
  <2>2. \A u \in Threads : /\ rs[u] \in Seq(Frame) /\ DOMAIN rs[u] = 1..Len(rs[u])
                           /\ rs'[u] \in Seq(Frame) /\ DOMAIN rs'[u] = 1..Len(rs'[u])
    BY <1>2 DEF TypeOK
  <2>3. \A u \in Threads \ {t} : Places(rs[u]) = {}
    BY <2>1, <2>2 DEF Places
  <2>4. \A u \in Threads : Places(rs'[u]) = {}
    BY <1>3, <1>4, <2>3 DEF Untouched
  <2>5. \A u \in Threads : Mine(u)' = {}
    BY <2>2, <2>4 DEF Mine, OpenScopes, Places
  <2>6. ASSUME NEW u \in Threads \ {t} PROVE pc[u] \notin {"push", "pop"}
    <3>1. SUFFICES ASSUME pc[u] \in {"push", "pop"} PROVE FALSE
      OBVIOUS
    <3>2. Alive(u)
      BY <3>1 DEF Alive
    <3>3. /\ Len(rs[u]) \in Nat /\ Len(rs[u]) >= 1 /\ Scoped(rs[u][Len(rs[u])])
      BY <3>1, <3>2, GivenScopes
    <3>4. Len(rs[u]) \in DOMAIN rs[u]
      BY <2>2, <3>3
    <3> QED
      BY <2>1, <3>3, <3>4
  <2> QED
    BY <1>3, <2>5, <2>6 DEF Untouched
<1>7. SeenIsLength'
  BY <1>6 DEF SeenIsLength
<1>8. Count'
  <2>1. SUFFICES ASSUME Undisturbed'
                 PROVE  IsFiniteSet(There') /\ length' = 1 + leaked' + Cardinality(There')
    BY DEF Count
  <2>2. There' = {}
    BY <1>6, <2>1 DEF There, Mine
  <2> QED
    BY <1>1, <2>2, FS_EmptySet
<1>9. Nest'
  BY <1>6 DEF Nest, Undisturbed
<1> QED
  BY <1>5, <1>7, <1>8, <1>9 DEF Scopes

\* While thread t has a scope and no scope is shared or lost, the dynamic scope is
\* that of t.
LEMMA OwnerStacked ==
    ASSUME TypeOK, Scopes, NEW t \in Threads, Places(rs[t]) # {}, Running,
           upset = {}, leaked = 0
    PROVE  Stacked(t) /\ \A u \in Threads \ {t} : Mine(u) = {}
<1>1. \A u \in Threads \ {t} : Mine(u) = {}
  <2>1. ASSUME NEW u \in Threads \ {t} PROVE Places(rs[u]) = {}
    BY DEF Scopes, OneHasScopes
  <2> QED
    BY <2>1, MineIs
<1>2. CASE Mine(t) # {}
  BY <1>1, <1>2 DEF Scopes, Nest
<1>3. CASE Mine(t) = {}
  <2>1. There = {}
    BY <1>1, <1>3 DEF There, Mine
  <2>2. length = 1 + 0 + 0
    BY <2>1, FS_EmptySet DEF Scopes, Count, Undisturbed
  <2>3. 2..length = {}
    BY <2>2
  <2> QED
    BY <1>1, <1>3, <2>3 DEF Stacked
<1> QED
  BY <1>2, <1>3

\* A push that is not torn puts the scope on top of the others.
LEMMA PushScopeScopes ==
    ASSUME Inv, Inv', Scopes, NEW t \in Threads, PushScope(t) PROVE Scopes'
<1> DEFINE d == Len(rs[t])
<1>1. /\ data' = [data EXCEPT ![seen[t] + 1] = <<t, d>>] /\ length' = length + 1
      /\ pc' = [pc EXCEPT ![t] = IF Top(t).fn = "evaluate" THEN "set" ELSE "run"]
      /\ seen' = [seen EXCEPT ![t] = 0] /\ UNCHANGED <<rs, leaked>>
      /\ upset' = IF Between(t) THEN upset \cup {"torn"} ELSE upset
      /\ pc[t] = "push" /\ Alive(t) /\ length < plan.scopes
  BY DEF PushScope, Goto, Alive, Depth
<1>2. /\ TypeOK /\ TypeOK' /\ rs[t] # <<>> /\ d \in Nat /\ d >= 1 /\ rs[t] \in Seq(Frame)
      /\ Scoped(Last(rs[t])) /\ OnlyFirstIsBase(rs[t])
  BY <1>1, GivenScopes
<1>3. /\ Untouched(t) /\ pc'[t] \in {"set", "run"} /\ rs'[t] = rs[t] /\ upset \subseteq upset'
  BY <1>1, <1>2 DEF TypeOK, Untouched
<1>4. d \in Places(rs[t])
  BY <1>2, PlacesFront
<1>5. Mine(t) = Places(rs[t]) \ {d}
  BY <1>1, <1>2, MineIs
<1>6. Mine(t)' = Places(rs[t])
  <2>1. DOMAIN rs[t] = 1..Len(rs[t])
    BY <1>2
  <2> QED
    BY <1>3, <2>1 DEF Mine, OpenScopes, Places
<1>7. Mine(t)' = Mine(t) \cup {d} /\ d \notin Mine(t)
  BY <1>4, <1>5, <1>6
<1>8. Cardinality(Mine(t)') = Cardinality(Mine(t)) + 1 /\ Cardinality(Mine(t)) \in Nat
  <2>1. IsFiniteSet(Mine(t)) /\ Cardinality(Mine(t)) \in Nat
    BY <1>2, MineIs
  <2> QED
    BY <1>7, <2>1, FS_AddElement
<1>9. BaseIsFirst' /\ OneHasScopes'
  BY <1>2, <1>3, <1>4, BaseStep, OneStep
<1>10. SeenIsLength'
  <2>1. ASSUME Undisturbed', NEW u \in Threads PROVE pc'[u] \notin {"push", "pop"}
    BY <1>1, <1>3, <2>1 DEF Undisturbed, Between, Untouched
  <2> QED
    BY <2>1 DEF SeenIsLength
<1>11. length \in Nat /\ leaked \in Nat /\ plan.scopes \in Nat
  BY <1>2, PlansAssumption DEF TypeOK
<1>12. Count'
  <2>1. length' + leaked + Cardinality(Mine(t)) = length + leaked' + Cardinality(Mine(t)')
    BY <1>1, <1>8, <1>11
  <2> QED
    BY <1>1, <1>2, <1>3, <2>1, CountStep
<1>13. Nest'
  <2> SUFFICES ASSUME upset' = {}, leaked' = 0, NEW u \in Threads, Mine(u)' # {}
               PROVE  Stacked(u)'
    BY DEF Nest
  <2>1. upset = {} /\ leaked = 0 /\ Running /\ Undisturbed
    BY <1>1, <1>3 DEF Running, Undisturbed
  <2>2. Stacked(t) /\ \A v \in Threads \ {t} : Mine(v) = {}
    BY <1>2, <1>4, <2>1, OwnerStacked
  <2>3. \A v \in Threads \ {t} : Mine(v)' = Mine(v)
    BY <1>3 DEF Mine, OpenScopes, Depth, Untouched
  <2>4. u = t
    BY <2>2, <2>3
  <2>5. seen[t] = length
    BY <1>1, <2>1 DEF Scopes, SeenIsLength
  <2>6. length + 1 \in 1..plan.scopes /\ \A k \in 2..length : k \in 1..plan.scopes /\ k # length + 1
    BY <1>1, <1>11
  <2>7. /\ data'[length + 1] = <<t, d>>
        /\ \A k \in 2..length : data'[k] = data[k]
    BY <1>1, <1>2, <2>5, <2>6 DEF TypeOK
  <2>8. length >= 1
    <3>1. IsFiniteSet(There) /\ length = 1 + leaked + Cardinality(There)
      BY <2>1 DEF Scopes, Count
    <3> QED
      BY <2>1, <3>1, FS_CardinalityType
  <2>9. \A k : k \in 2..length' <=> k \in 2..length \/ k = length + 1
    BY <1>1, <1>11, <2>8
  <2>10. \A i \in Mine(t) : i \in Nat /\ i < d
    <3>1. Mine(t) \subseteq 1..d /\ d \notin Mine(t)
      BY <1>2, <1>7, MineIs
    <3> QED
      BY <1>2, <3>1
  <2>11. \A k \in 2..length' : \E i \in Mine(t)' : data'[k] = <<t, i>>
    BY <1>7, <2>2, <2>7, <2>9 DEF Stacked
  <2>12. \A i \in Mine(t)' : \E k \in 2..length' : data'[k] = <<t, i>>
    BY <1>7, <2>2, <2>7, <2>9 DEF Stacked
  <2>13. ASSUME NEW k \in 2..length', NEW m \in 2..length', k < m
         PROVE  data'[k][2] < data'[m][2]
    <3>1. CASE m = length + 1
      <4>1. k \in 2..length
        BY <1>11, <2>9, <2>13, <3>1
      <4>2. PICK i \in Mine(t) : data[k] = <<t, i>>
        BY <2>2, <4>1 DEF Stacked
      <4> QED
        BY <2>7, <2>10, <3>1, <4>1, <4>2
    <3>2. CASE m # length + 1
      <4>1. k \in 2..length /\ m \in 2..length
        BY <1>11, <2>9, <2>13, <3>2
      <4> QED
        BY <2>2, <2>7, <2>13, <4>1 DEF Stacked
    <3> QED
      BY <3>1, <3>2
  <2> QED
    BY <2>4, <2>11, <2>12, <2>13 DEF Stacked
<1> QED
  BY <1>9, <1>10, <1>12, <1>13 DEF Scopes

\* A pop that is not torn takes away the scope that its own push has put there.
LEMMA PopScopeScopes ==
    ASSUME Inv, Inv', Scopes, NEW t \in Threads, PopScope(t) PROVE Scopes'
<1> DEFINE d == Len(rs[t])
<1>1. /\ upset' = IF Between(t) THEN upset \cup {"torn"} ELSE upset
      /\ pc[t] = "pop" /\ Alive(t)
  BY DEF PopScope, Alive
<1>2. /\ TypeOK /\ TypeOK' /\ rs[t] # <<>> /\ d \in Nat /\ d >= 1 /\ rs[t] \in Seq(Frame)
      /\ Scoped(Last(rs[t])) /\ OnlyFirstIsBase(rs[t])
  BY <1>1, GivenScopes
<1>3. CASE seen[t] = 0
  BY <1>1, <1>3, ThrowScopes DEF PopScope
<1>4. CASE seen[t] # 0
  <2>1. /\ length' = seen[t] - 1 /\ data' = [data EXCEPT ![seen[t]] = None]
        /\ pc' = [pc EXCEPT ![t] = "run"] /\ rs' = [rs EXCEPT ![t] = Front(rs[t])]
        /\ seen' = [seen EXCEPT ![t] = 0] /\ leaked' = leaked
    BY <1>4 DEF PopScope, Goto, Frames
  <2>2. /\ Untouched(t) /\ pc'[t] = "run" /\ rs'[t] = Front(rs[t]) /\ upset \subseteq upset'
    BY <1>1, <1>2, <2>1 DEF TypeOK, Untouched
  <2>3. /\ d \in Places(rs[t]) /\ Places(rs'[t]) = Places(rs[t]) \ {d}
        /\ OnlyFirstIsBase(rs'[t])
    BY <1>2, <2>2, PlacesFront
  <2>4. Mine(t) = Places(rs[t])
    BY <1>1, <1>2, MineIs
  <2>5. Mine(t)' = Places(rs'[t])
    <3>1. rs'[t] \in Seq(Frame) /\ DOMAIN rs'[t] = 1..Len(rs'[t])
      BY <1>2 DEF TypeOK
    <3> QED
      BY <2>2, <3>1 DEF Mine, OpenScopes, Places
  <2>6. d \in Mine(t) /\ Mine(t)' = Mine(t) \ {d}
    BY <2>3, <2>4, <2>5
  <2>7. Cardinality(Mine(t)') = Cardinality(Mine(t)) - 1 /\ Cardinality(Mine(t)) \in Nat
    <3>1. IsFiniteSet(Mine(t)) /\ Cardinality(Mine(t)) \in Nat
      BY <1>2, MineIs
    <3> QED
      BY <2>6, <3>1, FS_RemoveElement
  <2>8. BaseIsFirst' /\ OneHasScopes'
    BY <2>2, <2>3, BaseStep, OneStep
  <2>9. SeenIsLength'
    <3>1. ASSUME Undisturbed', NEW u \in Threads PROVE pc'[u] \notin {"push", "pop"}
      BY <1>1, <2>2, <3>1 DEF Undisturbed, Between, Untouched
    <3> QED
      BY <3>1 DEF SeenIsLength
  <2>10. length \in Nat /\ leaked \in Nat /\ plan.scopes \in Nat /\ length \in 0..plan.scopes
    BY <1>2, PlansAssumption DEF TypeOK
  <2>11. Undisturbed => seen[t] = length
    BY <1>1 DEF Scopes, SeenIsLength
  <2>12. Count'
    <3>1. Undisturbed =>
            length' + leaked + Cardinality(Mine(t)) = length + leaked' + Cardinality(Mine(t)')
      BY <2>1, <2>7, <2>10, <2>11
    <3> QED
      BY <1>1, <1>2, <2>2, <3>1, CountStep
  <2>13. Nest'
    <3> SUFFICES ASSUME upset' = {}, leaked' = 0, NEW u \in Threads, Mine(u)' # {}
                 PROVE  Stacked(u)'
      BY DEF Nest
    <3>1. upset = {} /\ leaked = 0 /\ Running /\ Undisturbed
      BY <1>1, <2>1, <2>2 DEF Running, Undisturbed
    <3>2. Stacked(t) /\ \A v \in Threads \ {t} : Mine(v) = {}
      BY <1>2, <2>3, <3>1, OwnerStacked
    <3>3. \A v \in Threads \ {t} : Mine(v)' = Mine(v)
      BY <2>2 DEF Mine, OpenScopes, Depth, Untouched
    <3>4. u = t
      BY <3>2, <3>3
    <3>5. seen[t] = length /\ length >= 1 /\ length' = length - 1
      BY <1>4, <2>1, <2>10, <2>11, <3>1
    <3>6. /\ \A k : k \in 2..length' <=> k \in 2..length /\ k # length
          /\ \A k \in 2..length : k \in 1..plan.scopes /\ (k # length => k < length)
      BY <2>10, <3>5
    <3>7. \A k \in 2..length' : data'[k] = data[k]
      BY <1>2, <2>1, <3>5, <3>6 DEF TypeOK
    <3>8. \A i \in Mine(t) : i \in Nat /\ i <= d
      <4>1. Mine(t) \subseteq 1..d
        BY <1>2, MineIs
      <4> QED
        BY <1>2, <4>1
    <3>9. length \in 2..length /\ data[length] = <<t, d>>
      <4>1. PICK k \in 2..length : data[k] = <<t, d>>
        BY <2>6, <3>2 DEF Stacked
      <4>2. length \in 2..length
        BY <2>10, <4>1
      <4>3. PICK i \in Mine(t) : data[length] = <<t, i>>
        BY <3>2, <4>2 DEF Stacked
      <4>4. ASSUME k # length PROVE FALSE
        <5>1. k < length
          BY <3>6, <4>4
        <5>2. data[k][2] < data[length][2]
          BY <3>2, <4>2, <5>1 DEF Stacked
        <5>3. d < i
          BY <4>1, <4>3, <5>2
        <5> QED
          BY <1>2, <3>8, <5>3
      <4> QED
        BY <4>1, <4>2, <4>4
    <3>10. ASSUME NEW k \in 2..length' PROVE \E i \in Mine(t)' : data'[k] = <<t, i>>
      <4>1. k \in 2..length /\ k < length
        BY <3>6
      <4>2. PICK i \in Mine(t) : data[k] = <<t, i>>
        BY <3>2, <4>1 DEF Stacked
      <4>3. i < d
        BY <3>2, <3>9, <4>1, <4>2 DEF Stacked
      <4> QED
        BY <1>2, <2>6, <3>7, <4>2, <4>3
    <3>11. ASSUME NEW i \in Mine(t)' PROVE \E k \in 2..length' : data'[k] = <<t, i>>
      <4>1. PICK k \in 2..length : data[k] = <<t, i>>
        BY <2>6, <3>2 DEF Stacked
      <4>2. k # length
        BY <2>6, <3>9, <4>1
      <4> QED
        BY <3>6, <3>7, <4>1, <4>2
    <3>12. \A k, m \in 2..length' : k < m => data'[k][2] < data'[m][2]
      BY <3>2, <3>6, <3>7 DEF Stacked
    <3> QED
      BY <3>4, <3>10, <3>11, <3>12 DEF Stacked
  <2> QED
    BY <2>8, <2>9, <2>12, <2>13 DEF Scopes
<1> QED
  BY <1>3, <1>4

LEMMA ResetScopes ==
    ASSUME Inv, Inv', Scopes, NEW t \in Threads, Reset(t) PROVE Scopes'
<1>1. pc[t] = "run" /\ (ResetPrimordial(t) \/ ResetOther(t))
  BY DEF Reset, UserCode, DoingError
<1> QED
  BY <1>1, ResetPrimordialScopes, ResetOtherScopes

LEMMA ScopesStep == Inv /\ Inv' /\ Scopes /\ [Next]_vars => Scopes'
<1>1. ASSUME Inv, Inv', Scopes, NEW t \in Threads, Step(t) PROVE Scopes'
  <2>1. CASE WithDynamicScope(t)
    BY <1>1, <2>1, BeginScopeScopes DEF WithDynamicScope, UserCode
  <2>2. CASE Evaluate(t)
    BY <1>1, <2>2, BeginScopeScopes DEF Evaluate, UserCode, AtPrompt
  <2> QED
    BY <1>1, <2>1, <2>2, PushScopes, RecoverScopes, LeaveScopes, UserThrowScopes,
       CaughtScopes, PushScopeScopes, EvaluateTryScopes, EndScopeScopes, PopScopeScopes,
       ResetScopes, FinishScopes DEF Step
<1>2. Scopes /\ UNCHANGED vars => Scopes'
  BY DEF Scopes, BaseIsFirst, SeenIsLength, OneHasScopes, Count, Nest, Undisturbed, Running,
         Stacked, Mine, There, OpenScopes, Depth, Alive, Places, OnlyFirstIsBase, vars,
         threadVars, scopeVars
<1> QED
  BY <1>1, <1>2 DEF Next

\* Whatever is thrown and reset, and however threads interleave, what the scopes
\* of the threads and the dynamic scope have to do with each other holds.
THEOREM ScopeInvariance == Spec => [](Inv /\ Scopes)
<1>1. Init => Inv /\ Scopes
  BY InitInv, InitScopes
<1>2. Inv /\ Scopes /\ [Next]_vars => Inv' /\ Scopes'
  BY StepInv, ScopesStep
<1> QED
  BY <1>1, <1>2, PTL DEF Spec

\* The first scope, with the streams and the REPL's settings, is never taken away,
\* and the scopes that are there are those that run and those that were cut off,
\* unless two threads were inside a push or pop at once or a reset has cut off
\* another thread's scope.
THEOREM DynamicScopeIsCounted == Spec => []ScopesCounted
<1>1. Scopes => ScopesCounted
  BY DEF Scopes, Count, ScopesCounted, Undisturbed, Running, There
<1> QED
  BY <1>1, ScopeInvariance, PTL

\* While no error or reset has cut off a scope and no two threads have had one at
\* once, the dynamic scope is the first and the scopes that run, in order.
THEOREM DynamicScopeNests == Spec => []ScopesNest
<1>1. Inv /\ Scopes => ScopesNest
  <2> SUFFICES ASSUME Inv, Scopes, upset = {}, leaked = 0, Running
               PROVE  \E t \in Threads :
                        /\ \A u \in Threads \ {t} : pc[u] = "gone" \/ OpenScopes(u) = {}
                        /\ {<<t, i>> : i \in OpenScopes(t)} = {data[i] : i \in 2..length}
                        /\ \A i, j \in 2..length : i < j => data[i][2] < data[j][2]
    BY DEF ScopesNest, Running
  <2>1. TypeOK
    BY DEF Inv, Types
  <2>2. CASE \E t \in Threads : Mine(t) # {}
    <3>1. PICK t \in Threads : Mine(t) # {}
      BY <2>2
    <3>2. Places(rs[t]) # {} /\ OpenScopes(t) = Mine(t)
      BY <2>1, <3>1, MineIs DEF Mine
    <3>3. Stacked(t) /\ \A u \in Threads \ {t} : Mine(u) = {}
      BY <2>1, <3>2, OwnerStacked
    <3>4. {<<t, i>> : i \in OpenScopes(t)} = {data[i] : i \in 2..length}
      BY <3>2, <3>3 DEF Stacked
    <3> QED
      BY <3>3, <3>4 DEF Stacked, Mine
  <2>3. CASE \A t \in Threads : Mine(t) = {}
    <3>1. There = {}
      BY <2>3 DEF There, Mine
    <3>2. length = 1 + 0 + 0
      BY <3>1, FS_EmptySet DEF Scopes, Count, Undisturbed
    <3>3. 2..length = {}
      BY <3>2
    <3>4. PICK t \in Threads : Alive(t)
      BY DEF Running
    <3>5. OpenScopes(t) = {}
      BY <2>3, <3>4 DEF Mine, Alive
    <3> QED
      BY <2>3, <3>3, <3>5 DEF Mine
  <2> QED
    BY <2>2, <2>3
<1> QED
  BY <1>1, ScopeInvariance, PTL
=============================================================================
