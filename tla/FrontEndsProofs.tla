--------------------------- MODULE FrontEndsProofs ---------------------------
(***************************************************************************)
(* What FrontEnds promises holds for every set of toolkits, every bound    *)
(* and all texts.  The invariants are those of FrontEndsInvariants; each   *)
(* is kept by every step because of the kinds of steps there are, which is *)
(* found out once (Summary, then Shape) and used for all of them.          *)
(***************************************************************************)
EXTENDS FrontEndsInvariants, SequenceTheorems, NaturalsInduction, WellFoundedInduction, TLAPS

----------------------------------------------------------------------------
(***************************************************************************)
(* Words that are still to do.                                              *)
(***************************************************************************)

\* The words but the first are numbered from the second on.
LEMMA NthTail ==
  ASSUME NEW S, NEW t \in Seq(S), t # <<>>
  PROVE  /\ Tail(t) \in Seq(S)
         /\ \A n \in Nat \ {0} : Nth(Tail(t), n) = Nth(t, n + 1)
<1>1. Tail(t) \in Seq(S) /\ Len(t) \in Nat \ {0} /\ Len(Tail(t)) = Len(t) - 1
  BY HeadTailProperties, EmptySeq
<1>2. \A i \in 1..Len(t) - 1 : Tail(t)[i] = t[i + 1]
  OBVIOUS
<1>3. DOMAIN t = 1..Len(t) /\ DOMAIN Tail(t) = 1..Len(t) - 1
  BY <1>1, LenProperties
<1> QED
  BY <1>1, <1>2, <1>3 DEF Nth

\* Which words two sequences of them make together.
LEMMA NthJoin ==
  ASSUME NEW S, NEW s \in Seq(S), NEW t \in Seq(S)
  PROVE  /\ s \o t \in Seq(S)
         /\ \A n \in Nat \ {0} :
              Nth(s \o t, n) = IF n <= Len(s) THEN s[n] ELSE Nth(t, n - Len(s))
<1>1. /\ s \o t \in Seq(S) /\ Len(s \o t) = Len(s) + Len(t)
      /\ \A i \in 1..Len(s) + Len(t) : (s \o t)[i] = IF i <= Len(s) THEN s[i] ELSE t[i - Len(s)]
  BY ConcatProperties
<1>2. /\ Len(s) \in Nat /\ Len(t) \in Nat /\ DOMAIN t = 1..Len(t)
      /\ DOMAIN (s \o t) = 1..Len(s) + Len(t)
  BY <1>1, LenProperties
<1> QED
  BY <1>1, <1>2 DEF Nth

\* The words of a frame are lawful when each is lawful where it stands.
LEMMA LawfulIs ==
  ASSUME NEW tk, NEW fn, NEW t \in Seq(Word)
  PROVE  Lawful(tk, fn, t) <=>
           \A n \in Nat \ {0} :
             /\ Follows(tk, fn, Nth(t, n), Nth(t, n + 1))
             /\ Third(Nth(t, n), Nth(t, n + 1), Nth(t, n + 2))
<1>1. Len(t) \in Nat /\ DOMAIN t = 1..Len(t)
  BY LenProperties
<1>2. ASSUME NEW n \in Nat \ {0}, n \notin DOMAIN t
      PROVE  /\ Nth(t, n) = "end" /\ \A x : Follows(tk, fn, "end", x)
             /\ Third("end", Nth(t, n + 1), Nth(t, n + 2))
  <2>1. n + 1 \notin DOMAIN t /\ n + 2 \notin DOMAIN t
    BY <1>1, <1>2
  <2>2. Nth(t, n) = "end" /\ Nth(t, n + 1) = "end" /\ Nth(t, n + 2) = "end"
    BY <1>2, <2>1 DEF Nth
  <2> QED
    BY <2>2 DEF Follows, Command, Third
<1>3. \A n \in DOMAIN t : Nth(t, n) = t[n] /\ n \in Nat \ {0}
  BY <1>1 DEF Nth
<1> QED
  BY <1>2, <1>3 DEF Lawful

\* What is left when the first word is done is in order too.
LEMMA LawfulTail ==
  ASSUME NEW tk, NEW fn, NEW t, Lawful(tk, fn, t), t # <<>>
  PROVE  Lawful(tk, fn, Tail(t))
<1>1. t \in Seq(Word)
  BY DEF Lawful
<1>2. Tail(t) \in Seq(Word) /\ \A n \in Nat \ {0} : Nth(Tail(t), n) = Nth(t, n + 1)
  BY <1>1, NthTail
<1>3. ASSUME NEW n \in Nat \ {0}
      PROVE  /\ Follows(tk, fn, Nth(Tail(t), n), Nth(Tail(t), n + 1))
             /\ Third(Nth(Tail(t), n), Nth(Tail(t), n + 1), Nth(Tail(t), n + 2))
  <2>1. n + 1 \in Nat \ {0} /\ n + 2 \in Nat \ {0} /\ (n + 1) + 2 = (n + 2) + 1
    OBVIOUS
  <2> QED
    BY <2>1, <1>1, <1>2, LawfulIs
<1> QED
  BY <1>2, <1>3, LawfulIs

\* The k-th of the words s and then t.
Joined(s, t, k) == IF k <= Len(s) THEN s[k] ELSE Nth(t, k - Len(s))

\* Words put before others are in order when each of them is, where it then stands.
LEMMA LawfulJoin ==
  ASSUME NEW tk, NEW fn, NEW s \in Seq(Word), NEW t, Lawful(tk, fn, t),
         \A n \in 1..Len(s) :
           /\ Follows(tk, fn, s[n], Joined(s, t, n + 1))
           /\ Third(s[n], Joined(s, t, n + 1), Joined(s, t, n + 2))
  PROVE  Lawful(tk, fn, s \o t)
<1>1. t \in Seq(Word) /\ Len(s) \in Nat
  BY LenProperties DEF Lawful
<1>2. /\ s \o t \in Seq(Word)
      /\ \A n \in Nat \ {0} : Nth(s \o t, n) = Joined(s, t, n)
  BY <1>1, NthJoin DEF Joined
<1>3. ASSUME NEW n \in Nat \ {0}
      PROVE  /\ Follows(tk, fn, Nth(s \o t, n), Nth(s \o t, n + 1))
             /\ Third(Nth(s \o t, n), Nth(s \o t, n + 1), Nth(s \o t, n + 2))
  <2>0. n + 1 \in Nat \ {0} /\ n + 2 \in Nat \ {0}
    OBVIOUS
  <2>1. CASE n <= Len(s)
    <3>1. n \in 1..Len(s) /\ Joined(s, t, n) = s[n]
      BY <1>1, <2>1 DEF Joined
    <3> QED
      BY <3>1, <2>0, <1>2
  <2>3. CASE n > Len(s)
    <3>1. PICK k \in Nat \ {0} : n = Len(s) + k
      <4>1. n - Len(s) \in Nat \ {0} /\ n = Len(s) + (n - Len(s))
        BY <1>1, <2>3
      <4> QED
        BY <4>1
    <3>2. /\ ~(n <= Len(s)) /\ ~(n + 1 <= Len(s)) /\ ~(n + 2 <= Len(s))
          /\ n - Len(s) = k /\ (n + 1) - Len(s) = k + 1 /\ (n + 2) - Len(s) = k + 2
      BY <1>1, <2>3, <3>1
    <3>3. /\ Follows(tk, fn, Nth(t, k), Nth(t, k + 1))
          /\ Third(Nth(t, k), Nth(t, k + 1), Nth(t, k + 2))
      BY <1>1, LawfulIs
    <3> QED
      BY <3>2, <3>3, <2>0, <1>2 DEF Joined
  <2> QED
    BY <1>1, <2>1, <2>3
<1> QED
  BY <1>2, <1>3, LawfulIs

----------------------------------------------------------------------------
(***************************************************************************)
(* The front ends and the editor mean the same by the same names.           *)
(***************************************************************************)

\* GtkUi instantiates the names of Minibuffer and Feral with the same variables: they mean
\* the same.
LEMMA GtkIsFeral ==
  /\ Gtk!Top = Top
  /\ \A w : Gtk!Next_(w) <=> Next_(w)
  /\ \A ws : Gtk!Do(ws) <=> Do(ws)
  /\ \A f : Gtk!Push(f) <=> Push(f)
  /\ \A f, ws : Gtk!Become(f, ws) = Become(f, ws)
  /\ \A fn, n : Gtk!Loop(fn, n) = Loop(fn, n)
  /\ \A ws : Gtk!Handler(ws) = Handler(ws)
  /\ \A ws, a : Gtk!Catch(ws, a) = Catch(ws, a)
  /\ \A a : Gtk!Line(a) = Line(a)
  /\ Gtk!Throw <=> Throw
  /\ \A t, ws : Gtk!SetText(t, ws) <=> SetText(t, ws)
  /\ Gtk!InLoop <=> InLoop
  /\ \A fn : Gtk!Open(fn) = Open(fn)
  /\ Gtk!Loops = Loops /\ Gtk!Widget = Widget /\ Gtk!Empty = Empty /\ Gtk!NoText = NoText
  /\ Gtk!Command = Command /\ Gtk!AskWords = AskWords
<1>1. Gtk!Top = Top /\ Gtk!Loops = Loops /\ Gtk!Widget = Widget
  BY DEF Gtk!Top, Top, Gtk!Last, Last, Gtk!Loops, Loops, Gtk!Widget, Widget
<1>2. \A w : Gtk!Next_(w) <=> Next_(w)
  BY <1>1 DEF Gtk!Next_, Next_
<1>3. \A f, ws : Gtk!Become(f, ws) = Become(f, ws)
  BY <1>1 DEF Gtk!Become, Become, Gtk!Front, Front
<1>4. \A ws : Gtk!Do(ws) <=> Do(ws)
  BY <1>1, <1>3 DEF Gtk!Do, Do
<1>5. \A f : Gtk!Push(f) <=> Push(f)
  BY <1>1, <1>3 DEF Gtk!Push, Push
<1>6. \A fn, n : Gtk!Loop(fn, n) = Loop(fn, n)
  BY DEF Gtk!Loop, Loop
<1>7. /\ \A ws : Gtk!Handler(ws) = Handler(ws)
      /\ \A ws, a : Gtk!Catch(ws, a) = Catch(ws, a)
  BY <1>6 DEF Gtk!Handler, Handler, Gtk!Catch, Catch
<1>8. /\ \A a : Gtk!Line(a) = Line(a)
      /\ Gtk!Empty = Empty /\ Gtk!NoText = NoText
      /\ Gtk!Command = Command /\ Gtk!AskWords = AskWords
  BY DEF Gtk!Line, Line, Gtk!Empty, Empty, Gtk!NoText, NoText, Gtk!Command, Command, Gtk!AskWords, AskWords
<1>9. Gtk!Throw <=> Throw
  BY <1>1 DEF Gtk!Throw, Throw, Gtk!SelectLastInSeq, SelectLastInSeq, Gtk!Max, Max
<1>10. \A t, ws : Gtk!SetText(t, ws) <=> SetText(t, ws)
  BY <1>4 DEF Gtk!SetText, SetText
<1>11. Gtk!InLoop <=> InLoop
  BY <1>1 DEF Gtk!InLoop, InLoop
<1>12. \A fn : Gtk!Open(fn) = Open(fn)
  BY DEF Gtk!Open, Open
<1> QED
  BY <1>1, <1>2, <1>3, <1>4, <1>5, <1>6, <1>7, <1>8, <1>9, <1>10, <1>11, <1>12

\* So do the steps that the editor takes in GTK.
LEMMA GtkFeral ==
  /\ Gtk!FeralStep => FeralStep
  /\ Gtk!FeralEdit => FeralEdit
  /\ Gtk!EditBuffer => EditBuffer
  /\ \A ws : Gtk!ToParent(ws) => ToParent(ws)
  /\ \A ws : Gtk!Take(ws) => Take(ws)
<1> USE GtkIsFeral DEF Gtk!askVars, askVars
<1>1. ASSUME NEW w, NEW ws, NEW a PROVE Gtk!SafeCall(w, ws, a) => SafeCall(w, ws, a)
  BY DEF Gtk!SafeCall, SafeCall
<1>2. /\ Gtk!AskCommand => AskCommand
      /\ Gtk!QuitCommand => QuitCommand
      /\ Gtk!FailingCommand => FailingCommand
      /\ Gtk!PasteCommand => PasteCommand
  BY <1>1 DEF Gtk!AskCommand, AskCommand, Gtk!QuitCommand, QuitCommand, Gtk!FailingCommand,
     FailingCommand, Gtk!PasteCommand, PasteCommand
<1>3. /\ Gtk!DoQuit => DoQuit
      /\ Gtk!Raise => Raise
      /\ Gtk!MinibufferRun => MinibufferRun
      /\ Gtk!Restore => Restore
      /\ Gtk!Answer => Answer
      /\ Gtk!AssertMinibuffer => AssertMinibuffer
      /\ Gtk!Return => Return
  <2>1. Gtk!DoQuit => DoQuit
    BY DEF Gtk!DoQuit, DoQuit
  <2>2. Gtk!Raise => Raise
    BY DEF Gtk!Raise, Raise
  <2>3. Gtk!MinibufferRun => MinibufferRun
    BY DEF Gtk!MinibufferRun, MinibufferRun
  <2>4. Gtk!Restore => Restore
    BY DEF Gtk!Restore, Restore
  <2>5. Gtk!Answer => Answer
    BY DEF Gtk!Answer, Answer
  <2>6. Gtk!AssertMinibuffer => AssertMinibuffer
    BY DEF Gtk!AssertMinibuffer, AssertMinibuffer
  <2>7. Gtk!Return => Return
    BY DEF Gtk!Return, Return, Gtk!Front, Front
  <2> QED
    BY <2>1, <2>2, <2>3, <2>4, <2>5, <2>6, <2>7
<1>4. Gtk!FeralStep => FeralStep
  BY <1>2, <1>3 DEF Gtk!FeralStep, FeralStep
<1>5. /\ Gtk!ClearMessage => ClearMessage
      /\ Gtk!Message => Message
      /\ Gtk!SetPrompt => SetPrompt
      /\ Gtk!InsertChar => InsertChar
      /\ Gtk!Accept => Accept
      /\ Gtk!Cancel => Cancel
  <2>1. Gtk!ClearMessage => ClearMessage
    BY DEF Gtk!ClearMessage, ClearMessage
  <2>2. Gtk!Message => Message
    BY DEF Gtk!Message, Message
  <2>3. Gtk!SetPrompt => SetPrompt
    BY DEF Gtk!SetPrompt, SetPrompt
  <2>4. Gtk!InsertChar => InsertChar
    BY DEF Gtk!InsertChar, InsertChar
  <2>5. Gtk!Accept => Accept
    BY DEF Gtk!Accept, Accept
  <2>6. Gtk!Cancel => Cancel
    BY DEF Gtk!Cancel, Cancel
  <2> QED
    BY <2>1, <2>2, <2>3, <2>4, <2>5, <2>6
<1>6. Gtk!FeralEdit => FeralEdit
  BY <1>5 DEF Gtk!FeralEdit, FeralEdit
<1>7. Gtk!EditBuffer => EditBuffer
  BY DEF Gtk!EditBuffer, EditBuffer
<1>8. ASSUME NEW ws PROVE Gtk!ToParent(ws) => ToParent(ws)
  BY DEF Gtk!ToParent, ToParent
<1>9. ASSUME NEW ws PROVE Gtk!Take(ws) => Take(ws)
  BY DEF Gtk!Take, Take, Gtk!CanTake, CanTake, Gtk!Cardinality, Cardinality
<1> QED
  BY <1>4, <1>6, <1>7, <1>8, <1>9

\* WinUi means the same by the names of Minibuffer and Feral as well.
LEMMA WinIsFeral ==
  /\ Win!Top = Top
  /\ \A w : Win!Next_(w) <=> Next_(w)
  /\ \A ws : Win!Do(ws) <=> Do(ws)
  /\ \A f : Win!Push(f) <=> Push(f)
  /\ \A f, ws : Win!Become(f, ws) = Become(f, ws)
  /\ \A fn, n : Win!Loop(fn, n) = Loop(fn, n)
  /\ \A ws : Win!Handler(ws) = Handler(ws)
  /\ \A ws, a : Win!Catch(ws, a) = Catch(ws, a)
  /\ \A a : Win!Line(a) = Line(a)
  /\ Win!Throw <=> Throw
  /\ \A t, ws : Win!SetText(t, ws) <=> SetText(t, ws)
  /\ Win!InLoop <=> InLoop
  /\ \A fn : Win!Open(fn) = Open(fn)
  /\ Win!Loops = Loops /\ Win!Widget = Widget /\ Win!Empty = Empty /\ Win!NoText = NoText
  /\ Win!Command = Command /\ Win!AskWords = AskWords
<1>1. Win!Top = Top /\ Win!Loops = Loops /\ Win!Widget = Widget
  BY DEF Win!Top, Top, Win!Last, Last, Win!Loops, Loops, Win!Widget, Widget
<1>2. \A w : Win!Next_(w) <=> Next_(w)
  BY <1>1 DEF Win!Next_, Next_
<1>3. \A f, ws : Win!Become(f, ws) = Become(f, ws)
  BY <1>1 DEF Win!Become, Become, Win!Front, Front
<1>4. \A ws : Win!Do(ws) <=> Do(ws)
  BY <1>1, <1>3 DEF Win!Do, Do
<1>5. \A f : Win!Push(f) <=> Push(f)
  BY <1>1, <1>3 DEF Win!Push, Push
<1>6. \A fn, n : Win!Loop(fn, n) = Loop(fn, n)
  BY DEF Win!Loop, Loop
<1>7. /\ \A ws : Win!Handler(ws) = Handler(ws)
      /\ \A ws, a : Win!Catch(ws, a) = Catch(ws, a)
  BY <1>6 DEF Win!Handler, Handler, Win!Catch, Catch
<1>8. /\ \A a : Win!Line(a) = Line(a)
      /\ Win!Empty = Empty /\ Win!NoText = NoText
      /\ Win!Command = Command /\ Win!AskWords = AskWords
  BY DEF Win!Line, Line, Win!Empty, Empty, Win!NoText, NoText, Win!Command, Command, Win!AskWords, AskWords
<1>9. Win!Throw <=> Throw
  BY <1>1 DEF Win!Throw, Throw, Win!SelectLastInSeq, SelectLastInSeq, Win!Max, Max
<1>10. \A t, ws : Win!SetText(t, ws) <=> SetText(t, ws)
  BY <1>4 DEF Win!SetText, SetText
<1>11. Win!InLoop <=> InLoop
  BY <1>1 DEF Win!InLoop, InLoop
<1>12. \A fn : Win!Open(fn) = Open(fn)
  BY DEF Win!Open, Open
<1> QED
  BY <1>1, <1>2, <1>3, <1>4, <1>5, <1>6, <1>7, <1>8, <1>9, <1>10, <1>11, <1>12

\* So do the steps that the editor takes in Windows.
LEMMA WinFeral ==
  /\ Win!FeralStep => FeralStep
  /\ Win!FeralEdit => FeralEdit
  /\ Win!EditBuffer => EditBuffer
  /\ \A ws : Win!ToParent(ws) => ToParent(ws)
  /\ \A ws : Win!Take(ws) => Take(ws)
<1> USE WinIsFeral DEF Win!askVars, askVars
<1>1. ASSUME NEW w, NEW ws, NEW a PROVE Win!SafeCall(w, ws, a) => SafeCall(w, ws, a)
  BY DEF Win!SafeCall, SafeCall
<1>2. /\ Win!AskCommand => AskCommand
      /\ Win!QuitCommand => QuitCommand
      /\ Win!FailingCommand => FailingCommand
      /\ Win!PasteCommand => PasteCommand
  BY <1>1 DEF Win!AskCommand, AskCommand, Win!QuitCommand, QuitCommand, Win!FailingCommand,
     FailingCommand, Win!PasteCommand, PasteCommand
<1>3. /\ Win!DoQuit => DoQuit
      /\ Win!Raise => Raise
      /\ Win!MinibufferRun => MinibufferRun
      /\ Win!Restore => Restore
      /\ Win!Answer => Answer
      /\ Win!AssertMinibuffer => AssertMinibuffer
      /\ Win!Return => Return
  <2>1. Win!DoQuit => DoQuit
    BY DEF Win!DoQuit, DoQuit
  <2>2. Win!Raise => Raise
    BY DEF Win!Raise, Raise
  <2>3. Win!MinibufferRun => MinibufferRun
    BY DEF Win!MinibufferRun, MinibufferRun
  <2>4. Win!Restore => Restore
    BY DEF Win!Restore, Restore
  <2>5. Win!Answer => Answer
    BY DEF Win!Answer, Answer
  <2>6. Win!AssertMinibuffer => AssertMinibuffer
    BY DEF Win!AssertMinibuffer, AssertMinibuffer
  <2>7. Win!Return => Return
    BY DEF Win!Return, Return, Win!Front, Front
  <2> QED
    BY <2>1, <2>2, <2>3, <2>4, <2>5, <2>6, <2>7
<1>4. Win!FeralStep => FeralStep
  BY <1>2, <1>3 DEF Win!FeralStep, FeralStep
<1>5. /\ Win!ClearMessage => ClearMessage
      /\ Win!Message => Message
      /\ Win!SetPrompt => SetPrompt
      /\ Win!InsertChar => InsertChar
      /\ Win!Accept => Accept
      /\ Win!Cancel => Cancel
  <2>1. Win!ClearMessage => ClearMessage
    BY DEF Win!ClearMessage, ClearMessage
  <2>2. Win!Message => Message
    BY DEF Win!Message, Message
  <2>3. Win!SetPrompt => SetPrompt
    BY DEF Win!SetPrompt, SetPrompt
  <2>4. Win!InsertChar => InsertChar
    BY DEF Win!InsertChar, InsertChar
  <2>5. Win!Accept => Accept
    BY DEF Win!Accept, Accept
  <2>6. Win!Cancel => Cancel
    BY DEF Win!Cancel, Cancel
  <2> QED
    BY <2>1, <2>2, <2>3, <2>4, <2>5, <2>6
<1>6. Win!FeralEdit => FeralEdit
  BY <1>5 DEF Win!FeralEdit, FeralEdit
<1>7. Win!EditBuffer => EditBuffer
  BY DEF Win!EditBuffer, EditBuffer
<1>8. ASSUME NEW ws PROVE Win!ToParent(ws) => ToParent(ws)
  BY DEF Win!ToParent, ToParent
<1>9. ASSUME NEW ws PROVE Win!Take(ws) => Take(ws)
  BY DEF Win!Take, Take, Win!CanTake, CanTake, Win!Cardinality, Cardinality
<1> QED
  BY <1>4, <1>6, <1>7, <1>8, <1>9

----------------------------------------------------------------------------
(***************************************************************************)
(* What the operators on the call stack do.                                 *)
(***************************************************************************)

\* A sequence without its last element.
LEMMA FrontIs ==
  ASSUME NEW S, NEW q \in Seq(S), q # <<>>
  PROVE  /\ Front(q) \in Seq(S)
         /\ Len(q) \in Nat \ {0}
         /\ Len(Front(q)) = Len(q) - 1
         /\ \A i \in 1..Len(q) - 1 : Front(q)[i] = q[i]
<1>1. Len(q) \in Nat \ {0} /\ \A i \in 1..Len(q) - 1 : q[i] \in S
  BY EmptySeq, ElementOfSeq
<1>2. /\ Front(q) \in Seq(S)
      /\ Len(Front(q)) = IF 1 <= Len(q) - 1 THEN (Len(q) - 1) - 1 + 1 ELSE 0
      /\ \A i \in 1..(Len(q) - 1) - 1 + 1 : Front(q)[i] = q[1 + i - 1]
  BY <1>1, SubSeqProperties DEF Front
<1>3. PICK n \in Nat : Len(q) = n + 1
  <2>1. Len(q) - 1 \in Nat /\ Len(q) = (Len(q) - 1) + 1
    BY <1>1
  <2> QED
    BY <2>1
<1>4. (1 <= n => (n - 1) + 1 = n) /\ (~(1 <= n) => n = 0) /\ Len(q) - 1 = n
  BY <1>3
<1>5. ASSUME NEW i \in 1..Len(q) - 1 PROVE Front(q)[i] = q[i]
  <2>1. i \in 1..(Len(q) - 1) - 1 + 1 /\ 1 + i - 1 = i
    BY <1>3
  <2> HIDE DEF Front
  <2> QED
    BY <1>2, <2>1
<1> HIDE DEF Front
<1> QED
  BY <1>1, <1>2, <1>4, <1>5

\* The top frame is the last one.
LEMMA TopIs ==
  ASSUME calls \in Seq(Call), calls # <<>>
  PROVE  /\ Len(calls) \in Nat \ {0} /\ DOMAIN calls = 1..Len(calls)
         /\ Top = calls[Len(calls)] /\ Top \in Call
BY EmptySeq, ElementOfSeq, LenProperties DEF Top, Last

\* The frames up to the n-th stay as they are.
Keeps(n) == \A i \in 1..n : calls'[i] = calls[i]

\* The frame f is on top afterwards, as the n-th.
Tops(n, f) ==
  /\ calls' \in Seq(Call)
  /\ Len(calls') = n /\ n \in Nat \ {0}
  /\ DOMAIN calls' = 1..n
  /\ calls'[n] = f

\* The frame f with other words to do.
With(f, words) == [f EXCEPT !.todo = words]

\* A frame that goes on with other words is the same frame otherwise.
LEMMA WithIs ==
  ASSUME NEW f \in Call, NEW ws \in Seq(Word)
  PROVE  /\ With(f, ws) \in Call
         /\ With(f, ws).todo = ws /\ With(f, ws).fn = f.fn /\ With(f, ws).loop = f.loop
         /\ With(f, ws).ask = f.ask /\ With(f, ws).saved = f.saved
BY DEF With, Call

\* A word that gives way to others changes the top frame alone.
LEMMA BecomeIs ==
  ASSUME calls \in Seq(Call), calls # <<>>, Top.todo # <<>>,
         NEW f \in Call, NEW ws \in Seq(Word), calls' = Become(f, ws)
  PROVE  /\ Tops(Len(calls), With(f, ws \o Tail(Top.todo)))
         /\ Keeps(Len(calls) - 1)
<1>1. /\ Front(calls) \in Seq(Call) /\ Len(calls) \in Nat \ {0}
      /\ Len(Front(calls)) = Len(calls) - 1
      /\ \A i \in 1..Len(calls) - 1 : Front(calls)[i] = calls[i]
  BY FrontIs
<1>2. Top \in Call /\ Top.todo \in Seq(Word)
  BY TopIs DEF Call
<1>3. ws \o Tail(Top.todo) \in Seq(Word)
  BY <1>2, HeadTailProperties, ConcatProperties
<1> DEFINE g == With(f, ws \o Tail(Top.todo))
<1>4. g \in Call
  BY <1>3, WithIs
<1>5. calls' = Append(Front(calls), g)
  BY DEF Become, With
<1> HIDE DEF g
<1>6. /\ calls' \in Seq(Call)
      /\ Len(calls') = Len(Front(calls)) + 1
      /\ \A i \in 1..Len(Front(calls)) : calls'[i] = Front(calls)[i]
      /\ calls'[Len(Front(calls)) + 1] = g
  BY <1>1, <1>4, <1>5, AppendProperties
<1>7. Len(calls') = Len(calls) /\ calls'[Len(calls)] = g
  BY <1>1, <1>6
<1>8. Keeps(Len(calls) - 1)
  BY <1>1, <1>6 DEF Keeps
<1>9. DOMAIN calls' = 1..Len(calls)
  BY <1>6, <1>7, LenProperties
<1> QED
  BY <1>1, <1>6, <1>7, <1>8, <1>9 DEF Tops, g

\* A frame that is put on top leaves the frames beneath alone, but for the word that is
\* done.
LEMMA PushIs ==
  ASSUME calls \in Seq(Call), calls # <<>>, Top.todo # <<>>, NEW f \in Call, Push(f)
  PROVE  /\ Tops(Len(calls) + 1, f)
         /\ Keeps(Len(calls) - 1)
         /\ calls'[Len(calls)] = With(Top, Tail(Top.todo))
<1>1. /\ Front(calls) \in Seq(Call) /\ Len(calls) \in Nat \ {0}
      /\ Len(Front(calls)) = Len(calls) - 1
      /\ \A i \in 1..Len(calls) - 1 : Front(calls)[i] = calls[i]
  BY FrontIs
<1>2. Top \in Call /\ Top.todo \in Seq(Word)
  BY TopIs DEF Call
<1>3. Tail(Top.todo) \in Seq(Word) /\ <<>> \o Tail(Top.todo) = Tail(Top.todo)
  BY <1>2, HeadTailProperties, ConcatEmptySeq
<1> DEFINE g == With(Top, Tail(Top.todo))
           c == Append(Front(calls), g)
<1>4. g \in Call
  BY <1>2, <1>3, WithIs
<1>5. calls' = Append(c, f)
  BY <1>3 DEF Push, Become, With
<1> HIDE DEF g
<1>6. /\ c \in Seq(Call)
      /\ Len(c) = Len(Front(calls)) + 1
      /\ \A i \in 1..Len(Front(calls)) : c[i] = Front(calls)[i]
      /\ c[Len(Front(calls)) + 1] = g
  BY <1>1, <1>4, AppendProperties
<1>7. Len(c) = Len(calls) /\ c[Len(calls)] = g /\ \A i \in 1..Len(calls) - 1 : c[i] = calls[i]
  BY <1>1, <1>6
<1> HIDE DEF c
<1>8. /\ calls' \in Seq(Call)
      /\ Len(calls') = Len(c) + 1
      /\ \A i \in 1..Len(c) : calls'[i] = c[i]
      /\ calls'[Len(c) + 1] = f
  BY <1>5, <1>6, AppendProperties
<1>9. calls'[Len(calls)] = g /\ \A i \in 1..Len(calls) - 1 : calls'[i] = calls[i]
  BY <1>1, <1>7, <1>8
<1>10. \A i \in 1..Len(calls) : calls'[i] = IF i = Len(calls) THEN g ELSE calls[i]
  BY <1>1, <1>9
<1>11. DOMAIN calls' = 1..Len(calls) + 1
  BY <1>7, <1>8, LenProperties
<1> QED
  BY <1>1, <1>7, <1>8, <1>9, <1>11 DEF Tops, g, Keeps

\* When the top frame is done, the others stay as they are.
LEMMA FrontTops ==
  ASSUME calls \in Seq(Call), calls # <<>>, calls' = Front(calls)
  PROVE  /\ calls' \in Seq(Call)
         /\ Len(calls') = Len(calls) - 1 /\ DOMAIN calls' = 1..Len(calls) - 1
         /\ Keeps(Len(calls) - 1)
<1>1. /\ Front(calls) \in Seq(Call) /\ Len(Front(calls)) = Len(calls) - 1
      /\ \A i \in 1..Len(calls) - 1 : Front(calls)[i] = calls[i]
  BY FrontIs
<1> QED
  BY <1>1, LenProperties DEF Keeps

\* A handler that a loop calls leaves all frames as they are.
LEMMA AppendIs ==
  ASSUME calls \in Seq(Call), NEW f \in Call, calls' = Append(calls, f)
  PROVE  Tops(Len(calls) + 1, f) /\ Keeps(Len(calls))
<1>1. /\ calls' \in Seq(Call)
      /\ Len(calls') = Len(calls) + 1
      /\ \A i \in 1..Len(calls) : calls'[i] = calls[i]
      /\ calls'[Len(calls) + 1] = f
  BY AppendProperties
<1>2. Len(calls) \in Nat /\ DOMAIN calls' = 1..Len(calls')
  BY <1>1, LenProperties
<1> QED
  BY <1>1, <1>2 DEF Tops, Keeps

\* Where an error goes: the last safe-call-symbol.
LEMMA CatchIs ==
  ASSUME calls \in Seq(Call), NEW at, at = SelectLastInSeq(calls, LAMBDA f : f.fn = "catch")
  PROVE  \/ at = 0
         \/ /\ at \in DOMAIN calls /\ calls[at].fn = "catch"
            /\ \A i \in DOMAIN calls : calls[i].fn = "catch" => i <= at
<1> DEFINE I == {i \in 1..Len(calls) : calls[i].fn = "catch"}
<1>1. at = IF I # {} THEN CHOOSE x \in I : \A y \in I : x >= y ELSE 0
  BY DEF SelectLastInSeq, Max
<1>2. Len(calls) \in Nat /\ DOMAIN calls = 1..Len(calls)
  BY LenProperties
<1>3. ASSUME I # {} PROVE \E x \in I : \A y \in I : x >= y
  <2> DEFINE D == {Len(calls) - i : i \in I}
  <2>1. D \subseteq Nat /\ D # {}
    BY <1>2, <1>3
  <2> HIDE DEF D
  <2>2. PICK d \in D : \A e \in D : ~(<<e, d>> \in OpToRel(<, Nat))
    BY <2>1, WFMin, NatLessThanWellFounded
  <2>3. \A e \in D : ~(e < d)
    BY <2>1, <2>2 DEF OpToRel
  <2>4. PICK x \in I : d = Len(calls) - x
    BY DEF D
  <2>5. \A y \in I : ~(Len(calls) - y < Len(calls) - x)
    BY <2>3, <2>4 DEF D
  <2>6. \A y \in I : x >= y
    BY <1>2, <2>5
  <2> QED
    BY <2>6
<1>4. CASE I = {}
  BY <1>1, <1>4
<1>5. CASE I # {}
  <2>1. at \in I /\ \A y \in I : at >= y
    BY <1>1, <1>3, <1>5
  <2> QED
    BY <1>2, <2>1
<1> QED
  BY <1>4, <1>5

\* An error ends the program, or goes to a catch, and the frames beneath that stay.
LEMMA ThrowIs ==
  ASSUME calls \in Seq(Call), Throw
  PROVE  \/ phase' = "dead" /\ calls' = <<>>
         \/ /\ phase' = phase
            /\ \E at \in DOMAIN calls :
                 /\ calls[at].fn = "catch"
                 /\ Tops(at, With(calls[at], <<"say">>)) /\ Keeps(at - 1)
                 /\ \/ "failed" \in upset'
                    \/ \A i \in DOMAIN calls : i > at => i = 1 \/ calls[i].fn \notin Loops
<1> DEFINE at == SelectLastInSeq(calls, LAMBDA f : f.fn = "catch")
<1>1. \/ at = 0
      \/ at \in DOMAIN calls /\ calls[at].fn = "catch"
  BY CatchIs
<1>2. /\ upset' = IF \E i \in DOMAIN calls : i > at /\ i > 1 /\ calls[i].fn \in Loops
                  THEN upset \cup {"failed"} ELSE upset
      /\ IF at = 0 THEN phase' = "dead" /\ calls' = <<>>
         ELSE /\ phase' = phase
              /\ calls' = Append(SubSeq(calls, 1, at - 1), With(calls[at], <<"say">>))
  BY DEF Throw, With
<1>3. Len(calls) \in Nat /\ DOMAIN calls = 1..Len(calls) /\ \A i \in DOMAIN calls : calls[i] \in Call
  BY LenProperties, ElementOfSeq
<1> HIDE DEF at
<1>4. ASSUME at # 0, NEW a, a = at
      PROVE  Tops(a, With(calls[a], <<"say">>)) /\ Keeps(a - 1)
  <2>1. a \in 1..Len(calls) /\ a \in Nat \ {0}
    BY <1>1, <1>3, <1>4
  <2>2. calls[a] \in Call /\ <<"say">> \in Seq(Word)
    <3>1. <<"say">> \in Seq(Word)
      BY DEF Word
    <3> QED
      BY <1>3, <2>1, <3>1
  <2> DEFINE g == With(calls[a], <<"say">>)
             c == SubSeq(calls, 1, a - 1)
  <2>3. g \in Call
    BY <2>2, WithIs
  <2>4. PICK n \in Nat : a = n + 1
    <3>1. a - 1 \in Nat /\ a = (a - 1) + 1
      BY <2>1
    <3> QED
      BY <3>1
  <2>5. \A i \in 1..n : calls[i] \in Call
    BY <1>3, <2>1, <2>4
  <2>6. /\ c \in Seq(Call) /\ Len(c) = IF 1 <= n THEN n - 1 + 1 ELSE 0
        /\ \A i \in 1..n - 1 + 1 : c[i] = calls[1 + i - 1]
    <3>1. a - 1 = n
      BY <2>4
    <3> QED
      BY <3>1, <2>5, SubSeqProperties
  <2> HIDE DEF c, g
  <2>7. Len(c) = n /\ \A i \in 1..n : c[i] = calls[i]
    <3>1. \A i \in 1..n : i \in 1..n - 1 + 1 /\ 1 + i - 1 = i
      OBVIOUS
    <3>2. (1 <= n => n - 1 + 1 = n) /\ (~(1 <= n) => n = 0)
      OBVIOUS
    <3> QED
      BY <2>6, <3>1, <3>2
  <2>8. calls' = Append(c, g)
    BY <1>2, <1>4 DEF c, g
  <2>9. /\ calls' \in Seq(Call) /\ Len(calls') = n + 1
        /\ \A i \in 1..n : calls'[i] = c[i]
        /\ calls'[n + 1] = g
    BY <2>3, <2>6, <2>7, <2>8, AppendProperties
  <2>10. DOMAIN calls' = 1..n + 1
    BY <2>9, LenProperties
  <2>11. Tops(a, g)
    BY <2>1, <2>4, <2>9, <2>10 DEF Tops
  <2>12. Keeps(n) /\ a - 1 = n
    BY <2>4, <2>7, <2>9 DEF Keeps
  <2> QED
    BY <2>11, <2>12 DEF g
<1>5. CASE at = 0
  BY <1>2, <1>5
<1>6. CASE at # 0
  <2>1. at \in DOMAIN calls /\ calls[at].fn = "catch" /\ phase' = phase
    BY <1>1, <1>2, <1>6
  <2>2. \/ "failed" \in upset'
        \/ \A i \in DOMAIN calls : i > at => i = 1 \/ calls[i].fn \notin Loops
    <3>1. CASE \E i \in DOMAIN calls : i > at /\ i > 1 /\ calls[i].fn \in Loops
      BY <1>2, <3>1
    <3>2. CASE ~\E i \in DOMAIN calls : i > at /\ i > 1 /\ calls[i].fn \in Loops
      BY <1>3, <3>2
    <3> QED
      BY <3>1, <3>2
  <2> QED
    BY <1>4, <1>6, <2>1, <2>2
<1> QED
  BY <1>5, <1>6

----------------------------------------------------------------------------
(***************************************************************************)
(* The kinds of steps there are: Summary lists what each of them does to the*)
(* question, the loops and the focus, and leaves out what is drawn.         *)
(***************************************************************************)

(***************************************************************************)
(* The steps of the two front ends, as far as calls and questions go.      *)
(***************************************************************************)
feral == <<askVars, phase, upset>>

\* What the toolkits' loops and focus depend on.
control == <<frame, focus, loops, minibuffer_exit, quit>>

\* The editor executes a word that is no call of the toolkit.
Talks ==
  /\ \/ FeralStep \/ FeralEdit \/ EditBuffer
     \/ ToParent(<<"invalidate">>) \/ ToParent(<<>>)
  /\ UNCHANGED control

\* A word that only shows something, or in Windows fetches the clipboard.
Passes ==
  /\ \E w \in {"update", "redraw", "redraw_mini", "repaint", "invalidate", "clipboard"} :
       Next_(w)
  /\ Do(<<>>)
  /\ UNCHANGED feral /\ UNCHANGED control

\* minibuffer_exit: GTK's head loop, or the one flag of Windows.
TellsToQuit ==
  /\ Next_("leave")
  /\ Do(<<>>)
  /\ IF toolkit = "gtk" THEN Gtk!MainQuit ELSE minibuffer_exit'
  /\ UNCHANGED feral /\ UNCHANGED <<frame, focus, quit>>

\* gtkui__exit and winui__exit.
Destroys ==
  /\ Next_("exit")
  /\ frame' = "destroyed"
  /\ \/ Do(<<>>) /\ phase' = phase
     \/ calls' = <<>> /\ phase' = "over"
  /\ toolkit = "gtk" => Gtk!MainQuit
  /\ UNCHANGED <<askVars, upset, minibuffer_exit>>

\* GTK runs its main context, or waits for the clipboard, inside a handler.
Pumps ==
  /\ toolkit = "gtk"
  /\ Next_("invalidate") \/ Next_("clipboard")
  /\ Push(Loop("pump", 0))
  /\ UNCHANGED feral /\ UNCHANGED control

\* The loop of a question begins, the toolkit's n-th.
AsksIn(n) ==
  /\ Next_("main")
  /\ Push(Loop("mini", n))
  /\ focus' = IF frame = "shown" THEN "minibuffer" ELSE focus
  /\ IF toolkit = "gtk" THEN n = Len(loops) + 1 /\ loops' = Append(loops, FALSE)
     ELSE n = 1 /\ minibuffer_exit' = FALSE
  /\ UNCHANGED feral /\ UNCHANGED <<frame, quit>>
Asks == \E n \in Nat : AsksIn(n)

\* It ends.
Concludes ==
  /\ phase = "run" /\ Top.fn = "mini"
  /\ calls' = Front(calls)
  /\ focus' = IF frame = "shown" THEN "textview" ELSE focus
  /\ IF toolkit = "gtk" THEN loops[Top.loop] /\ loops' = RemoveAt(loops, Top.loop)
     ELSE quit \/ minibuffer_exit
  /\ quit' => quit
  /\ UNCHANGED feral /\ UNCHANGED <<frame, minibuffer_exit>>

\* Nothing is pending any more in a loop inside a handler.
Pumped ==
  /\ toolkit = "gtk"
  /\ phase = "run" /\ Top.fn = "pump"
  /\ calls' = Front(calls)
  /\ UNCHANGED feral /\ UNCHANGED control

\* The words of a handler that a loop calls.
Handles(ws) ==
  /\ Lawful(toolkit, "handler", ws)
  /\ Nth(ws, 1) \in {"clear", "edit", "to_parent", "update", "do_quit", "assert"}
  /\ Range(ws) \subseteq Answering \/ focus = "textview"
  /\ Range(ws) \cap (Command \cup {"clipboard"}) = {} \/ focus = "textview"
  /\ Range(ws) \cap {"restore", "redraw_mini"} = {} \/ Nth(ws, 1) = "assert"

\* A loop calls a handler for an event, if it has not been told to end.
Taken(ws) ==
  /\ Handles(ws)
  /\ Take(ws)
  /\ Top.fn = "mini" =>
       IF toolkit = "gtk" THEN ~loops[Top.loop] ELSE ~minibuffer_exit /\ ~quit
  /\ UNCHANGED control
Takes == \E ws : Taken(ws)

\* Windows activates the frame.
Activates ==
  /\ toolkit = "winui"
  /\ InLoop
  /\ upset' = upset \cup {"activated"}
  /\ UNCHANGED <<calls, askVars, phase, frame, loops, minibuffer_exit, quit>>

\* The main loop begins.
Begins ==
  /\ phase = "start" /\ phase' = "run"
  /\ calls' = <<Loop("main", 1)>>
  /\ toolkit = "gtk" => loops' = <<FALSE>>
  /\ UNCHANGED <<askVars, upset, frame, focus, quit>>

\* Windows registers classes and creates windows, or GTK creates its own.
Prepares ==
  /\ phase = "start" /\ frame = "none"
  /\ \/ UNCHANGED <<calls, phase>>
     \/ phase' = "dead" /\ calls' = <<>>
  /\ frame' = "shown" => focus' = "textview"
  /\ UNCHANGED <<askVars, upset, loops, minibuffer_exit, quit>>

\* The main loop of GTK ends, or Windows divides by the height of no font.
Ends ==
  /\ phase = "run" /\ phase' \in {"over", "dead"}
  /\ calls' = <<>>
  /\ toolkit = "gtk" => Top.fn = "main" /\ loops' = RemoveAt(loops, Top.loop)
  /\ UNCHANGED <<askVars, upset, frame, minibuffer_exit, quit>>

\* Painting, sizes, and a WM_QUIT that the main loop ignores.
Idles ==
  /\ UNCHANGED <<feralVars, frame, focus, loops, minibuffer_exit>>
  /\ quit' => quit
  /\ quit' # quit => InLoop /\ Top.fn = "main"

\* All kinds of steps.
Summary ==
  /\ \/ Talks \/ Passes \/ TellsToQuit \/ Destroys \/ Pumps \/ Asks \/ Concludes \/ Pumped
     \/ Takes \/ Activates \/ Begins \/ Prepares \/ Ends \/ Idles
  /\ toolkit' = toolkit

\* A key of the text view.
LEMMA KeyHandles ==
  ASSUME NEW k \in Command, focus = "textview"
  PROVE  Handles(<<"clear", k, Finish(toolkit)>>)
<1>1. <<"clear", k, Finish(toolkit)>> \in Seq(Word)
  BY DEF Word, Command, Finish
<1>2. Lawful(toolkit, "handler", <<"clear", k, Finish(toolkit)>>)
  BY <1>1 DEF Lawful, Follows, Third, Nth, Command, Finish
<1> QED
  BY <1>2 DEF Range, Handles, Nth, Command, Finish

\* The mouse, the timer and the close button.
LEMMA MouseHandles ==
  /\ Handles(<<"clear", "update">>)
  /\ Handles(<<"to_parent", "update">>)
  /\ Handles(<<"clear", "to_parent", "update">>)
  /\ Handles(<<"update">>)
  /\ Handles(<<"do_quit">>)
<1> USE DEF Range, Lawful, Follows, Third, Nth, Command, Word, Handles, Answering
<1>1. Handles(<<"clear", "update">>)
  OBVIOUS
<1>2. Handles(<<"to_parent", "update">>)
  OBVIOUS
<1>3. Handles(<<"clear", "to_parent", "update">>)
  OBVIOUS
<1>4. Handles(<<"update">>)
  OBVIOUS
<1>5. Handles(<<"do_quit">>)
  OBVIOUS
<1> QED
  BY <1>1, <1>2, <1>3, <1>4, <1>5

\* When a sequence is the concatenation of two.
LEMMA JoinIs ==
  ASSUME NEW S, NEW s \in Seq(S), NEW t \in Seq(S), NEW u \in Seq(S),
         Len(u) = Len(s) + Len(t),
         \A i \in 1..Len(u) : u[i] = IF i <= Len(s) THEN s[i] ELSE t[i - Len(s)]
  PROVE  s \o t = u
<1>1. /\ s \o t \in Seq(S) /\ Len(s \o t) = Len(s) + Len(t)
      /\ \A i \in 1..Len(s) + Len(t) :
           (s \o t)[i] = IF i <= Len(s) THEN s[i] ELSE t[i - Len(s)]
  BY ConcatProperties
<1>2. Len(s \o t) = Len(u) /\ \A i \in 1..Len(s \o t) : (s \o t)[i] = u[i]
  BY <1>1
<1> QED
  BY <1>1, <1>2, SeqEqual

\* One word and one.
LEMMA Join11 ==
  ASSUME NEW S, NEW a \in S, NEW b \in S
  PROVE  <<a>> \o <<b>> = <<a, b>>
<1> DEFINE s == <<a>>  t == <<b>>  u == <<a, b>>
<1>1. s \in Seq(S) /\ t \in Seq(S) /\ u \in Seq(S)
  OBVIOUS
<1>2. /\ Len(s) = 1 /\ Len(t) = 1 /\ Len(u) = 2
      /\ s[1] = a /\ t[1] = b
      /\ u[1] = a /\ u[2] = b
  OBVIOUS
<1> HIDE DEF s, t, u
<1>3. \A i \in 1..Len(u) : u[i] = IF i <= Len(s) THEN s[i] ELSE t[i - Len(s)]
  BY <1>2
<1>4. Len(u) = Len(s) + Len(t)
  BY <1>2
<1>5. s \o t = u
  BY <1>1, <1>3, <1>4, JoinIs
<1> QED
  BY <1>5 DEF s, t, u

\* One word and two.
LEMMA Join12 ==
  ASSUME NEW S, NEW a \in S, NEW b \in S, NEW c \in S
  PROVE  <<a>> \o <<b, c>> = <<a, b, c>>
<1> DEFINE s == <<a>>  t == <<b, c>>  u == <<a, b, c>>
<1>1. s \in Seq(S) /\ t \in Seq(S) /\ u \in Seq(S)
  OBVIOUS
<1>2. /\ Len(s) = 1 /\ Len(t) = 2 /\ Len(u) = 3
      /\ s[1] = a /\ t[1] = b /\ t[2] = c
      /\ u[1] = a /\ u[2] = b /\ u[3] = c
  OBVIOUS
<1> HIDE DEF s, t, u
<1>3. \A i \in 1..Len(u) : u[i] = IF i <= Len(s) THEN s[i] ELSE t[i - Len(s)]
  BY <1>2
<1>4. Len(u) = Len(s) + Len(t)
  BY <1>2
<1>5. s \o t = u
  BY <1>1, <1>3, <1>4, JoinIs
<1> QED
  BY <1>5 DEF s, t, u

\* Two words and two.
LEMMA Join22 ==
  ASSUME NEW S, NEW a \in S, NEW b \in S, NEW c \in S, NEW d \in S
  PROVE  <<a, b>> \o <<c, d>> = <<a, b, c, d>>
<1> DEFINE s == <<a, b>>  t == <<c, d>>  u == <<a, b, c, d>>
<1>1. s \in Seq(S) /\ t \in Seq(S) /\ u \in Seq(S)
  OBVIOUS
<1>2. /\ Len(s) = 2 /\ Len(t) = 2 /\ Len(u) = 4
      /\ s[1] = a /\ s[2] = b /\ t[1] = c /\ t[2] = d
      /\ u[1] = a /\ u[2] = b /\ u[3] = c /\ u[4] = d
  OBVIOUS
<1> HIDE DEF s, t, u
<1>3. \A i \in 1..Len(u) : u[i] = IF i <= Len(s) THEN s[i] ELSE t[i - Len(s)]
  BY <1>2
<1>4. Len(u) = Len(s) + Len(t)
  BY <1>2
<1>5. s \o t = u
  BY <1>1, <1>3, <1>4, JoinIs
<1> QED
  BY <1>5 DEF s, t, u

\* Three words and two.
LEMMA Join32 ==
  ASSUME NEW S, NEW a \in S, NEW b \in S, NEW c \in S, NEW d \in S, NEW e \in S
  PROVE  <<a, b, c>> \o <<d, e>> = <<a, b, c, d, e>>
<1> DEFINE s == <<a, b, c>>  t == <<d, e>>  u == <<a, b, c, d, e>>
<1>1. s \in Seq(S) /\ t \in Seq(S) /\ u \in Seq(S)
  OBVIOUS
<1>2. /\ Len(s) = 3 /\ Len(t) = 2 /\ Len(u) = 5
      /\ s[1] = a /\ s[2] = b /\ s[3] = c /\ t[1] = d /\ t[2] = e
      /\ u[1] = a /\ u[2] = b /\ u[3] = c /\ u[4] = d /\ u[5] = e
  OBVIOUS
<1> HIDE DEF s, t, u
<1>3. \A i \in 1..Len(u) : u[i] = IF i <= Len(s) THEN s[i] ELSE t[i - Len(s)]
  BY <1>2
<1>4. Len(u) = Len(s) + Len(t)
  BY <1>2
<1>5. s \o t = u
  BY <1>1, <1>3, <1>4, JoinIs
<1> QED
  BY <1>5 DEF s, t, u

\* A key of the minibuffer in GTK.
LEMMA GtkMiniHandles ==
  ASSUME toolkit = "gtk", NEW ws \in Gtk!MinibufferCommand
  PROVE  Handles(<<"assert">> \o ws \o <<"restore", "redraw_mini">>)
<1> DEFINE all == <<"assert">> \o ws \o <<"restore", "redraw_mini">>
<1>1. all \in {<<"assert", "insert", "invalidate", "restore", "redraw_mini">>,
               <<"assert", "accept", "invalidate", "restore", "redraw_mini">>,
               <<"assert", "cancel", "invalidate", "restore", "redraw_mini">>,
               <<"assert", "do_quit", "invalidate", "restore", "redraw_mini">>,
               <<"assert", "throw", "restore", "redraw_mini">>,
               <<"assert", "restore", "redraw_mini">>}
  <2>1. ASSUME NEW w \in Word
        PROVE  (<<"assert">> \o <<w, "invalidate">>) \o <<"restore", "redraw_mini">> =
                  <<"assert", w, "invalidate", "restore", "redraw_mini">>
    <3>1. /\ "assert" \in Word /\ "invalidate" \in Word
          /\ "restore" \in Word /\ "redraw_mini" \in Word
      BY DEF Word
    <3>2. <<"assert">> \o <<w, "invalidate">> = <<"assert", w, "invalidate">>
      BY <3>1, Join12
    <3>3. <<"assert", w, "invalidate">> \o <<"restore", "redraw_mini">> =
            <<"assert", w, "invalidate", "restore", "redraw_mini">>
      BY <3>1, Join32
    <3> QED
      BY <3>2, <3>3
  <2>2. (<<"assert">> \o <<"throw">>) \o <<"restore", "redraw_mini">> =
           <<"assert", "throw", "restore", "redraw_mini">>
    <3>1. /\ "assert" \in Word /\ "throw" \in Word
          /\ "restore" \in Word /\ "redraw_mini" \in Word
      BY DEF Word
    <3>2. <<"assert">> \o <<"throw">> = <<"assert", "throw">>
      BY <3>1, Join11
    <3>3. <<"assert", "throw">> \o <<"restore", "redraw_mini">> =
            <<"assert", "throw", "restore", "redraw_mini">>
      BY <3>1, Join22
    <3> QED
      BY <3>2, <3>3
  <2>3. (<<"assert">> \o <<>>) \o <<"restore", "redraw_mini">> =
           <<"assert", "restore", "redraw_mini">>
    <3>1. /\ "assert" \in Word /\ "restore" \in Word /\ "redraw_mini" \in Word
          /\ <<"assert">> \in Seq(Word)
      BY DEF Word
    <3> QED
      BY <3>1, Join12, ConcatEmptySeq
  <2>4. {"insert", "accept", "cancel", "do_quit"} \subseteq Word
    BY DEF Word
  <2> QED
    BY <2>1, <2>2, <2>3, <2>4 DEF Gtk!MinibufferCommand
<1> HIDE DEF all
<1>2. ASSUME NEW w \in {"insert", "accept", "cancel", "do_quit"},
             all = <<"assert", w, "invalidate", "restore", "redraw_mini">>
      PROVE  Handles(all)
  BY <1>2 DEF Range, Lawful, Follows, Third, Nth, Command, Word, Handles, Answering, Shows, Waiting
<1>3. ASSUME all = <<"assert", "throw", "restore", "redraw_mini">> PROVE Handles(all)
  BY <1>3 DEF Range, Lawful, Follows, Third, Nth, Command, Word, Handles, Answering
<1>4. ASSUME all = <<"assert", "restore", "redraw_mini">> PROVE Handles(all)
  BY <1>4 DEF Range, Lawful, Follows, Third, Nth, Command, Word, Handles, Answering
<1> QED
  BY <1>1, <1>2, <1>3, <1>4 DEF all

\* A key of the minibuffer in Windows.
LEMMA WinMiniHandles ==
  ASSUME toolkit = "winui"
  PROVE  /\ \A ws \in Win!MinibufferCommand : Handles(<<"assert">> \o ws)
         /\ Handles(<<"assert", "insert", "repaint">>)
<1>1. ASSUME NEW ws \in Win!MinibufferCommand PROVE Handles(<<"assert">> \o ws)
  <2> DEFINE all == <<"assert">> \o ws
  <2>1. all \in {<<"assert", "accept", "invalidate">>, <<"assert", "cancel", "invalidate">>,
                 <<"assert", "do_quit", "invalidate">>, <<"assert", "throw">>, <<"assert">>}
    <3>1. /\ "assert" \in Word /\ "invalidate" \in Word /\ "accept" \in Word
          /\ "cancel" \in Word /\ "do_quit" \in Word /\ "throw" \in Word
          /\ <<"assert">> \in Seq(Word)
      BY DEF Word
    <3>2. <<"assert">> \o <<"throw">> = <<"assert", "throw">>
      BY <3>1, Join11
    <3>3. \A w \in Word : <<"assert">> \o <<w, "invalidate">> = <<"assert", w, "invalidate">>
      BY <3>1, Join12
    <3>4. <<"assert">> \o <<>> = <<"assert">>
      BY <3>1, ConcatEmptySeq
    <3> QED
      BY <3>1, <3>2, <3>3, <3>4 DEF Win!MinibufferCommand
  <2> HIDE DEF all
  <2>2. ASSUME NEW w \in {"accept", "cancel", "do_quit"}, all = <<"assert", w, "invalidate">>
        PROVE  Handles(all)
    BY <2>2 DEF Range, Lawful, Follows, Third, Nth, Command, Word, Handles, Answering, Shows, Waiting
  <2>3. ASSUME all = <<"assert", "throw">> PROVE Handles(all)
    BY <2>3 DEF Range, Lawful, Follows, Third, Nth, Command, Word, Handles, Answering
  <2>4. ASSUME all = <<"assert">> PROVE Handles(all)
    BY <2>4 DEF Range, Lawful, Follows, Third, Nth, Command, Word, Handles, Answering
  <2> QED
    BY <2>1, <2>2, <2>3, <2>4 DEF all
<1>2. Handles(<<"assert", "insert", "repaint">>)
  BY DEF Range, Lawful, Follows, Third, Nth, Command, Word, Handles, Answering, Shows
<1> QED
  BY <1>1, <1>2

\* The other things that Windows calls a handler for.
LEMMA WinKeyHandles ==
  ASSUME toolkit = "winui"
  PROVE  /\ Handles(<<"clear">>)
         /\ focus = "textview" => Handles(<<"edit", "update">>)
BY DEF Range, Lawful, Follows, Third, Nth, Command, Word, Handles, Answering, Finish

\* Each action of GtkUi is of one of the kinds above.
LEMMA GtkStepIs ==
  ASSUME toolkit = "gtk", loops \in Seq(BOOLEAN), Gtk!GtkNext, UNCHANGED <<toolkit, winVars>>
  PROVE  Summary
<1> USE GtkIsFeral DEF Gtk!askVars, askVars, feral, control, winVars
<1>1. ASSUME NEW ws, Handles(ws), Gtk!Event(ws) PROVE Summary
  <2>1. Take(ws) /\ UNCHANGED <<frame, focus, loops>>
    BY <1>1, GtkFeral DEF Gtk!Event, Gtk!gtkVars
  <2>2. Top.fn = "mini" => ~loops[Top.loop]
    BY <1>1, <2>1 DEF Gtk!Event, Gtk!ToldToQuit, Take, CanTake
  <2> QED
    BY <1>1, <2>1, <2>2 DEF Taken, Takes, Summary
<1>2. CASE Gtk!User
  <2>1. ASSUME NEW k \in Command, Gtk!TextviewKeyPress(k) PROVE Summary
    BY <2>1, <1>1, KeyHandles DEF Gtk!TextviewKeyPress, Finish
  <2>2. ASSUME NEW ws \in Gtk!MinibufferCommand, Gtk!MinibufferKeyPress(ws) PROVE Summary
    BY <2>2, <1>1, GtkMiniHandles DEF Gtk!MinibufferKeyPress
  <2> QED
    BY <1>2, <1>1, <2>1, <2>2, MouseHandles DEF Gtk!User, Gtk!TextviewDoubleClick,
       Gtk!TextviewButtonPress, Gtk!TextviewMotionNotify, Gtk!TextviewMousewheel, Gtk!Close
<1>3. CASE Gtk!SizeAllocate
  BY <1>3 DEF Gtk!SizeAllocate, Gtk!feralVars, feralVars, Idles, Summary
<1>4. CASE Gtk!Initialize
  BY <1>4 DEF Gtk!Initialize, Gtk!feralVars, feralVars, Prepares, Summary
<1>5. CASE Gtk!GtkMain
  BY <1>5 DEF Gtk!GtkMain, Begins, Summary
<1>6. CASE Gtk!GtkMainReturns
  BY <1>6 DEF Gtk!GtkMainReturns, Gtk!ToldToQuit, InLoop, Ends, Summary,
     Gtk!RemoveAt, RemoveAt
<1>7. CASE Gtk!MinibufferMain
  <2>1. Len(loops) + 1 \in Nat
    BY LenProperties
  <2>2. focus' = IF frame = "shown" THEN "minibuffer" ELSE focus
    BY <1>7 DEF Gtk!MinibufferMain, Gtk!GrabFocus
  <2>3. AsksIn(Len(loops) + 1)
    BY <1>7, <2>2 DEF Gtk!MinibufferMain, AsksIn
  <2> QED
    BY <2>1, <2>3 DEF Asks, Summary
<1>8. CASE Gtk!MinibufferMainReturns
  <2>1. focus' = IF frame = "shown" THEN "textview" ELSE focus
    BY <1>8 DEF Gtk!MinibufferMainReturns, Gtk!GrabFocus
  <2> QED
    BY <1>8, <2>1 DEF Gtk!MinibufferMainReturns, Gtk!ToldToQuit, InLoop, Concludes, Summary,
       Gtk!Front, Front, Gtk!RemoveAt, RemoveAt
<1>9. CASE Gtk!MinibufferExit
  BY <1>9 DEF Gtk!MinibufferExit, TellsToQuit, Summary
<1>10. CASE Gtk!Exit
  BY <1>10 DEF Gtk!Exit, Destroys, Summary
<1>11. CASE Gtk!Draw
  BY <1>11 DEF Gtk!Draw, Gtk!feralVars, feralVars, Idles, Summary
<1>12. CASE Gtk!UpdateDisplay
  BY <1>12 DEF Gtk!UpdateDisplay, Gtk!resting, Passes, Summary
<1>13. CASE Gtk!QueueDraw
  BY <1>13 DEF Gtk!QueueDraw, Gtk!resting, Passes, Summary
<1>14. CASE Gtk!MinibufferInvalidate
  BY <1>14 DEF Gtk!MinibufferInvalidate, Gtk!resting, Pumps, Summary
<1>15. CASE Gtk!GetClipboardText
  BY <1>15 DEF Gtk!GetClipboardText, Gtk!gtkVars, Pumps, Summary
<1>16. CASE Gtk!PumpEnds
  BY <1>16 DEF Gtk!PumpEnds, Gtk!gtkVars, InLoop, Gtk!Front, Front, Pumped, Summary
<1>17. CASE (Gtk!FeralStep \/ Gtk!ToParent(<<"invalidate">>)) /\ UNCHANGED Gtk!gtkVars
  BY <1>17, GtkFeral DEF Gtk!gtkVars, Talks, Summary
<1>18. CASE (Gtk!FeralEdit \/ Gtk!EditBuffer) /\ UNCHANGED <<Gtk!resting, queued>>
  BY <1>18, GtkFeral DEF Gtk!resting, Talks, Summary
<1> QED
  BY <1>2, <1>3, <1>4, <1>5, <1>6, <1>7, <1>8, <1>9, <1>10, <1>11, <1>12, <1>13, <1>14,
     <1>15, <1>16, <1>17, <1>18 DEF Gtk!GtkNext, Gtk!GtkStep

\* Each action of WinUi is of one of the kinds above.
LEMMA WinStepIs ==
  ASSUME toolkit = "winui", Win!WinNext, UNCHANGED <<toolkit, loops>>
  PROVE  Summary
<1> USE WinIsFeral DEF Win!askVars, askVars, feral, control, Win!winVars
<1>1. ASSUME NEW ws, Handles(ws), Win!Event(ws) PROVE Summary
  <2>1. Take(ws) /\ UNCHANGED <<frame, focus, minibuffer_exit, quit>>
    BY <1>1, WinFeral DEF Win!Event
  <2>2. Top.fn = "mini" => ~minibuffer_exit /\ ~quit
    BY <1>1 DEF Win!Event
  <2> QED
    BY <1>1, <2>1, <2>2 DEF Taken, Takes, Summary
<1>2. CASE Win!User
  <2>1. ASSUME NEW k \in Command, Win!TextviewKeydown(k) PROVE Summary
    BY <2>1, <1>1, KeyHandles DEF Win!TextviewKeydown, Finish
  <2>2. ASSUME NEW ws \in Win!MinibufferCommand, Win!MinibufferKeydown(ws) PROVE Summary
    BY <2>2, <1>1, WinMiniHandles DEF Win!MinibufferKeydown
  <2>3. CASE Win!MinibufferChar
    BY <2>3, <1>1, WinMiniHandles DEF Win!MinibufferChar
  <2>4. CASE Win!TextviewOtherKey \/ Win!TextviewChar
    BY <2>4, <1>1, WinKeyHandles DEF Win!TextviewOtherKey, Win!TextviewChar
  <2>5. CASE Win!Activate
    BY <2>5 DEF Win!Activate, Win!SetFocus, Win!CanTake, Activates, Summary
  <2> QED
    BY <1>2, <1>1, <2>1, <2>2, <2>3, <2>4, <2>5, MouseHandles DEF Win!User,
       Win!TextviewDoubleClick, Win!TextviewLbuttondown, Win!TextviewShiftClick,
       Win!TextviewMousemove, Win!TextviewMousewheel, Win!RequestUpdateDisplay, Win!Close
<1>3. CASE Win!Resize
  <2>1. PICK h : Win!Size(h, measured)
    BY <1>3 DEF Win!Resize
  <2>2. \/ UNCHANGED <<phase, calls>>
        \/ phase' = "dead" /\ calls' = <<>>
    BY <2>1 DEF Win!Size
  <2> QED
    BY <1>3, <2>2 DEF Win!Resize, feralVars, Idles, Ends, Summary
<1>4. CASE Win!Initialize
  BY <1>4 DEF Win!Initialize, Win!feralVars, feralVars, Prepares, Summary
<1>5. CASE Win!CreateFrame
  <2>1. \/ UNCHANGED <<phase, calls>>
        \/ phase' = "dead" /\ calls' = <<>>
    BY <1>5 DEF Win!CreateFrame, Win!Size
  <2> QED
    BY <1>5, <2>1 DEF Win!CreateFrame, Prepares, Summary
<1>6. CASE Win!WinMain
  BY <1>6 DEF Win!WinMain, Begins, Summary
<1>7. CASE Win!IgnoreQuit
  BY <1>7 DEF Win!IgnoreQuit, Win!feralVars, feralVars, Idles, Summary
<1>8. CASE Win!MinibufferMain
  BY <1>8 DEF Win!MinibufferMain, Win!SetFocus, AsksIn, Asks, Summary
<1>9. CASE Win!MinibufferMainReturns
  BY <1>9 DEF Win!MinibufferMainReturns, Win!SetFocus, InLoop, Win!Front, Front, Concludes, Summary
<1>10. CASE Win!MinibufferExit
  BY <1>10 DEF Win!MinibufferExit, TellsToQuit, Summary
<1>11. CASE Win!Exit
  BY <1>11 DEF Win!Exit, Destroys, Summary
<1>12. CASE Win!TextviewPaint \/ Win!MinibufferPaint \/ Win!ModelinePaint
  BY <1>12 DEF Win!TextviewPaint, Win!MinibufferPaint, Win!ModelinePaint, Win!feralVars,
     feralVars, Idles, Summary
<1>13. CASE Win!UpdateDisplay \/ Win!RepaintMinibuffer
  BY <1>13 DEF Win!UpdateDisplay, Win!RepaintMinibuffer, Passes, Summary
<1>14. CASE Win!MinibufferInvalidate
  BY <1>14 DEF Win!MinibufferInvalidate, Passes, Summary
<1>15. CASE Win!GetClipboardText
  BY <1>15 DEF Win!GetClipboardText, Passes, Summary
<1>16. CASE (Win!FeralStep \/ Win!ToParent(<<>>))
            /\ UNCHANGED <<frame, focus, screenVars, winVars>>
  BY <1>16, WinFeral DEF winVars, Talks, Summary
<1>17. CASE (Win!FeralEdit \/ Win!EditBuffer)
            /\ UNCHANGED <<frame, focus, queued, caret, view, sizeVars, winVars>>
  BY <1>17, WinFeral DEF winVars, Talks, Summary
<1> QED
  BY <1>2, <1>3, <1>4, <1>5, <1>6, <1>7, <1>8, <1>9, <1>10, <1>11, <1>12, <1>13, <1>14,
     <1>15, <1>16, <1>17 DEF Win!WinNext, Win!WinStep, Win!screenVars, screenVars, Win!sizeVars,
     sizeVars, winVars

\* So is each step of the front ends.
LEMMA StepIs ==
  ASSUME loops \in Seq(BOOLEAN), [Next]_vars
  PROVE  Summary
<1>1. CASE OfGtk(Gtk!GtkNext)
  BY <1>1, GtkStepIs DEF OfGtk
<1>2. CASE OfWin(Win!WinNext)
  BY <1>2, WinStepIs DEF OfWin
<1>3. CASE UNCHANGED vars
  BY <1>3 DEF vars, winVars, Idles, Summary
<1> QED
  BY <1>1, <1>2, <1>3 DEF Next

----------------------------------------------------------------------------
(***************************************************************************)
(* What a step of the editor does, word by word.                            *)
(***************************************************************************)

\* The types of what the editor keeps.
Types ==
  /\ calls \in Seq(Call)
  /\ buffer \in {"edit", "mini"} /\ parent \in {"edit", "mini"}
  /\ prompt \in Asker \cup {"none"}
  /\ text \in Text /\ contents \in Text \cup {NoText}
  /\ phase \in {"start", "run", "over", "dead"}
  /\ upset \subseteq Mishap

\* The word w of the top frame gives way to the words ws.
Says(w, ws, f) ==
  /\ Next_(w)
  /\ calls' = Become(f, ws)
  /\ phase' = phase

\* The word w may give way to the words ws.
Admits(w, ws) ==
  \/ ws = <<>>
  \/ ws = <<"invalidate">> /\ w \in {"clear", "say", "prompt", "cancel"}
  \/ ws \in {<<"leave">>, <<"invalidate", "leave">>} /\ w \in {"accept", "cancel"}
  \/ ws = <<"exit">> /\ w \in {"do_quit", "answer"}
  \/ ws = AskWords /\ w = "do_quit"
  \/ ws \in {<<"cancel">>, <<"cancel", "invalidate">>} /\ w = "to_parent"

\* It does, in the top frame, which is f but for its words.
Rewritten(w, ws, f) ==
  /\ Says(w, ws, f) /\ Admits(w, ws)
  /\ f \in Call /\ f.fn = Top.fn /\ f.loop = Top.loop /\ f.todo = Top.todo

\* What a word does to the question, as far as the top frame goes on with it.
Feral == {"do_quit", "run", "restore", "answer", "assert", "clear", "say", "prompt", "insert",
          "accept", "cancel", "edit", "to_parent"}

\* The frame f goes on with ws.
Changes(w, ws, f) ==
  /\ w \in Feral
  /\ f.ask = IF ws = AskWords THEN "quit" ELSE Top.ask
  /\ f.saved = IF w \in {"run", "assert"} THEN buffer ELSE Top.saved
  /\ w \notin {"run", "restore", "to_parent"} => buffer' = buffer
  /\ w = "run" => buffer' = "mini" /\ parent' = buffer
  /\ w # "run" => parent' = parent
  /\ w = "restore" => buffer' = Top.saved
  /\ w = "assert" => buffer = "mini"
  /\ w = "to_parent" =>
       IF buffer = "mini" THEN buffer' = parent /\ ws \in {<<"cancel">>, <<"cancel", "invalidate">>}
       ELSE buffer' = buffer /\ ws = <<>>
  /\ w = "to_parent" /\ buffer = "mini" => text = Line(prompt) \/ "clicked" \in upset'
  /\ w = "do_quit" => Open("mini") = {} \/ "nested" \in upset'
  /\ prompt' = IF w = "prompt" THEN Top.ask ELSE prompt
  /\ w \notin {"clear", "say", "prompt", "accept", "cancel", "insert", "edit"} => text' = text
  /\ w \in {"clear", "say"} => IF buffer = "mini" THEN text' = text ELSE text' \in Text
  /\ w = "prompt" => text' = Line(Top.ask) /\ contents' = NoText
  /\ w \in {"insert", "edit"} => text' \in {text, [text EXCEPT !.typed = TRUE]}
  /\ w = "accept" => text' = Empty /\ contents' = text
  /\ w = "cancel" => IF text = Line(prompt) THEN text' = Empty /\ contents' = NoText
                     ELSE text' = Line(prompt) /\ contents' = contents
  /\ w \notin {"prompt", "accept", "cancel"} => contents' = contents
  /\ w \in {"clear", "say", "prompt", "accept", "cancel"} /\ text' # text =>
       ws \in {<<"invalidate">>, <<"invalidate", "leave">>}
  /\ w = "accept" \/ (w = "cancel" /\ text = Line(prompt)) =>
       ws \in {<<"leave">>, <<"invalidate", "leave">>}
  /\ w = "cancel" /\ text # Line(prompt) => ws \in {<<>>, <<"invalidate">>}

\* safe-call-symbol calls the command k.
Commands(k) ==
  /\ k \in Command \ {"edit"}
  /\ Next_(k)
  /\ \E ws \in {AskWords, <<"do_quit">>, <<"throw">>, <<"clipboard", "edit">>},
        a \in {"file", "none"} :
       Push(Catch(ws, a))
  /\ UNCHANGED feral

\* A word ends with an error.
Throws ==
  /\ \E w \in {"throw", "answer", "assert", "accept"} : Next_(w)
  /\ Throw
  /\ UNCHANGED <<buffer, parent, prompt, text>>

\* A handler or a command is done.
Ended ==
  /\ phase = "run" /\ Top.fn \notin Loops /\ Top.todo = <<>>
  /\ calls' = Front(calls)
  /\ UNCHANGED feral

\* set-text of the minibuffer redraws it when it changes something.
LEMMA SetTextIs ==
  ASSUME NEW t
  PROVE  /\ SetText(t, <<>>) =>
              \/ t = text /\ text' = text /\ Do(<<>>)
              \/ t # text /\ text' = t /\ Do(<<"invalidate">>)
         /\ SetText(t, <<"leave">>) =>
              \/ t = text /\ text' = text /\ Do(<<"leave">>)
              \/ t # text /\ text' = t /\ Do(<<"invalidate", "leave">>)
<1>1. "invalidate" \in Word /\ "leave" \in Word /\ <<"leave">> \in Seq(Word)
      /\ <<"invalidate">> \in Seq(Word) /\ <<>> \in Seq(Word)
  BY DEF Word
<1>2. <<"invalidate">> \o <<"leave">> = <<"invalidate", "leave">>
  BY <1>1, Join11
<1>3. <<>> \o <<>> = <<>> /\ <<"invalidate">> \o <<>> = <<"invalidate">>
      /\ <<>> \o <<"leave">> = <<"leave">>
  BY <1>1, ConcatEmptySeq
<1> QED
  BY <1>2, <1>3 DEF SetText

\* A click on the text while a question is open cancels it.
LEMMA ToParentIs ==
  ASSUME \/ ToParent(<<>>) \/ ToParent(<<"invalidate">>)
  PROVE  /\ Next_("to_parent")
         /\ \/ /\ buffer = "mini" /\ buffer' = parent
               /\ Do(<<"cancel">>) \/ Do(<<"cancel", "invalidate">>)
               /\ upset' = IF text = Line(prompt) THEN upset ELSE upset \cup {"clicked"}
            \/ buffer # "mini" /\ Do(<<>>) /\ UNCHANGED <<buffer, upset>>
         /\ UNCHANGED <<parent, prompt, text, contents, phase>>
<1>1. "invalidate" \in Word /\ "cancel" \in Word /\ <<"cancel">> \in Seq(Word)
  BY DEF Word
<1>2. <<"cancel">> \o <<"invalidate">> = <<"cancel", "invalidate">>
  BY <1>1, Join11
<1>3. <<"cancel">> \o <<>> = <<"cancel">>
  BY <1>1, ConcatEmptySeq
<1> QED
  BY <1>2, <1>3 DEF ToParent

\* The word that comes next, and the words after it.
LEMMA TopWords ==
  ASSUME Types, NEW w, Next_(w), phase = "run" => calls # <<>>
  PROVE  /\ phase = "run" /\ calls # <<>> /\ Top \in Call /\ Top.todo \in Seq(Word)
         /\ Top.todo # <<>> /\ Head(Top.todo) = w /\ Nth(Top.todo, 1) = w
         /\ Tail(Top.todo) \in Seq(Word)
         /\ \A n \in Nat \ {0} : Nth(Tail(Top.todo), n) = Nth(Top.todo, n + 1)
<1>1. phase = "run" /\ calls # <<>> /\ Top.todo # <<>> /\ Head(Top.todo) = w
  BY DEF Next_
<1>2. Top \in Call /\ Top.todo \in Seq(Word)
  BY <1>1, TopIs DEF Types, Call
<1>3. Len(Top.todo) \in Nat \ {0} /\ DOMAIN Top.todo = 1..Len(Top.todo) /\ Head(Top.todo) = Top.todo[1]
  BY <1>1, <1>2, EmptySeq, LenProperties
<1> QED
  BY <1>1, <1>2, <1>3, NthTail DEF Nth

\* Which words give way to which, as the front ends and the editor have it.
LEMMA AdmitsAre ==
  /\ \A w : Admits(w, <<>>)
  /\ \A w \in {"clear", "say", "prompt", "cancel"} : Admits(w, <<"invalidate">>)
  /\ \A w \in {"accept", "cancel"} :
       Admits(w, <<"leave">>) /\ Admits(w, <<"invalidate", "leave">>)
  /\ \A w \in {"do_quit", "answer"} : Admits(w, <<"exit">>)
  /\ Admits("do_quit", AskWords)
  /\ Admits("to_parent", <<"cancel">>) /\ Admits("to_parent", <<"cancel", "invalidate">>)
BY DEF Admits

\* A step of the editor rewrites the top frame, runs a command, throws, or ends a handler.
LEMMA TalksAre ==
  ASSUME Types, phase = "run" => calls # <<>>, Talks
  PROVE  /\ \/ \E w, ws, f : Rewritten(w, ws, f) /\ Changes(w, ws, f)
            \/ \E k : Commands(k)
            \/ Throws
            \/ Ended
         /\ UNCHANGED <<frame, focus, loops, minibuffer_exit, quit>>
         /\ upset \subseteq upset'
<1>1. UNCHANGED <<frame, focus, loops, minibuffer_exit, quit>>
  BY DEF Talks, control
<1> DEFINE Goal == /\ \/ \E w, ws, f : Rewritten(w, ws, f) /\ Changes(w, ws, f)
                      \/ \E k : Commands(k)
                      \/ Throws
                      \/ Ended
                   /\ upset \subseteq upset'
<1>2. ASSUME NEW w, NEW ws, Next_(w), Do(ws), Admits(w, ws), phase' = phase, upset \subseteq upset',
             Changes(w, ws, Top)
      PROVE  Goal
  <2>1. Top \in Call
    BY <1>2, TopWords
  <2>2. Rewritten(w, ws, Top)
    BY <1>2, <2>1 DEF Do, Rewritten, Says
  <2> QED
    BY <1>2, <2>2
<1>3. ASSUME NEW w, NEW ws, Next_(w), Admits(w, ws), phase' = phase, upset \subseteq upset',
             \/ calls' = Become([Top EXCEPT !.ask = "quit"], ws)
                /\ Changes(w, ws, [Top EXCEPT !.ask = "quit"])
             \/ calls' = Become([Top EXCEPT !.saved = buffer], ws)
                /\ Changes(w, ws, [Top EXCEPT !.saved = buffer])
      PROVE  Goal
  <2>1. Top \in Call /\ buffer \in {"edit", "mini"}
    BY <1>3, TopWords DEF Types
  <2>2. /\ [Top EXCEPT !.ask = "quit"] \in Call /\ [Top EXCEPT !.saved = buffer] \in Call
        /\ [Top EXCEPT !.ask = "quit"].fn = Top.fn /\ [Top EXCEPT !.saved = buffer].fn = Top.fn
        /\ [Top EXCEPT !.ask = "quit"].loop = Top.loop /\ [Top EXCEPT !.saved = buffer].loop = Top.loop
        /\ [Top EXCEPT !.ask = "quit"].todo = Top.todo /\ [Top EXCEPT !.saved = buffer].todo = Top.todo
    BY <2>1 DEF Call, Asker
  <2>3. CASE calls' = Become([Top EXCEPT !.ask = "quit"], ws)
             /\ Changes(w, ws, [Top EXCEPT !.ask = "quit"])
    <3>1. Rewritten(w, ws, [Top EXCEPT !.ask = "quit"])
      BY <1>3, <2>2, <2>3 DEF Rewritten, Says
    <3> QED
      BY <1>3, <2>3, <3>1
  <2>4. CASE calls' = Become([Top EXCEPT !.saved = buffer], ws)
             /\ Changes(w, ws, [Top EXCEPT !.saved = buffer])
    <3>1. Rewritten(w, ws, [Top EXCEPT !.saved = buffer])
      BY <1>3, <2>2, <2>4 DEF Rewritten, Says
    <3> QED
      BY <1>3, <2>4, <3>1
  <2> QED
    BY <1>3, <2>3, <2>4
<1>4. ASSUME Throws PROVE Goal
  BY <1>4 DEF Throws, Throw
<1>9. ASSUME \/ \E k : Commands(k)
             \/ Ended
      PROVE  Goal
  BY <1>9 DEF Commands, Ended, feral
<1> HIDE DEF Goal
<1> SUFFICES Goal
  BY <1>1 DEF Goal
<1>10. /\ <<>> # AskWords /\ <<"exit">> # AskWords /\ <<"leave">> # AskWords
       /\ <<"invalidate">> # AskWords /\ <<"invalidate", "leave">> # AskWords
       /\ <<"cancel">> # AskWords /\ <<"cancel", "invalidate">> # AskWords
  BY DEF AskWords
<1>5. CASE FeralStep
  <2>1. CASE AskCommand \/ QuitCommand \/ FailingCommand \/ PasteCommand
    <3>1. \E k : Commands(k)
      BY <2>1 DEF AskCommand, QuitCommand, FailingCommand, PasteCommand, SafeCall, Commands,
         Command, feral
    <3> QED
      BY <3>1, <1>9
  <2>2. CASE DoQuit
    <3>1. Admits("do_quit", <<"exit">>) /\ Admits("do_quit", AskWords)
      BY AdmitsAre
    <3>2. Top \in Call /\ Next_("do_quit") /\ phase' = phase /\ upset \subseteq upset'
      BY <2>2, TopWords DEF DoQuit
    <3>3. CASE Do(<<"exit">>)
      <4>1. Changes("do_quit", <<"exit">>, Top)
        BY <1>10, <2>2 DEF DoQuit, Changes, Feral, askVars
      <4> QED
        BY <3>1, <3>2, <3>3, <4>1, <1>2
    <3>4. CASE calls' = Become([Top EXCEPT !.ask = "quit"], AskWords)
      <4>1. [Top EXCEPT !.ask = "quit"].ask = "quit" /\ [Top EXCEPT !.ask = "quit"].saved = Top.saved
        BY <3>2 DEF Call
      <4>2. Changes("do_quit", AskWords, [Top EXCEPT !.ask = "quit"])
        BY <2>2, <4>1 DEF DoQuit, Changes, Feral, askVars
      <4> QED
        BY <3>1, <3>2, <3>4, <4>2, <1>3
    <3> QED
      BY <2>2, <3>3, <3>4 DEF DoQuit
  <2>3. CASE Raise
    BY <2>3, <1>4 DEF Raise, Throws, askVars
  <2>4. CASE MinibufferRun
    <3>1. Top \in Call
      BY <2>4, TopWords DEF MinibufferRun
    <3>2. [Top EXCEPT !.saved = buffer].saved = buffer /\ [Top EXCEPT !.saved = buffer].ask = Top.ask
      BY <3>1 DEF Call
    <3>3. Changes("run", <<>>, [Top EXCEPT !.saved = buffer])
      BY <1>10, <2>4, <3>2 DEF MinibufferRun, Changes, Feral
    <3>4. /\ Next_("run") /\ phase' = phase /\ upset \subseteq upset'
          /\ calls' = Become([Top EXCEPT !.saved = buffer], <<>>)
      BY <2>4 DEF MinibufferRun
    <3> QED
      BY <3>3, <3>4, <1>3, AdmitsAre
  <2>5. CASE Restore
    <3>1. Changes("restore", <<>>, Top)
      BY <1>10, <2>5 DEF Restore, Changes, Feral
    <3>2. Next_("restore") /\ phase' = phase /\ upset \subseteq upset' /\ Do(<<>>)
      BY <2>5 DEF Restore
    <3> QED
      BY <3>1, <3>2, <1>2, AdmitsAre
  <2>6. CASE Answer
    <3>1. Admits("answer", <<>>) /\ Admits("answer", <<"exit">>) /\ Next_("answer")
      BY <2>6, AdmitsAre DEF Answer
    <3>2. \/ Do(<<>>) /\ phase' = phase /\ upset' = upset
          \/ Do(<<"exit">>) /\ phase' = phase /\ upset' = upset
          \/ Throw
      BY <2>6 DEF Answer
    <3>3. UNCHANGED askVars
      BY <2>6 DEF Answer
    <3>4. Changes("answer", <<>>, Top) /\ Changes("answer", <<"exit">>, Top)
      BY <1>10, <3>3 DEF Changes, Feral, askVars
    <3>5. Throw => Throws
      BY <3>1, <3>3 DEF Throws, askVars
    <3> QED
      BY <3>1, <3>2, <3>4, <3>5, <1>2, <1>4
  <2>7. CASE AssertMinibuffer
    <3>1. Next_("assert") /\ UNCHANGED askVars
      BY <2>7 DEF AssertMinibuffer
    <3>2. CASE buffer = "mini"
      <4>1. /\ calls' = Become([Top EXCEPT !.saved = buffer], <<>>) /\ phase' = phase
            /\ upset \subseteq upset'
        BY <2>7, <3>2 DEF AssertMinibuffer
      <4>2. Top \in Call
        BY <3>1, TopWords
      <4>3. [Top EXCEPT !.saved = buffer].saved = buffer /\ [Top EXCEPT !.saved = buffer].ask = Top.ask
        BY <4>2 DEF Call
      <4>4. Changes("assert", <<>>, [Top EXCEPT !.saved = buffer])
        BY <1>10, <3>1, <3>2, <4>3 DEF Changes, Feral, askVars
      <4> QED
        BY <3>1, <4>1, <4>4, <1>3, AdmitsAre
    <3>3. CASE buffer # "mini"
      <4>1. Throws
        BY <2>7, <3>1, <3>3 DEF AssertMinibuffer, Throws, askVars
      <4> QED
        BY <4>1, <1>4
    <3> QED
      BY <3>2, <3>3
  <2>8. CASE Return
    BY <2>8, <1>9 DEF Return, Ended, feral
  <2> QED
    BY <1>5, <2>1, <2>2, <2>3, <2>4, <2>5, <2>6, <2>7, <2>8 DEF FeralStep
<1>6. CASE FeralEdit
  <2>1. CASE ClearMessage
    <3>1. PICK ws \in {<<>>, <<"invalidate">>} :
            Do(ws) /\ (text' # text => ws = <<"invalidate">>)
                   /\ IF buffer = "mini" THEN text' = text ELSE text' = Empty
      BY <2>1, SetTextIs DEF ClearMessage
    <3>2. Empty \in Text
      BY DEF Empty, Line, Text, Asker
    <3>3. Changes("clear", ws, Top)
      BY <1>10, <2>1, <3>1, <3>2 DEF ClearMessage, Changes, Feral
    <3>4. Admits("clear", ws)
      BY <3>1, AdmitsAre
    <3> QED
      BY <2>1, <3>1, <3>3, <3>4, <1>2 DEF ClearMessage
  <2>2. CASE Message
    <3>1. PICK ws \in {<<>>, <<"invalidate">>} :
            Do(ws) /\ (text' # text => ws = <<"invalidate">>)
                   /\ IF buffer = "mini" THEN text' = text ELSE text' = Line("message")
      BY <2>2, SetTextIs DEF Message
    <3>2. Line("message") \in Text
      BY DEF Line, Text, Asker
    <3>3. Changes("say", ws, Top)
      BY <1>10, <2>2, <3>1, <3>2 DEF Message, Changes, Feral
    <3>4. Admits("say", ws)
      BY <3>1, AdmitsAre
    <3> QED
      BY <2>2, <3>1, <3>3, <3>4, <1>2 DEF Message
  <2>3. CASE SetPrompt
    <3>1. PICK ws \in {<<>>, <<"invalidate">>} :
            Do(ws) /\ (text' # text => ws = <<"invalidate">>) /\ text' = Line(Top.ask)
      BY <2>3, SetTextIs DEF SetPrompt
    <3>2. Changes("prompt", ws, Top)
      BY <1>10, <2>3, <3>1 DEF SetPrompt, Changes, Feral
    <3>3. Admits("prompt", ws)
      BY <3>1, AdmitsAre
    <3> QED
      BY <2>3, <3>1, <3>2, <3>3, <1>2 DEF SetPrompt
  <2>4. CASE InsertChar
    <3>1. Changes("insert", <<>>, Top)
      BY <1>10, <2>4 DEF InsertChar, Changes, Feral
    <3> QED
      BY <2>4, <3>1, <1>2, AdmitsAre DEF InsertChar
  <2>5. CASE Accept
    <3>1. Admits("accept", <<"leave">>) /\ Admits("accept", <<"invalidate", "leave">>)
      BY AdmitsAre
    <3>2. CASE SetText(Empty, <<"leave">>) /\ UNCHANGED <<phase, upset>>
      <4>1. PICK ws \in {<<"leave">>, <<"invalidate", "leave">>} :
              Do(ws) /\ text' = Empty /\ (text' # text => ws = <<"invalidate", "leave">>)
        BY <3>2, SetTextIs
      <4>2. Changes("accept", ws, Top)
        BY <1>10, <2>5, <4>1 DEF Accept, Changes, Feral
      <4>3. Admits("accept", ws)
        BY <3>1, <4>1
      <4> QED
        BY <2>5, <3>2, <4>1, <4>2, <4>3, <1>2 DEF Accept
    <3>3. CASE Throw /\ UNCHANGED text
      BY <2>5, <3>3, <1>4 DEF Accept, Throws
    <3> QED
      BY <2>5, <3>2, <3>3 DEF Accept
  <2>6. CASE Cancel
    <3>1. /\ Admits("cancel", <<"leave">>) /\ Admits("cancel", <<"invalidate", "leave">>)
          /\ Admits("cancel", <<>>) /\ Admits("cancel", <<"invalidate">>)
      BY AdmitsAre
    <3>2. CASE text = Line(prompt)
      <4>1. PICK ws \in {<<"leave">>, <<"invalidate", "leave">>} :
              Do(ws) /\ text' = Empty /\ (text' # text => ws = <<"invalidate", "leave">>)
        BY <2>6, <3>2, SetTextIs DEF Cancel
      <4>2. Changes("cancel", ws, Top)
        BY <1>10, <2>6, <3>2, <4>1 DEF Cancel, Changes, Feral
      <4>3. Admits("cancel", ws)
        BY <3>1, <4>1
      <4> QED
        BY <2>6, <4>1, <4>2, <4>3, <1>2 DEF Cancel
    <3>3. CASE text # Line(prompt)
      <4>1. PICK ws \in {<<>>, <<"invalidate">>} :
              Do(ws) /\ text' = Line(prompt) /\ (text' # text => ws = <<"invalidate">>)
        BY <2>6, <3>3, SetTextIs DEF Cancel
      <4>2. Changes("cancel", ws, Top)
        BY <1>10, <2>6, <3>3, <4>1 DEF Cancel, Changes, Feral
      <4>3. Admits("cancel", ws)
        BY <3>1, <4>1
      <4> QED
        BY <2>6, <4>1, <4>2, <4>3, <1>2 DEF Cancel
    <3> QED
      BY <3>2, <3>3
  <2> QED
    BY <1>6, <2>1, <2>2, <2>3, <2>4, <2>5, <2>6 DEF FeralEdit
<1>7. CASE EditBuffer
  <2>1. Changes("edit", <<>>, Top)
    BY <1>7, <1>10 DEF EditBuffer, Changes, Feral
  <2> QED
    BY <1>7, <2>1, <1>2, AdmitsAre DEF EditBuffer
<1>8. CASE ToParent(<<"invalidate">>) \/ ToParent(<<>>)
  <2>1. /\ Admits("to_parent", <<"cancel">>) /\ Admits("to_parent", <<"cancel", "invalidate">>)
        /\ Admits("to_parent", <<>>)
    BY AdmitsAre
  <2>2. Next_("to_parent") /\ UNCHANGED <<parent, prompt, text, contents, phase>>
    BY <1>8, ToParentIs
  <2>3. CASE /\ buffer = "mini" /\ buffer' = parent
             /\ Do(<<"cancel">>) \/ Do(<<"cancel", "invalidate">>)
             /\ upset' = IF text = Line(prompt) THEN upset ELSE upset \cup {"clicked"}
    <3>1. PICK ws \in {<<"cancel">>, <<"cancel", "invalidate">>} : Do(ws)
      BY <2>3
    <3>2. Changes("to_parent", ws, Top)
      BY <1>10, <2>2, <2>3, <3>1 DEF Changes, Feral
    <3>3. Admits("to_parent", ws) /\ upset \subseteq upset'
      BY <2>1, <2>3, <3>1
    <3> QED
      BY <2>2, <3>1, <3>2, <3>3, <1>2
  <2>4. CASE buffer # "mini" /\ Do(<<>>) /\ UNCHANGED <<buffer, upset>>
    <3>1. Changes("to_parent", <<>>, Top)
      BY <1>10, <2>2, <2>4 DEF Changes, Feral
    <3> QED
      BY <2>1, <2>2, <2>4, <3>1, <1>2
  <2> QED
    BY <1>8, <2>3, <2>4, ToParentIs
<1> QED
  BY <1>5, <1>6, <1>7, <1>8 DEF Talks

----------------------------------------------------------------------------
(***************************************************************************)
(* Frames stay in order: each word is followed by what may follow it, and   *)
(* each frame sits where it may.                                            *)
(***************************************************************************)

\* What is in order is so at its first two words.
LEMMA LawfulHere ==
  ASSUME NEW tk, NEW fn, NEW t, Lawful(tk, fn, t)
  PROVE  /\ Follows(tk, fn, Nth(t, 1), Nth(t, 2)) /\ Third(Nth(t, 1), Nth(t, 2), Nth(t, 3))
         /\ Follows(tk, fn, Nth(t, 2), Nth(t, 3))
<1>1. t \in Seq(Word)
  BY DEF Lawful
<1>2. /\ Follows(tk, fn, Nth(t, 1), Nth(t, 1 + 1)) /\ Third(Nth(t, 1), Nth(t, 1 + 1), Nth(t, 1 + 2))
      /\ Follows(tk, fn, Nth(t, 2), Nth(t, 2 + 1))
  BY <1>1, LawfulIs
<1>3. 1 + 1 = 2 /\ 1 + 2 = 3 /\ 2 + 1 = 3
  OBVIOUS
<1> QED
  BY <1>2, <1>3

\* A word may be put before what it may be followed by.
LEMMA LawfulOne ==
  ASSUME NEW tk, NEW fn, NEW t, Lawful(tk, fn, t), NEW a \in Word,
         Follows(tk, fn, a, Nth(t, 1)), Third(a, Nth(t, 1), Nth(t, 2))
  PROVE  <<a>> \in Seq(Word) /\ Lawful(tk, fn, <<a>> \o t)
<1> DEFINE s == <<a>>
<1>1. s \in Seq(Word) /\ Len(s) = 1 /\ s[1] = a
  OBVIOUS
<1> HIDE DEF s
<1>2. Joined(s, t, 1 + 1) = Nth(t, 1) /\ Joined(s, t, 1 + 2) = Nth(t, 2)
  <2>1. ~(1 + 1 <= 1) /\ ~(1 + 2 <= 1) /\ 1 + 1 - 1 = 1 /\ 1 + 2 - 1 = 2
    OBVIOUS
  <2> QED
    BY <1>1, <2>1 DEF Joined
<1>3. Follows(tk, fn, s[1], Joined(s, t, 1 + 1)) /\ Third(s[1], Joined(s, t, 1 + 1), Joined(s, t, 1 + 2))
  BY <1>1, <1>2
<1>4. \A n \in 1..Len(s) : n = 1
  BY <1>1
<1>5. Lawful(tk, fn, s \o t)
  BY <1>1, <1>3, <1>4, LawfulJoin
<1> QED
  BY <1>1, <1>5 DEF s

\* So may two.
LEMMA LawfulTwo ==
  ASSUME NEW tk, NEW fn, NEW t, Lawful(tk, fn, t), NEW a \in Word, NEW b \in Word,
         Follows(tk, fn, b, Nth(t, 1)), Third(b, Nth(t, 1), Nth(t, 2)),
         Follows(tk, fn, a, b), Third(a, b, Nth(t, 1))
  PROVE  <<a, b>> \in Seq(Word) /\ Lawful(tk, fn, <<a, b>> \o t)
<1> DEFINE s == <<a, b>>
<1>1. s \in Seq(Word) /\ Len(s) = 2 /\ s[1] = a /\ s[2] = b
  OBVIOUS
<1> HIDE DEF s
<1>2. /\ Joined(s, t, 1 + 1) = b /\ Joined(s, t, 1 + 2) = Nth(t, 1)
      /\ Joined(s, t, 2 + 1) = Nth(t, 1) /\ Joined(s, t, 2 + 2) = Nth(t, 2)
  <2>1. /\ 1 + 1 = 2 /\ 1 + 1 <= 2 /\ ~(1 + 2 <= 2) /\ ~(2 + 1 <= 2) /\ ~(2 + 2 <= 2)
        /\ 1 + 2 - 2 = 1 /\ 2 + 1 - 2 = 1 /\ 2 + 2 - 2 = 2
    OBVIOUS
  <2> QED
    BY <1>1, <2>1 DEF Joined
<1>3. Follows(tk, fn, s[1], Joined(s, t, 1 + 1)) /\ Third(s[1], Joined(s, t, 1 + 1), Joined(s, t, 1 + 2))
  BY <1>1, <1>2
<1>4. Follows(tk, fn, s[2], Joined(s, t, 2 + 1)) /\ Third(s[2], Joined(s, t, 2 + 1), Joined(s, t, 2 + 2))
  BY <1>1, <1>2
<1>5. \A n \in 1..Len(s) : n = 1 \/ n = 2
  BY <1>1
<1>6. Lawful(tk, fn, s \o t)
  BY <1>1, <1>3, <1>4, <1>5, LawfulJoin
<1> QED
  BY <1>1, <1>6 DEF s

\* The words of a question may be put before what an answer may be followed by.
LEMMA LawfulAsk ==
  ASSUME NEW tk, NEW fn, NEW t, Lawful(tk, fn, t), Nth(t, 1) # "run",
         Follows(tk, fn, "answer", Nth(t, 1)), Third("answer", Nth(t, 1), Nth(t, 2))
  PROVE  AskWords \in Seq(Word) /\ Lawful(tk, fn, AskWords \o t)
<1>1. /\ "prompt" \in Word /\ "run" \in Word /\ "main" \in Word
      /\ "restore" \in Word /\ "answer" \in Word
  BY DEF Word
<1>2. /\ Follows(tk, fn, "prompt", "run") /\ Third("prompt", "run", "main")
      /\ Follows(tk, fn, "run", "main") /\ Third("run", "main", "restore")
      /\ Follows(tk, fn, "main", "restore") /\ Third("main", "restore", "answer")
      /\ Follows(tk, fn, "restore", "answer") /\ Third("restore", "answer", Nth(t, 1))
  BY DEF Follows, Third, Command
<1> DEFINE s == AskWords
<1>3. s \in Seq(Word) /\ Len(s) = 5
  BY <1>1 DEF AskWords
<1>4. s[1] = "prompt" /\ s[2] = "run" /\ s[3] = "main" /\ s[4] = "restore" /\ s[5] = "answer"
  BY DEF AskWords
<1> HIDE DEF s
<1>5. /\ Joined(s, t, 1 + 1) = "run" /\ Joined(s, t, 1 + 2) = "main"
      /\ Joined(s, t, 2 + 1) = "main" /\ Joined(s, t, 2 + 2) = "restore"
      /\ Joined(s, t, 3 + 1) = "restore" /\ Joined(s, t, 3 + 2) = "answer"
      /\ Joined(s, t, 4 + 1) = "answer" /\ Joined(s, t, 4 + 2) = Nth(t, 1)
      /\ Joined(s, t, 5 + 1) = Nth(t, 1) /\ Joined(s, t, 5 + 2) = Nth(t, 2)
  <2>1. /\ 1 + 1 = 2 /\ 1 + 2 = 3 /\ 2 + 1 = 3 /\ 2 + 2 = 4 /\ 3 + 1 = 4 /\ 3 + 2 = 5 /\ 4 + 1 = 5
        /\ 2 <= 5 /\ 3 <= 5 /\ 4 <= 5 /\ 5 <= 5
        /\ ~(4 + 2 <= 5) /\ ~(5 + 1 <= 5) /\ ~(5 + 2 <= 5)
        /\ 4 + 2 - 5 = 1 /\ 5 + 1 - 5 = 1 /\ 5 + 2 - 5 = 2
    OBVIOUS
  <2> QED
    BY <1>3, <1>4, <2>1 DEF Joined
<1> DEFINE Ok(n) == /\ Follows(tk, fn, s[n], Joined(s, t, n + 1))
                    /\ Third(s[n], Joined(s, t, n + 1), Joined(s, t, n + 2))
<1>6. Ok(1) /\ Ok(2) /\ Ok(3)
  BY <1>2, <1>4, <1>5
<1>7. Ok(4) /\ Ok(5)
  BY <1>2, <1>4, <1>5
<1>8. \A n \in 1..Len(s) : n = 1 \/ n = 2 \/ n = 3 \/ n = 4 \/ n = 5
  BY <1>3
<1>9. \A n \in 1..Len(s) : Ok(n)
  BY <1>6, <1>7, <1>8
<1>10. Lawful(tk, fn, s \o t)
  BY <1>3, <1>9, LawfulJoin
<1> QED
  BY <1>3, <1>10 DEF s

\* A word that gives way to the words it admits leaves the frame in order.
LEMMA AdmitsLawful ==
  ASSUME NEW tk, NEW fn, NEW t, Lawful(tk, fn, t), t # <<>>, NEW ws, Admits(Head(t), ws)
  PROVE  ws \in Seq(Word) /\ Lawful(tk, fn, ws \o Tail(t))
<1>1. t \in Seq(Word)
  BY DEF Lawful
<1>2. /\ Lawful(tk, fn, Tail(t)) /\ Tail(t) \in Seq(Word)
      /\ Nth(Tail(t), 1) = Nth(t, 2) /\ Nth(Tail(t), 2) = Nth(t, 3)
  <2>1. 1 + 1 = 2 /\ 2 + 1 = 3
    OBVIOUS
  <2> QED
    BY <1>1, <2>1, LawfulTail, NthTail
<1>3. Nth(t, 1) = Head(t)
  <2>1. Len(t) \in Nat \ {0} /\ DOMAIN t = 1..Len(t) /\ Head(t) = t[1]
    BY <1>1, EmptySeq, LenProperties
  <2> QED
    BY <2>1 DEF Nth
<1>4. /\ Follows(tk, fn, Head(t), Nth(Tail(t), 1))
      /\ Third(Head(t), Nth(Tail(t), 1), Nth(Tail(t), 2))
  <2>1. /\ Follows(tk, fn, Nth(t, 1), Nth(t, 1 + 1))
        /\ Third(Nth(t, 1), Nth(t, 1 + 1), Nth(t, 1 + 2))
    BY <1>1, LawfulIs
  <2>2. 1 + 1 = 2 /\ 1 + 2 = 3
    OBVIOUS
  <2> QED
    BY <2>1, <2>2, <1>2, <1>3
<1> DEFINE u == Tail(t)  x == Nth(u, 1)  y == Nth(u, 2)
<1>5. /\ Lawful(tk, fn, u) /\ u \in Seq(Word) /\ Follows(tk, fn, Head(t), x) /\ Third(Head(t), x, y)
  BY <1>2, <1>4
<1> SUFFICES ws \in Seq(Word) /\ Lawful(tk, fn, ws \o u)
  OBVIOUS
<1> HIDE DEF u
<1>6. CASE ws = <<>>
  BY <1>5, <1>6, ConcatEmptySeq
<1>0. /\ "invalidate" \in Word /\ "leave" \in Word /\ "exit" \in Word /\ "cancel" \in Word
  BY DEF Word
<1>7. CASE ws = <<"invalidate">> /\ Head(t) \in {"clear", "say", "prompt", "cancel"}
  <2>1. Follows(tk, fn, "invalidate", x) /\ Third("invalidate", x, y)
    BY <1>5, <1>7 DEF Follows, Third, Waiting, Command
  <2> QED
    BY <2>1, <1>0, <1>5, <1>7, LawfulOne
<1>8. CASE ws = <<"leave">> /\ Head(t) \in {"accept", "cancel"}
  <2>1. Follows(tk, fn, "leave", x) /\ Third("leave", x, y)
    BY <1>5, <1>8 DEF Follows, Third, Command
  <2> QED
    BY <2>1, <1>0, <1>5, <1>8, LawfulOne
<1>9. CASE ws = <<"invalidate", "leave">> /\ Head(t) \in {"accept", "cancel"}
  <2>1. /\ Follows(tk, fn, "leave", x) /\ Third("leave", x, y)
        /\ Follows(tk, fn, "invalidate", "leave") /\ Third("invalidate", "leave", x)
    BY <1>5, <1>9 DEF Follows, Third, Command, Waiting
  <2> QED
    BY <2>1, <1>0, <1>5, <1>9, LawfulTwo
<1>10. CASE ws = <<"exit">> /\ Head(t) \in {"do_quit", "answer"}
  <2>1. Follows(tk, fn, "exit", x) /\ Third("exit", x, y)
    BY <1>5, <1>10 DEF Follows, Third, Command
  <2> QED
    BY <2>1, <1>0, <1>5, <1>10, LawfulOne
<1>11. CASE ws = AskWords /\ Head(t) = "do_quit"
  <2>1. Follows(tk, fn, "answer", x) /\ Third("answer", x, y) /\ x # "run"
    BY <1>5, <1>11 DEF Follows, Third, Command
  <2> QED
    BY <2>1, <1>5, <1>11, LawfulAsk
<1>12. CASE ws = <<"cancel">> /\ Head(t) = "to_parent"
  <2>1. Follows(tk, fn, "cancel", x) /\ Third("cancel", x, y)
    BY <1>5, <1>12 DEF Follows, Third, Command
  <2> QED
    BY <2>1, <1>0, <1>5, <1>12, LawfulOne
<1>13. CASE ws = <<"cancel", "invalidate">> /\ Head(t) = "to_parent"
  <2>1. /\ Follows(tk, fn, "invalidate", x) /\ Third("invalidate", x, y)
        /\ Follows(tk, fn, "cancel", "invalidate") /\ Third("cancel", "invalidate", x)
    BY <1>5, <1>13 DEF Follows, Third, Command, Waiting
  <2> QED
    BY <2>1, <1>0, <1>5, <1>13, LawfulTwo
<1> QED
  BY <1>6, <1>7, <1>8, <1>9, <1>10, <1>11, <1>12, <1>13 DEF Admits

\* What is known of the top frame.
LEMMA TopSeat ==
  ASSUME Types, Grammar, calls # <<>>
  PROVE  /\ Len(calls) \in Nat \ {0} /\ DOMAIN calls = 1..Len(calls)
         /\ Len(calls) \in DOMAIN calls
         /\ Top = calls[Len(calls)] /\ Top \in Call
         /\ Top.todo \in Seq(Word) /\ Top.fn \in Loops \cup {"handler", "catch"}
         /\ Lawful(toolkit, Top.fn, Top.todo)
         /\ Top.fn \in Loops => Top.todo = <<>>
         /\ Next1(Len(calls)) = Nth(Top.todo, 1) /\ Next2(Len(calls)) = Nth(Top.todo, 2)
<1>1. /\ Len(calls) \in Nat \ {0} /\ DOMAIN calls = 1..Len(calls)
      /\ Top = calls[Len(calls)] /\ Top \in Call
  BY TopIs DEF Types
<1>2. Len(calls) \in DOMAIN calls
  BY <1>1
<1>3. Seated(Len(calls)) /\ Lawful(toolkit, calls[Len(calls)].fn, calls[Len(calls)].todo)
  BY <1>2 DEF Grammar
<1> QED
  BY <1>1, <1>2, <1>3 DEF Seated, Sits, Call, Next1, Next2

\* What is known of the top frame after a word of it gave way to others.
LEMMA RewrittenIs ==
  ASSUME Types, Grammar, NEW w, NEW ws, NEW f, Rewritten(w, ws, f)
  PROVE  /\ phase = "run" /\ calls # <<>> /\ phase' = "run"
         /\ Top.fn \in {"handler", "catch"}
         /\ Nth(Top.todo, 1) = w
         /\ \E g \in Call :
              /\ Tops(Len(calls), g) /\ Keeps(Len(calls) - 1)
              /\ g.fn = Top.fn /\ g.loop = Top.loop /\ g.ask = f.ask /\ g.saved = f.saved
              /\ g.todo \in Seq(Word) /\ g.todo = ws \o Tail(Top.todo)
              /\ Lawful(toolkit, g.fn, g.todo)
              /\ \A n \in Nat \ {0} :
                   Nth(g.todo, n) = IF n <= Len(ws) THEN ws[n]
                                    ELSE Nth(Top.todo, n - Len(ws) + 1)
              /\ Range(g.todo) \subseteq Range(ws) \cup Range(Top.todo)
         /\ ws \in Seq(Word)
<1>1. Next_(w) /\ phase' = phase /\ calls' = Become(f, ws)
  BY DEF Rewritten, Says
<1>2. /\ phase = "run" /\ calls # <<>> /\ Top \in Call /\ Top.todo \in Seq(Word)
      /\ Top.todo # <<>> /\ Head(Top.todo) = w /\ Nth(Top.todo, 1) = w
      /\ Tail(Top.todo) \in Seq(Word)
      /\ \A n \in Nat \ {0} : Nth(Tail(Top.todo), n) = Nth(Top.todo, n + 1)
  BY <1>1, TopWords DEF Grammar
<1>3. /\ Lawful(toolkit, Top.fn, Top.todo) /\ Top.fn \in {"handler", "catch"}
  BY <1>2, TopSeat
<1>4. ws \in Seq(Word) /\ Lawful(toolkit, Top.fn, ws \o Tail(Top.todo))
  BY <1>2, <1>3, AdmitsLawful DEF Rewritten
<1>5. f \in Call /\ f.fn = Top.fn /\ f.loop = Top.loop
  BY DEF Rewritten
<1> DEFINE g == With(f, ws \o Tail(Top.todo))
<1>6. /\ ws \o Tail(Top.todo) \in Seq(Word)
      /\ \A n \in Nat \ {0} :
           Nth(ws \o Tail(Top.todo), n) =
             IF n <= Len(ws) THEN ws[n] ELSE Nth(Tail(Top.todo), n - Len(ws))
  BY <1>2, <1>4, NthJoin
<1>7. /\ g \in Call /\ g.todo = ws \o Tail(Top.todo) /\ g.fn = Top.fn /\ g.loop = Top.loop
      /\ g.ask = f.ask /\ g.saved = f.saved
  BY <1>5, <1>6, WithIs
<1>8. Tops(Len(calls), g) /\ Keeps(Len(calls) - 1)
  BY <1>1, <1>2, <1>4, <1>5, BecomeIs DEF Types
<1>9. \A n \in Nat \ {0} :
        Nth(ws \o Tail(Top.todo), n) = IF n <= Len(ws) THEN ws[n] ELSE Nth(Top.todo, n - Len(ws) + 1)
  <2>1. Len(ws) \in Nat
    BY <1>4, LenProperties
  <2>2. \A n \in Nat \ {0} : ~(n <= Len(ws)) => n - Len(ws) \in Nat \ {0}
    BY <2>1
  <2> QED
    BY <1>2, <1>6, <2>2
<1>10. Range(ws \o Tail(Top.todo)) \subseteq Range(ws) \cup Range(Top.todo)
  <2>1. Range(ws \o Tail(Top.todo)) = Range(ws) \cup Range(Tail(Top.todo))
    BY <1>2, <1>4, RangeConcatenation
  <2>2. Range(Tail(Top.todo)) \subseteq Range(Top.todo)
    <3>1. /\ Len(Top.todo) \in Nat \ {0} /\ Len(Tail(Top.todo)) = Len(Top.todo) - 1
          /\ \A i \in 1..Len(Top.todo) - 1 : Tail(Top.todo)[i] = Top.todo[i + 1]
      BY <1>2, HeadTailProperties, EmptySeq
    <3>2. DOMAIN Top.todo = 1..Len(Top.todo) /\ DOMAIN Tail(Top.todo) = 1..Len(Top.todo) - 1
      BY <1>2, <3>1, LenProperties
    <3>3. \A i \in 1..Len(Top.todo) - 1 : i + 1 \in DOMAIN Top.todo
      BY <3>1, <3>2
    <3> QED
      BY <3>1, <3>2, <3>3 DEF Range
  <2> QED
    BY <2>1, <2>2
<1> HIDE DEF g
<1> QED
  BY <1>1, <1>2, <1>3, <1>4, <1>6, <1>7, <1>8, <1>9, <1>10

\* The frames from the m-th to the n-th are in order afterwards.
Orderly(m, n) ==
  \A i \in m..n :
    Sits(toolkit, i, calls'[i], calls'[i - 1]) /\ Lawful(toolkit, calls'[i].fn, calls'[i].todo)

\* The frames from the m-th to the n-th wait for those on top of them afterwards.
Covered(m, n) ==
  \A i \in 1..n : i < n /\ i >= m => Waits(calls'[i], calls'[i + 1])

\* The frames up to the m-th stay; those above are in order, and wait for each other.
LEMMA GrammarKept ==
  ASSUME Types, Grammar, toolkit' = toolkit, phase' = "run", NEW n \in Nat \ {0}, NEW m \in Nat,
         calls' \in Seq(Call), DOMAIN calls' = 1..n, Len(calls') = n, m <= n, m <= Len(calls), Keeps(m),
         Orderly(m + 1, n), Covered(m, n)
  PROVE  Grammar'
<1>1. Len(calls) \in Nat /\ DOMAIN calls = 1..Len(calls)
  BY LenProperties DEF Types
<1>2. calls' # <<>>
  OBVIOUS
<1>3. ASSUME NEW i \in 1..m
      PROVE  Sits(toolkit, i, calls'[i], calls'[i - 1]) /\ Lawful(toolkit, calls'[i].fn, calls'[i].todo)
  <2>1. i \in DOMAIN calls /\ calls'[i] = calls[i]
    BY <1>1 DEF Keeps
  <2>2. Seated(i) /\ Lawful(toolkit, calls[i].fn, calls[i].todo)
    BY <2>1 DEF Grammar
  <2>3. CASE i = 1
    BY <2>1, <2>2, <2>3 DEF Seated, Sits, Loops
  <2>4. CASE i # 1
    <3>1. i - 1 \in 1..m
      BY <2>4
    <3>2. calls'[i - 1] = calls[i - 1]
      BY <3>1 DEF Keeps
    <3> QED
      BY <2>1, <2>2, <3>2 DEF Seated, Sits
  <2> QED
    BY <2>3, <2>4
<1>4. ASSUME NEW i \in 1..n PROVE Sits(toolkit, i, calls'[i], calls'[i - 1]) /\ Lawful(toolkit, calls'[i].fn, calls'[i].todo)
  <2>1. i \in 1..m \/ i \in m + 1..n
    OBVIOUS
  <2> QED
    BY <2>1, <1>3 DEF Orderly
<1>5. ASSUME NEW i \in 1..n, i < n PROVE Waits(calls'[i], calls'[i + 1])
  <2>1. CASE i >= m
    BY <1>5, <2>1 DEF Covered
  <2>2. CASE i < m
    <3>0. Len(calls) \in Nat
      BY <1>1
    <3>1. i \in 1..m /\ i + 1 \in 1..m /\ i < Len(calls) /\ i \in 1..Len(calls)
      BY <2>2, <3>0
    <3>2. i \in DOMAIN calls
      BY <1>1, <3>1
    <3>3. calls'[i] = calls[i] /\ calls'[i + 1] = calls[i + 1] /\ Waits(calls[i], calls[i + 1])
      BY <3>1, <3>2 DEF Keeps, Grammar
    <3> QED
      BY <3>3
  <2> QED
    BY <2>1, <2>2
<1> QED
  BY <1>2, <1>4, <1>5 DEF Grammar, Seated

\* What waits for a frame does not depend on what that has to do.
LEMMA WaitsOn ==
  ASSUME Types, Grammar, NEW n \in DOMAIN calls, NEW f, f.fn = calls[n].fn, n # 1
  PROVE  n - 1 \in DOMAIN calls /\ Waits(calls[n - 1], f)
<1>1. Len(calls) \in Nat /\ DOMAIN calls = 1..Len(calls)
  BY LenProperties DEF Types
<1>2. n - 1 \in 1..Len(calls) /\ n - 1 < Len(calls) /\ (n - 1) + 1 = n
  <2>1. n \in 1..Len(calls) /\ Len(calls) \in Nat
    BY <1>1
  <2> QED
    BY <2>1
<1>3. n - 1 \in DOMAIN calls
  BY <1>1, <1>2
<1>4. Waits(calls[n - 1], calls[n])
  BY <1>2, <1>3 DEF Grammar
<1> QED
  BY <1>3, <1>4 DEF Waits

\* With no frames left, all is in order.
LEMMA GrammarEmpty ==
  ASSUME calls' = <<>>, phase' # "run"
  PROVE  Grammar' /\ calls' \in Seq(Call)
BY DEF Grammar

\* A word that gives way to others keeps the frames in order.
LEMMA RewrittenGrammar ==
  ASSUME Types, Grammar, toolkit' = toolkit, NEW w, NEW ws, NEW f, Rewritten(w, ws, f)
  PROVE  Grammar' /\ calls' \in Seq(Call)
<1>1. /\ phase = "run" /\ calls # <<>> /\ phase' = "run"
      /\ Top.fn \in {"handler", "catch"}
  BY RewrittenIs
<1>2. PICK g \in Call :
        /\ Tops(Len(calls), g) /\ Keeps(Len(calls) - 1)
        /\ g.fn = Top.fn
        /\ Lawful(toolkit, g.fn, g.todo)
  BY RewrittenIs
<1>3. /\ Len(calls) \in Nat \ {0} /\ DOMAIN calls = 1..Len(calls) /\ Len(calls) \in DOMAIN calls
      /\ Top = calls[Len(calls)]
  BY <1>1, TopSeat
<1> DEFINE n == Len(calls)
<1>4. /\ n - 1 \in Nat /\ n - 1 <= n /\ (\A i \in (n - 1) + 1..n : i = n)
      /\ (n - 1) + 1 = n /\ \A i \in 1..n : i < n /\ i >= n - 1 => i = n - 1
  <2>1. n \in Nat \ {0}
    BY <1>3
  <2> HIDE DEF n
  <2> QED
    BY <2>1
<1>5. /\ calls' \in Seq(Call) /\ DOMAIN calls' = 1..n /\ Len(calls') = n
      /\ calls'[n] = g
  BY <1>2 DEF Tops
<1>6. Sits(toolkit, n, calls'[n], calls'[n - 1]) /\ Waits(calls'[n - 1], calls'[n])
  <2>1. Seated(n)
    BY <1>3 DEF Grammar
  <2>2. n # 1
    BY <1>1, <1>3, <2>1 DEF Seated, Sits
  <2>3. n - 1 \in 1..n - 1
    BY <1>3, <2>2
  <2>4. calls'[n - 1] = calls[n - 1]
    BY <1>2, <2>3 DEF Keeps
  <2>5. Waits(calls[n - 1], g)
    BY <1>2, <1>3, <2>2, WaitsOn
  <2> QED
    BY <1>1, <1>2, <1>3, <1>5, <2>1, <2>4, <2>5 DEF Seated, Sits, Loops
<1> HIDE DEF n
<1>7. Lawful(toolkit, calls'[n].fn, calls'[n].todo)
  BY <1>2, <1>5
<1>8. Orderly((n - 1) + 1, n)
  BY <1>4, <1>6, <1>7 DEF Orderly
<1>9. Covered(n - 1, n)
  BY <1>4, <1>6 DEF Covered
<1>10. n \in Nat \ {0} /\ n - 1 <= Len(calls) /\ Keeps(n - 1)
  BY <1>2, <1>3, <1>4 DEF n
<1>11. Grammar'
  BY <1>1, <1>4, <1>5, <1>8, <1>9, <1>10, GrammarKept
<1> QED
  BY <1>5, <1>11

\* A frame is put on top of one that has more to do.
LEMMA PushGrammar ==
  ASSUME Types, Grammar, toolkit' = toolkit, phase' = phase, NEW w, Next_(w), NEW f \in Call, Push(f),
         Nth(Top.todo, 2) \in Waiting,
         Lawful(toolkit, f.fn, f.todo),
         f.fn \in {"catch", "mini", "pump"},
         f.fn \in Loops => f.todo = <<>>,
         f.fn = "catch" => Top.fn = "handler" /\ Tail(Top.todo) = <<Finish(toolkit)>>,
         f.fn = "mini" => Nth(Top.todo, 2) = "restore" /\ Nth(Top.todo, 3) = "answer",
         f.fn = "pump" => toolkit = "gtk",
         Nth(Top.todo, 2) = "restore" /\ Nth(Top.todo, 3) = "answer" => f.fn = "mini",
         Nth(Top.todo, 2) = "run" => f.fn = "pump"
  PROVE  Grammar' /\ calls' \in Seq(Call)
<1>1. /\ phase = "run" /\ calls # <<>> /\ Top \in Call /\ Top.todo \in Seq(Word)
      /\ Top.todo # <<>>
      /\ Tail(Top.todo) \in Seq(Word)
      /\ \A k \in Nat \ {0} : Nth(Tail(Top.todo), k) = Nth(Top.todo, k + 1)
  BY TopWords DEF Grammar
<1>2. /\ Len(calls) \in Nat \ {0} /\ DOMAIN calls = 1..Len(calls) /\ Len(calls) \in DOMAIN calls
      /\ Top = calls[Len(calls)] /\ Top.fn \in {"handler", "catch"}
      /\ Lawful(toolkit, Top.fn, Top.todo)
  BY <1>1, TopSeat
<1> DEFINE n == Len(calls)
           g == With(Top, Tail(Top.todo))
<1>3. Tops(n + 1, f) /\ Keeps(n - 1) /\ calls'[n] = g
  BY <1>1, PushIs DEF Types
<1>4. /\ calls' \in Seq(Call) /\ DOMAIN calls' = 1..n + 1 /\ Len(calls') = n + 1
      /\ calls'[n + 1] = f
  BY <1>3 DEF Tops
<1>5. g.todo = Tail(Top.todo) /\ g.fn = Top.fn
  BY <1>1, WithIs
<1>6. Lawful(toolkit, g.fn, g.todo)
  BY <1>1, <1>2, <1>5, LawfulTail
<1> HIDE DEF g
<1>7. Sits(toolkit, n, calls'[n], calls'[n - 1]) /\ Waits(calls'[n - 1], calls'[n])
  <2>1. Seated(n)
    BY <1>2 DEF Grammar
  <2>2. n # 1
    BY <1>2, <2>1 DEF Seated, Sits
  <2>3. n - 1 \in 1..n - 1
    BY <1>2, <2>2
  <2>4. calls'[n - 1] = calls[n - 1]
    BY <1>3, <2>3 DEF Keeps
  <2>5. Waits(calls[n - 1], g)
    BY <1>2, <1>5, <2>2, WaitsOn
  <2> QED
    BY <1>2, <1>3, <1>5, <2>1, <2>2, <2>4, <2>5 DEF Seated, Sits, Loops
<1>8. Nth(g.todo, 1) = Nth(Top.todo, 2) /\ Nth(g.todo, 2) = Nth(Top.todo, 3)
  <2>1. 1 + 1 = 2 /\ 2 + 1 = 3
    OBVIOUS
  <2> QED
    BY <1>1, <1>5, <2>1
<1>9. Sits(toolkit, n + 1, calls'[n + 1], calls'[n])
  <2>1. n + 1 # 1 /\ (n + 1) - 1 = n
    BY <1>2
  <2> QED
    BY <1>2, <1>3, <1>4, <1>5, <1>8, <2>1 DEF Seated, Sits
<1>10. Waits(calls'[n], calls'[n + 1])
  <2>1. Nth(Top.todo, 3) # "run"
    BY <1>2, LawfulHere DEF Third
  <2> QED
    BY <1>3, <1>4, <1>5, <1>8, <2>1 DEF Waits
<1>0. n \in Nat \ {0} /\ Len(calls) = n
  BY <1>2
<1> HIDE DEF n
<1>11. \A i \in (n - 1) + 1..n + 1 : i = n \/ i = n + 1
  BY <1>0
<1>12. Orderly((n - 1) + 1, n + 1)
  <2>1. (n + 1) - 1 = n
    BY <1>0
  <2>2. \A i \in {n, n + 1} : Sits(toolkit, i, calls'[i], calls'[i - 1])
                              /\ Lawful(toolkit, calls'[i].fn, calls'[i].todo)
    BY <1>3, <1>4, <1>6, <1>7, <1>9, <2>1
  <2> QED
    BY <1>11, <2>2 DEF Orderly
<1>13. (n - 1) + 1 = n /\ \A i \in 1..n + 1 : i < n + 1 /\ i >= n - 1 => i = n \/ i = n - 1
  BY <1>0
<1>14. Covered(n - 1, n + 1)
  <2>1. ASSUME NEW i \in 1..n + 1, i < n + 1 /\ i >= n - 1 PROVE Waits(calls'[i], calls'[i + 1])
    <3>1. CASE i = n
      BY <1>10, <3>1
    <3>2. CASE i = n - 1
      BY <1>7, <1>13, <3>2
    <3> QED
      BY <1>13, <2>1, <3>1, <3>2
  <2> QED
    BY <2>1 DEF Covered
<1>15. n + 1 \in Nat \ {0} /\ n - 1 \in Nat /\ n - 1 <= n + 1 /\ n - 1 <= Len(calls)
  BY <1>0
<1>17. phase' = "run"
  BY <1>1
<1>16. Grammar'
  BY <1>3, <1>4, <1>12, <1>14, <1>15, <1>17, GrammarKept
<1> QED
  BY <1>4, <1>16

\* A frame that is done leaves the others in order.
LEMMA PopGrammar ==
  ASSUME Types, Grammar, toolkit' = toolkit, phase' = phase, calls # <<>>, calls' = Front(calls),
         Top.fn # "main"
  PROVE  Grammar' /\ calls' \in Seq(Call)
<1>1. /\ Len(calls) \in Nat \ {0} /\ DOMAIN calls = 1..Len(calls) /\ Len(calls) \in DOMAIN calls
      /\ Top = calls[Len(calls)]
  BY TopSeat
<1> DEFINE n == Len(calls) - 1
<1>2. /\ calls' \in Seq(Call) /\ Len(calls') = n /\ DOMAIN calls' = 1..n
      /\ Keeps(n)
  BY FrontTops DEF Types
<1>3. Seated(Len(calls)) /\ 1 \in DOMAIN calls
  BY <1>1 DEF Grammar
<1>4. Len(calls) # 1
  <2>1. Seated(1)
    BY <1>3 DEF Grammar
  <2> QED
    BY <1>1, <2>1 DEF Seated, Sits
<1>5. n \in Nat \ {0} /\ n <= Len(calls) /\ n + 1 = Len(calls) /\ phase = "run"
  <2>1. Len(calls) \in Nat \ {0}
    BY <1>1
  <2>2. phase = "run"
    BY DEF Grammar
  <2> QED
    BY <1>4, <2>1, <2>2
<1>6. \A i \in n + 1..n : FALSE
  BY <1>5
<1> HIDE DEF n
<1>7. Orderly(n + 1, n)
  BY <1>6 DEF Orderly
<1>8. Covered(n, n)
  <2>1. \A i \in 1..n : ~(i < n /\ i >= n)
    BY <1>5
  <2> QED
    BY <2>1 DEF Covered
<1>9. Grammar'
  BY <1>2, <1>5, <1>7, <1>8, GrammarKept
<1> QED
  BY <1>2, <1>9

\* An error leaves them in order, for a catch reports it and nothing else.
LEMMA ThrowGrammar ==
  ASSUME Types, Grammar, toolkit' = toolkit, phase = "run", Throw
  PROVE  Grammar' /\ calls' \in Seq(Call) /\ phase' \in {"run", "dead"}
<1>1. CASE phase' = "dead" /\ calls' = <<>>
  BY <1>1, GrammarEmpty
<1>2. ASSUME phase' = phase, NEW at \in DOMAIN calls, calls[at].fn = "catch",
             Tops(at, With(calls[at], <<"say">>)), Keeps(at - 1)
      PROVE  Grammar' /\ calls' \in Seq(Call) /\ phase' \in {"run", "dead"}
  <2> DEFINE g == With(calls[at], <<"say">>)
  <2>1. /\ calls' \in Seq(Call) /\ DOMAIN calls' = 1..at /\ Len(calls') = at /\ at \in Nat \ {0}
        /\ calls'[at] = g
    BY <1>2 DEF Tops
  <2>2. calls[at] \in Call /\ "say" \in Word /\ <<"say">> \in Seq(Word)
    <3>1. DOMAIN calls = 1..Len(calls)
      BY LenProperties DEF Types
    <3>2. calls[at] \in Call
      BY <1>2, <3>1, ElementOfSeq DEF Types
    <3>3. "say" \in Word
      BY DEF Word
    <3> QED
      BY <3>2, <3>3
  <2>3. g.fn = "catch" /\ g.todo = <<"say">>
    BY <1>2, <2>2, WithIs
  <2> HIDE DEF g
  <2>4. Lawful(toolkit, "catch", <<"say">>)
    BY <2>2 DEF Lawful, Follows, Third, Nth, Command
  <2>5. Sits(toolkit, at, calls'[at], calls'[at - 1]) /\ Waits(calls'[at - 1], calls'[at])
    <3>1. Seated(at)
      BY <1>2 DEF Grammar
    <3>2. at # 1
      BY <1>2, <3>1 DEF Seated, Sits
    <3>3. at - 1 \in 1..at - 1
      BY <2>1, <3>2
    <3>4. calls'[at - 1] = calls[at - 1]
      BY <1>2, <3>3 DEF Keeps
    <3>5. Waits(calls[at - 1], g)
      BY <1>2, <2>3, <3>2, WaitsOn
    <3> QED
      BY <1>2, <2>1, <2>3, <3>1, <3>2, <3>4, <3>5 DEF Seated, Sits, Loops
  <2>6. /\ \A i \in (at - 1) + 1..at : i = at
        /\ (at - 1) + 1 = at /\ \A i \in 1..at : i < at /\ i >= at - 1 => i = at - 1
        /\ at - 1 \in Nat /\ at - 1 <= at
        /\ at <= Len(calls) /\ at - 1 <= Len(calls)
    <3>1. Len(calls) \in Nat /\ DOMAIN calls = 1..Len(calls)
      BY LenProperties DEF Types
    <3>2. Len(calls) \in Nat /\ at \in 1..Len(calls)
      BY <1>2, <3>1
    <3> QED
      BY <3>2
  <2>7. Orderly((at - 1) + 1, at)
    BY <2>1, <2>3, <2>4, <2>5, <2>6 DEF Orderly
  <2>8. Covered(at - 1, at)
    BY <2>5, <2>6 DEF Covered
  <2>9. phase' = "run"
    BY <1>2
  <2>10. Grammar'
    BY <1>2, <2>1, <2>6, <2>7, <2>8, <2>9, GrammarKept
  <2> QED
    BY <2>1, <2>9, <2>10
<1> QED
  BY <1>1, <1>2, ThrowIs DEF Types

\* A word that is done gives way to no words.
LEMMA DoneIs ==
  ASSUME Types, Grammar, NEW w, Next_(w), Do(<<>>), phase' = phase
  PROVE  Rewritten(w, <<>>, Top)
<1>1. Top \in Call
  BY TopWords DEF Grammar
<1> QED
  BY <1>1, AdmitsAre DEF Rewritten, Says, Do

\* A command is the last word of its handler but one.
LEMMA CommandsPush ==
  ASSUME Types, Grammar, NEW k, Commands(k)
  PROVE  /\ phase = "run" /\ calls # <<>> /\ phase' = "run"
         /\ Top.fn = "handler" /\ Nth(Top.todo, 1) = k /\ Nth(Top.todo, 2) = Finish(toolkit)
         /\ Top.todo \in Seq(Word) /\ Top.todo # <<>> /\ Tail(Top.todo) = <<Finish(toolkit)>>
         /\ k \in Command \ {"edit"}
         /\ \E f \in Call :
              /\ Push(f) /\ f.fn = "catch"
              /\ f.todo \in {AskWords, <<"do_quit">>, <<"throw">>, <<"clipboard", "edit">>}
              /\ f.todo \in Seq(Word)
              /\ Lawful(toolkit, f.fn, f.todo)
<1>1. Next_(k) /\ k \in Command \ {"edit"} /\ phase' = phase
  BY DEF Commands, feral
<1>2. /\ phase = "run" /\ calls # <<>> /\ Top.todo \in Seq(Word)
      /\ Top.todo # <<>> /\ Nth(Top.todo, 1) = k
      /\ Tail(Top.todo) \in Seq(Word)
      /\ \A n \in Nat \ {0} : Nth(Tail(Top.todo), n) = Nth(Top.todo, n + 1)
  BY <1>1, TopWords DEF Grammar
<1>3. Lawful(toolkit, Top.fn, Top.todo)
  BY <1>2, TopSeat
<1>4. Top.fn = "handler" /\ Nth(Top.todo, 2) = Finish(toolkit)
  <2>1. Follows(toolkit, Top.fn, Nth(Top.todo, 1), Nth(Top.todo, 2))
    BY <1>3, LawfulHere
  <2> QED
    BY <1>1, <1>2, <2>1 DEF Follows
<1>5. Nth(Top.todo, 3) = "end"
  <2>1. Follows(toolkit, Top.fn, Nth(Top.todo, 2), Nth(Top.todo, 3))
    BY <1>3, LawfulHere
  <2> QED
    BY <1>4, <2>1 DEF Follows, Finish
<1>6. Tail(Top.todo) = <<Finish(toolkit)>>
  <2> DEFINE u == Tail(Top.todo)
  <2>1. Nth(u, 1) = Finish(toolkit) /\ Nth(u, 2) = "end"
    <3>1. 1 + 1 = 2 /\ 2 + 1 = 3
      OBVIOUS
    <3> QED
      BY <1>2, <1>4, <1>5, <3>1
  <2>2. u \in Seq(Word)
    BY <1>2
  <2> HIDE DEF u
  <2>3. "end" \notin Word /\ Finish(toolkit) # "end" /\ Finish(toolkit) \in Word
    BY DEF Word, Command, Finish
  <2>4. Len(u) \in Nat /\ DOMAIN u = 1..Len(u)
    BY <2>2, LenProperties
  <2>5. 1 \in DOMAIN u /\ u[1] = Finish(toolkit)
    BY <2>1, <2>3 DEF Nth
  <2>6. 2 \notin DOMAIN u
    <3>1. 2 \in DOMAIN u => u[2] \in Word
      BY <2>2, <2>4, ElementOfSeq
    <3> QED
      BY <2>1, <2>3, <3>1 DEF Nth
  <2>7. Len(u) = 1
    BY <2>4, <2>5, <2>6
  <2>8. <<Finish(toolkit)>> \in Seq(Word) /\ Len(<<Finish(toolkit)>>) = 1
        /\ <<Finish(toolkit)>>[1] = Finish(toolkit)
    BY <2>3
  <2>9. u = <<Finish(toolkit)>>
    BY <2>2, <2>5, <2>7, <2>8, SeqEqual
  <2> QED
    BY <2>9 DEF u
<1>7. PICK ws \in {AskWords, <<"do_quit">>, <<"throw">>, <<"clipboard", "edit">>},
           a \in {"file", "none"} : Push(Catch(ws, a))
  BY DEF Commands
<1>8. ws \in Seq(Word)
  <2>1. /\ "prompt" \in Word /\ "run" \in Word /\ "main" \in Word
        /\ "restore" \in Word /\ "answer" \in Word /\ "do_quit" \in Word
        /\ "throw" \in Word /\ "clipboard" \in Word /\ "edit" \in Word
    BY DEF Word, Command
  <2>2. AskWords \in Seq(Word)
    BY <2>1 DEF AskWords
  <2>3. <<"do_quit">> \in Seq(Word) /\ <<"throw">> \in Seq(Word) /\ <<"clipboard", "edit">> \in Seq(Word)
    BY <2>1
  <2> QED
    BY <2>2, <2>3
<1>9. Lawful(toolkit, "catch", ws)
  <2>1. Lawful(toolkit, "catch", <<"do_quit">>)
    BY <1>8 DEF Lawful, Follows, Third, Nth, Command, Word
  <2>2. Lawful(toolkit, "catch", <<"throw">>)
    BY <1>8 DEF Lawful, Follows, Third, Nth, Command, Word
  <2>3. Lawful(toolkit, "catch", <<"clipboard", "edit">>)
    <3>1. "clipboard" \in Word /\ "edit" \in Word /\ <<"clipboard", "edit">> \in Seq(Word)
      BY DEF Word, Command
    <3>2. Follows(toolkit, "catch", "clipboard", "edit") /\ Follows(toolkit, "catch", "edit", "end")
      BY DEF Follows, Command
    <3>3. \A x, y : y # "run" /\ x \in {"edit", "end"} => Third("clipboard", x, y) /\ Third("edit", x, y)
      BY DEF Third
    <3> DEFINE s == <<"clipboard", "edit">>
    <3>4. /\ s \in Seq(Word) /\ DOMAIN s = {1, 2} /\ s[1] = "clipboard" /\ s[2] = "edit"
          /\ Nth(s, 2) = "edit" /\ Nth(s, 3) = "end" /\ Nth(s, 4) = "end"
      BY <3>1 DEF Nth
    <3> HIDE DEF s
    <3>5. \A n \in DOMAIN s : /\ Follows(toolkit, "catch", s[n], Nth(s, n + 1))
                             /\ Third(s[n], Nth(s, n + 1), Nth(s, n + 2))
      <4>1. 1 + 1 = 2 /\ 2 + 1 = 3 /\ 1 + 2 = 3 /\ 2 + 2 = 4
        OBVIOUS
      <4> QED
        BY <3>2, <3>3, <3>4, <4>1
    <3>6. Lawful(toolkit, "catch", s)
      BY <3>4, <3>5 DEF Lawful
    <3> QED
      BY <3>6 DEF s
  <2>4. ws = AskWords => Lawful(toolkit, "catch", ws)
    <3>1. <<"do_quit">> \in Seq(Word) /\ Head(<<"do_quit">>) = "do_quit" /\ <<"do_quit">> # <<>>
          /\ Tail(<<"do_quit">>) = <<>>
      BY DEF Word
    <3>2. Lawful(toolkit, "catch", AskWords \o <<>>)
      BY <2>1, <3>1, AdmitsAre, AdmitsLawful
    <3>3. ws = AskWords => AskWords \o <<>> = AskWords
      BY <1>8, ConcatEmptySeq
    <3> QED
      BY <3>2, <3>3
  <2> QED
    BY <1>7, <2>1, <2>2, <2>3, <2>4
<1>10. /\ Catch(ws, a) \in Call /\ Catch(ws, a).fn = "catch" /\ Catch(ws, a).todo = ws
  BY <1>7, <1>8 DEF Catch, Loop, Call, Asker
<1> QED
  BY <1>1, <1>2, <1>4, <1>6, <1>7, <1>8, <1>9, <1>10

\* A loop has no words of its own.
LEMMA LoopIs ==
  ASSUME NEW fn \in Loops, NEW n \in Nat
  PROVE  /\ Loop(fn, n) \in Call /\ Loop(fn, n).fn = fn /\ Loop(fn, n).todo = <<>>
         /\ Loop(fn, n).loop = n
         /\ \A tk : Lawful(tk, fn, Loop(fn, n).todo)
<1>1. Loop(fn, n) \in Call /\ Loop(fn, n).fn = fn /\ Loop(fn, n).todo = <<>> /\ Loop(fn, n).loop = n
  BY DEF Loop, Call
<1>2. \A tk : Lawful(tk, fn, <<>>)
  BY DEF Lawful
<1> QED
  BY <1>1, <1>2

\* A handler has the words that it is called for.
LEMMA HandlerIs ==
  ASSUME NEW ws \in Seq(Word)
  PROVE  /\ Handler(ws) \in Call /\ Handler(ws).fn = "handler" /\ Handler(ws).todo = ws
BY DEF Handler, Loop, Call

\* A question's loop is put on top of who asks.
LEMMA MainPush ==
  ASSUME Types, Grammar, NEW n \in Nat, AsksIn(n)
  PROVE  /\ phase = "run" /\ calls # <<>> /\ phase' = phase /\ Top.fn \in {"handler", "catch"}
         /\ Push(Loop("mini", n))
         /\ Top.todo \in Seq(Word) /\ Top.todo # <<>>
         /\ Nth(Top.todo, 1) = "main" /\ Nth(Top.todo, 2) = "restore"
         /\ Nth(Top.todo, 3) = "answer"
<1>1. Next_("main") /\ phase' = phase /\ Push(Loop("mini", n))
  BY DEF AsksIn, feral
<1>2. /\ phase = "run" /\ calls # <<>> /\ Top.todo \in Seq(Word)
      /\ Top.todo # <<>> /\ Nth(Top.todo, 1) = "main"
  BY <1>1, TopWords DEF Grammar
<1>3. Lawful(toolkit, Top.fn, Top.todo) /\ Top.fn \in {"handler", "catch"}
  BY <1>2, TopSeat
<1>4. /\ Follows(toolkit, Top.fn, Nth(Top.todo, 1), Nth(Top.todo, 1 + 1))
      /\ Third(Nth(Top.todo, 1), Nth(Top.todo, 1 + 1), Nth(Top.todo, 1 + 2))
  BY <1>2, <1>3, LawfulIs
<1>5. 1 + 1 = 2 /\ 1 + 2 = 3
  OBVIOUS
<1>6. Nth(Top.todo, 2) = "restore"
  BY <1>2, <1>4, <1>5 DEF Follows
<1>7. Nth(Top.todo, 3) = "answer"
  BY <1>2, <1>4, <1>5 DEF Third
<1> QED
  BY <1>1, <1>2, <1>3, <1>6, <1>7

\* GTK's loop is run in the middle of a handler to show the minibuffer or to read the
\* clipboard.
LEMMA PumpPush ==
  ASSUME Types, Grammar, Pumps
  PROVE  /\ phase = "run" /\ calls # <<>> /\ phase' = phase /\ Top.fn \in {"handler", "catch"}
         /\ Push(Loop("pump", 0))
         /\ Top.todo \in Seq(Word) /\ Top.todo # <<>>
         /\ Nth(Top.todo, 1) \in {"invalidate", "clipboard"} /\ Nth(Top.todo, 2) \in Waiting
         /\ Nth(Top.todo, 1) = "clipboard" => Nth(Top.todo, 2) = "edit"
         /\ ~(Nth(Top.todo, 2) = "restore" /\ Nth(Top.todo, 3) = "answer")
<1>1. PICK w \in {"invalidate", "clipboard"} : Next_(w)
  BY DEF Pumps
<1>2. /\ phase = "run" /\ calls # <<>> /\ Top.todo \in Seq(Word)
      /\ Top.todo # <<>> /\ Nth(Top.todo, 1) = w
  BY <1>1, TopWords DEF Grammar
<1>3. Lawful(toolkit, Top.fn, Top.todo) /\ Top.fn \in {"handler", "catch"}
  BY <1>2, TopSeat
<1>4. /\ Follows(toolkit, Top.fn, Nth(Top.todo, 1), Nth(Top.todo, 1 + 1))
      /\ Third(Nth(Top.todo, 1), Nth(Top.todo, 1 + 1), Nth(Top.todo, 1 + 2))
  BY <1>2, <1>3, LawfulIs
<1>5. 1 + 1 = 2 /\ 1 + 2 = 3
  OBVIOUS
<1>8. ~(Nth(Top.todo, 2) = "restore" /\ Nth(Top.todo, 3) = "answer")
  BY <1>2, <1>4, <1>5 DEF Third
<1>6. Nth(Top.todo, 2) \in Waiting /\ (w = "clipboard" => Nth(Top.todo, 2) = "edit")
  BY <1>2, <1>4, <1>5 DEF Follows, Waiting, Command
<1>7. phase' = phase /\ Push(Loop("pump", 0))
  BY DEF Pumps, feral
<1> QED
  BY <1>1, <1>2, <1>3, <1>6, <1>7, <1>8

\* A loop calls a handler.
LEMMA TakenIs ==
  ASSUME Types, Grammar, NEW ws, Taken(ws)
  PROVE  /\ phase = "run" /\ calls # <<>> /\ phase' = phase /\ Top.fn \in Loops /\ frame = "shown"
         /\ ws \in Seq(Word) /\ Lawful(toolkit, "handler", ws)
         /\ Tops(Len(calls) + 1, Handler(ws)) /\ Keeps(Len(calls))
         /\ UNCHANGED askVars
         /\ upset' = IF Top.fn = "pump" THEN upset \cup {"ahead"} ELSE upset
<1>1. /\ phase = "run" /\ Top.fn \in Loops /\ frame = "shown" /\ calls' = Append(calls, Handler(ws))
      /\ UNCHANGED askVars /\ phase' = phase
      /\ upset' = IF Top.fn = "pump" THEN upset \cup {"ahead"} ELSE upset
  BY DEF Taken, Take, CanTake, InLoop
<1>2. calls # <<>>
  BY <1>1 DEF Grammar
<1>3. ws \in Seq(Word) /\ Lawful(toolkit, "handler", ws)
  BY DEF Taken, Handles, Lawful
<1>4. Tops(Len(calls) + 1, Handler(ws)) /\ Keeps(Len(calls))
  BY <1>1, <1>3, HandlerIs, AppendIs DEF Types
<1> QED
  BY <1>1, <1>2, <1>3, <1>4

\* A loop that takes an event calls the handler for it, and the frames are in order.
LEMMA TakenGrammar ==
  ASSUME Types, Grammar, toolkit' = toolkit, NEW ws, Taken(ws)
  PROVE  Grammar' /\ calls' \in Seq(Call)
<1>1. /\ phase = "run" /\ calls # <<>> /\ phase' = phase /\ Top.fn \in Loops
      /\ ws \in Seq(Word) /\ Lawful(toolkit, "handler", ws)
      /\ Tops(Len(calls) + 1, Handler(ws)) /\ Keeps(Len(calls))
  BY TakenIs
<1>2. /\ Len(calls) \in Nat \ {0} /\ Len(calls) \in DOMAIN calls
      /\ Top = calls[Len(calls)] /\ Top.todo = <<>>
  BY <1>1, TopSeat
<1> DEFINE n == Len(calls)
<1>3. n \in Nat \ {0} /\ Len(calls) = n
  BY <1>2
<1>4. calls'[n] = Top
  <2>1. n \in 1..n
    BY <1>3
  <2> QED
    BY <1>1, <1>2, <2>1 DEF Keeps
<1> HIDE DEF n
<1>5. /\ calls' \in Seq(Call) /\ DOMAIN calls' = 1..n + 1 /\ Len(calls') = n + 1
      /\ calls'[n + 1] = Handler(ws)
  BY <1>1, <1>3 DEF Tops
<1>6. Sits(toolkit, n + 1, calls'[n + 1], calls'[n])
  <2>1. n + 1 # 1
    BY <1>3
  <2> QED
    BY <1>1, <1>4, <1>5, <2>1, HandlerIs DEF Sits, Loops
<1>7. Lawful(toolkit, calls'[n + 1].fn, calls'[n + 1].todo)
  BY <1>1, <1>5, HandlerIs
<1>8. /\ \A i \in n + 1..n + 1 : i = n + 1
      /\ (n + 1) - 1 = n
      /\ \A i \in 1..n + 1 : i < n + 1 /\ i >= n => i = n
      /\ n + 1 \in Nat \ {0} /\ n <= n + 1 /\ n <= Len(calls) /\ n \in Nat
  BY <1>3
<1>9. Orderly(n + 1, n + 1)
  <2>1. \A i \in {n + 1} : Sits(toolkit, i, calls'[i], calls'[i - 1])
                           /\ Lawful(toolkit, calls'[i].fn, calls'[i].todo)
    BY <1>6, <1>7, <1>8
  <2> QED
    BY <1>8, <2>1 DEF Orderly
<1>10. Nth(calls'[n].todo, 1) = "end"
  BY <1>2, <1>4 DEF Nth
<1>11. Covered(n, n + 1)
  <2>1. Waits(calls'[n], calls'[n + 1])
    BY <1>10 DEF Waits, Waiting
  <2> QED
    BY <1>8, <2>1 DEF Covered
<1>12. phase' = "run" /\ Keeps(n)
  BY <1>1, <1>3
<1>13. Grammar'
  BY <1>5, <1>8, <1>9, <1>11, <1>12, GrammarKept
<1> QED
  BY <1>5, <1>13

\* The words that only change the control, or go away.
LEMMA QuietIs ==
  ASSUME Types, Grammar, Passes \/ TellsToQuit \/ (Destroys /\ phase' = phase)
  PROVE  \/ \E w \in {"update", "redraw", "redraw_mini", "repaint", "invalidate", "clipboard",
                      "leave", "exit"} : Rewritten(w, <<>>, Top)
         \/ calls' = <<>> /\ phase' = "over"
<1>1. CASE Passes
  <2>1. PICK w \in {"update", "redraw", "redraw_mini", "repaint", "invalidate", "clipboard"} :
          Next_(w) /\ Do(<<>>) /\ phase' = phase
    BY <1>1 DEF Passes, feral
  <2> QED
    BY <2>1, DoneIs
<1>2. CASE TellsToQuit
  <2>1. Next_("leave") /\ Do(<<>>) /\ phase' = phase
    BY <1>2 DEF TellsToQuit, feral
  <2> QED
    BY <2>1, DoneIs
<1>3. CASE Destroys /\ phase' = phase
  <2>1. Next_("exit") /\ (Do(<<>>) \/ (calls' = <<>> /\ phase' = "over"))
    BY <1>3 DEF Destroys
  <2> QED
    BY <1>3, <2>1, DoneIs
<1> QED
  BY <1>1, <1>2, <1>3

\* When the window is destroyed the frames stay, or all end.
LEMMA StopIs ==
  ASSUME Types, Grammar, Summary
  PROVE  Destroys => phase' = phase \/ (calls' = <<>> /\ phase' = "over")
BY DEF Destroys

\* Every step keeps the frames in order.
LEMMA GrammarStep ==
  ASSUME Types, Grammar, Summary
  PROVE  /\ Grammar' /\ calls' \in Seq(Call)
         /\ phase' \in {"start", "run", "over", "dead"}
<1> DEFINE Goal == /\ Grammar' /\ calls' \in Seq(Call)
                   /\ phase' \in {"start", "run", "over", "dead"}
<1> SUFFICES Goal
  OBVIOUS
<1>0. toolkit' = toolkit /\ (phase = "run" <=> calls # <<>>)
  BY DEF Summary, Grammar
<1>1. phase \in {"start", "run", "over", "dead"}
  BY DEF Types
<1>2. ASSUME calls' = <<>>, phase' \in {"start", "over", "dead"} PROVE Goal
  BY <1>2, GrammarEmpty
<1>3. ASSUME calls' = calls, phase' = phase PROVE Goal
  <2>1. Grammar'
    BY <1>0, <1>3 DEF Grammar, Seated
  <2> QED
    BY <1>3, <2>1 DEF Types
<1>4. ASSUME NEW w, NEW ws, NEW f, Rewritten(w, ws, f) PROVE Goal
  BY <1>0, <1>1, <1>4, RewrittenGrammar DEF Rewritten, Says
<1>5. ASSUME phase' = phase, calls # <<>>, Top.fn # "main", calls' = Front(calls) PROVE Goal
  BY <1>0, <1>1, <1>5, PopGrammar
<1>6. CASE Talks
  <2>1. ASSUME NEW k, Commands(k) PROVE Goal
    <3>1. /\ phase = "run" /\ phase' = phase /\ Next_(k)
          /\ Top.fn = "handler" /\ Nth(Top.todo, 2) = Finish(toolkit)
          /\ Tail(Top.todo) = <<Finish(toolkit)>>
      BY <2>1, CommandsPush DEF Commands
    <3>2. PICK f \in Call : Push(f) /\ f.fn = "catch" /\ Lawful(toolkit, f.fn, f.todo)
      BY <2>1, CommandsPush
    <3>3. Finish(toolkit) \in Waiting \ {"restore", "run"}
      BY DEF Finish, Waiting
    <3>4. Grammar' /\ calls' \in Seq(Call)
      BY <1>0, <3>1, <3>2, <3>3, PushGrammar DEF Loops
    <3> QED
      BY <1>1, <3>1, <3>4
  <2>2. CASE Throws
    <3>1. phase = "run" /\ Throw
      BY <2>2 DEF Throws, Next_
    <3> QED
      BY <1>0, <3>1, ThrowGrammar
  <2>3. CASE Ended
    <3>1. phase' = phase /\ calls # <<>> /\ Top.fn # "main" /\ calls' = Front(calls)
      BY <2>3, <1>0 DEF Ended, feral, Loops
    <3> QED
      BY <3>1, <1>5
  <2>4. \/ \E w, ws, f : Rewritten(w, ws, f)
        \/ \E k : Commands(k)
        \/ Throws
        \/ Ended
    BY <1>0, <1>6, TalksAre
  <2> HIDE DEF Goal
  <2> QED
    BY <1>4, <2>1, <2>2, <2>3, <2>4
<1>7. CASE Passes \/ TellsToQuit
  <2> HIDE DEF Goal
  <2> QED
    BY <1>2, <1>4, <1>7, QuietIs
<1>8. CASE Destroys
  <2> HIDE DEF Goal
  <2> QED
    BY <1>2, <1>4, <1>8, QuietIs, StopIs
<1>9. CASE Pumps
  <2>1. /\ phase = "run" /\ phase' = phase
        /\ Push(Loop("pump", 0)) /\ Nth(Top.todo, 2) \in Waiting
        /\ ~(Nth(Top.todo, 2) = "restore" /\ Nth(Top.todo, 3) = "answer")
    BY <1>9, PumpPush
  <2>2. PICK w : Next_(w)
    BY <1>9 DEF Pumps
  <2>3. toolkit = "gtk"
    BY <1>9 DEF Pumps
  <2> DEFINE f == Loop("pump", 0)
  <2>4. /\ f \in Call /\ f.fn = "pump" /\ f.todo = <<>> /\ Lawful(toolkit, f.fn, f.todo)
    <3>1. "pump" \in Loops /\ 0 \in Nat
      BY DEF Loops
    <3> QED
      BY <3>1, LoopIs
  <2> HIDE DEF f
  <2>5. Push(f)
    BY <2>1 DEF f
  <2>6. Grammar' /\ calls' \in Seq(Call)
    BY <1>0, <2>1, <2>2, <2>3, <2>4, <2>5, PushGrammar DEF Loops
  <2> QED
    BY <1>1, <2>1, <2>6
<1>10. CASE Asks
  <2>1. PICK n \in Nat : AsksIn(n)
    BY <1>10 DEF Asks
  <2>2. /\ phase = "run" /\ phase' = phase
        /\ Push(Loop("mini", n))
        /\ Nth(Top.todo, 2) = "restore" /\ Nth(Top.todo, 3) = "answer"
    BY <2>1, MainPush
  <2>3. Next_("main")
    BY <2>1 DEF AsksIn
  <2> DEFINE f == Loop("mini", n)
  <2>4. /\ f \in Call /\ f.fn = "mini" /\ f.todo = <<>> /\ Lawful(toolkit, f.fn, f.todo)
    <3>1. "mini" \in Loops
      BY DEF Loops
    <3> QED
      BY <3>1, LoopIs
  <2> HIDE DEF f
  <2>5. Push(f)
    BY <2>2 DEF f
  <2>6. "restore" \in Waiting
    BY DEF Waiting
  <2>7. Grammar' /\ calls' \in Seq(Call)
    BY <1>0, <2>2, <2>3, <2>4, <2>5, <2>6, PushGrammar DEF Loops
  <2> QED
    BY <1>1, <2>2, <2>7
<1>11. CASE Concludes \/ Pumped
  <2>1. phase' = phase /\ calls # <<>> /\ Top.fn # "main" /\ calls' = Front(calls)
    BY <1>0, <1>11 DEF Concludes, Pumped, feral
  <2> QED
    BY <2>1, <1>5
<1>12. CASE Takes
  <2>1. PICK ws : Taken(ws)
    BY <1>12 DEF Takes
  <2>2. phase' = phase
    BY <2>1, TakenIs
  <2> QED
    BY <1>0, <1>1, <2>1, <2>2, TakenGrammar
<1>13. CASE Activates \/ Idles
  <2>1. calls' = calls /\ phase' = phase
    BY <1>13 DEF Activates, Idles, feralVars
  <2> QED
    BY <2>1, <1>3
<1>14. CASE Begins
  <2> DEFINE f == Loop("main", 1)
  <2>1. /\ f \in Call /\ f.fn = "main" /\ f.todo = <<>> /\ Lawful(toolkit, f.fn, f.todo)
    <3>1. "main" \in Loops /\ 1 \in Nat
      BY DEF Loops
    <3> QED
      BY <3>1, LoopIs
  <2>2. calls' = <<f>> /\ phase' = "run"
    BY <1>14 DEF Begins
  <2> HIDE DEF f
  <2>3. /\ calls' \in Seq(Call) /\ DOMAIN calls' = 1..1 /\ Len(calls') = 1 /\ calls'[1] = f
    BY <2>1, <2>2
  <2>4. \A i \in 1..1 : i = 1 /\ ~(i < 1)
    OBVIOUS
  <2>5. Sits(toolkit, 1, f, calls'[0])
    BY <2>1 DEF Sits, Loops
  <2>6. calls' # <<>> /\ 1 - 1 = 0
    BY <2>2
  <2>7. \A i \in 1..1 : Seated(i)' /\ Lawful(toolkit', calls'[i].fn, calls'[i].todo)
    BY <1>0, <2>1, <2>3, <2>4, <2>5, <2>6 DEF Seated
  <2>8. Grammar'
    BY <2>2, <2>3, <2>4, <2>6, <2>7 DEF Grammar
  <2> QED
    BY <2>2, <2>3, <2>8
<1>15. CASE Prepares
  <2>1. \/ calls' = calls /\ phase' = phase
        \/ phase' = "dead" /\ calls' = <<>>
    BY <1>15 DEF Prepares
  <2> QED
    BY <2>1, <1>2, <1>3
<1>16. CASE Ends
  <2>1. phase' \in {"over", "dead"} /\ calls' = <<>>
    BY <1>16 DEF Ends
  <2> QED
    BY <2>1, <1>2
<1> HIDE DEF Goal
<1> QED
  BY <1>6, <1>7, <1>8, <1>9, <1>10, <1>11, <1>12, <1>13, <1>14, <1>15, <1>16 DEF Summary

----------------------------------------------------------------------------
(***************************************************************************)
(* Types.                                                                   *)
(***************************************************************************)

\* The mishaps that a step of the editor can be.
LEMMA TalkUpsets ==
  ASSUME Talks
  PROVE  upset' \subseteq upset \cup {"nested", "clicked", "failed"}
<1>1. ASSUME Throw PROVE upset' \subseteq upset \cup {"nested", "clicked", "failed"}
  BY <1>1 DEF Throw
<1>2. CASE FeralStep
  BY <1>1, <1>2 DEF FeralStep, AskCommand, QuitCommand, FailingCommand, PasteCommand,
     SafeCall, DoQuit, Raise, MinibufferRun, Restore, Answer, AssertMinibuffer, Return
<1>3. CASE FeralEdit
  BY <1>1, <1>3 DEF FeralEdit, ClearMessage, Message, SetPrompt, InsertChar, Accept, Cancel
<1>4. CASE EditBuffer
  BY <1>4 DEF EditBuffer
<1>5. CASE ToParent(<<"invalidate">>) \/ ToParent(<<>>)
  BY <1>5, ToParentIs
<1> QED
  BY <1>2, <1>3, <1>4, <1>5 DEF Talks

\* Every step keeps the types of what is asked and done.
LEMMA TypesStep ==
  ASSUME Types, Grammar, Summary
  PROVE  Types'
<1> DEFINE Goal == /\ buffer' \in {"edit", "mini"} /\ parent' \in {"edit", "mini"}
                   /\ prompt' \in Asker \cup {"none"}
                   /\ text' \in Text /\ contents' \in Text \cup {NoText}
                   /\ upset' \subseteq Mishap
<1>1. calls' \in Seq(Call) /\ phase' \in {"start", "run", "over", "dead"}
  BY GrammarStep
<1> SUFFICES Goal
  BY <1>1 DEF Types
<1>2. ASSUME UNCHANGED askVars, upset' \subseteq Mishap PROVE Goal
  BY <1>2 DEF Types, askVars
<1>3. upset \subseteq Mishap
  BY DEF Types
<1>4. "failed" \in Mishap /\ "ahead" \in Mishap /\ "activated" \in Mishap /\ "nested" \in Mishap
      /\ "clicked" \in Mishap
  BY DEF Mishap
<1>5. CASE Talks
  <2>1. upset' \subseteq Mishap
    BY <1>3, <1>4, <1>5, TalkUpsets
  <2>2. ASSUME NEW w, NEW ws, NEW f, Rewritten(w, ws, f), Changes(w, ws, f) PROVE Goal
    <3>1. Next_(w)
      BY <2>2 DEF Rewritten, Says
    <3>2. Top \in Call
      BY <3>1, TopWords DEF Grammar
    <3>3. Top.ask \in Asker \cup {"none"} /\ Top.saved \in {"edit", "mini"}
      BY <3>2 DEF Call
    <3>4. /\ text \in Text /\ buffer \in {"edit", "mini"} /\ parent \in {"edit", "mini"}
          /\ prompt \in Asker \cup {"none"} /\ contents \in Text \cup {NoText}
      BY DEF Types
    <3>5. /\ Line(Top.ask) \in Text /\ Line(prompt) \in Text /\ Empty \in Text
          /\ [text EXCEPT !.typed = TRUE] \in Text
      BY <3>3, <3>4 DEF Line, Empty, Text
    <3>6. buffer' \in {"edit", "mini"} /\ parent' \in {"edit", "mini"}
      BY <2>2, <3>3, <3>4 DEF Changes
    <3>7. prompt' \in Asker \cup {"none"}
      BY <2>2, <3>3, <3>4 DEF Changes
    <3>8. text' \in Text
      BY <2>2, <3>4, <3>5 DEF Changes
    <3>9. contents' \in Text \cup {NoText}
      BY <2>2, <3>4, <3>5 DEF Changes
    <3> QED
      BY <1>5, <2>1, <3>6, <3>7, <3>8, <3>9
  <2>3. CASE \E k : Commands(k)
    BY <2>3, <2>1, <1>2, <1>5 DEF Commands, feral
  <2>4. CASE Throws
    <3>1. contents' \in {contents, text}
      <4>1. CASE FeralStep
        BY <4>1 DEF FeralStep, AskCommand, QuitCommand, FailingCommand, PasteCommand,
           SafeCall, DoQuit, Raise, MinibufferRun, Restore, Answer, AssertMinibuffer, Return, askVars
      <4>2. CASE FeralEdit
        <5>1. \E w \in {"throw", "answer", "assert", "accept"} : Next_(w)
          BY <2>4 DEF Throws
        <5>2. Accept
          BY <4>2, <5>1 DEF FeralEdit, ClearMessage, Message, SetPrompt, InsertChar, Cancel, Next_
        <5> QED
          BY <5>2 DEF Accept
      <4>3. CASE EditBuffer
        BY <4>3 DEF EditBuffer
      <4>4. CASE ToParent(<<"invalidate">>) \/ ToParent(<<>>)
        BY <4>4, ToParentIs
      <4> QED
        BY <1>5, <4>1, <4>2, <4>3, <4>4 DEF Talks
    <3> QED
      BY <2>1, <2>4, <3>1, <1>5 DEF Throws, Types
  <2>5. CASE Ended
    BY <2>1, <2>5, <1>2, <1>5 DEF Ended, feral
  <2>6. \/ \E w, ws, f : Rewritten(w, ws, f) /\ Changes(w, ws, f)
        \/ \E k : Commands(k)
        \/ Throws
        \/ Ended
    BY <1>5, TalksAre DEF Grammar
  <2> HIDE DEF Goal
  <2> QED
    BY <2>2, <2>3, <2>4, <2>5, <2>6
<1>6. CASE \/ Passes \/ TellsToQuit \/ Destroys \/ Pumps \/ Concludes \/ Pumped
           \/ Begins \/ Prepares \/ Ends \/ Idles
  <2>1. UNCHANGED askVars /\ upset' = upset
    BY <1>6 DEF Passes, TellsToQuit, Destroys, Pumps, Concludes, Pumped, Begins, Prepares, Ends,
       Idles, feral, feralVars
  <2> QED
    BY <2>1, <1>2, <1>3
<1>7. CASE Asks
  <2>1. UNCHANGED askVars /\ upset' = upset
    BY <1>7 DEF Asks, AsksIn, feral
  <2> QED
    BY <2>1, <1>2, <1>3
<1>8. CASE Activates
  <2>1. UNCHANGED askVars /\ upset' = upset \cup {"activated"}
    BY <1>8 DEF Activates
  <2> QED
    BY <2>1, <1>2, <1>3, <1>4
<1>9. CASE Takes
  <2>1. UNCHANGED askVars /\ upset' \in {upset, upset \cup {"ahead"}}
    BY <1>9, TakenIs DEF Takes
  <2> QED
    BY <2>1, <1>2, <1>3, <1>4
<1> HIDE DEF Goal
<1> QED
  BY <1>5, <1>6, <1>7, <1>8, <1>9 DEF Summary

\* The types of what the front ends keep.
Screens ==
  /\ frame \in {"none", "hidden", "shown", "destroyed"}
  /\ focus \in {"none", "textview", "minibuffer"}
  /\ stale \subseteq Widget /\ queued \subseteq Widget /\ caret \subseteq {"text", "mini"}
  /\ view \in {"edit", "mini"}
  /\ height \in Heights /\ measured \in BOOLEAN /\ rows \in Nat
  /\ classes \in 0..3 /\ windows \in 0..4
  /\ minibuffer_exit \in BOOLEAN /\ quit \in BOOLEAN /\ standalone \in BOOLEAN

\* The rows of a window are a number.
LEMMA RowsAreCounted ==
  ASSUME NEW h \in Heights
  PROVE  h \div CharHeight \in Nat
<1>1. h \in Nat /\ CharHeight \in Nat \ {0}
  BY SizesAssumption
<1> QED
  BY <1>1

\* GTK keeps the types of what is on the screen.
LEMMA GtkScreens ==
  ASSUME toolkit = "gtk", Types, Screens, Gtk!GtkNext, UNCHANGED <<toolkit, winVars>>
  PROVE  Screens'
<1> USE GtkIsFeral DEF Screens, winVars
<1>1. ASSUME UNCHANGED <<frame, focus, stale, queued, caret, view, height, measured, rows>>
      PROVE  Screens'
  BY <1>1
<1>2. ASSUME UNCHANGED <<frame, caret, view, height, measured, rows>>,
             focus' \in {focus, "textview", "minibuffer"},
             stale' \subseteq Widget, queued' \subseteq Widget
      PROVE  Screens'
  BY <1>2
<1>3. "text" \in Widget /\ "mini" \in Widget /\ "mode" \in Widget
  BY DEF Widget
<1>4. CASE Gtk!User
  <2>1. PICK ws : Gtk!Event(ws)
    BY <1>4 DEF Gtk!User, Gtk!TextviewDoubleClick,
       Gtk!TextviewButtonPress, Gtk!TextviewMotionNotify, Gtk!TextviewMousewheel, Gtk!Close,
       Gtk!TextviewKeyPress, Gtk!MinibufferKeyPress
  <2> QED
    BY <1>1, <2>1 DEF Gtk!Event, Gtk!gtkVars, Gtk!screenVars, Gtk!sizeVars
<1>5. CASE Gtk!SizeAllocate
  BY <1>3, <1>5, RowsAreCounted DEF Gtk!SizeAllocate, Gtk!feralVars
<1>6. CASE Gtk!Initialize
  BY <1>6 DEF Gtk!Initialize, Gtk!sizeVars
<1>7. CASE Gtk!GtkMain \/ Gtk!GtkMainReturns
  BY <1>1, <1>7 DEF Gtk!GtkMain, Gtk!GtkMainReturns, Gtk!screenVars, Gtk!sizeVars
<1>8. CASE Gtk!MinibufferMain \/ Gtk!MinibufferMainReturns
  BY <1>2, <1>3, <1>8 DEF Gtk!MinibufferMain, Gtk!MinibufferMainReturns, Gtk!GrabFocus, Gtk!sizeVars
<1>9. CASE Gtk!MinibufferExit
  BY <1>1, <1>9 DEF Gtk!MinibufferExit, Gtk!screenVars, Gtk!sizeVars
<1>10. CASE Gtk!Exit
  BY <1>10 DEF Gtk!Exit, Gtk!sizeVars
<1>11. CASE Gtk!Draw
  <2>1. caret' \subseteq {"text", "mini"}
    BY <1>11 DEF Gtk!Draw, Gtk!CaretsDrawn, Gtk!TextviewDrawCaret, Gtk!MinibufferDrawCaret
  <2>2. measured' \in BOOLEAN /\ rows' \in Nat
    BY <1>11, RowsAreCounted DEF Gtk!Draw, Gtk!TextviewDraw, Gtk!Measure
  <2>3. view' \in {"edit", "mini"}
    BY <1>11 DEF Gtk!Draw, Gtk!TextviewDraw, Gtk!TextOut, Types
  <2>4. /\ stale' = stale \ queued /\ queued' = {}
        /\ UNCHANGED <<frame, focus, height>>
    BY <1>11 DEF Gtk!Draw
  <2> QED
    BY <2>1, <2>2, <2>3, <2>4
<1>12. CASE Gtk!UpdateDisplay
  BY <1>2, <1>3, <1>12 DEF Gtk!UpdateDisplay, Gtk!resting, Gtk!TextviewInvalidate, Gtk!Queue, Gtk!sizeVars
<1>13. CASE Gtk!QueueDraw \/ Gtk!MinibufferInvalidate
  BY <1>2, <1>3, <1>13 DEF Gtk!QueueDraw, Gtk!MinibufferInvalidate, Gtk!resting, Gtk!Queue, Gtk!sizeVars
<1>14. CASE Gtk!GetClipboardText \/ Gtk!PumpEnds
  BY <1>1, <1>14 DEF Gtk!GetClipboardText, Gtk!PumpEnds, Gtk!gtkVars, Gtk!screenVars, Gtk!sizeVars
<1>15. CASE (Gtk!FeralStep \/ Gtk!ToParent(<<"invalidate">>)) /\ UNCHANGED Gtk!gtkVars
  BY <1>1, <1>15 DEF Gtk!gtkVars, Gtk!screenVars, Gtk!sizeVars
<1>16. CASE (Gtk!FeralEdit \/ Gtk!EditBuffer) /\ UNCHANGED <<Gtk!resting, queued>>
  <2>1. stale' \subseteq stale \cup {"text", "mini", "mode"}
    BY <1>16 DEF Gtk!FeralEdit, Gtk!EditBuffer
  <2> QED
    BY <1>2, <1>3, <1>16, <2>1 DEF Gtk!resting, Gtk!sizeVars
<1> QED
  BY <1>4, <1>5, <1>6, <1>7, <1>8, <1>9, <1>10, <1>11, <1>12, <1>13, <1>14,
     <1>15, <1>16 DEF Gtk!GtkNext, Gtk!GtkStep

\* Windows keeps the types of what is on the screen.
LEMMA WinScreens ==
  ASSUME toolkit = "winui", Types, Screens, Win!WinNext, UNCHANGED <<toolkit, loops>>
  PROVE  Screens'
<1> USE WinIsFeral DEF Screens
<1>1. ASSUME UNCHANGED <<view, height, measured, rows, classes, windows, standalone>>,
             frame' \in {frame, "destroyed"},
             focus' \in {focus, "textview", "minibuffer", "none"},
             caret' \in {caret, {}, {"text"}, {"mini"}},
             stale' \subseteq Widget, queued' \subseteq Widget,
             minibuffer_exit' \in BOOLEAN, quit' \in BOOLEAN
      PROVE  Screens'
  BY <1>1
<1>3. "text" \in Widget /\ "mini" \in Widget /\ "mode" \in Widget
  BY DEF Widget
<1>4. CASE Win!User
  <2>1. (\E ws : Win!Event(ws)) \/ Win!Activate
    BY <1>4 DEF Win!User, Win!TextviewDoubleClick, Win!TextviewLbuttondown, Win!TextviewShiftClick,
       Win!TextviewMousemove, Win!TextviewMousewheel, Win!RequestUpdateDisplay, Win!Close,
       Win!TextviewKeydown, Win!MinibufferKeydown, Win!MinibufferChar, Win!TextviewOtherKey,
       Win!TextviewChar
  <2>2. ASSUME NEW ws, Win!Event(ws) PROVE Screens'
    BY <2>2 DEF Win!Event, Win!screenVars, Win!sizeVars, Win!winVars
  <2>3. CASE Win!Activate
    BY <1>1, <2>3 DEF Win!Activate, Win!SetFocus, Win!sizeVars, Win!winVars
  <2> QED
    BY <2>1, <2>2, <2>3
<1>5. CASE Win!Resize
  <2>1. PICK h \in Heights : Win!Size(h, measured)
    BY <1>5 DEF Win!Resize
  <2>2. height' \in Heights /\ rows' \in Nat
    BY <2>1, RowsAreCounted DEF Win!Size
  <2> QED
    BY <1>5, <2>2 DEF Win!Resize, Win!winVars
<1>6. CASE Win!Initialize
  BY <1>6 DEF Win!Initialize, Win!screenVars, Win!sizeVars
<1>7. CASE Win!CreateFrame
  <2>1. windows' \in 0..4
    <3>1. Win!Creatable \in 0..4 /\ windows' \in 0..Win!Creatable
      BY <1>7 DEF Win!CreateFrame, Win!Creatable
    <3>2. ASSUME NEW c \in 0..4, NEW w \in 0..c PROVE w \in 0..4
      OBVIOUS
    <3> QED
      BY <3>1, <3>2
  <2>2. measured' \in BOOLEAN /\ height' \in Heights /\ rows' \in Nat
    BY <1>7, RowsAreCounted DEF Win!CreateFrame, Win!CreateFont, Win!Size
  <2>3. /\ frame' \in {"hidden", "shown"} /\ focus' \in {focus, "textview"}
        /\ caret' \in {caret, {"text"}} /\ stale' \in {stale, Widget} /\ queued' \in {queued, Widget}
        /\ UNCHANGED <<view, classes, minibuffer_exit, quit, standalone>>
    BY <1>7 DEF Win!CreateFrame
  <2> QED
    BY <2>1, <2>2, <2>3
<1>8. CASE Win!WinMain
  BY <1>8 DEF Win!WinMain, Win!screenVars, Win!sizeVars, Win!winVars
<1>9. CASE Win!IgnoreQuit
  BY <1>1, <1>9 DEF Win!IgnoreQuit, Win!screenVars, Win!sizeVars
<1>10. CASE Win!MinibufferMain \/ Win!MinibufferMainReturns
  BY <1>1, <1>10 DEF Win!MinibufferMain, Win!MinibufferMainReturns, Win!SetFocus, Win!sizeVars
<1>11. CASE Win!MinibufferExit
  BY <1>1, <1>11 DEF Win!MinibufferExit, Win!screenVars, Win!sizeVars
<1>12. CASE Win!Exit
  BY <1>1, <1>12 DEF Win!Exit, Win!sizeVars
<1>13. CASE Win!TextviewPaint
  BY <1>13 DEF Win!TextviewPaint, Win!TextOut, Win!sizeVars, Win!winVars, Types
<1>14. CASE Win!MinibufferPaint \/ Win!ModelinePaint
  BY <1>14 DEF Win!MinibufferPaint, Win!ModelinePaint, Win!sizeVars, Win!winVars
<1>15. CASE Win!UpdateDisplay
  BY <1>15 DEF Win!UpdateDisplay, Win!TextOut, Win!sizeVars, Win!winVars, Types
<1>16. CASE Win!RepaintMinibuffer
  BY <1>16 DEF Win!RepaintMinibuffer, Win!sizeVars, Win!winVars
<1>17. CASE Win!MinibufferInvalidate \/ Win!GetClipboardText
  BY <1>3, <1>17 DEF Win!MinibufferInvalidate, Win!GetClipboardText, Win!screenVars, Win!sizeVars, Win!winVars
<1>18. CASE (Win!FeralStep \/ Win!ToParent(<<>>)) /\ UNCHANGED <<frame, focus, screenVars, winVars>>
  BY <1>18 DEF screenVars, sizeVars, winVars
<1>19. CASE (Win!FeralEdit \/ Win!EditBuffer)
            /\ UNCHANGED <<frame, focus, queued, caret, view, sizeVars, winVars>>
  <2>1. stale' \subseteq stale \cup {"text", "mini", "mode"}
    BY <1>19 DEF Win!FeralEdit, Win!EditBuffer
  <2> QED
    BY <1>3, <1>19, <2>1 DEF sizeVars, winVars
<1> QED
  BY <1>4, <1>5, <1>6, <1>7, <1>8, <1>9, <1>10, <1>11, <1>12, <1>13, <1>14, <1>15, <1>16, <1>17,
     <1>18, <1>19 DEF Win!WinNext, Win!WinStep, Win!screenVars, screenVars, Win!sizeVars,
     sizeVars, Win!winVars, winVars

\* So does every step.
LEMMA ScreensStep ==
  ASSUME Types, Screens, [Next]_vars
  PROVE  Screens'
<1>1. CASE OfGtk(Gtk!GtkNext)
  BY <1>1, GtkScreens DEF OfGtk
<1>2. CASE OfWin(Win!WinNext)
  BY <1>2, WinScreens DEF OfWin
<1>3. CASE UNCHANGED vars
  BY <1>3 DEF vars, winVars, Screens, screenVars, sizeVars
<1> QED
  BY <1>1, <1>2, <1>3 DEF Next

----------------------------------------------------------------------------
(***************************************************************************)
(* Frames keep their kind, and GTK's list of loops is in the order of the   *)
(* frames that run them.                                                    *)
(***************************************************************************)

\* The i-th frame is one that was there before.
Same(i) == i \in DOMAIN calls /\ calls'[i].fn = calls[i].fn /\ calls'[i].loop = calls[i].loop

\* The i-th frame is new, and the only one.
New(i) == i = Len(calls) + 1 /\ i = Len(calls')

\* Frames that stay are the same.
LEMMA KeepsSame ==
  ASSUME Types, NEW n \in Nat, n <= Len(calls), Keeps(n)
  PROVE  \A i \in 1..n : Same(i)
<1>1. Len(calls) \in Nat /\ DOMAIN calls = 1..Len(calls)
  BY LenProperties DEF Types
<1>2. Len(calls) \in Nat
  BY <1>1
<1>3. ASSUME NEW i \in 1..n PROVE i \in 1..Len(calls)
  BY <1>2
<1> QED
  BY <1>1, <1>3 DEF Keeps, Same

\* After a frame was put on top the others are the same.
LEMMA PushSame ==
  ASSUME Types, Grammar, calls # <<>>, Top.todo # <<>>, NEW f \in Call, Push(f)
  PROVE  /\ \A i \in DOMAIN calls' : Same(i) \/ (New(i) /\ calls'[i] = f)
         /\ Len(calls') = Len(calls) + 1 /\ calls'[Len(calls')] = f
         /\ Len(calls') \in DOMAIN calls'
<1>1. /\ Tops(Len(calls) + 1, f) /\ Keeps(Len(calls) - 1)
      /\ calls'[Len(calls)] = With(Top, Tail(Top.todo))
  BY PushIs DEF Types
<1>2. /\ Len(calls) \in Nat \ {0} /\ Len(calls) \in DOMAIN calls /\ Top = calls[Len(calls)]
      /\ Top \in Call /\ Top.todo \in Seq(Word)
  BY TopSeat
<1>3. Len(calls) \in Nat \ {0}
  BY <1>2
<1>4. Same(Len(calls))
  <2>1. Tail(Top.todo) \in Seq(Word)
    BY <1>2, HeadTailProperties
  <2>2. With(Top, Tail(Top.todo)).fn = Top.fn /\ With(Top, Tail(Top.todo)).loop = Top.loop
    BY <1>2, <2>1, WithIs
  <2> QED
    BY <1>1, <1>2, <2>2 DEF Same
<1>5. \A i \in 1..Len(calls) - 1 : Same(i)
  <2>1. Len(calls) - 1 \in Nat /\ Len(calls) - 1 <= Len(calls)
    BY <1>3
  <2> QED
    BY <1>1, <2>1, KeepsSame
<1>6. \A i \in 1..Len(calls) + 1 : i \in 1..Len(calls) - 1 \/ i = Len(calls) \/ i = Len(calls) + 1
  BY <1>3
<1>7. DOMAIN calls' = 1..Len(calls) + 1 /\ Len(calls') = Len(calls) + 1 /\ calls'[Len(calls) + 1] = f
  BY <1>1 DEF Tops
<1>8. Len(calls) + 1 \in 1..Len(calls) + 1
  BY <1>3
<1> QED
  BY <1>4, <1>5, <1>6, <1>7, <1>8 DEF New

\* After a word gave way to others the frames are the same, and as many.
LEMMA RewrittenSame ==
  ASSUME Types, Grammar, NEW w, NEW ws, NEW f, Rewritten(w, ws, f)
  PROVE  /\ \A i \in DOMAIN calls' : Same(i)
         /\ Len(calls') = Len(calls)
<1>1. PICK g \in Call : /\ Tops(Len(calls), g) /\ Keeps(Len(calls) - 1)
                        /\ g.fn = Top.fn /\ g.loop = Top.loop
  BY RewrittenIs
<1>2. /\ Len(calls) \in Nat \ {0} /\ Len(calls) \in DOMAIN calls /\ Top = calls[Len(calls)]
  <2>1. calls # <<>>
    BY RewrittenIs
  <2> QED
    BY <2>1, TopSeat
<1>3. Len(calls) \in Nat \ {0}
  BY <1>2
<1>4. DOMAIN calls' = 1..Len(calls) /\ Len(calls') = Len(calls) /\ calls'[Len(calls)] = g
  BY <1>1 DEF Tops
<1>5. Same(Len(calls))
  BY <1>1, <1>2, <1>4 DEF Same
<1>6. \A i \in 1..Len(calls) - 1 : Same(i)
  <2>1. Len(calls) - 1 \in Nat /\ Len(calls) - 1 <= Len(calls)
    BY <1>3
  <2> QED
    BY <1>1, <2>1, KeepsSame
<1>7. \A i \in 1..Len(calls) : i \in 1..Len(calls) - 1 \/ i = Len(calls)
  BY <1>3
<1> QED
  BY <1>4, <1>5, <1>6, <1>7

\* When the top frame is done the others are the same, and one less.
LEMMA PopSame ==
  ASSUME Types, Grammar, calls # <<>>, calls' = Front(calls)
  PROVE  /\ \A i \in DOMAIN calls' : Same(i) /\ i < Len(calls) /\ calls'[i] = calls[i]
         /\ Len(calls') = Len(calls) - 1
<1>1. /\ DOMAIN calls' = 1..Len(calls) - 1 /\ Keeps(Len(calls) - 1) /\ Len(calls') = Len(calls) - 1
  BY FrontTops DEF Types
<1>2. Len(calls) \in Nat \ {0}
  BY TopSeat
<1>3. /\ Len(calls) - 1 \in Nat /\ Len(calls) - 1 <= Len(calls)
      /\ \A i \in 1..Len(calls) - 1 : i < Len(calls)
  BY <1>2
<1> QED
  BY <1>1, <1>3, KeepsSame DEF Keeps

\* After an error the frames that are left are the same.
LEMMA ThrowSame ==
  ASSUME Types, Grammar, Throw
  PROVE  \A i \in DOMAIN calls' : Same(i)
<1>1. CASE calls' = <<>>
  BY <1>1
<1>2. ASSUME NEW at \in DOMAIN calls, calls[at].fn = "catch",
             Tops(at, With(calls[at], <<"say">>)), Keeps(at - 1)
      PROVE  \A i \in DOMAIN calls' : Same(i)
  <2>1. Len(calls) \in Nat /\ DOMAIN calls = 1..Len(calls)
    BY LenProperties DEF Types
  <2>2. at \in 1..Len(calls) /\ Len(calls) \in Nat
    BY <1>2, <2>1
  <2>3. at - 1 \in Nat /\ at - 1 <= Len(calls) /\ \A i \in 1..at : i \in 1..at - 1 \/ i = at
    BY <2>2
  <2>4. \A i \in 1..at - 1 : Same(i)
    BY <1>2, <2>3, KeepsSame
  <2>5. calls[at] \in Call
    BY <2>1, <2>2, ElementOfSeq DEF Types
  <2>6. <<"say">> \in Seq(Word)
    <3>1. "say" \in Word
      BY DEF Word
    <3> QED
      BY <3>1
  <2>7. calls'[at] = With(calls[at], <<"say">>) /\ DOMAIN calls' = 1..at
    BY <1>2 DEF Tops
  <2>8. /\ With(calls[at], <<"say">>).fn = calls[at].fn
        /\ With(calls[at], <<"say">>).loop = calls[at].loop
    BY <2>5, <2>6, WithIs
  <2>9. Same(at)
    BY <1>2, <2>7, <2>8 DEF Same
  <2> QED
    BY <2>3, <2>4, <2>7, <2>9
<1> QED
  BY <1>1, <1>2, ThrowIs DEF Types

\* After an event was taken its handler is new, and the others are the same.
LEMMA TakenSame ==
  ASSUME Types, Grammar, NEW ws, Taken(ws)
  PROVE  /\ \A i \in DOMAIN calls' : (Same(i) /\ calls'[i] = calls[i]) \/ (New(i) /\ calls'[i] = Handler(ws))
         /\ Len(calls') = Len(calls) + 1 /\ calls'[Len(calls')] = Handler(ws)
         /\ Len(calls') \in DOMAIN calls'
<1>1. calls # <<>> /\ Tops(Len(calls) + 1, Handler(ws)) /\ Keeps(Len(calls))
  BY TakenIs
<1>2. Len(calls) \in Nat \ {0}
  BY <1>1, TopSeat
<1>3. \A i \in 1..Len(calls) : Same(i) /\ calls'[i] = calls[i]
  BY <1>1, <1>2, KeepsSame DEF Keeps
<1>4. \A i \in 1..Len(calls) + 1 : i \in 1..Len(calls) \/ i = Len(calls) + 1
  BY <1>2
<1>5. DOMAIN calls' = 1..Len(calls) + 1 /\ Len(calls') = Len(calls) + 1
      /\ calls'[Len(calls) + 1] = Handler(ws)
  BY <1>1 DEF Tops
<1>6. Len(calls) + 1 \in 1..Len(calls) + 1
  BY <1>2
<1> QED
  BY <1>3, <1>4, <1>5, <1>6 DEF New

\* A sequence from which one element is removed.
LEMMA RemoveAtIs ==
  ASSUME NEW S, NEW s \in Seq(S), NEW k \in 1..Len(s)
  PROVE  /\ RemoveAt(s, k) \in Seq(S) /\ Len(RemoveAt(s, k)) = Len(s) - 1
         /\ \A i \in 1..k - 1 : RemoveAt(s, k)[i] = s[i]
<1>1. PICK n \in Nat : Len(s) = n
  BY LenProperties
<1>2. PICK m \in Nat : k = m + 1
  <2>1. k - 1 \in Nat /\ k = (k - 1) + 1
    BY <1>1
  <2> QED
    BY <2>1
<1>3. PICK r \in Nat : n = k + r
  <2>1. n - k \in Nat /\ n = k + (n - k)
    BY <1>1
  <2> QED
    BY <2>1
<1>4. \A i \in 1..n : s[i] \in S
  BY <1>1, ElementOfSeq
<1> DEFINE a == SubSeq(s, 1, k - 1)
           b == SubSeq(s, k + 1, Len(s))
<1>5. a \in Seq(S) /\ Len(a) = m /\ \A i \in 1..m : a[i] = s[i]
  <2>1. k - 1 = m /\ \A i \in 1..m : i \in 1..n
    BY <1>1, <1>2
  <2>2. \A i \in 1..m : s[i] \in S
    BY <1>4, <2>1
  <2>3. /\ SubSeq(s, 1, m) \in Seq(S) /\ Len(SubSeq(s, 1, m)) = (IF 1 <= m THEN m - 1 + 1 ELSE 0)
        /\ \A i \in 1..m - 1 + 1 : SubSeq(s, 1, m)[i] = s[1 + i - 1]
    BY <2>2, SubSeqProperties
  <2>4. (1 <= m => m - 1 + 1 = m) /\ (~(1 <= m) => m = 0) /\ m - 1 + 1 = m
        /\ \A i \in 1..m : 1 + i - 1 = i
    OBVIOUS
  <2> QED
    BY <2>1, <2>3, <2>4
<1>6. b \in Seq(S) /\ Len(b) = r
  <2>1. \A i \in k + 1..n : i \in 1..n
    BY <1>2
  <2>2. \A i \in k + 1..n : s[i] \in S
    BY <1>4, <2>1
  <2>3. /\ SubSeq(s, k + 1, n) \in Seq(S)
        /\ Len(SubSeq(s, k + 1, n)) = (IF k + 1 <= n THEN n - (k + 1) + 1 ELSE 0)
    BY <2>2, <1>2, SubSeqProperties
  <2>4. (k + 1 <= n => n - (k + 1) + 1 = r) /\ (~(k + 1 <= n) => r = 0)
    BY <1>2, <1>3
  <2> QED
    BY <1>1, <2>3, <2>4
<1>7. RemoveAt(s, k) = a \o b
  BY DEF RemoveAt
<1> HIDE DEF a, b
<1>8. /\ a \o b \in Seq(S) /\ Len(a \o b) = m + r
      /\ \A i \in 1..m + r : (a \o b)[i] = IF i <= m THEN a[i] ELSE b[i - m]
  BY <1>5, <1>6, ConcatProperties
<1>9. m + r = n - 1 /\ k - 1 = m /\ \A i \in 1..m : i \in 1..m + r /\ i <= m
  BY <1>2, <1>3
<1> QED
  BY <1>1, <1>5, <1>7, <1>8, <1>9

\* Frames of loops are old ones, or one that has just been called.
LEMMA LoopsPersist ==
  ASSUME Types, Grammar, Summary, NEW i \in DOMAIN calls', calls'[i].fn \in {"main", "mini"}
  PROVE  \/ Same(i)
         \/ Asks /\ New(i) /\ calls'[i].fn = "mini"
         \/ Begins /\ i = 1 /\ calls'[i].fn = "main" /\ calls'[i].loop = 1 /\ calls' = <<calls'[1]>>
<1> DEFINE Goal == \/ Same(i)
                   \/ Asks /\ New(i) /\ calls'[i].fn = "mini"
                   \/ Begins /\ i = 1 /\ calls'[i].fn = "main" /\ calls'[i].loop = 1 /\ calls' = <<calls'[1]>>
<1> SUFFICES Goal
  OBVIOUS
<1>0. calls' # <<>> /\ (phase = "run" <=> calls # <<>>)
  BY DEF Grammar
<1>1. ASSUME calls' = calls PROVE Goal
  BY <1>1 DEF Same
<1>2. ASSUME NEW w, NEW ws, NEW f, Rewritten(w, ws, f) PROVE Goal
  BY <1>2, RewrittenSame
<1>3. ASSUME calls # <<>>, calls' = Front(calls) PROVE Goal
  BY <1>3, PopSame
<1>4. ASSUME calls # <<>>, Top.todo # <<>>, NEW f \in Call, Push(f), f.fn \notin {"main", "mini"} PROVE Goal
  BY <1>4, PushSame
<1>6. CASE Talks
  <2>1. ASSUME NEW k, Commands(k) PROVE Goal
    <3>1. PICK f \in Call : Push(f) /\ f.fn = "catch"
      BY <2>1, CommandsPush
    <3>2. calls # <<>> /\ Top.todo # <<>>
      BY <2>1, CommandsPush
    <3> QED
      BY <3>1, <3>2, <1>4
  <2>2. CASE Throws
    BY <2>2, ThrowSame DEF Throws
  <2>3. CASE Ended
    BY <2>3, <1>0, <1>3 DEF Ended
  <2>4. \/ \E w, ws, f : Rewritten(w, ws, f)
        \/ \E k : Commands(k)
        \/ Throws
        \/ Ended
    BY <1>0, <1>6, TalksAre
  <2> HIDE DEF Goal
  <2> QED
    BY <1>2, <2>1, <2>2, <2>3, <2>4
<1>7. CASE Passes \/ TellsToQuit \/ Destroys
  <2> HIDE DEF Goal
  <2> QED
    BY <1>0, <1>2, <1>7, QuietIs, StopIs
<1>9. CASE Pumps
  <2>1. Push(Loop("pump", 0)) /\ calls # <<>> /\ Top.todo # <<>>
    BY <1>9, PumpPush
  <2>2. /\ Loop("pump", 0) \in Call /\ Loop("pump", 0).fn = "pump"
    <3>1. "pump" \in Loops /\ 0 \in Nat
      BY DEF Loops
    <3> QED
      BY <3>1, LoopIs
  <2> QED
    BY <2>1, <2>2, <1>4
<1>10. CASE Asks
  <2>1. PICK n \in Nat : AsksIn(n)
    BY <1>10 DEF Asks
  <2>2. Push(Loop("mini", n)) /\ calls # <<>> /\ Top.todo # <<>>
    BY <2>1, MainPush
  <2>3. Loop("mini", n) \in Call /\ Loop("mini", n).fn = "mini"
    <3>1. "mini" \in Loops
      BY DEF Loops
    <3> QED
      BY <3>1, LoopIs
  <2>4. Same(i) \/ (New(i) /\ calls'[i] = Loop("mini", n))
    BY <2>2, <2>3, PushSame
  <2> QED
    BY <1>10, <2>3, <2>4
<1>11. CASE Concludes \/ Pumped
  <2>1. calls # <<>> /\ calls' = Front(calls)
    BY <1>0, <1>11 DEF Concludes, Pumped
  <2> QED
    BY <2>1, <1>3
<1>12. CASE Takes
  <2>1. PICK ws : Taken(ws)
    BY <1>12 DEF Takes
  <2>2. Handler(ws).fn = "handler"
    BY <2>1, TakenIs, HandlerIs
  <2> QED
    BY <2>1, <2>2, TakenSame
<1>13. CASE Activates \/ Idles
  BY <1>1, <1>13 DEF Activates, Idles, feralVars
<1>14. CASE Begins
  <2>1. calls' = <<Loop("main", 1)>>
    BY <1>14 DEF Begins
  <2>2. Loop("main", 1).fn = "main" /\ Loop("main", 1).loop = 1
    BY DEF Loop
  <2> HIDE DEF Goal
  <2>3. DOMAIN calls' = {1} /\ calls'[1] = Loop("main", 1)
    BY <2>1
  <2>4. i = 1
    BY <2>3
  <2> QED
    BY <1>14, <2>1, <2>2, <2>3, <2>4 DEF Goal
<1>15. CASE Prepares
  BY <1>0, <1>1, <1>15 DEF Prepares
<1>16. CASE Ends
  BY <1>0, <1>16 DEF Ends
<1> HIDE DEF Goal
<1> QED
  BY <1>6, <1>7, <1>9, <1>10, <1>11, <1>12, <1>13, <1>14, <1>15, <1>16 DEF Summary

\* gtk_main_quit marks the last of GTK's loops, and unmarks none.
LEMMA MainQuitIs ==
  ASSUME loops \in Seq(BOOLEAN), Gtk!MainQuit
  PROVE  /\ loops' \in Seq(BOOLEAN) /\ Len(loops') = Len(loops)
         /\ loops # <<>> => /\ Len(loops) \in DOMAIN loops /\ loops'[Len(loops)]
                            /\ \A i \in DOMAIN loops : loops[i] => loops'[i]
<1>1. CASE loops = <<>>
  BY <1>1 DEF Gtk!MainQuit
<1>2. CASE loops # <<>>
  <2>1. loops' = [loops EXCEPT ![Len(loops)] = TRUE]
    BY <1>2 DEF Gtk!MainQuit
  <2>2. Len(loops) \in Nat \ {0} /\ DOMAIN loops = 1..Len(loops)
    BY <1>2, EmptySeq, LenProperties
  <2>3. Len(loops) \in DOMAIN loops
    BY <2>2
  <2>4. loops' \in Seq(BOOLEAN) /\ Len(loops') = Len(loops)
    BY <2>1, <2>3, ExceptSeq
  <2>5. loops'[Len(loops)] /\ \A i \in DOMAIN loops : loops[i] => loops'[i]
    BY <2>1, <2>3
  <2> QED
    BY <2>3, <2>4, <2>5
<1> QED
  BY <1>1, <1>2

\* Every step keeps GTK's list in the order of the frames.
LEMMA LoopsStep ==
  ASSUME Types, Grammar, loops \in Seq(BOOLEAN), LoopsListed, Summary, toolkit = "gtk"
  PROVE  loops' \in Seq(BOOLEAN) /\ LoopsListed'
<1>0. Len(loops) \in Nat /\ DOMAIN loops = 1..Len(loops) /\ toolkit' = "gtk"
  BY LenProperties DEF Summary
<1>1. Len(calls) \in Nat /\ DOMAIN calls = 1..Len(calls) /\ \A i \in DOMAIN calls : calls[i] \in Call
  BY LenProperties, ElementOfSeq DEF Types
<1>2. calls' \in Seq(Call) /\ (calls' # <<>> <=> phase' = "run")
  BY GrammarStep DEF Grammar
<1> DEFINE Runs(i) == calls[i].fn \in {"main", "mini"}
           RunsNext(i) == calls'[i].fn \in {"main", "mini"}
<1>3. \A i \in DOMAIN calls : Runs(i) => calls[i].loop \in DOMAIN loops
  BY DEF LoopsListed
<1>4. \A i, j \in DOMAIN calls : Runs(i) /\ Runs(j) /\ i < j => calls[i].loop < calls[j].loop
  BY DEF LoopsListed
<1>5. ASSUME loops' \in Seq(BOOLEAN), Len(loops') >= Len(loops),
             \A i \in DOMAIN calls' : RunsNext(i) => Same(i)
      PROVE  LoopsListed'
  <2>1. DOMAIN loops' = 1..Len(loops') /\ Len(loops') \in Nat
    BY <1>5, LenProperties
  <2>2. \A k \in DOMAIN loops : k \in DOMAIN loops'
    BY <1>0, <1>5, <2>1
  <2>3. \A i \in DOMAIN calls' : RunsNext(i) => i \in DOMAIN calls /\ Runs(i)
                                               /\ calls'[i].loop = calls[i].loop
    BY <1>5 DEF Same
  <2>4. \A i \in DOMAIN calls' : RunsNext(i) => calls'[i].loop \in DOMAIN loops'
    BY <1>3, <2>2, <2>3
  <2>5. \A i, j \in DOMAIN calls' : RunsNext(i) /\ RunsNext(j) /\ i < j => calls'[i].loop < calls'[j].loop
    BY <1>4, <2>3
  <2> QED
    BY <2>4, <2>5 DEF LoopsListed
<1>6. CASE calls' = <<>> /\ ~Ends
  <2>1. LoopsListed'
    BY <1>6 DEF LoopsListed
  <2>2. loops' \in Seq(BOOLEAN)
    <3>1. CASE Destroys
      BY <3>1, <1>0, MainQuitIs DEF Destroys
    <3>2. CASE TellsToQuit
      BY <3>2, <1>0, MainQuitIs DEF TellsToQuit
    <3>3. CASE Asks
      <4>1. loops' = Append(loops, FALSE)
        BY <3>3, <1>0 DEF Asks, AsksIn, Summary
      <4> QED
        BY <4>1, AppendProperties
    <3>4. CASE Concludes
      <4>1. phase' = "run"
        BY <3>4 DEF Concludes, feral
      <4> QED
        BY <4>1, <1>2, <1>6
    <3>5. CASE Begins
      <4>1. phase' = "run"
        BY <3>5 DEF Begins
      <4> QED
        BY <4>1, <1>2, <1>6
    <3>6. CASE Talks \/ Passes \/ Pumps \/ Pumped \/ Takes \/ Activates \/ Prepares \/ Idles
      <4>1. loops' = loops
        BY <3>6 DEF Talks, Passes, Pumps, Pumped, Takes, Taken, Activates, Prepares, Idles, control
      <4> QED
        BY <4>1
    <3> QED
      BY <1>6, <3>1, <3>2, <3>3, <3>4, <3>5, <3>6 DEF Summary
  <2> QED
    BY <2>1, <2>2
<1>7. CASE Ends
  <2>1. Top.fn = "main" /\ loops' = RemoveAt(loops, Top.loop) /\ calls' = <<>> /\ calls # <<>>
    BY <1>0, <1>7 DEF Ends, Grammar, Summary
  <2>2. Len(calls) \in DOMAIN calls /\ Top = calls[Len(calls)]
    BY <2>1, TopSeat
  <2>3. Top.loop \in DOMAIN loops
    BY <1>3, <2>1, <2>2
  <2>4. loops' \in Seq(BOOLEAN)
    BY <1>0, <2>1, <2>3, RemoveAtIs
  <2> QED
    BY <2>1, <2>4 DEF LoopsListed
<1>8. ASSUME calls' # <<>> PROVE loops' \in Seq(BOOLEAN) /\ LoopsListed'
  <2>0. \A i \in DOMAIN calls' : RunsNext(i) =>
          \/ Same(i)
          \/ Asks /\ New(i) /\ calls'[i].fn = "mini"
          \/ Begins /\ i = 1 /\ calls'[i].loop = 1 /\ calls' = <<calls'[1]>>
    BY <1>8, LoopsPersist
  <2>1. CASE Begins
    <3>1. phase = "start" /\ calls = <<>> /\ loops' = <<FALSE>>
      BY <2>1, <1>0 DEF Begins, Grammar, Summary
    <3>2. \A i \in DOMAIN calls' : ~Same(i)
      BY <3>1 DEF Same
    <3>3. ~Asks
      BY <3>1 DEF Asks, AsksIn, Next_
    <3>4. \A i \in DOMAIN calls' : RunsNext(i) => i = 1 /\ calls'[i].loop = 1
      BY <2>0, <3>2, <3>3
    <3>5. loops' \in Seq(BOOLEAN) /\ DOMAIN loops' = {1}
      BY <3>1
    <3> QED
      BY <3>4, <3>5 DEF LoopsListed
  <2>2. CASE Asks
    <3>1. PICK n \in Nat : AsksIn(n)
      BY <2>2 DEF Asks
    <3>2. n = Len(loops) + 1 /\ loops' = Append(loops, FALSE)
      BY <3>1, <1>0 DEF AsksIn, Summary
    <3>3. loops' \in Seq(BOOLEAN) /\ Len(loops') = Len(loops) + 1
      BY <3>2, AppendProperties
    <3>4. DOMAIN loops' = 1..Len(loops) + 1
      BY <3>3, LenProperties
    <3>5. Push(Loop("mini", n)) /\ calls # <<>> /\ Top.todo # <<>> /\ phase = "run"
      BY <3>1, MainPush
    <3>6. Loop("mini", n) \in Call /\ Loop("mini", n).fn = "mini" /\ Loop("mini", n).loop = n
      <4>1. "mini" \in Loops
        BY DEF Loops
      <4> QED
        BY <4>1, LoopIs
    <3>7. \A i \in DOMAIN calls' : Same(i) \/ (New(i) /\ calls'[i] = Loop("mini", n))
      BY <3>5, <3>6, PushSame
    <3>8. \A i \in DOMAIN calls' : RunsNext(i) =>
            \/ i \in DOMAIN calls /\ Runs(i) /\ calls'[i].loop = calls[i].loop
            \/ i = Len(calls) + 1 /\ calls'[i].loop = n
      BY <3>6, <3>7 DEF Same, New
    <3>9. \A i \in DOMAIN calls : i < Len(calls) + 1
      BY <1>1
    <3>10. \A k \in DOMAIN loops : k < n /\ k \in DOMAIN loops'
      BY <1>0, <3>2, <3>4
    <3>11. n \in DOMAIN loops' /\ Len(calls) + 1 \in Nat /\ Len(loops) \in Nat
      BY <1>0, <1>1, <3>2, <3>4
    <3>12. \A i \in DOMAIN calls' : RunsNext(i) => calls'[i].loop \in DOMAIN loops'
      BY <1>3, <3>8, <3>10, <3>11
    <3>13. ASSUME NEW i \in DOMAIN calls', NEW j \in DOMAIN calls', RunsNext(i), RunsNext(j), i < j
           PROVE  calls'[i].loop < calls'[j].loop
      <4>1. i \in DOMAIN calls /\ Runs(i) /\ calls'[i].loop = calls[i].loop
        <5>1. i = Len(calls) + 1 => j \notin DOMAIN calls /\ j # Len(calls) + 1
          BY <1>1, <3>9, <3>11, <3>13
        <5> QED
          BY <3>8, <3>13, <5>1
      <4>2. CASE j = Len(calls) + 1 /\ calls'[j].loop = n
        BY <1>3, <3>10, <4>1, <4>2
      <4>3. CASE j \in DOMAIN calls /\ Runs(j) /\ calls'[j].loop = calls[j].loop
        BY <1>4, <3>13, <4>1, <4>3
      <4> QED
        BY <3>8, <3>13, <4>2, <4>3
    <3> QED
      BY <3>3, <3>12, <3>13 DEF LoopsListed
  <2>3. CASE Concludes
    <3>1. /\ phase = "run" /\ Top.fn = "mini" /\ calls' = Front(calls)
          /\ loops' = RemoveAt(loops, Top.loop) /\ calls # <<>>
      BY <2>3, <1>0 DEF Concludes, Summary, Grammar
    <3>2. Len(calls) \in DOMAIN calls /\ Top = calls[Len(calls)]
      BY <3>1, TopSeat
    <3>3. Top.loop \in DOMAIN loops
      BY <1>3, <3>1, <3>2
    <3>4. loops' \in Seq(BOOLEAN) /\ Len(loops') = Len(loops) - 1
      BY <1>0, <3>1, <3>3, RemoveAtIs
    <3>5. DOMAIN loops' = 1..Len(loops) - 1
      BY <3>4, LenProperties
    <3>6. \A i \in DOMAIN calls' : i \in DOMAIN calls /\ i < Len(calls) /\ calls'[i] = calls[i]
      BY <3>1, PopSame DEF Same
    <3>7. \A i \in DOMAIN calls' : RunsNext(i) => calls[i].loop < Top.loop /\ calls[i].loop \in DOMAIN loops
      BY <1>3, <1>4, <3>1, <3>2, <3>6
    <3>8. \A k \in DOMAIN loops : k < Top.loop => k \in DOMAIN loops'
      BY <1>0, <3>3, <3>5
    <3>9. \A i \in DOMAIN calls' : RunsNext(i) => calls'[i].loop \in DOMAIN loops'
      BY <3>6, <3>7, <3>8
    <3>10. \A i, j \in DOMAIN calls' : RunsNext(i) /\ RunsNext(j) /\ i < j => calls'[i].loop < calls'[j].loop
      BY <1>4, <3>6
    <3> QED
      BY <3>4, <3>9, <3>10 DEF LoopsListed
  <2>4. CASE ~Begins /\ ~Asks /\ ~Concludes
    <3>1. \A i \in DOMAIN calls' : RunsNext(i) => Same(i)
      BY <2>0, <2>4
    <3>2. loops' \in Seq(BOOLEAN) /\ Len(loops') = Len(loops)
      <4>1. CASE TellsToQuit \/ Destroys
        BY <4>1, <1>0, MainQuitIs DEF TellsToQuit, Destroys, Summary
      <4>2. CASE Talks \/ Passes \/ Pumps \/ Pumped \/ Takes \/ Activates \/ Prepares \/ Idles
        BY <4>2 DEF Talks, Passes, Pumps, Pumped, Takes, Taken, Activates, Prepares, Idles, control
      <4>3. ~Ends
        BY <1>8 DEF Ends
      <4> QED
        BY <2>4, <4>1, <4>2, <4>3 DEF Summary
    <3>3. Len(loops') >= Len(loops)
      BY <1>0, <3>2
    <3> QED
      BY <1>5, <3>1, <3>2, <3>3
  <2> QED
    BY <2>1, <2>2, <2>3, <2>4
<1> QED
  BY <1>6, <1>7, <1>8

----------------------------------------------------------------------------
(***************************************************************************)
(* Types and carets hold always.                                            *)
(***************************************************************************)

\* GTK's list is one of loops that run or have been told to quit, with those on the stack
\* in order.
Listed == loops \in Seq(BOOLEAN) /\ LoopsListed

\* What the other invariants rest on.
Base == Types /\ Grammar /\ Screens /\ Listed /\ Quits /\ toolkit \in {"gtk", "winui"}

\* GTK never moves the focus by itself, and in Windows only the end of the window tells the
\* program to quit.
LEMMA QuitsStep ==
  ASSUME Types, Grammar, Quits, Summary
  PROVE  Quits'
<1> DEFINE Goal == Quits'
<1> SUFFICES Goal
  OBVIOUS
<1>0. toolkit' = toolkit
  BY DEF Summary
<1>1. ASSUME upset' \subseteq upset \cup {"ahead", "nested", "clicked", "failed"},
             frame' = frame, quit' => quit
      PROVE  Goal
  BY <1>0, <1>1 DEF Quits
<1>2. CASE Talks
  BY <1>1, <1>2, TalkUpsets DEF Talks, control
<1>3. CASE Passes \/ TellsToQuit \/ Pumps \/ Pumped \/ Begins \/ Ends
  <2>1. upset' = upset /\ frame' = frame /\ quit' = quit
    BY <1>3 DEF Passes, TellsToQuit, Pumps, Pumped, Begins, Ends, control, feral
  <2> QED
    BY <1>1, <2>1
<1>9. CASE Concludes \/ Idles
  <2>1. upset' = upset /\ frame' = frame
    BY <1>9 DEF Concludes, Idles, feral, feralVars
  <2>2. quit' => quit
    BY <1>9 DEF Concludes, Idles
  <2> QED
    BY <1>1, <2>1, <2>2
<1>4. CASE Destroys
  <2>1. upset' = upset /\ frame' = "destroyed"
    BY <1>4 DEF Destroys
  <2> QED
    BY <1>0, <2>1 DEF Quits
<1>5. CASE Asks
  <2>1. upset' = upset /\ frame' = frame /\ quit' = quit
    BY <1>5 DEF Asks, AsksIn, feral
  <2> QED
    BY <1>1, <2>1
<1>6. CASE Takes
  <2>1. upset' \subseteq upset \cup {"ahead"}
    BY <1>6, TakenIs DEF Takes
  <2>2. frame' = frame /\ quit' = quit
    BY <1>6 DEF Takes, Taken, control
  <2> QED
    BY <1>1, <2>1, <2>2
<1>7. CASE Activates
  BY <1>0, <1>7 DEF Quits, Activates
<1>8. CASE Prepares
  BY <1>0, <1>8 DEF Quits, Prepares
<1> HIDE DEF Goal
<1> QED
  BY <1>2, <1>3, <1>4, <1>5, <1>6, <1>7, <1>8, <1>9 DEF Summary

\* The program starts in order.
LEMMA BaseStart == Init => Base
<1> SUFFICES ASSUME Init PROVE Base
  OBVIOUS
<1>1. /\ calls = <<>> /\ phase = "start" /\ loops = <<>>
      /\ buffer = "edit" /\ parent = "edit" /\ prompt = "none" /\ text = Empty /\ contents = NoText
      /\ upset = {}
  BY DEF Init, FeralInit
<1>2. Types
  <2>1. Empty \in Text
    BY DEF Empty, Line, Text
  <2> QED
    BY <1>1, <2>1 DEF Types
<1>3. Grammar /\ Listed
  BY <1>1 DEF Grammar, Listed, LoopsListed
<1>4. Screens
  <2>1. /\ frame = "none" /\ focus = "none" /\ stale = {} /\ queued = {} /\ caret = {} /\ view = "edit"
        /\ height \in Heights /\ measured = FALSE /\ rows = 0
    BY DEF Init, FeralInit
  <2>2. /\ classes = 0 /\ windows = 0 /\ minibuffer_exit = FALSE /\ quit = FALSE
        /\ standalone \in BOOLEAN
    BY DEF Init, Win!InitWin
  <2>3. 0 \in 0..3 /\ 0 \in 0..4 /\ 0 \in Nat /\ FALSE \in BOOLEAN
    OBVIOUS
  <2>4. {} \subseteq Widget /\ {} \subseteq {"text", "mini"}
    OBVIOUS
  <2>5. minibuffer_exit \in BOOLEAN /\ quit \in BOOLEAN /\ measured \in BOOLEAN
    BY <2>1, <2>2
  <2> QED
    BY <2>1, <2>2, <2>3, <2>4, <2>5 DEF Screens
<1>5. toolkit \in {"gtk", "winui"}
  BY ToolkitsAssumption DEF Init
<1>6. Quits
  BY <1>1 DEF Init, Win!InitWin, Quits
<1> QED
  BY <1>2, <1>3, <1>4, <1>5, <1>6 DEF Base

\* Every step leaves it in order, and is of one of the kinds above.
LEMMA BaseStep ==
  ASSUME Base, [Next]_vars
  PROVE  Base' /\ Summary
<1>1. Types /\ Grammar /\ Screens /\ loops \in Seq(BOOLEAN) /\ LoopsListed
  BY DEF Base, Listed
<1>2. Summary
  BY <1>1, StepIs
<1>3. Types' /\ Grammar' /\ Screens'
  BY <1>1, <1>2, TypesStep, GrammarStep, ScreensStep
<1>4. Listed'
  <2>1. CASE toolkit = "gtk"
    BY <1>1, <1>2, <2>1, LoopsStep DEF Listed
  <2>2. CASE toolkit # "gtk"
    <3>1. loops' = loops /\ toolkit' = toolkit
      BY <2>2 DEF Next, OfGtk, OfWin, vars
    <3> QED
      BY <1>1, <2>2, <3>1 DEF Listed, LoopsListed
  <2> QED
    BY <2>1, <2>2
<1>5. toolkit' = toolkit
  BY <1>2 DEF Summary
<1>6. Quits'
  BY <1>1, <1>2, QuitsStep DEF Base
<1> QED
  BY <1>2, <1>3, <1>4, <1>5, <1>6 DEF Base

\* It is in order always.
LEMMA BaseHolds == Spec => []Base
<1>1. Init => Base
  BY BaseStart
<1>2. Base /\ [Next]_vars => Base'
  BY BaseStep
<1> QED
  BY <1>1, <1>2, PTL DEF Spec

\* All state of the front ends has its type (minibuffer.feline, gtkui.c, winui.c).
THEOREM Typing == Spec => []TypeOK
<1>1. Base => TypeOK
  <2>1. {"text", "mini"} \subseteq Widget
    BY DEF Widget
  <2> QED
    BY <2>1 DEF Base, Types, Screens, Listed, TypeOK
<1> QED
  BY <1>1, BaseHolds, PTL

----
\* A front end's caret stands where its keyboard focus is, as far as it has been drawn.
LEMMA GtkCarets ==
  ASSUME toolkit = "gtk", Screens, Carets, Gtk!GtkNext, UNCHANGED <<toolkit, winVars>>
  PROVE  Carets'
<1> USE GtkIsFeral DEF Carets
<1>1. ASSUME UNCHANGED <<frame, focus, caret>>, queued \subseteq queued'
      PROVE  Carets'
  BY <1>1
<1>2. ASSUME frame' # "shown"
      PROVE  Carets'
  BY <1>2
<1>3. caret \subseteq {"text", "mini"} /\ Gtk!Widget = Widget
  BY DEF Screens
<1>4. CASE Gtk!User
  <2>1. PICK ws : Gtk!Event(ws)
    BY <1>4 DEF Gtk!User, Gtk!TextviewDoubleClick,
       Gtk!TextviewButtonPress, Gtk!TextviewMotionNotify, Gtk!TextviewMousewheel, Gtk!Close,
       Gtk!TextviewKeyPress, Gtk!MinibufferKeyPress
  <2> QED
    BY <1>1, <2>1 DEF Gtk!Event, Gtk!gtkVars, Gtk!screenVars
<1>5. CASE Gtk!SizeAllocate
  BY <1>1, <1>5 DEF Gtk!SizeAllocate
<1>6. CASE Gtk!Initialize
  BY <1>3, <1>6 DEF Gtk!Initialize, Widget
<1>7. CASE Gtk!GtkMain \/ Gtk!GtkMainReturns
  BY <1>1, <1>7 DEF Gtk!GtkMain, Gtk!GtkMainReturns, Gtk!screenVars
<1>8. CASE Gtk!MinibufferMain \/ Gtk!MinibufferMainReturns
  BY <1>8 DEF Gtk!MinibufferMain, Gtk!MinibufferMainReturns, Gtk!GrabFocus
<1>9. CASE Gtk!MinibufferExit
  BY <1>1, <1>9 DEF Gtk!MinibufferExit, Gtk!screenVars
<1>10. CASE Gtk!Exit
  BY <1>2, <1>10 DEF Gtk!Exit
<1>11. CASE Gtk!Draw
  BY <1>3, <1>11 DEF Gtk!Draw, Gtk!CaretsDrawn, Gtk!TextviewDrawCaret, Gtk!MinibufferDrawCaret
<1>12. CASE Gtk!UpdateDisplay
  BY <1>1, <1>12 DEF Gtk!UpdateDisplay, Gtk!resting, Gtk!TextviewInvalidate, Gtk!Queue
<1>13. CASE Gtk!QueueDraw \/ Gtk!MinibufferInvalidate
  BY <1>1, <1>13 DEF Gtk!QueueDraw, Gtk!MinibufferInvalidate, Gtk!resting, Gtk!Queue
<1>14. CASE Gtk!GetClipboardText \/ Gtk!PumpEnds
  BY <1>1, <1>14 DEF Gtk!GetClipboardText, Gtk!PumpEnds, Gtk!gtkVars, Gtk!screenVars
<1>15. CASE (Gtk!FeralStep \/ Gtk!ToParent(<<"invalidate">>)) /\ UNCHANGED Gtk!gtkVars
  BY <1>1, <1>15 DEF Gtk!gtkVars, Gtk!screenVars
<1>16. CASE (Gtk!FeralEdit \/ Gtk!EditBuffer) /\ UNCHANGED <<Gtk!resting, queued>>
  BY <1>1, <1>16 DEF Gtk!resting
<1> QED
  BY <1>4, <1>5, <1>6, <1>7, <1>8, <1>9, <1>10, <1>11, <1>12, <1>13, <1>14,
     <1>15, <1>16 DEF Gtk!GtkNext, Gtk!GtkStep

\* In Windows every change of focus moves the caret at once (winui.c, WM_SETFOCUS and
\* WM_KILLFOCUS).
LEMMA WinCarets ==
  ASSUME toolkit = "winui", Screens, Carets, Win!WinNext, UNCHANGED <<toolkit, loops>>
  PROVE  Carets'
<1> USE WinIsFeral DEF Carets
<1>1. ASSUME UNCHANGED <<frame, focus, caret>>
      PROVE  Carets'
  BY <1>1
<1>4. CASE Win!User
  <2>1. (\E ws : Win!Event(ws)) \/ Win!Activate
    BY <1>4 DEF Win!User, Win!TextviewDoubleClick, Win!TextviewLbuttondown, Win!TextviewShiftClick,
       Win!TextviewMousemove, Win!TextviewMousewheel, Win!RequestUpdateDisplay, Win!Close,
       Win!TextviewKeydown, Win!MinibufferKeydown, Win!MinibufferChar, Win!TextviewOtherKey,
       Win!TextviewChar
  <2>2. ASSUME NEW ws, Win!Event(ws) PROVE Carets'
    BY <1>1, <2>2 DEF Win!Event, Win!screenVars
  <2>3. CASE Win!Activate
    BY <2>3 DEF Win!Activate, Win!SetFocus
  <2> QED
    BY <2>1, <2>2, <2>3
<1>5. CASE Win!Resize
  BY <1>1, <1>5 DEF Win!Resize
<1>6. CASE Win!Initialize
  BY <1>1, <1>6 DEF Win!Initialize, Win!screenVars
<1>7. CASE Win!CreateFrame
  BY <1>7 DEF Win!CreateFrame
<1>8. CASE Win!WinMain
  BY <1>1, <1>8 DEF Win!WinMain, Win!screenVars
<1>9. CASE Win!IgnoreQuit
  BY <1>1, <1>9 DEF Win!IgnoreQuit, Win!screenVars
<1>10. CASE Win!MinibufferMain \/ Win!MinibufferMainReturns
  BY <1>10 DEF Win!MinibufferMain, Win!MinibufferMainReturns, Win!SetFocus
<1>11. CASE Win!MinibufferExit
  BY <1>1, <1>11 DEF Win!MinibufferExit, Win!screenVars
<1>12. CASE Win!Exit
  BY <1>12 DEF Win!Exit
<1>13. CASE Win!TextviewPaint
  BY <1>1, <1>13 DEF Win!TextviewPaint
<1>14. CASE Win!MinibufferPaint \/ Win!ModelinePaint
  BY <1>1, <1>14 DEF Win!MinibufferPaint, Win!ModelinePaint
<1>15. CASE Win!UpdateDisplay \/ Win!RepaintMinibuffer
  BY <1>1, <1>15 DEF Win!UpdateDisplay, Win!RepaintMinibuffer
<1>17. CASE Win!MinibufferInvalidate \/ Win!GetClipboardText
  BY <1>1, <1>17 DEF Win!MinibufferInvalidate, Win!GetClipboardText, Win!screenVars
<1>18. CASE (Win!FeralStep \/ Win!ToParent(<<>>)) /\ UNCHANGED <<frame, focus, screenVars, winVars>>
  BY <1>1, <1>18 DEF screenVars
<1>19. CASE (Win!FeralEdit \/ Win!EditBuffer)
            /\ UNCHANGED <<frame, focus, queued, caret, view, sizeVars, winVars>>
  BY <1>1, <1>19
<1> HIDE DEF Carets
<1> QED
  BY <1>4, <1>5, <1>6, <1>7, <1>8, <1>9, <1>10, <1>11, <1>12, <1>13, <1>14, <1>15, <1>17,
     <1>18, <1>19 DEF Win!WinNext, Win!WinStep, Win!screenVars, screenVars, Win!sizeVars,
     sizeVars, Win!winVars, winVars

\* Every step leaves the carets where the keys go, or queued to be drawn.
LEMMA CaretsStep ==
  ASSUME Screens, Carets, [Next]_vars
  PROVE  Carets'
<1>1. CASE OfGtk(Gtk!GtkNext)
  BY <1>1, GtkCarets DEF OfGtk
<1>2. CASE OfWin(Win!WinNext)
  BY <1>2, WinCarets DEF OfWin
<1>3. CASE UNCHANGED vars
  BY <1>3 DEF vars, Carets, screenVars
<1> QED
  BY <1>1, <1>2, <1>3 DEF Next

\* When all is drawn there is one caret, where the keys go (gtkui.c, draw handlers;
\* winui.c, focus messages).
THEOREM CaretsFollowFocus == Spec => []CaretIsWhereKeysGo
<1>1. Init => Base /\ Carets
  BY BaseStart DEF Init, FeralInit, Carets
<1>2. Base /\ Carets /\ [Next]_vars => Base' /\ Carets'
  BY BaseStep, CaretsStep DEF Base
<1>3. Base /\ Carets => CaretIsWhereKeysGo
  <2> SUFFICES ASSUME Base, Carets, Rests, queued = {}
               PROVE  caret = (IF focus = "textview" THEN {"text"} ELSE {"mini"})
    BY DEF CaretIsWhereKeysGo
  <2>1. toolkit \in {"gtk", "winui"}
    BY DEF Base
  <2> QED
    BY <2>1 DEF Rests, Carets
<1> QED
  BY <1>1, <1>2, <1>3, PTL DEF Spec

----------------------------------------------------------------------------
(***************************************************************************)
(* What a step does to the call stack, in the terms of its frames: Shape is *)
(* Summary for those who ask which frames are kept.                         *)
(***************************************************************************)

\* The i-th frame is there as it was.
Kept(i) == i \in DOMAIN calls /\ calls'[i] = calls[i]

\* The next word is w.
Here(w) ==
  /\ calls # <<>> /\ phase = "run" /\ phase' = "run"
  /\ Len(calls) \in DOMAIN calls /\ Top = calls[Len(calls)]
  /\ Top.fn \in {"handler", "catch"} /\ Nth(Top.todo, 1) = w
  /\ w \in Range(Top.todo) /\ w \in Word
  /\ Follows(toolkit, Top.fn, w, Nth(Top.todo, 2))
  /\ Third(w, Nth(Top.todo, 2), Nth(Top.todo, 3))

\* It gives way to ws, in the frame g.
Rewrites(w, ws, g) ==
  /\ Here(w) /\ Admits(w, ws)
  /\ Len(calls') = Len(calls) /\ calls'[Len(calls)] = g
  /\ \A i \in DOMAIN calls' : (i < Len(calls) /\ Kept(i)) \/ i = Len(calls)
  /\ \A i \in DOMAIN calls : i \in DOMAIN calls'
  /\ g.fn = Top.fn /\ g.loop = Top.loop
  /\ Nth(g.todo, 1) = IF ws = <<>> THEN Nth(Top.todo, 2) ELSE ws[1]
  /\ Nth(g.todo, 2) = IF ws = <<>> THEN Nth(Top.todo, 3)
                      ELSE IF Len(ws) = 1 THEN Nth(Top.todo, 2) ELSE ws[2]
  /\ Range(g.todo) \subseteq Range(ws) \cup Range(Top.todo)

\* The frame f is put on top, the word w being done.
Pushes(w, f) ==
  /\ Here(w)
  /\ Len(calls') = Len(calls) + 1 /\ Len(calls) + 1 \in DOMAIN calls' /\ calls'[Len(calls) + 1] = f
  /\ \A i \in DOMAIN calls' : (i < Len(calls) /\ Kept(i)) \/ i = Len(calls) \/ i = Len(calls) + 1
  /\ \A i \in DOMAIN calls : i \in DOMAIN calls' /\ i < Len(calls) + 1
  /\ calls'[Len(calls)].fn = Top.fn /\ calls'[Len(calls)].loop = Top.loop
  /\ calls'[Len(calls)].ask = Top.ask /\ calls'[Len(calls)].saved = Top.saved
  /\ Nth(calls'[Len(calls)].todo, 1) = Nth(Top.todo, 2)
  /\ Nth(calls'[Len(calls)].todo, 2) = Nth(Top.todo, 3)
  /\ Range(calls'[Len(calls)].todo) \subseteq Range(Top.todo)

\* The top frame is done.
Pops ==
  /\ calls # <<>> /\ phase = "run" /\ phase' = "run"
  /\ Len(calls) \in DOMAIN calls /\ Top = calls[Len(calls)]
  /\ Top.fn # "main" /\ Top.todo = <<>> /\ Nth(Top.todo, 1) = "end"
  /\ Len(calls') = Len(calls) - 1 /\ Len(calls) - 1 \in DOMAIN calls'
  /\ \A i \in DOMAIN calls' : i < Len(calls) /\ Kept(i)
  /\ \A i \in DOMAIN calls : i \in DOMAIN calls' \/ i = Len(calls)

\* An error goes to the frame at.
Falls(at) ==
  /\ calls # <<>> /\ phase = "run" /\ phase' = "run"
  /\ at \in DOMAIN calls /\ calls[at].fn = "catch"
  /\ Len(calls') = at /\ at \in DOMAIN calls'
  /\ \A i \in DOMAIN calls' : (i < at /\ Kept(i)) \/ i = at
  /\ calls'[at].fn = "catch" /\ calls'[at].todo = <<"say">> /\ calls'[at].ask = calls[at].ask
  /\ calls'[at].saved = calls[at].saved
  /\ \/ "failed" \in upset'
     \/ \A i \in DOMAIN calls : i > at => calls[i].fn # "mini"

\* A loop has called a handler for ws.
Calls(ws) ==
  /\ calls # <<>> /\ phase = "run" /\ phase' = "run" /\ frame = "shown"
  /\ Len(calls) \in DOMAIN calls /\ Top = calls[Len(calls)]
  /\ Top.fn \in Loops /\ Top.todo = <<>> /\ Nth(Top.todo, 1) = "end"
  /\ ws \in Seq(Word) /\ Lawful(toolkit, "handler", ws)
  /\ Len(calls') = Len(calls) + 1 /\ Len(calls) + 1 \in DOMAIN calls'
  /\ \A i \in DOMAIN calls' : (i <= Len(calls) /\ Kept(i)) \/ i = Len(calls) + 1
  /\ \A i \in DOMAIN calls : i \in DOMAIN calls' /\ i < Len(calls) + 1
  /\ calls'[Len(calls) + 1].fn = "handler" /\ calls'[Len(calls) + 1].todo = ws
  /\ UNCHANGED askVars /\ UNCHANGED control
  /\ upset' = IF Top.fn = "pump" THEN upset \cup {"ahead"} ELSE upset

\* The word that comes next belongs to a handler, or a catch in one.
LEMMA HereIs ==
  ASSUME Types, Grammar, NEW w, Next_(w), phase' = "run"
  PROVE  Here(w)
<1>1. /\ phase = "run" /\ calls # <<>> /\ Top.todo \in Seq(Word)
      /\ Top.todo # <<>> /\ Nth(Top.todo, 1) = w
  BY TopWords DEF Grammar
<1>2. /\ Len(calls) \in DOMAIN calls /\ Top = calls[Len(calls)]
      /\ Lawful(toolkit, Top.fn, Top.todo) /\ Top.fn \in {"handler", "catch"}
  BY <1>1, TopSeat
<1>3. /\ Follows(toolkit, Top.fn, w, Nth(Top.todo, 2))
      /\ Third(w, Nth(Top.todo, 2), Nth(Top.todo, 3))
  BY <1>1, <1>2, LawfulHere
<1>4. w \in Range(Top.todo) /\ w \in Word
  <2>1. Len(Top.todo) \in Nat \ {0} /\ DOMAIN Top.todo = 1..Len(Top.todo)
    BY <1>1, EmptySeq, LenProperties
  <2>2. 1 \in DOMAIN Top.todo /\ Top.todo[1] = w
    BY <1>1, <2>1 DEF Nth
  <2>3. Top.todo[1] \in Word
    BY <1>1, <2>1, <2>2, ElementOfSeq
  <2> QED
    BY <2>2, <2>3 DEF Range
<1> QED
  BY <1>1, <1>2, <1>3, <1>4 DEF Here

\* The frames that stay are kept.
LEMMA KeptBelow ==
  ASSUME Types, NEW n \in Nat, n <= Len(calls), Keeps(n)
  PROVE  \A i \in 1..n : Kept(i)
<1>1. Len(calls) \in Nat /\ DOMAIN calls = 1..Len(calls)
  BY LenProperties DEF Types
<1>2. Len(calls) \in Nat
  BY <1>1
<1>3. ASSUME NEW i \in 1..n PROVE i \in 1..Len(calls)
  BY <1>2
<1> QED
  BY <1>1, <1>3 DEF Keeps, Kept

\* A word that gives way to others, in these terms.
LEMMA RewritesIs ==
  ASSUME Types, Grammar, NEW w, NEW ws, NEW f, Rewritten(w, ws, f)
  PROVE  \E g : Rewrites(w, ws, g) /\ g.ask = f.ask /\ g.saved = f.saved
<1>1. /\ phase = "run" /\ calls # <<>> /\ phase' = "run" /\ ws \in Seq(Word)
  BY RewrittenIs
<1>2. PICK g \in Call :
        /\ Tops(Len(calls), g) /\ Keeps(Len(calls) - 1)
        /\ g.fn = Top.fn /\ g.loop = Top.loop /\ g.ask = f.ask /\ g.saved = f.saved
        /\ g.todo \in Seq(Word) /\ g.todo = ws \o Tail(Top.todo)
        /\ Lawful(toolkit, g.fn, g.todo)
        /\ \A n \in Nat \ {0} :
             Nth(g.todo, n) = IF n <= Len(ws) THEN ws[n]
                              ELSE Nth(Top.todo, n - Len(ws) + 1)
        /\ Range(g.todo) \subseteq Range(ws) \cup Range(Top.todo)
  BY RewrittenIs
<1>3. Here(w)
  BY <1>1, HereIs DEF Rewritten, Says
<1>4. Len(calls) \in Nat \ {0}
  BY <1>1, TopSeat
<1>5. DOMAIN calls = 1..Len(calls) /\ DOMAIN calls' = 1..Len(calls) /\ Len(calls') = Len(calls)
      /\ calls'[Len(calls)] = g
  BY <1>1, <1>2, TopSeat DEF Tops
<1>6. \A i \in 1..Len(calls) : (i < Len(calls) /\ Kept(i)) \/ i = Len(calls)
  <2>1. Len(calls) - 1 \in Nat /\ Len(calls) - 1 <= Len(calls)
    BY <1>4
  <2>2. \A i \in 1..Len(calls) - 1 : Kept(i)
    BY <1>2, <2>1, KeptBelow
  <2>3. \A i \in 1..Len(calls) : (i < Len(calls) /\ i \in 1..Len(calls) - 1) \/ i = Len(calls)
    BY <1>4
  <2> QED
    BY <2>2, <2>3
<1>7. Len(ws) \in Nat /\ (ws = <<>> => Len(ws) = 0) /\ (ws # <<>> => Len(ws) >= 1)
  BY <1>1, LenProperties, EmptySeq
<1>8. Nth(g.todo, 1) = IF ws = <<>> THEN Nth(Top.todo, 2) ELSE ws[1]
  <2>1. Nth(g.todo, 1) = IF 1 <= Len(ws) THEN ws[1] ELSE Nth(Top.todo, 1 - Len(ws) + 1)
    BY <1>2
  <2>2. ASSUME NEW k \in Nat PROVE (k = 0 => ~(1 <= k) /\ 1 - k + 1 = 2)
    OBVIOUS
  <2> QED
    BY <1>7, <2>1, <2>2
<1>9. Nth(g.todo, 2) = IF ws = <<>> THEN Nth(Top.todo, 3)
                       ELSE IF Len(ws) = 1 THEN Nth(Top.todo, 2) ELSE ws[2]
  <2>1. Nth(g.todo, 2) = IF 2 <= Len(ws) THEN ws[2] ELSE Nth(Top.todo, 2 - Len(ws) + 1)
    BY <1>2
  <2>2. ASSUME NEW k \in Nat
        PROVE  /\ k = 0 => ~(2 <= k) /\ 2 - k + 1 = 3
               /\ k = 1 => ~(2 <= k) /\ 2 - k + 1 = 2
               /\ k # 0 /\ k # 1 => 2 <= k
    OBVIOUS
  <2>3. Len(ws) # 0 /\ Len(ws) # 1 => 2 <= Len(ws)
    BY <1>7, <2>2
  <2> QED
    BY <1>7, <2>1, <2>2, <2>3
<1> QED
  BY <1>2, <1>3, <1>5, <1>6, <1>8, <1>9 DEF Rewrites, Rewritten

\* A frame put on top, in these terms.
LEMMA PushesIs ==
  ASSUME Types, Grammar, NEW w, Next_(w), phase' = phase, NEW f \in Call, Push(f)
  PROVE  Pushes(w, f)
<1>1. /\ phase = "run" /\ calls # <<>> /\ Top \in Call /\ Top.todo \in Seq(Word)
      /\ Top.todo # <<>> /\ Tail(Top.todo) \in Seq(Word)
      /\ \A n \in Nat \ {0} : Nth(Tail(Top.todo), n) = Nth(Top.todo, n + 1)
  BY TopWords DEF Grammar
<1>2. Here(w)
  BY <1>1, HereIs
<1>3. /\ Tops(Len(calls) + 1, f) /\ Keeps(Len(calls) - 1)
      /\ calls'[Len(calls)] = With(Top, Tail(Top.todo))
  BY <1>1, PushIs DEF Types
<1> DEFINE g == With(Top, Tail(Top.todo))
<1>4. g.todo = Tail(Top.todo) /\ g.fn = Top.fn /\ g.loop = Top.loop /\ g.ask = Top.ask /\ g.saved = Top.saved
  BY <1>1, WithIs
<1>5. Nth(g.todo, 1) = Nth(Top.todo, 2) /\ Nth(g.todo, 2) = Nth(Top.todo, 3)
  <2>1. 1 + 1 = 2 /\ 2 + 1 = 3
    OBVIOUS
  <2> QED
    BY <1>1, <1>4, <2>1
<1>6. Range(g.todo) \subseteq Range(Top.todo)
  <2>1. /\ Len(Top.todo) \in Nat \ {0} /\ Len(Tail(Top.todo)) = Len(Top.todo) - 1
        /\ \A i \in 1..Len(Top.todo) - 1 : Tail(Top.todo)[i] = Top.todo[i + 1]
    BY <1>1, HeadTailProperties, EmptySeq
  <2>2. DOMAIN Top.todo = 1..Len(Top.todo) /\ DOMAIN Tail(Top.todo) = 1..Len(Top.todo) - 1
    BY <1>1, <2>1, LenProperties
  <2>3. \A i \in 1..Len(Top.todo) - 1 : i + 1 \in DOMAIN Top.todo
    BY <2>1, <2>2
  <2> QED
    BY <1>4, <2>1, <2>2, <2>3 DEF Range
<1> HIDE DEF g
<1>7. Len(calls) \in Nat \ {0}
  BY <1>1, TopSeat
<1>8. DOMAIN calls = 1..Len(calls) /\ DOMAIN calls' = 1..Len(calls) + 1 /\ Len(calls') = Len(calls) + 1
      /\ calls'[Len(calls) + 1] = f
  BY <1>1, <1>3, TopSeat DEF Tops
<1>9. \A i \in 1..Len(calls) + 1 : (i < Len(calls) /\ Kept(i)) \/ i = Len(calls) \/ i = Len(calls) + 1
  <2>1. Len(calls) - 1 \in Nat /\ Len(calls) - 1 <= Len(calls)
    BY <1>7
  <2>2. \A i \in 1..Len(calls) - 1 : Kept(i)
    BY <1>3, <2>1, KeptBelow
  <2>3. \A i \in 1..Len(calls) + 1 :
          (i < Len(calls) /\ i \in 1..Len(calls) - 1) \/ i = Len(calls) \/ i = Len(calls) + 1
    BY <1>7
  <2> QED
    BY <2>2, <2>3
<1>10. /\ Len(calls) + 1 \in 1..Len(calls) + 1
       /\ \A i \in 1..Len(calls) : i \in 1..Len(calls) + 1 /\ i < Len(calls) + 1
  BY <1>7
<1>11. calls'[Len(calls)] = g
  BY <1>3 DEF g
<1> QED
  BY <1>2, <1>4, <1>5, <1>6, <1>8, <1>9, <1>10, <1>11 DEF Pushes

\* A frame that is done, in these terms.
LEMMA PopsIs ==
  ASSUME Types, Grammar, calls # <<>>, phase = "run", phase' = phase, Top.fn # "main",
         Top.todo = <<>>, calls' = Front(calls)
  PROVE  Pops
<1>1. Len(calls) \in Nat \ {0}
  BY TopSeat
<1>2. DOMAIN calls = 1..Len(calls) /\ Len(calls) \in DOMAIN calls /\ Top = calls[Len(calls)]
  BY TopSeat
<1>3. /\ DOMAIN calls' = 1..Len(calls) - 1 /\ Len(calls') = Len(calls) - 1
      /\ \A i \in DOMAIN calls' : i < Len(calls) /\ Kept(i)
  BY FrontTops, PopSame DEF Types, Kept, Same
<1>4. Len(calls) # 1
  <2>1. Seated(Len(calls))
    BY <1>2 DEF Grammar
  <2> QED
    BY <1>2, <2>1 DEF Seated, Sits
<1>5. /\ Len(calls) - 1 \in 1..Len(calls) - 1
      /\ \A i \in 1..Len(calls) : i \in 1..Len(calls) - 1 \/ i = Len(calls)
  <2>1. ASSUME NEW n \in Nat \ {0}, n # 1
        PROVE  n - 1 \in 1..n - 1 /\ \A i \in 1..n : i \in 1..n - 1 \/ i = n
    BY <2>1
  <2> QED
    BY <1>1, <1>4, <2>1
<1>6. Nth(Top.todo, 1) = "end"
  BY DEF Nth
<1> QED
  BY <1>2, <1>3, <1>5, <1>6 DEF Pops

\* An error, in these terms.
LEMMA FallsIs ==
  ASSUME Types, Grammar, phase = "run", Throw
  PROVE  \/ phase' = "dead" /\ calls' = <<>>
         \/ \E at : Falls(at)
<1>1. ASSUME phase' = phase, NEW at \in DOMAIN calls, calls[at].fn = "catch",
             Tops(at, With(calls[at], <<"say">>)), Keeps(at - 1),
             \/ "failed" \in upset'
             \/ \A i \in DOMAIN calls : i > at => i = 1 \/ calls[i].fn \notin Loops
      PROVE  Falls(at)
  <2>1. Len(calls) \in Nat /\ DOMAIN calls = 1..Len(calls)
    BY LenProperties DEF Types
  <2>2. at \in 1..Len(calls) /\ Len(calls) \in Nat
    BY <1>1, <2>1
  <2>3. at - 1 \in Nat /\ at - 1 <= Len(calls) /\ \A i \in 1..at : (i < at /\ i \in 1..at - 1) \/ i = at
    BY <2>2
  <2>4. \A i \in 1..at - 1 : Kept(i)
    BY <1>1, <2>3, KeptBelow
  <2>5. calls[at] \in Call
    BY <2>1, <2>2, ElementOfSeq DEF Types
  <2>6. <<"say">> \in Seq(Word)
    <3>1. "say" \in Word
      BY DEF Word
    <3> QED
      BY <3>1
  <2>7. calls'[at] = With(calls[at], <<"say">>) /\ DOMAIN calls' = 1..at /\ Len(calls') = at
    BY <1>1 DEF Tops
  <2> DEFINE f == calls[at]
             g == With(f, <<"say">>)
  <2>12. g.fn = f.fn /\ g.todo = <<"say">> /\ g.ask = f.ask /\ g.saved = f.saved
    <3> HIDE DEF f
    <3>1. f \in Call
      BY <2>5 DEF f
    <3> QED
      BY <3>1, <2>6, WithIs
  <2>13. calls'[at] = g
    BY <2>7
  <2> HIDE DEF g
  <2>8. calls'[at].fn = "catch" /\ calls'[at].todo = <<"say">> /\ calls'[at].ask = calls[at].ask
        /\ calls'[at].saved = calls[at].saved
    BY <1>1, <2>12, <2>13
  <2>9. \A i \in DOMAIN calls : calls[i].fn = "mini" => i # 1 /\ calls[i].fn \in Loops
    <3>1. \A i \in DOMAIN calls : calls[i].fn = "main" <=> i = 1
      BY DEF Grammar, Seated, Sits
    <3> QED
      BY <3>1 DEF Loops
  <2>10. \/ "failed" \in upset'
         \/ \A i \in DOMAIN calls : i > at => calls[i].fn # "mini"
    BY <1>1, <2>9
  <2>11. at \in 1..at /\ calls # <<>>
    BY <2>2, <1>1
  <2> QED
    BY <1>1, <2>3, <2>4, <2>7, <2>8, <2>10, <2>11 DEF Falls
<1> QED
  BY <1>1, ThrowIs DEF Types

\* An event that a loop takes, in these terms.
LEMMA CallsIs ==
  ASSUME Types, Grammar, NEW ws, Taken(ws)
  PROVE  Calls(ws) /\ Handles(ws)
<1>1. /\ phase = "run" /\ calls # <<>> /\ phase' = phase /\ Top.fn \in Loops /\ frame = "shown"
      /\ ws \in Seq(Word) /\ Lawful(toolkit, "handler", ws)
      /\ Tops(Len(calls) + 1, Handler(ws)) /\ Keeps(Len(calls))
      /\ UNCHANGED askVars
      /\ upset' = IF Top.fn = "pump" THEN upset \cup {"ahead"} ELSE upset
  BY TakenIs
<1>2. Len(calls) \in Nat \ {0}
  BY <1>1, TopSeat
<1>3. /\ DOMAIN calls = 1..Len(calls) /\ Len(calls) \in DOMAIN calls
      /\ Top = calls[Len(calls)] /\ Top.todo = <<>>
  BY <1>1, TopSeat
<1>4. /\ DOMAIN calls' = 1..Len(calls) + 1 /\ Len(calls') = Len(calls) + 1
      /\ calls'[Len(calls) + 1] = Handler(ws)
  BY <1>1 DEF Tops
<1>5. \A i \in 1..Len(calls) : Kept(i)
  BY <1>1, <1>2, KeptBelow
<1>6. /\ Len(calls) + 1 \in 1..Len(calls) + 1
      /\ \A i \in 1..Len(calls) : i \in 1..Len(calls) + 1 /\ i < Len(calls) + 1
      /\ \A i \in 1..Len(calls) + 1 : (i <= Len(calls) /\ i \in 1..Len(calls)) \/ i = Len(calls) + 1
  BY <1>2
<1>7. Handler(ws).fn = "handler" /\ Handler(ws).todo = ws
  BY <1>1, HandlerIs
<1>8. UNCHANGED control /\ Handles(ws)
  BY DEF Taken
<1>9. Nth(Top.todo, 1) = "end"
  BY <1>3 DEF Nth
<1>10. \A i \in 1..Len(calls) + 1 : (i <= Len(calls) /\ Kept(i)) \/ i = Len(calls) + 1
  BY <1>5, <1>6
<1> QED
  BY <1>1, <1>3, <1>4, <1>6, <1>7, <1>8, <1>9, <1>10 DEF Calls

\* The words that leave the question as it is.
Quiet == {"update", "redraw", "redraw_mini", "repaint", "invalidate", "clipboard", "leave", "exit"}

\* What a step does to the call stack.
SaysNow ==
  /\ \E w, ws, g : Rewrites(w, ws, g) /\ Changes(w, ws, g)
  /\ UNCHANGED control /\ upset \subseteq upset'

\* A word that shows something or calls the toolkit is done.
PassesNow ==
  /\ \E w \in Quiet : \E g :
       /\ Rewrites(w, <<>>, g) /\ g.ask = Top.ask /\ g.saved = Top.saved
       /\ w = "exit" => Destroys
       /\ w = "leave" => TellsToQuit
       /\ w \notin {"exit", "leave"} => UNCHANGED control
  /\ UNCHANGED askVars /\ upset' = upset

\* A command is called.
CommandsNow ==
  /\ \E k \in Command \ {"edit"} : \E f :
       /\ Pushes(k, f) /\ f.fn = "catch"
       /\ f.todo \in {AskWords, <<"do_quit">>, <<"throw">>, <<"clipboard", "edit">>}
  /\ UNCHANGED feral /\ UNCHANGED control

\* GTK runs a loop inside a handler.
PumpsNow ==
  /\ \E w \in {"invalidate", "clipboard"} : Pushes(w, Loop("pump", 0))
  /\ toolkit = "gtk" /\ UNCHANGED feral /\ UNCHANGED control

\* A question's loop is called.
AsksNow == \E n \in Nat : Pushes("main", Loop("mini", n)) /\ AsksIn(n)

\* The top frame is done, a question's loop only when it has been told to end.
ReturnsNow ==
  /\ Pops /\ UNCHANGED feral
  /\ \/ UNCHANGED control /\ Top.fn # "mini"
     \/ Concludes

\* An error goes to a catch.
FallsNow ==
  /\ \E at : Falls(at)
  /\ Next1(Len(calls)) \in {"throw", "answer", "assert", "accept"}
  /\ UNCHANGED <<buffer, parent, prompt, text>> /\ UNCHANGED control
  /\ upset \subseteq upset'

\* An event is taken.
CallsNow == \E ws : Calls(ws) /\ Handles(ws) /\ Taken(ws)

\* The stack stays as it is.
StaysNow ==
  /\ calls' = calls /\ phase' = phase /\ UNCHANGED askVars
  /\ Activates \/ Idles \/ Prepares

\* All frames are gone.
StopsNow == calls' = <<>> /\ phase' # "start" /\ parent' = parent /\ upset \subseteq upset'

\* Each step is one of these.
Shape ==
  \/ SaysNow \/ PassesNow \/ CommandsNow \/ PumpsNow \/ AsksNow \/ ReturnsNow
  \/ FallsNow \/ CallsNow \/ StaysNow
  \/ StopsNow
  \/ Begins /\ calls = <<>>

\* A step of the editor has such a shape.
LEMMA ShapeOfTalks ==
  ASSUME Types, Grammar, Talks
  PROVE  Shape
<1>1. phase = "run" => calls # <<>>
  BY DEF Grammar
<1>2. /\ \/ \E w, ws, f : Rewritten(w, ws, f) /\ Changes(w, ws, f)
         \/ \E k : Commands(k)
         \/ Throws
         \/ Ended
      /\ UNCHANGED <<frame, focus, loops, minibuffer_exit, quit>>
      /\ upset \subseteq upset'
  BY <1>1, TalksAre
<1>3. UNCHANGED control
  BY <1>2 DEF control
<1>4. ASSUME NEW w, NEW ws, NEW f, Rewritten(w, ws, f), Changes(w, ws, f)
      PROVE  SaysNow
  <2>1. PICK g : Rewrites(w, ws, g) /\ g.ask = f.ask /\ g.saved = f.saved
    BY <1>4, RewritesIs
  <2>2. Changes(w, ws, g)
    BY <1>4, <2>1 DEF Changes
  <2> QED
    BY <1>2, <1>3, <2>1, <2>2 DEF SaysNow
<1>5. ASSUME NEW k, Commands(k)
      PROVE  CommandsNow
  <2>1. PICK f \in Call :
          /\ Push(f) /\ f.fn = "catch"
          /\ f.todo \in {AskWords, <<"do_quit">>, <<"throw">>, <<"clipboard", "edit">>}
          /\ f.todo \in Seq(Word)
          /\ Lawful(toolkit, f.fn, f.todo)
    BY <1>5, CommandsPush
  <2>2. k \in Command \ {"edit"} /\ Next_(k) /\ phase' = phase /\ UNCHANGED feral
    BY <1>5 DEF Commands, feral
  <2>3. Pushes(k, f)
    BY <2>1, <2>2, PushesIs
  <2> QED
    BY <1>3, <2>1, <2>2, <2>3 DEF CommandsNow
<1>6. CASE Throws
  <2>1. phase = "run" /\ Throw /\ UNCHANGED <<buffer, parent, prompt, text>>
    BY <1>6 DEF Throws, Next_
  <2>2. (phase' = "dead" /\ calls' = <<>>) \/ \E at : Falls(at)
    BY <2>1, FallsIs
  <2>3. PICK w \in {"throw", "answer", "assert", "accept"} : Next_(w)
    BY <1>6 DEF Throws
  <2>4. Next1(Len(calls)) = w
    BY <1>1, <2>1, <2>3, TopWords, TopSeat
  <2> QED
    BY <1>2, <1>3, <2>1, <2>2, <2>4 DEF Shape, FallsNow, StopsNow
<1>7. CASE Ended
  <2>1. phase = "run" /\ Top.fn \notin Loops /\ Top.todo = <<>> /\ calls' = Front(calls)
        /\ UNCHANGED feral /\ phase' = phase
    BY <1>7 DEF Ended, feral
  <2>2. Top.fn # "main" /\ Top.fn # "mini"
    BY <2>1 DEF Loops
  <2>3. Pops
    BY <1>1, <2>1, <2>2, PopsIs
  <2> QED
    BY <1>3, <2>1, <2>2, <2>3 DEF Shape, ReturnsNow
<1> QED
  BY <1>2, <1>4, <1>5, <1>6, <1>7 DEF Shape

\* So has a step that shows something, tells a loop to end, or destroys the window.
LEMMA ShapeOfQuiet ==
  ASSUME Types, Grammar, Passes \/ TellsToQuit \/ Destroys
  PROVE  Shape
<1>1. ASSUME NEW w \in Quiet, Next_(w), Do(<<>>), phase' = phase, UNCHANGED askVars, upset' = upset,
             w = "exit" => Destroys, w = "leave" => TellsToQuit,
             w \notin {"exit", "leave"} => UNCHANGED control
      PROVE  PassesNow
  <2>1. Rewritten(w, <<>>, Top)
    BY <1>1, DoneIs
  <2>2. PICK g : Rewrites(w, <<>>, g) /\ g.ask = Top.ask /\ g.saved = Top.saved
    BY <2>1, RewritesIs
  <2> QED
    BY <1>1, <2>2 DEF PassesNow
<1>2. CASE Passes
  BY <1>1, <1>2 DEF Passes, Quiet, feral, Shape
<1>3. CASE TellsToQuit
  <2>1. "leave" \in Quiet /\ Next_("leave") /\ Do(<<>>) /\ UNCHANGED feral
    BY <1>3 DEF TellsToQuit, Quiet
  <2> QED
    BY <1>1, <1>3, <2>1 DEF feral, Shape
<1>4. CASE Destroys
  <2>1. "exit" \in Quiet /\ Next_("exit") /\ UNCHANGED askVars /\ upset' = upset
    BY <1>4 DEF Destroys, Quiet
  <2>2. (Do(<<>>) /\ phase' = phase) \/ (calls' = <<>> /\ phase' = "over")
    BY <1>4 DEF Destroys
  <2> QED
    BY <1>1, <1>4, <2>1, <2>2 DEF Shape, StopsNow, askVars
<1> QED
  BY <1>2, <1>3, <1>4

\* Every step has such a shape.
LEMMA ShapeIs ==
  ASSUME Types, Grammar, Summary
  PROVE  Shape
<1>0. phase = "run" <=> calls # <<>>
  BY DEF Grammar
<1>1. CASE Talks
  BY <1>1, ShapeOfTalks
<1>2. CASE Passes \/ TellsToQuit \/ Destroys
  BY <1>2, ShapeOfQuiet
<1>3. CASE Pumps
  <2>1. PICK w \in {"invalidate", "clipboard"} : Next_(w)
    BY <1>3 DEF Pumps
  <2>2. Push(Loop("pump", 0)) /\ UNCHANGED feral /\ UNCHANGED control /\ toolkit = "gtk"
    BY <1>3 DEF Pumps
  <2>3. Loop("pump", 0) \in Call
    BY LoopIs DEF Loops
  <2>4. phase' = phase
    BY <2>2 DEF feral
  <2>5. Pushes(w, Loop("pump", 0))
    BY <2>1, <2>2, <2>3, <2>4, PushesIs
  <2> QED
    BY <2>2, <2>5 DEF PumpsNow, Shape
<1>4. CASE Asks
  <2>1. PICK n \in Nat : AsksIn(n)
    BY <1>4 DEF Asks
  <2>2. Next_("main") /\ Push(Loop("mini", n)) /\ phase' = phase
    BY <2>1 DEF AsksIn, feral
  <2>3. Loop("mini", n) \in Call
    BY LoopIs DEF Loops
  <2>4. Pushes("main", Loop("mini", n))
    BY <2>2, <2>3, PushesIs
  <2> QED
    BY <2>1, <2>4 DEF AsksNow, Shape
<1>5. CASE Concludes
  <2>1. /\ phase = "run" /\ Top.fn = "mini" /\ calls' = Front(calls) /\ UNCHANGED feral /\ phase' = phase
    BY <1>5 DEF Concludes, feral
  <2>2. Top.todo = <<>>
    BY <1>0, <2>1, TopSeat DEF Loops
  <2>3. Pops
    BY <1>0, <2>1, <2>2, PopsIs
  <2> QED
    BY <1>5, <2>1, <2>3 DEF ReturnsNow, Shape
<1>6. CASE Pumped
  <2>1. /\ phase = "run" /\ Top.fn = "pump" /\ calls' = Front(calls) /\ UNCHANGED feral /\ phase' = phase
        /\ UNCHANGED control
    BY <1>6 DEF Pumped, feral
  <2>2. Top.todo = <<>>
    BY <1>0, <2>1, TopSeat DEF Loops
  <2>3. Pops
    BY <1>0, <2>1, <2>2, PopsIs
  <2> QED
    BY <2>1, <2>3 DEF ReturnsNow, Shape
<1>7. CASE Takes
  BY <1>7, CallsIs DEF Takes, CallsNow, Shape
<1>8. CASE Activates \/ Idles
  BY <1>8 DEF Activates, Idles, feralVars, StaysNow, Shape
<1>9. CASE Begins
  BY <1>0, <1>9 DEF Begins, Shape
<1>10. CASE Prepares
  <2>1. /\ UNCHANGED askVars /\ upset' = upset
        /\ UNCHANGED <<calls, phase>> \/ (calls' = <<>> /\ phase' = "dead")
    BY <1>10 DEF Prepares
  <2> QED
    BY <1>10, <2>1 DEF StaysNow, StopsNow, askVars, Shape
<1>11. CASE Ends
  BY <1>11 DEF Ends, Shape, StopsNow, askVars
<1> QED
  BY <1>1, <1>2, <1>3, <1>4, <1>5, <1>6, <1>7, <1>8, <1>9, <1>10, <1>11 DEF Summary

----------------------------------------------------------------------------
(***************************************************************************)
(* Who restores the current buffer: MiniIsCurrent, Outer and OneQuestion.   *)
(***************************************************************************)

\* What the word before tells of the next one.
LEMMA FollowsIs ==
  ASSUME NEW fn, NEW w \in Word, NEW next, Follows(toolkit, fn, w, next)
  PROVE  /\ next \in {"accept", "insert", "main"} => w \in {"assert", "run"}
         /\ next = "main" <=> w = "run"
         /\ next = "answer" => w = "restore"
         /\ next # "assert"
BY DEF Follows, Word, Command, Finish, Shows, Waiting

\* The words that a word may give way to.
LEMMA AdmittedIs ==
  ASSUME NEW w, NEW ws, Admits(w, ws), ws # <<>>
  PROVE  /\ ws[1] \in {"invalidate", "leave", "exit", "prompt", "cancel"}
         /\ Len(ws) # 1 => ws[2] \in {"leave", "run", "invalidate"}
         /\ ws = AskWords \/ Range(ws) \subseteq {"invalidate", "leave", "exit", "cancel"}
BY DEF Admits, AskWords, Range

\* Every step keeps the minibuffer current where its line is taken.
LEMMA MiniIsCurrentStep ==
  ASSUME Grammar, Shape, MiniIsCurrent
  PROVE  MiniIsCurrent'
<1> DEFINE Goal == MiniIsCurrent'
           Nxt == Nth(calls'[Len(calls')].todo, 1)
           Bad == {"accept", "insert", "main"}
<1> SUFFICES ASSUME calls' # <<>>, Nxt \in Bad
             PROVE  buffer' = "mini"
  BY DEF MiniIsCurrent, Next1
<1>0. phase = "run" <=> calls # <<>>
  BY DEF Grammar
<1>1. CASE SaysNow
  <2>1. PICK w, ws, g : Rewrites(w, ws, g) /\ Changes(w, ws, g)
    BY <1>1 DEF SaysNow
  <2>2. Nxt = Nth(g.todo, 1)
    BY <2>1 DEF Rewrites
  <2>3. Nth(g.todo, 1) = IF ws = <<>> THEN Nth(Top.todo, 2) ELSE ws[1]
    BY <2>1 DEF Rewrites
  <2>4. ws = <<>>
    BY <2>1, <2>2, <2>3, AdmittedIs DEF Rewrites
  <2>5. w \in Word /\ Follows(toolkit, Top.fn, w, Nth(Top.todo, 2))
    BY <2>1 DEF Rewrites, Here
  <2>6. w \in {"assert", "run"}
    BY <2>2, <2>3, <2>4, <2>5, FollowsIs
  <2> QED
    BY <2>1, <2>6 DEF Changes
<1>2. CASE PassesNow
  <2>1. PICK w \in Quiet : \E g : Rewrites(w, <<>>, g)
    BY <1>2 DEF PassesNow
  <2>2. Nxt = Nth(Top.todo, 2) /\ Follows(toolkit, Top.fn, w, Nth(Top.todo, 2)) /\ w \in Word
    BY <2>1 DEF Rewrites, Here
  <2> QED
    BY <2>1, <2>2, FollowsIs DEF Quiet
<1>3. CASE CommandsNow
  <2>1. PICK k \in Command \ {"edit"} : \E f :
         Pushes(k, f) /\ f.todo \in {AskWords, <<"do_quit">>, <<"throw">>, <<"clipboard", "edit">>}
    BY <1>3 DEF CommandsNow
  <2>2. Nxt \in {"prompt", "do_quit", "throw", "clipboard"}
    BY <2>1 DEF Pushes, Nth, AskWords
  <2> QED
    BY <2>2
<1>4. CASE PumpsNow \/ AsksNow
  <2>1. PICK f : (\E w : Pushes(w, f)) /\ f.todo = <<>>
    BY <1>4, LoopIs DEF PumpsNow, AsksNow, Loops
  <2>2. Nxt = "end"
    BY <2>1 DEF Pushes, Nth
  <2> QED
    BY <2>2
<1>5. CASE ReturnsNow
  <2>1. Pops
    BY <1>5 DEF ReturnsNow
  <2> DEFINE n == Len(calls) - 1
  <2>2. /\ n \in DOMAIN calls /\ calls'[n] = calls[n] /\ Len(calls') = n /\ n < Len(calls)
    BY <2>1 DEF Pops, Kept
  <2>3. Waits(calls[n], calls[n + 1])
    BY <2>2 DEF Grammar
  <2> HIDE DEF n
  <2>4. Nxt \in Waiting
    BY <2>2, <2>3 DEF Waits
  <2> QED
    BY <2>4 DEF Waiting, Command
<1>6. CASE FallsNow
  <2>1. Nxt = "say"
    BY <1>6 DEF FallsNow, Falls, Nth
  <2> QED
    BY <2>1
<1>7. CASE CallsNow
  <2>1. Nxt \in {"clear", "edit", "to_parent", "update", "do_quit", "assert"}
    BY <1>7 DEF CallsNow, Calls, Handles
  <2> QED
    BY <2>1
<1>8. CASE StaysNow
  BY <1>8 DEF StaysNow, askVars, MiniIsCurrent, Next1
<1>9. CASE Begins
  <2>1. calls' = <<Loop("main", 1)>>
    BY <1>9 DEF Begins
  <2>2. Nxt = "end"
    BY <2>1 DEF Nth, Loop
  <2> QED
    BY <2>2
<1> QED
  BY <1>1, <1>2, <1>3, <1>4, <1>5, <1>6, <1>7, <1>8, <1>9 DEF Shape, StopsNow

\* The frames that stay are of the same kind.
Alike ==
  /\ \A j \in DOMAIN calls : j \in DOMAIN calls' => calls'[j].fn = calls[j].fn
  /\ \A i \in DOMAIN calls', j \in DOMAIN calls : j < i => j \in DOMAIN calls'
  /\ \A i \in DOMAIN calls, j \in DOMAIN calls' : j < i => j \in DOMAIN calls

\* No step makes one kind of frame another, except on top.
LEMMA FramesAlike ==
  ASSUME Types, Types', Shape, calls # <<>>, calls' # <<>>
  PROVE  Alike
<1>1. /\ DOMAIN calls = 1..Len(calls) /\ Len(calls) \in Nat
      /\ DOMAIN calls' = 1..Len(calls') /\ Len(calls') \in Nat
  BY LenProperties DEF Types
<1>2. /\ \A i \in DOMAIN calls', j \in DOMAIN calls : j < i => j \in DOMAIN calls'
      /\ \A i \in DOMAIN calls, j \in DOMAIN calls' : j < i => j \in DOMAIN calls
  BY <1>1
<1> DEFINE Goal == \A j \in DOMAIN calls : j \in DOMAIN calls' => calls'[j].fn = calls[j].fn
<1>3. Goal
  <2>1. CASE SaysNow \/ PassesNow
    BY <2>1 DEF SaysNow, PassesNow, Rewrites, Here, Kept
  <2>2. CASE CommandsNow \/ PumpsNow \/ AsksNow
    <3>1. PICK w, f : Pushes(w, f)
      BY <2>2 DEF CommandsNow, PumpsNow, AsksNow
    <3>2. \A j \in DOMAIN calls : j < Len(calls) + 1
      BY <3>1 DEF Pushes
    <3>3. Top = calls[Len(calls)]
      BY <3>1 DEF Pushes, Here
    <3>4. \A j \in DOMAIN calls : j # Len(calls) + 1
      BY <1>1, <3>2
    <3> QED
      BY <3>1, <3>3, <3>4 DEF Pushes, Kept
  <2>3. CASE ReturnsNow
    BY <2>3 DEF ReturnsNow, Pops, Kept
  <2>4. CASE FallsNow
    BY <2>4 DEF FallsNow, Falls, Kept
  <2>5. CASE CallsNow
    <3>1. PICK ws : Calls(ws)
      BY <2>5 DEF CallsNow
    <3>2. \A j \in DOMAIN calls : j # Len(calls) + 1
      BY <1>1
    <3> QED
      BY <3>1, <3>2 DEF Calls, Kept
  <2>6. CASE StaysNow
    BY <2>6 DEF StaysNow
  <2> QED
    BY <2>1, <2>2, <2>3, <2>4, <2>5, <2>6 DEF Shape, StopsNow
<1> QED
  BY <1>2, <1>3 DEF Alike

\* What is beneath a frame that stays, stays.
LEMMA BeneathIs ==
  ASSUME Alike
  PROVE  /\ \A i \in DOMAIN calls' : i \in DOMAIN calls => Beneath(i)' = Beneath(i)
         /\ \A i \in DOMAIN calls' : Beneath(i)' = {} =>
              \A j \in DOMAIN calls : j < i => calls[j].fn # "mini"
BY DEF Alike, Beneath

\* The document is current when the editor starts.
Starts == phase = "start" => buffer = "edit" /\ parent = "edit"

\* Every step but the first of the main loop leaves the document current at the start.
LEMMA StartsStep ==
  ASSUME Grammar, Shape, Starts
  PROVE  Starts'
<1>1. CASE StaysNow
  BY <1>1 DEF StaysNow, Starts, askVars
<1>2. CASE SaysNow \/ PassesNow \/ CommandsNow \/ PumpsNow \/ AsksNow \/ ReturnsNow \/ FallsNow \/ CallsNow
  <2>1. phase' = "run"
    BY <1>2 DEF SaysNow, PassesNow, CommandsNow, PumpsNow, AsksNow, ReturnsNow, FallsNow, CallsNow,
         Rewrites, Pushes, Here, Pops, Falls, Calls
  <2> QED
    BY <2>1 DEF Starts
<1>3. CASE StopsNow \/ Begins
  BY <1>3 DEF Starts, Begins, StopsNow
<1> QED
  BY <1>1, <1>2, <1>3 DEF Shape

\* The frame f restores the document, if it asks.
Honest(f) ==
  /\ Nth(f.todo, 1) = "main" \/ (Nth(f.todo, 1) = "restore" /\ Nth(f.todo, 2) = "answer")
       => f.saved = "edit"
  /\ "redraw_mini" \in Range(f.todo) => Nth(f.todo, 1) = "assert"

\* Outer, frame by frame.
LEMMA OuterIs ==
  Outer <=>
    ("failed" \notin upset =>
       /\ buffer = "mini" /\ Minis = {} /\ calls # <<>> => Next1(Len(calls)) \in {"main", "restore"}
       /\ \A i \in DOMAIN calls : Beneath(i) = {} => Honest(calls[i]))
BY DEF Outer, Honest, Next1, Next2

\* A word that gives way to others restores the document when it should.
LEMMA OuterSays ==
  ASSUME Types, Types', Grammar, Outer, "failed" \notin upset', SaysNow
  PROVE  /\ buffer' = "mini" /\ Minis' = {} => Next1(Len(calls))' \in {"main", "restore"}
         /\ \A i \in DOMAIN calls' : Beneath(i)' = {} => Honest(calls'[i])
<1>1. PICK w, ws, g : Rewrites(w, ws, g) /\ Changes(w, ws, g)
  BY DEF SaysNow
<1>2. "failed" \notin upset
  BY DEF SaysNow
<1> DEFINE n == Len(calls)
<1>3. /\ n \in DOMAIN calls /\ n \in DOMAIN calls' /\ Len(calls') = n /\ calls'[n] = g /\ Top = calls[n]
      /\ Nth(Top.todo, 1) = w /\ w \in Word /\ calls # <<>>
      /\ Follows(toolkit, Top.fn, w, Nth(Top.todo, 2))
      /\ Third(w, Nth(Top.todo, 2), Nth(Top.todo, 3))
      /\ Nth(g.todo, 1) = IF ws = <<>> THEN Nth(Top.todo, 2) ELSE ws[1]
      /\ ws = <<>> => Nth(g.todo, 2) = Nth(Top.todo, 3)
      /\ Admits(w, ws)
      /\ Range(g.todo) \subseteq Range(ws) \cup Range(Top.todo)
      /\ \A i \in DOMAIN calls' : Kept(i) \/ i = n
      /\ Top.fn \in {"handler", "catch"}
  BY <1>1 DEF Rewrites, Here
<1> HIDE DEF n
<1>4. Next1(n) = w
  BY <1>3 DEF Next1
<1>5. Alike
  <2>1. Shape /\ calls' # <<>>
    BY <1>3 DEF Shape
  <2> QED
    BY <2>1, <1>3, FramesAlike
<1>6. Minis = {} /\ buffer = "mini" => w \in {"main", "restore"}
  BY <1>2, <1>3, <1>4 DEF Outer, n
<1>7. Beneath(n) = {} => Honest(Top)
  BY <1>2, <1>3, OuterIs
<1>8. Beneath(n) = {} => Minis = {}
  <2>1. \A m \in DOMAIN calls : m < n \/ m = n
    <3>1. DOMAIN calls = 1..Len(calls) /\ Len(calls) \in Nat
      BY LenProperties DEF Types
    <3> QED
      BY <3>1 DEF n
  <2> QED
    BY <1>3, <2>1 DEF Beneath, Minis
<1>9. Minis' = {} => Minis = {}
  <2>1. \A m \in DOMAIN calls : m \in DOMAIN calls'
    BY <1>1 DEF Rewrites
  <2> QED
    BY <1>5, <2>1 DEF Alike, Minis
<1>10. Beneath(n) = {} /\ w = "restore" =>
         /\ Nth(Top.todo, 2) = "answer" /\ Top.saved = "edit"
  <2>1. w = "restore" => Nth(Top.todo, 2) \in {"answer", "redraw_mini"}
    BY <1>3 DEF Follows
  <2>2. Nth(Top.todo, 2) = "redraw_mini" => "redraw_mini" \in Range(Top.todo)
    BY DEF Nth, Range
  <2> QED
    BY <1>3, <1>7, <2>1, <2>2 DEF Honest
<1>11. buffer' = "mini" /\ Minis = {} => w = "run"
  <2> SUFFICES ASSUME buffer' = "mini", Minis = {} PROVE w = "run"
    OBVIOUS
  <2>1. Beneath(n) = {}
    BY DEF Beneath, Minis
  <2>2. w # "restore"
    BY <1>1, <1>10, <2>1 DEF Changes
  <2>3. w # "to_parent"
    BY <1>1, <1>6 DEF Changes
  <2> QED
    BY <1>1, <1>6, <2>2, <2>3 DEF Changes, Feral
<1>12. w = "run" => ws = <<>> /\ Nth(Top.todo, 2) = "main"
  BY <1>3 DEF Admits, Follows
<1>13. buffer' = "mini" /\ Minis' = {} => Next1(Len(calls))' \in {"main", "restore"}
  BY <1>3, <1>9, <1>11, <1>12 DEF Next1, n
<1>14. Beneath(n) = {} => Honest(g)
  <2> SUFFICES ASSUME Beneath(n) = {} PROVE Honest(g)
    OBVIOUS
  <2>1. Minis = {}
    BY <1>8
  <2>2. buffer \in {"edit", "mini"}
    BY DEF Types
  <2>3. Nth(g.todo, 1) = "main" => g.saved = "edit"
    <3>1. Nth(g.todo, 1) = "main" => ws = <<>>
      BY <1>3, AdmittedIs
    <3>2. Nth(g.todo, 1) = "main" => w = "run"
      BY <1>3, <3>1, FollowsIs
    <3> QED
      BY <1>1, <1>6, <2>1, <2>2, <3>2 DEF Changes
  <2>4. ~(Nth(g.todo, 1) = "restore" /\ Nth(g.todo, 2) = "answer")
    <3>1. Nth(g.todo, 1) = "restore" => ws = <<>>
      BY <1>3, AdmittedIs
    <3>2. w # "main"
      BY <1>1 DEF Changes, Feral
    <3> QED
      BY <1>3, <3>1, <3>2 DEF Third
  <2>5. "redraw_mini" \notin Range(g.todo)
    <3>1. "redraw_mini" \notin Range(ws)
      BY <1>3 DEF Admits, AskWords, Range
    <3>2. "redraw_mini" \in Range(Top.todo) => w = "assert"
      BY <1>3, <1>7 DEF Honest
    <3>3. w # "assert"
      BY <1>1, <1>6, <2>1 DEF Changes
    <3> QED
      BY <1>3, <3>1, <3>2, <3>3
  <2> QED
    BY <2>3, <2>4, <2>5 DEF Honest
<1>15. ASSUME NEW i \in DOMAIN calls', Beneath(i)' = {}
       PROVE  Honest(calls'[i])
  <2>1. i \in DOMAIN calls
    BY <1>3 DEF Kept
  <2>2. Beneath(i) = {}
    BY <1>5, <1>15, <2>1, BeneathIs
  <2>3. Honest(calls[i])
    BY <1>2, <2>1, <2>2, OuterIs
  <2> QED
    BY <1>3, <1>14, <1>15, <2>2, <2>3 DEF Kept
<1> QED
  BY <1>13, <1>15

\* A frame that stays as it is stays honest.
LEMMA HonestKept ==
  ASSUME Alike, Outer, "failed" \notin upset, NEW i \in DOMAIN calls', Kept(i), Beneath(i)' = {}
  PROVE  Honest(calls'[i])
<1>1. i \in DOMAIN calls /\ calls'[i] = calls[i]
  BY DEF Kept
<1>2. Beneath(i) = {}
  BY <1>1, BeneathIs
<1> QED
  BY <1>1, <1>2, OuterIs

\* A handler passes to its next word, and leaves the questions alone.
LEMMA OuterPasses ==
  ASSUME Types, Types', Grammar, Outer, "failed" \notin upset, PassesNow
  PROVE  /\ buffer' = "mini" /\ Minis' = {} => Next1(Len(calls))' \in {"main", "restore"}
         /\ \A i \in DOMAIN calls' : Beneath(i)' = {} => Honest(calls'[i])
<1>1. PICK w \in Quiet : \E g : Rewrites(w, <<>>, g) /\ g.ask = Top.ask /\ g.saved = Top.saved
  BY DEF PassesNow
<1>2. PICK g : Rewrites(w, <<>>, g) /\ g.ask = Top.ask /\ g.saved = Top.saved
  BY <1>1
<1> DEFINE n == Len(calls)
<1>3. /\ n \in DOMAIN calls /\ n \in DOMAIN calls' /\ Len(calls') = n /\ calls'[n] = g /\ Top = calls[n]
      /\ Nth(Top.todo, 1) = w /\ w \in Word /\ calls # <<>> /\ calls' # <<>>
      /\ Follows(toolkit, Top.fn, w, Nth(Top.todo, 2))
      /\ Third(w, Nth(Top.todo, 2), Nth(Top.todo, 3))
      /\ Nth(g.todo, 1) = Nth(Top.todo, 2)
      /\ Nth(g.todo, 2) = Nth(Top.todo, 3)
      /\ Range(g.todo) \subseteq Range(<<>>) \cup Range(Top.todo)
      /\ \A i \in DOMAIN calls' : Kept(i) \/ i = n
      /\ Top.fn # "mini"
  BY <1>2 DEF Rewrites, Here
<1>4. Next1(n) = w /\ w \notin {"main", "restore", "assert", "run"} /\ buffer' = buffer
  BY <1>3 DEF Next1, Quiet, PassesNow, askVars
<1>5. Alike
  BY <1>3, FramesAlike DEF Shape
<1>6. Minis' = {} => Minis = {}
  <2>1. \A m \in DOMAIN calls : m \in DOMAIN calls'
    BY <1>2 DEF Rewrites
  <2> QED
    BY <1>5, <2>1 DEF Alike, Minis
<1>7. ~(buffer' = "mini" /\ Minis' = {})
  BY <1>3, <1>4, <1>6 DEF Outer
<1>8. Beneath(n) = {} => Honest(g)
  <2> SUFFICES ASSUME Beneath(n) = {} PROVE Honest(g)
    OBVIOUS
  <2>1. Nth(g.todo, 1) # "main"
    BY <1>3, <1>4, FollowsIs
  <2>2. ~(Nth(g.todo, 1) = "restore" /\ Nth(g.todo, 2) = "answer")
    BY <1>3, <1>4 DEF Third
  <2>3. Honest(Top)
    BY <1>3, OuterIs
  <2>4. "redraw_mini" \notin Range(g.todo)
    <3>1. Range(<<>>) = {}
      BY DEF Range
    <3> QED
      BY <1>3, <1>4, <2>3, <3>1 DEF Honest
  <2> QED
    BY <2>1, <2>2, <2>4 DEF Honest
<1>9. ASSUME NEW i \in DOMAIN calls', Beneath(i)' = {}
      PROVE  Honest(calls'[i])
  <2>1. CASE Kept(i)
    BY <1>5, <1>9, <2>1, HonestKept
  <2>2. CASE i = n
    BY <1>3, <1>5, <1>8, <1>9, <2>2, BeneathIs
  <2> QED
    BY <1>3, <2>1, <2>2
<1> QED
  BY <1>7, <1>9

\* A handler calls something, which does not have a question to restore.
LEMMA OuterPushes ==
  ASSUME Types, Types', Grammar, Outer, "failed" \notin upset, CommandsNow \/ PumpsNow \/ AsksNow
  PROVE  /\ buffer' = "mini" /\ Minis' = {} => Next1(Len(calls))' \in {"main", "restore"}
         /\ \A i \in DOMAIN calls' : Beneath(i)' = {} => Honest(calls'[i])
<1>1. PICK w, f :
        /\ Pushes(w, f) /\ w \in {"main", "invalidate", "clipboard"} \cup (Command \ {"edit"})
        /\ f.todo \in {<<>>, AskWords, <<"do_quit">>, <<"throw">>, <<"clipboard", "edit">>}
        /\ w = "main" => f.fn = "mini"
  <2>1. CASE CommandsNow
    BY <2>1 DEF CommandsNow, Command
  <2>2. CASE PumpsNow
    <3>1. Loop("pump", 0).todo = <<>>
      BY DEF Loop
    <3> QED
      BY <2>2, <3>1 DEF PumpsNow
  <2>3. CASE AsksNow
    <3>1. \A k : Loop("mini", k).todo = <<>> /\ Loop("mini", k).fn = "mini"
      BY DEF Loop
    <3> QED
      BY <2>3, <3>1 DEF AsksNow
  <2> QED
    BY <2>1, <2>2, <2>3
<1> DEFINE n == Len(calls)
           h == calls'[n]
<1>2. /\ n \in DOMAIN calls /\ Top = calls[n] /\ n + 1 \in DOMAIN calls' /\ calls'[n + 1] = f
      /\ Nth(Top.todo, 1) = w /\ w \in Word /\ calls # <<>> /\ calls' # <<>>
      /\ Follows(toolkit, Top.fn, w, Nth(Top.todo, 2))
      /\ Third(w, Nth(Top.todo, 2), Nth(Top.todo, 3))
      /\ Nth(h.todo, 1) = Nth(Top.todo, 2)
      /\ Nth(h.todo, 2) = Nth(Top.todo, 3)
      /\ h.saved = Top.saved
      /\ Range(h.todo) \subseteq Range(Top.todo)
      /\ \A i \in DOMAIN calls' : Kept(i) \/ i = n \/ i = n + 1
      /\ Top.fn # "mini"
  BY <1>1 DEF Pushes, Here
<1>3. Next1(n) = w /\ w \notin {"restore", "assert", "run"} /\ buffer' = buffer
  BY <1>1, <1>2 DEF Next1, Command, CommandsNow, PumpsNow, AsksNow, AsksIn, feral, askVars
<1>4. Alike
  BY <1>2, FramesAlike DEF Shape
<1>5. Minis' = {} => Minis = {} /\ w # "main"
  <2>1. \A m \in DOMAIN calls : m \in DOMAIN calls'
    BY <1>1 DEF Pushes
  <2> QED
    BY <1>1, <1>2, <1>4, <2>1 DEF Alike, Minis
<1>6. ~(buffer' = "mini" /\ Minis' = {})
  BY <1>2, <1>3, <1>5 DEF Outer
<1>7. Honest(f)
  BY <1>1 DEF Honest, AskWords, Nth, Range
<1> HIDE DEF h
<1>8. Beneath(n) = {} => Honest(h)
  <2> SUFFICES ASSUME Beneath(n) = {} PROVE Honest(h)
    OBVIOUS
  <2>1. Nth(h.todo, 1) # "main"
    BY <1>2, <1>3, FollowsIs
  <2>2. Honest(Top)
    BY <1>2, OuterIs
  <2>3. Nth(h.todo, 1) = "restore" /\ Nth(h.todo, 2) = "answer" => w = "main"
    BY <1>2 DEF Third
  <2>4. "redraw_mini" \notin Range(h.todo)
    BY <1>2, <1>3, <2>2 DEF Honest
  <2> QED
    BY <1>2, <2>1, <2>2, <2>3, <2>4 DEF Honest
<1>9. ASSUME NEW i \in DOMAIN calls', Beneath(i)' = {}
      PROVE  Honest(calls'[i])
  <2>1. CASE Kept(i)
    BY <1>4, <1>9, <2>1, HonestKept
  <2>2. CASE i = n
    BY <1>2, <1>4, <1>8, <1>9, <2>2, BeneathIs DEF h
  <2> QED
    BY <1>2, <1>7, <2>1, <2>2
<1> QED
  BY <1>6, <1>9

\* What a loop calls, an error goes to, or a frame returns to, has no document to restore.
LEMMA OuterRests ==
  ASSUME Types, Types', Grammar, Outer, "failed" \notin upset', FallsNow \/ ReturnsNow \/ CallsNow
  PROVE  /\ buffer' = "mini" /\ Minis' = {} => Next1(Len(calls))' \in {"main", "restore"}
         /\ \A i \in DOMAIN calls' : Beneath(i)' = {} => Honest(calls'[i])
<1> DEFINE Goal == /\ buffer' = "mini" /\ Minis' = {} => Next1(Len(calls))' \in {"main", "restore"}
                   /\ \A i \in DOMAIN calls' : Beneath(i)' = {} => Honest(calls'[i])
<1>0. calls # <<>> /\ calls' # <<>> /\ buffer' = buffer /\ "failed" \notin upset
  BY DEF FallsNow, Falls, ReturnsNow, Pops, CallsNow, Calls, feral, askVars
<1>1. Alike
  BY <1>0, FramesAlike DEF Shape
<1>2. CASE FallsNow
  <2>1. PICK at : Falls(at)
    BY <1>2 DEF FallsNow
  <2>2. Minis' = {} => Minis = {}
    <3>1. \A i \in DOMAIN calls : i > at => calls[i].fn # "mini"
      BY <2>1 DEF Falls
    <3>2. \A i \in DOMAIN calls : i > at \/ i \in DOMAIN calls'
      <4>1. at \in DOMAIN calls' /\ DOMAIN calls = 1..Len(calls) /\ Len(calls) \in Nat
        BY <2>1, LenProperties DEF Falls, Types
      <4>2. DOMAIN calls' = 1..Len(calls') /\ Len(calls') = at
        BY <2>1, LenProperties DEF Falls, Types
      <4>3. at \in 1..at
        BY <4>1, <4>2
      <4>4. at \in Nat
        BY <2>1, <4>1 DEF Falls
      <4> QED
        BY <4>1, <4>2, <4>4
    <3> QED
      BY <1>1, <3>1, <3>2 DEF Minis, Alike
  <2>3. ~(buffer' = "mini" /\ Minis' = {})
    BY <1>0, <1>2, <2>2 DEF FallsNow, Outer
  <2>4. Honest(calls'[at])
    BY <2>1 DEF Falls, Honest, Nth, Range
  <2>5. \A i \in DOMAIN calls' : Kept(i) \/ i = at
    BY <2>1 DEF Falls
  <2> QED
    BY <1>0, <1>1, <2>3, <2>4, <2>5, HonestKept
<1>3. CASE ReturnsNow
  <2>1. Pops
    BY <1>3 DEF ReturnsNow
  <2> DEFINE n == Len(calls) - 1
  <2>2. /\ n \in DOMAIN calls /\ calls'[n] = calls[n] /\ Len(calls') = n /\ n < Len(calls)
    BY <2>1 DEF Pops, Kept
  <2>3. Len(calls) \in DOMAIN calls /\ Top = calls[Len(calls)] /\ Nth(Top.todo, 1) = "end"
    BY <2>1 DEF Pops
  <2>4. Top.fn = "mini" => Nth(calls[n].todo, 1) = "restore"
    BY <2>3 DEF Grammar, Seated, Sits
  <2> HIDE DEF n
  <2>5. Top.fn # "mini" => (Minis' = {} => Minis = {})
    <3>1. \A m \in DOMAIN calls : m \in DOMAIN calls' \/ m = Len(calls)
      BY <2>1 DEF Pops
    <3> QED
      BY <1>1, <2>3, <3>1 DEF Minis, Alike
  <2>6. buffer' = "mini" /\ Minis' = {} => Next1(Len(calls))' \in {"main", "restore"}
    BY <1>0, <2>2, <2>3, <2>4, <2>5 DEF Outer, Next1
  <2>7. \A i \in DOMAIN calls' : Kept(i)
    BY <2>1 DEF Pops
  <2> QED
    BY <1>0, <1>1, <2>6, <2>7, HonestKept
<1>4. CASE CallsNow
  <2>1. PICK ws : Calls(ws) /\ Handles(ws)
    BY <1>4 DEF CallsNow
  <2>2. Len(calls) \in DOMAIN calls /\ Top = calls[Len(calls)] /\ Nth(Top.todo, 1) = "end"
    BY <2>1 DEF Calls
  <2>3. Minis' = {} => Minis = {}
    <3>1. \A m \in DOMAIN calls : m \in DOMAIN calls'
      BY <2>1 DEF Calls
    <3> QED
      BY <1>1, <3>1 DEF Minis, Alike
  <2>4. ~(buffer' = "mini" /\ Minis' = {})
    BY <1>0, <2>2, <2>3 DEF Outer, Next1
  <2>5. Honest(calls'[Len(calls) + 1])
    BY <2>1 DEF Calls, Handles, Honest
  <2>6. \A i \in DOMAIN calls' : Kept(i) \/ i = Len(calls) + 1
    BY <2>1 DEF Calls
  <2> QED
    BY <1>0, <1>1, <2>4, <2>5, <2>6, HonestKept
<1> QED
  BY <1>2, <1>3, <1>4

\* Every step keeps Outer.
LEMMA OuterStep ==
  ASSUME Types, Types', Grammar, Shape, Starts, Outer
  PROVE  Outer'
<1> DEFINE Goal == /\ buffer' = "mini" /\ Minis' = {} /\ calls' # <<>> => Next1(Len(calls))' \in {"main", "restore"}
                   /\ \A i \in DOMAIN calls' : Beneath(i)' = {} => Honest(calls'[i])
<1> SUFFICES ASSUME "failed" \notin upset' PROVE Goal
  BY DEF Outer, Honest, Next1, Next2
<1>0. phase = "run" <=> calls # <<>>
  BY DEF Grammar
<1>1. CASE SaysNow
  <2>1. Len(calls') = Len(calls)
    BY <1>1 DEF SaysNow, Rewrites
  <2> QED
    BY <1>1, <2>1, OuterSays
<1>2. CASE PassesNow
  <2>1. Len(calls') = Len(calls) /\ "failed" \notin upset
    BY <1>2 DEF PassesNow, Rewrites
  <2> QED
    BY <1>2, <2>1, OuterPasses
<1>3. CASE CommandsNow \/ PumpsNow \/ AsksNow
  <2>1. "failed" \notin upset
    BY <1>3 DEF CommandsNow, PumpsNow, AsksNow, AsksIn, feral
  <2> QED
    BY <1>3, <2>1, OuterPushes
<1>4. CASE FallsNow \/ ReturnsNow \/ CallsNow
  BY <1>4, OuterRests
<1>5. CASE StaysNow
  <2>1. calls' = calls /\ buffer' = buffer
    BY <1>5 DEF StaysNow, askVars
  <2>2. "failed" \notin upset
    BY <1>5 DEF StaysNow, Activates, Idles, Prepares, feralVars
  <2>3. Minis' = Minis /\ \A i \in DOMAIN calls : Beneath(i)' = Beneath(i)
    BY <2>1 DEF Minis, Beneath
  <2> QED
    BY <2>1, <2>2, <2>3, OuterIs DEF Next1
<1>6. CASE calls' = <<>>
  BY <1>6
<1>7. CASE Begins
  <2>1. calls' = <<Loop("main", 1)>> /\ buffer' = "edit"
    BY <1>7 DEF Begins, askVars, Starts
  <2>2. DOMAIN calls' = {1} /\ calls'[1].todo = <<>>
    BY <2>1 DEF Loop
  <2>3. Honest(calls'[1])
    BY <2>2 DEF Honest, Nth, Range
  <2> QED
    BY <2>1, <2>2, <2>3
<1> QED
  BY <1>1, <1>2, <1>3, <1>4, <1>5, <1>6, <1>7 DEF Shape, StopsNow

\* The m-th frame is the loop of the one question that is open.
Asking(m) ==
  /\ frame = "shown" => focus = "minibuffer"
  /\ toolkit = "gtk" => calls[m].loop = Len(loops)
  /\ \A i \in DOMAIN calls : i > m =>
       calls[i].fn \in {"handler", "pump"} /\ Range(calls[i].todo) \subseteq Answering

\* OneQuestion, loop by loop.
LEMMA OneQuestionIs ==
  OneQuestion <=> (upset \cap {"nested", "activated"} = {} => \A m \in Minis : Asking(m))
BY DEF OneQuestion, Asking

\* An open question stays so while a word gives way to others,
LEMMA AskingSays ==
  ASSUME Types, toolkit' = toolkit, SaysNow, "nested" \notin upset', NEW m \in Minis, Asking(m)
  PROVE  m \in Minis' /\ Asking(m)'
<1>1. PICK w, ws, g : Rewrites(w, ws, g) /\ Changes(w, ws, g)
  BY DEF SaysNow
<1> DEFINE n == Len(calls)
<1>2. /\ n \in DOMAIN calls /\ calls'[n] = g /\ Top = calls[n] /\ w \in Range(Top.todo)
      /\ Top.fn \in {"handler", "catch"} /\ g.fn = Top.fn
      /\ Admits(w, ws)
      /\ Range(g.todo) \subseteq Range(ws) \cup Range(Top.todo)
      /\ \A i \in DOMAIN calls' : Kept(i) \/ i = n
      /\ \A i \in DOMAIN calls : i \in DOMAIN calls'
  BY <1>1 DEF Rewrites, Here
<1>3. DOMAIN calls = 1..n /\ n \in Nat
  BY LenProperties DEF Types
<1> HIDE DEF n
<1>4. m \in DOMAIN calls /\ calls[m].fn = "mini" /\ m \in DOMAIN calls' /\ m # n
  BY <1>2 DEF Minis
<1>5. n > m
  BY <1>3, <1>4
<1>6. calls'[m] = calls[m]
  BY <1>2, <1>4 DEF Kept
<1>7. Top.fn \in {"handler", "pump"} /\ Range(Top.todo) \subseteq Answering
  BY <1>2, <1>5 DEF Asking
<1>8. Range(ws) \subseteq Answering
  <2>1. w \in Answering
    BY <1>2, <1>7
  <2>2. w # "do_quit"
    BY <1>1, <1>4 DEF Changes, Open
  <2>3. ws = <<>> \/ Range(ws) \subseteq {"invalidate", "leave", "cancel"}
    BY <1>2, <2>1, <2>2 DEF Admits, Answering, Range
  <2>4. Range(<<>>) = {}
    BY DEF Range
  <2> QED
    BY <2>3, <2>4 DEF Answering
<1>9. UNCHANGED <<frame, focus, loops>>
  BY DEF SaysNow, control
<1>10. \A i \in DOMAIN calls' : i > m =>
         calls'[i].fn \in {"handler", "pump"} /\ Range(calls'[i].todo) \subseteq Answering
  BY <1>2, <1>7, <1>8 DEF Asking, Kept
<1> QED
  BY <1>4, <1>6, <1>9, <1>10 DEF Asking, Minis

\* while something is shown or a loop told to end,
LEMMA AskingPasses ==
  ASSUME Types, toolkit' = toolkit, PassesNow, loops \in Seq(BOOLEAN), NEW m \in Minis, Asking(m)
  PROVE  m \in Minis' /\ Asking(m)'
<1>1. PICK w \in Quiet : \E g :
        /\ Rewrites(w, <<>>, g) /\ g.ask = Top.ask /\ g.saved = Top.saved
        /\ w = "exit" => Destroys
        /\ w = "leave" => TellsToQuit
        /\ w \notin {"exit", "leave"} => UNCHANGED control
  BY DEF PassesNow
<1>2. PICK g : Rewrites(w, <<>>, g)
  BY <1>1
<1> DEFINE n == Len(calls)
<1>3. /\ n \in DOMAIN calls /\ calls'[n] = g /\ Top = calls[n] /\ w \in Range(Top.todo)
      /\ Top.fn \in {"handler", "catch"} /\ g.fn = Top.fn
      /\ Range(g.todo) \subseteq Range(<<>>) \cup Range(Top.todo)
      /\ \A i \in DOMAIN calls' : Kept(i) \/ i = n
      /\ \A i \in DOMAIN calls : i \in DOMAIN calls'
  BY <1>2 DEF Rewrites, Here
<1>4. DOMAIN calls = 1..n /\ n \in Nat
  BY LenProperties DEF Types
<1> HIDE DEF n
<1>5. m \in DOMAIN calls /\ calls[m].fn = "mini" /\ m \in DOMAIN calls' /\ m # n
  BY <1>3 DEF Minis
<1>6. n > m
  BY <1>4, <1>5
<1>7. calls'[m] = calls[m]
  BY <1>3, <1>5 DEF Kept
<1>8. Top.fn \in {"handler", "pump"} /\ Range(Top.todo) \subseteq Answering
  BY <1>3, <1>6 DEF Asking
<1>9. w # "exit"
  BY <1>3, <1>8 DEF Answering
<1>10. /\ UNCHANGED <<frame, focus>>
       /\ toolkit = "gtk" => Len(loops') = Len(loops)
  <2>1. CASE w = "leave"
    BY <1>1, <2>1, MainQuitIs DEF TellsToQuit
  <2>2. CASE w # "leave"
    BY <1>1, <1>9, <2>2 DEF control
  <2> QED
    BY <2>1, <2>2
<1>11. \A i \in DOMAIN calls' : i > m =>
         calls'[i].fn \in {"handler", "pump"} /\ Range(calls'[i].todo) \subseteq Answering
  <2>1. Range(<<>>) = {}
    BY DEF Range
  <2> QED
    BY <1>3, <1>8, <2>1 DEF Asking, Kept
<1> QED
  BY <1>5, <1>7, <1>10, <1>11 DEF Asking, Minis

\* while GTK's loop runs in the middle of a handler,
LEMMA AskingPumps ==
  ASSUME Types, toolkit' = toolkit, PumpsNow, NEW m \in Minis, Asking(m)
  PROVE  m \in Minis' /\ Asking(m)'
<1>1. PICK w : Pushes(w, Loop("pump", 0))
  BY DEF PumpsNow
<1> DEFINE n == Len(calls)
           h == calls'[n]
<1>3. /\ n \in DOMAIN calls /\ Top = calls[n] /\ calls'[n + 1] = Loop("pump", 0)
      /\ Top.fn \in {"handler", "catch"} /\ h.fn = Top.fn
      /\ Range(h.todo) \subseteq Range(Top.todo)
      /\ \A i \in DOMAIN calls' : Kept(i) \/ i = n \/ i = n + 1
      /\ \A i \in DOMAIN calls : i \in DOMAIN calls' /\ i < n + 1
  BY <1>1 DEF Pushes, Here
<1>4. DOMAIN calls = 1..n /\ n \in Nat
  BY LenProperties DEF Types
<1>5. m \in DOMAIN calls /\ calls[m].fn = "mini" /\ m \in DOMAIN calls' /\ m # n
  BY <1>3 DEF Minis
<1> HIDE DEF n, h
<1>6. n > m /\ m # n + 1
  BY <1>4, <1>5
<1>7. calls'[m] = calls[m]
  BY <1>3, <1>5, <1>6 DEF Kept
<1>8. Top.fn \in {"handler", "pump"} /\ Range(Top.todo) \subseteq Answering
  BY <1>3, <1>6 DEF Asking
<1>9. UNCHANGED <<frame, focus, loops>>
  BY DEF PumpsNow, control
<1>10. Loop("pump", 0).fn = "pump" /\ Range(Loop("pump", 0).todo) = {}
  BY DEF Loop, Range
<1>11. \A i \in DOMAIN calls' : i > m =>
         calls'[i].fn \in {"handler", "pump"} /\ Range(calls'[i].todo) \subseteq Answering
  BY <1>3, <1>8, <1>10 DEF Asking, Kept, h
<1> QED
  BY <1>5, <1>7, <1>9, <1>11 DEF Asking, Minis

\* and when an event is taken.
LEMMA AskingCalls ==
  ASSUME Types, toolkit' = toolkit, CallsNow, NEW m \in Minis, Asking(m)
  PROVE  m \in Minis' /\ Asking(m)'
<1>1. PICK ws : Calls(ws) /\ Handles(ws)
  BY DEF CallsNow
<1> DEFINE n == Len(calls)
<1>3. /\ calls'[n + 1].fn = "handler" /\ calls'[n + 1].todo = ws
      /\ \A i \in DOMAIN calls' : Kept(i) \/ i = n + 1
      /\ \A i \in DOMAIN calls : i \in DOMAIN calls' /\ i < n + 1
      /\ UNCHANGED <<frame, focus, loops>> /\ frame = "shown"
  BY <1>1 DEF Calls, control
<1>4. DOMAIN calls = 1..n /\ n \in Nat
  BY LenProperties DEF Types
<1>5. m \in DOMAIN calls /\ calls[m].fn = "mini" /\ m \in DOMAIN calls'
  BY <1>3 DEF Minis
<1> HIDE DEF n
<1>6. m # n + 1
  BY <1>4, <1>5
<1>7. calls'[m] = calls[m]
  BY <1>3, <1>5, <1>6 DEF Kept
<1>8. Range(ws) \subseteq Answering
  BY <1>1, <1>3 DEF Handles, Asking
<1>9. \A i \in DOMAIN calls' : i > m =>
         calls'[i].fn \in {"handler", "pump"} /\ Range(calls'[i].todo) \subseteq Answering
  BY <1>3, <1>8 DEF Asking, Kept
<1> QED
  BY <1>3, <1>5, <1>7, <1>9 DEF Asking, Minis

\* Only a command asks, and only when no question is open.
LEMMA NoneOpen ==
  ASSUME Types, Shape, \A m \in Minis : Asking(m),
         CommandsNow \/ AsksNow \/ FallsNow \/ (ReturnsNow /\ Top.fn = "mini")
  PROVE  \A m \in Minis' : AsksNow /\ m = Len(calls) + 1 /\ Minis = {}
<1>1. DOMAIN calls = 1..Len(calls) /\ Len(calls) \in Nat
  BY LenProperties DEF Types
<1>2. CASE CommandsNow \/ AsksNow
  <2>1. PICK w, f : /\ Pushes(w, f) /\ w \in {"main", "ask", "quit", "fail", "paste"}
                    /\ f.fn = "mini" => AsksNow
    <3>1. CASE CommandsNow
      BY <3>1 DEF CommandsNow, Command
    <3>2. CASE AsksNow
      BY <3>2 DEF AsksNow
    <3> QED
      BY <1>2, <3>1, <3>2
  <2> DEFINE n == Len(calls)
  <2>2. /\ n \in DOMAIN calls /\ Top = calls[n] /\ w \in Range(Top.todo)
        /\ Top.fn \in {"handler", "catch"} /\ calls'[n + 1] = f
        /\ \A i \in DOMAIN calls' : Kept(i) \/ i = n \/ i = n + 1
        /\ calls'[n].fn = Top.fn
    BY <2>1 DEF Pushes, Here
  <2>3. Minis = {}
    <3> SUFFICES ASSUME NEW m \in Minis PROVE FALSE
      OBVIOUS
    <3>1. m \in DOMAIN calls /\ m # n
      BY <2>2 DEF Minis
    <3>2. n > m
      BY <1>1, <3>1
    <3>3. w \in Answering
      BY <2>2, <3>2 DEF Asking
    <3> QED
      BY <2>1, <3>3 DEF Answering
  <2> HIDE DEF n
  <2>4. \A m \in Minis' : m = n + 1 /\ AsksNow
    BY <2>1, <2>2, <2>3 DEF Minis, Kept
  <2> QED
    BY <2>3, <2>4 DEF n
<1>3. CASE FallsNow
  <2>1. PICK at : Falls(at)
    BY <1>3 DEF FallsNow
  <2>2. at \in DOMAIN calls /\ calls[at].fn = "catch" /\ calls'[at].fn = "catch"
        /\ \A i \in DOMAIN calls' : (i < at /\ Kept(i)) \/ i = at
    BY <2>1 DEF Falls
  <2>3. at \in Nat /\ \A i \in DOMAIN calls : i \in Nat
    BY <1>1, <2>2
  <2>4. Minis' = {}
    <3> SUFFICES ASSUME NEW m \in Minis' PROVE FALSE
      OBVIOUS
    <3>1. m < at /\ m \in DOMAIN calls /\ calls[m].fn = "mini"
      BY <2>2 DEF Minis, Kept
    <3>2. at > m
      BY <2>3, <3>1
    <3> QED
      BY <2>2, <3>1, <3>2 DEF Asking, Minis
  <2> QED
    BY <2>4
<1>4. CASE ReturnsNow /\ Top.fn = "mini"
  <2>1. /\ Len(calls) \in DOMAIN calls /\ Top = calls[Len(calls)]
        /\ \A i \in DOMAIN calls' : i < Len(calls) /\ Kept(i)
    BY <1>4 DEF ReturnsNow, Pops
  <2>2. Minis' = {}
    <3> SUFFICES ASSUME NEW m \in Minis' PROVE FALSE
      OBVIOUS
    <3>1. m < Len(calls) /\ m \in DOMAIN calls /\ calls[m].fn = "mini"
      BY <2>1 DEF Minis, Kept
    <3>2. Len(calls) > m
      BY <1>1, <3>1
    <3> QED
      BY <1>4, <2>1, <3>1, <3>2 DEF Asking, Minis
  <2> QED
    BY <2>2
<1> QED
  BY <1>2, <1>3, <1>4

\* A question that begins is the open one.
LEMMA AskingAsks ==
  ASSUME Types, Types', toolkit' = toolkit, AsksNow, loops \in Seq(BOOLEAN),
         NEW n, n = Len(calls) + 1
  PROVE  Asking(n)'
<1>1. PICK k \in Nat : Pushes("main", Loop("mini", k)) /\ AsksIn(k)
  BY DEF AsksNow
<1>2. frame' = "shown" => focus' = "minibuffer"
  BY <1>1 DEF AsksIn
<1>3. toolkit = "gtk" => k = Len(loops')
  <2>1. toolkit = "gtk" => k = Len(loops) + 1 /\ loops' = Append(loops, FALSE)
    BY <1>1 DEF AsksIn
  <2>2. Len(Append(loops, FALSE)) = Len(loops) + 1
    BY AppendProperties
  <2> QED
    BY <2>1, <2>2
<1>4. calls'[n] = Loop("mini", k) /\ Loop("mini", k).loop = k
  BY <1>1 DEF Pushes, Loop
<1>5. \A i \in DOMAIN calls' : ~(i > n)
  <2>1. DOMAIN calls' = 1..n /\ Len(calls') \in Nat /\ n = Len(calls')
    BY <1>1, LenProperties DEF Types, Pushes
  <2> QED
    BY <2>1
<1> QED
  BY <1>2, <1>3, <1>4, <1>5 DEF Asking

\* Every step keeps OneQuestion.
LEMMA OneQuestionStep ==
  ASSUME Types, Types', Grammar, Shape, OneQuestion, loops \in Seq(BOOLEAN), toolkit' = toolkit
  PROVE  OneQuestion'
<1> SUFFICES ASSUME upset' \cap {"nested", "activated"} = {}
             PROVE  \A m \in Minis' : Asking(m)'
  BY DEF OneQuestion, Asking
<1>0. phase = "run" <=> calls # <<>>
  BY DEF Grammar
<1>1. CASE SaysNow \/ PassesNow \/ PumpsNow \/ CallsNow \/ (ReturnsNow /\ Top.fn # "mini")
  <2>1. /\ upset \subseteq upset' /\ calls # <<>> /\ calls' # <<>>
    BY <1>1 DEF SaysNow, PassesNow, PumpsNow, CallsNow, ReturnsNow, Rewrites, Pushes, Calls, Pops, Here,
         feral
  <2>2. \A m \in Minis : Asking(m)
    BY <2>1, OneQuestionIs
  <2>3. Alike
    BY <1>1, <2>1, FramesAlike DEF Shape
  <2>4. "nested" \notin upset'
    OBVIOUS
  <2>5. CASE ReturnsNow /\ Top.fn # "mini"
    <3>1. /\ \A i \in DOMAIN calls' : Kept(i)
          /\ UNCHANGED control
      BY <2>5 DEF ReturnsNow, Pops, Concludes
    <3> QED
      BY <2>2, <3>1 DEF Asking, Kept, control, Minis
  <2>6. CASE SaysNow \/ PassesNow \/ PumpsNow \/ CallsNow
    <3>1. \A m \in Minis : m \in Minis' /\ Asking(m)'
      BY <1>1, <2>2, <2>4, <2>6, AskingSays, AskingPasses, AskingPumps, AskingCalls
    <3>2. \A m \in Minis' : m \in Minis
      <4>1. \A i \in DOMAIN calls' : Kept(i) \/ calls'[i].fn # "mini"
        <5>1. CASE SaysNow \/ PassesNow
          BY <5>1 DEF SaysNow, PassesNow, Rewrites, Here
        <5>2. CASE PumpsNow
          <6>1. Loop("pump", 0).fn # "mini"
            BY DEF Loop
          <6> QED
            BY <5>2, <6>1 DEF PumpsNow, Pushes, Here
        <5>3. CASE CallsNow
          BY <5>3 DEF CallsNow, Calls
        <5> QED
          BY <1>1, <2>6, <5>1, <5>2, <5>3
      <4> QED
        BY <4>1 DEF Minis, Kept
    <3> QED
      BY <3>1, <3>2
  <2> QED
    BY <1>1, <2>5, <2>6
<1>2. CASE CommandsNow \/ AsksNow \/ FallsNow \/ (ReturnsNow /\ Top.fn = "mini")
  <2>1. upset \subseteq upset'
    BY <1>2 DEF CommandsNow, AsksNow, AsksIn, FallsNow, ReturnsNow, feral
  <2>2. \A m \in Minis : Asking(m)
    BY <2>1, OneQuestionIs
  <2>3. \A m \in Minis' : AsksNow /\ m = Len(calls) + 1 /\ Minis = {}
    BY <1>2, <2>2, NoneOpen
  <2> QED
    BY <2>3, AskingAsks
<1>3. CASE StaysNow
  <2>1. calls' = calls
    BY <1>3 DEF StaysNow
  <2>2. CASE Prepares
    BY <1>0, <2>1, <2>2 DEF Prepares, Minis
  <2>3. CASE Idles
    BY <2>1, <2>3 DEF Idles, feralVars, OneQuestion, Minis, Asking
  <2>4. CASE Activates
    BY <2>4 DEF Activates
  <2> QED
    BY <1>3, <2>2, <2>3, <2>4 DEF StaysNow
<1>4. CASE calls' = <<>>
  BY <1>4 DEF Minis
<1>5. CASE Begins
  <2>1. calls' = <<Loop("main", 1)>>
    BY <1>5 DEF Begins
  <2>2. DOMAIN calls' = {1} /\ calls'[1].fn = "main"
    BY <2>1 DEF Loop
  <2> QED
    BY <2>2 DEF Minis
<1> QED
  BY <1>1, <1>2, <1>3, <1>4, <1>5 DEF Shape, StopsNow

----------------------------------------------------------------------------
(***************************************************************************)
(* GTK's text view shows the document.                                      *)
(***************************************************************************)

\* Who restores the current buffer, and that one question is open at a time.
Questions == Starts /\ MiniIsCurrent /\ Outer /\ OneQuestion

\* All that holds before the first question.
LEMMA QuestionsStart == Init => Questions
<1> SUFFICES ASSUME Init PROVE Questions
  OBVIOUS
<1>1. calls = <<>> /\ buffer = "edit" /\ parent = "edit"
  BY DEF Init, FeralInit
<1>2. Minis = {} /\ DOMAIN calls = {}
  BY <1>1 DEF Minis
<1> QED
  BY <1>1, <1>2 DEF Questions, Starts, MiniIsCurrent, Outer, OneQuestion

\* It holds after every step.
LEMMA QuestionsStep ==
  ASSUME Base, Questions, [Next]_vars
  PROVE  Questions' /\ Base' /\ Shape
<1>1. Base' /\ Summary
  BY BaseStep
<1>2. Types /\ Types' /\ Grammar /\ loops \in Seq(BOOLEAN)
  BY <1>1 DEF Base, Listed
<1>3. Shape /\ toolkit' = toolkit
  BY <1>1, <1>2, ShapeIs DEF Summary
<1> QED
  BY <1>1, <1>2, <1>3, StartsStep, MiniIsCurrentStep, OuterStep, OneQuestionStep DEF Questions

\* Nothing but minibuffer-run sets the minibuffer's parent.
LEMMA ParentIs ==
  ASSUME Base, Questions, Shape, toolkit = "gtk", upset' \cap {"nested", "failed"} = {}
  PROVE  parent' \in {parent, "edit"} /\ upset \cap {"nested", "failed"} = {}
<1>1. CASE SaysNow
  <2>1. PICK w, ws, g : Rewrites(w, ws, g) /\ Changes(w, ws, g)
    BY <1>1 DEF SaysNow
  <2>2. upset \cap {"nested", "failed"} = {}
    BY <1>1 DEF SaysNow
  <2>3. w # "run" => parent' = parent
    BY <2>1 DEF Changes
  <2>4. CASE w = "run"
    <3> DEFINE n == Len(calls)
    <3>1. /\ n \in DOMAIN calls /\ Top = calls[n] /\ Nth(Top.todo, 1) = "run"
          /\ "run" \in Range(Top.todo) /\ Top.fn \in {"handler", "catch"} /\ calls # <<>>
      BY <2>1, <2>4 DEF Rewrites, Here
    <3>2. DOMAIN calls = 1..n /\ n \in Nat
      BY LenProperties DEF Base, Types
    <3> HIDE DEF n
    <3>3. \A m \in Minis : n > m
      BY <3>1, <3>2 DEF Minis
    <3>4. upset \cap {"nested", "activated"} = {}
      BY <2>2 DEF Base, Quits
    <3>5. \A m \in Minis : Asking(m)
      BY <3>4, OneQuestionIs DEF Questions
    <3>6. "run" \notin Answering
      BY DEF Answering
    <3>7. Minis = {}
      BY <3>1, <3>3, <3>5, <3>6 DEF Asking
    <3>8. buffer = "mini" => Next1(n) \in {"main", "restore"}
      BY <2>2, <3>1, <3>7 DEF Questions, Outer, n
    <3>9. buffer = "edit"
      BY <3>1, <3>8 DEF Next1, Base, Types
    <3> QED
      BY <2>1, <2>2, <2>4, <3>9 DEF Changes
  <2> QED
    BY <2>2, <2>3, <2>4
<1>2. CASE PassesNow \/ CommandsNow \/ PumpsNow \/ AsksNow \/ ReturnsNow \/ FallsNow \/ CallsNow
  <2>1. parent' = parent /\ upset \subseteq upset'
    BY <1>2 DEF PassesNow, CommandsNow, PumpsNow, AsksNow, AsksIn, ReturnsNow, FallsNow, CallsNow,
       Calls, feral, askVars
  <2> QED
    BY <2>1
<1>3. CASE StaysNow
  <2>1. parent' = parent /\ upset \subseteq upset'
    BY <1>3 DEF StaysNow, askVars, Activates, Idles, Prepares, feralVars
  <2> QED
    BY <2>1
<1>4. CASE StopsNow \/ Begins
  <2>1. parent' = parent /\ upset \subseteq upset'
    BY <1>4 DEF StopsNow, Begins, askVars
  <2> QED
    BY <2>1
<1> QED
  BY <1>1, <1>2, <1>3, <1>4 DEF Shape

\* GTK's text view gets the buffer that draw_current_buffer gives it, or keeps its own.
LEMMA ViewIs ==
  ASSUME toolkit = "gtk", [Next]_vars
  PROVE  view' \in {view, IF buffer = "mini" THEN parent ELSE buffer}
<1>0. CASE UNCHANGED vars
  BY <1>0 DEF vars, screenVars
<1> SUFFICES ASSUME Gtk!GtkNext
             PROVE  view' \in {view, IF buffer = "mini" THEN parent ELSE buffer}
  BY <1>0 DEF Next, OfGtk, OfWin
<1>4. CASE Gtk!User
  <2>1. PICK ws : Gtk!Event(ws)
    BY <1>4 DEF Gtk!User, Gtk!TextviewDoubleClick,
       Gtk!TextviewButtonPress, Gtk!TextviewMotionNotify, Gtk!TextviewMousewheel, Gtk!Close,
       Gtk!TextviewKeyPress, Gtk!MinibufferKeyPress
  <2> QED
    BY <2>1 DEF Gtk!Event, Gtk!gtkVars, Gtk!screenVars
<1>5. CASE Gtk!SizeAllocate \/ Gtk!Initialize
  BY <1>5 DEF Gtk!SizeAllocate, Gtk!Initialize
<1>7. CASE Gtk!GtkMain \/ Gtk!GtkMainReturns
  BY <1>7 DEF Gtk!GtkMain, Gtk!GtkMainReturns, Gtk!screenVars
<1>8. CASE Gtk!MinibufferMain \/ Gtk!MinibufferMainReturns
  BY <1>8 DEF Gtk!MinibufferMain, Gtk!MinibufferMainReturns
<1>9. CASE Gtk!MinibufferExit \/ Gtk!Exit
  BY <1>9 DEF Gtk!MinibufferExit, Gtk!screenVars, Gtk!Exit
<1>11. CASE Gtk!Draw
  BY <1>11 DEF Gtk!Draw, Gtk!TextviewDraw, Gtk!TextOut
<1>12. CASE Gtk!UpdateDisplay \/ Gtk!QueueDraw \/ Gtk!MinibufferInvalidate
  BY <1>12 DEF Gtk!UpdateDisplay, Gtk!resting, Gtk!QueueDraw, Gtk!MinibufferInvalidate
<1>14. CASE Gtk!GetClipboardText \/ Gtk!PumpEnds
  BY <1>14 DEF Gtk!GetClipboardText, Gtk!PumpEnds, Gtk!gtkVars, Gtk!screenVars
<1>15. CASE (Gtk!FeralStep \/ Gtk!ToParent(<<"invalidate">>)) /\ UNCHANGED Gtk!gtkVars
  BY <1>15 DEF Gtk!gtkVars, Gtk!screenVars
<1>16. CASE (Gtk!FeralEdit \/ Gtk!EditBuffer) /\ UNCHANGED <<Gtk!resting, queued>>
  BY <1>16 DEF Gtk!resting
<1> QED
  BY <1>4, <1>5, <1>7, <1>8, <1>9, <1>11, <1>12, <1>14, <1>15, <1>16 DEF Gtk!GtkNext, Gtk!GtkStep

\* Every step leaves the document in GTK's text view.
LEMMA DocumentStep ==
  ASSUME Base, Questions, Document, [Next]_vars
  PROVE  Document'
<1> SUFFICES ASSUME toolkit' = "gtk", upset' \cap {"nested", "failed"} = {}
             PROVE  parent' = "edit" /\ view' = "edit"
  BY DEF Document
<1>1. Base' /\ Shape /\ Summary
  BY QuestionsStep, BaseStep
<1>2. toolkit = "gtk"
  BY <1>1 DEF Summary
<1>3. upset \cap {"nested", "failed"} = {} /\ parent' \in {parent, "edit"}
  BY <1>1, <1>2, ParentIs
<1>4. parent = "edit" /\ view = "edit" /\ buffer \in {"edit", "mini"}
  BY <1>2, <1>3 DEF Document, Base, Types
<1> QED
  BY <1>2, <1>3, <1>4, ViewIs

\* GTK's text view shows the document also while a question is open (gtkui.c, draw handler
\* of the text view; gtkui-minibuffer.feline).
THEOREM TheDocumentIsShown == Spec => []ViewShowsTheDocument
<1>1. Init => Base /\ Questions /\ Document
  BY BaseStart, QuestionsStart DEF Init, FeralInit, Document
<1>2. Base /\ Questions /\ Document /\ [Next]_vars => (Base /\ Questions /\ Document)'
  BY QuestionsStep, DocumentStep
<1>3. Document => ViewShowsTheDocument
  BY DEF Document, ViewShowsTheDocument
<1> QED
  BY <1>1, <1>2, <1>3, PTL DEF Spec

----------------------------------------------------------------------------
(***************************************************************************)
(* The focus and the current buffer are those of the open question.         *)
(***************************************************************************)

\* What the step of a handler leaves of the open question.
LEMMA RewritesAbove ==
  ASSUME Types, NEW w, NEW ws, NEW g, Rewrites(w, ws, g), NEW m \in Minis, Asking(m)
  PROVE  /\ Len(calls) > m /\ w \in Answering /\ Next1(Len(calls)) = w
         /\ Len(calls) \in DOMAIN calls /\ Top = calls[Len(calls)] /\ Top.fn = "handler"
         /\ Range(Top.todo) \subseteq Answering
         /\ Minis' = Minis /\ \A k \in Minis : calls'[k] = calls[k]
<1> DEFINE n == Len(calls)
<1>1. /\ n \in DOMAIN calls /\ calls'[n] = g /\ Top = calls[n] /\ w \in Range(Top.todo)
      /\ Top.fn \in {"handler", "catch"} /\ g.fn = Top.fn /\ Nth(Top.todo, 1) = w
      /\ \A i \in DOMAIN calls' : Kept(i) \/ i = n
      /\ \A i \in DOMAIN calls : i \in DOMAIN calls'
  BY DEF Rewrites, Here
<1>2. DOMAIN calls = 1..n /\ n \in Nat
  BY LenProperties DEF Types
<1> HIDE DEF n
<1>3. m \in DOMAIN calls /\ m # n
  BY <1>1 DEF Minis
<1>4. n > m
  BY <1>2, <1>3
<1>5. Top.fn \in {"handler", "pump"} /\ Range(Top.todo) \subseteq Answering
  BY <1>1, <1>4 DEF Asking
<1>6. \A k \in Minis : k # n
  BY <1>1 DEF Minis
<1>7. \A k \in Minis : calls'[k] = calls[k] /\ k \in Minis'
  BY <1>1, <1>6 DEF Minis, Kept
<1>8. \A k \in Minis' : k \in Minis
  BY <1>1 DEF Minis, Kept
<1> QED
  BY <1>1, <1>4, <1>5, <1>7, <1>8 DEF n, Next1

\* Above an open question only what answers it is put on top.
LEMMA PushesAbove ==
  ASSUME Types, NEW w, NEW f, Pushes(w, f), f.fn # "mini", NEW m \in Minis, Asking(m)
  PROVE  /\ Len(calls) > m /\ w \in Answering /\ Next1(Len(calls)) = w
         /\ Len(calls) \in DOMAIN calls /\ Top = calls[Len(calls)]
         /\ Range(Top.todo) \subseteq Answering
         /\ Minis' = Minis /\ \A k \in Minis : calls'[k] = calls[k]
<1> DEFINE n == Len(calls)
           h == calls'[n]
<1>1. /\ n \in DOMAIN calls /\ Top = calls[n] /\ calls'[n + 1] = f /\ Nth(Top.todo, 1) = w
      /\ Top.fn \in {"handler", "catch"} /\ h.fn = Top.fn /\ w \in Range(Top.todo)
      /\ \A i \in DOMAIN calls' : Kept(i) \/ i = n \/ i = n + 1
      /\ \A i \in DOMAIN calls : i \in DOMAIN calls' /\ i < n + 1
  BY DEF Pushes, Here
<1>2. DOMAIN calls = 1..n /\ n \in Nat
  BY LenProperties DEF Types
<1> HIDE DEF n
<1>3. m \in DOMAIN calls /\ m # n
  BY <1>1 DEF Minis
<1>4. n > m
  BY <1>2, <1>3
<1>5. Range(Top.todo) \subseteq Answering
  BY <1>1, <1>4 DEF Asking
<1>6. \A k \in Minis : k # n /\ k \in DOMAIN calls
  BY <1>1 DEF Minis
<1>7. \A k \in DOMAIN calls : k # n + 1
  BY <1>2
<1>8. \A k \in Minis : calls'[k] = calls[k] /\ k \in Minis'
  BY <1>1, <1>6, <1>7 DEF Minis, Kept
<1>9. \A k \in Minis' : k \in Minis
  BY <1>1 DEF Minis, Kept, h
<1> QED
  BY <1>1, <1>4, <1>5, <1>8, <1>9 DEF n, Next1

\* A loop that calls a handler has nothing to do itself.
LEMMA CallsAbove ==
  ASSUME Types, NEW ws, Calls(ws)
  PROVE  /\ Next1(Len(calls)) = "end" /\ Minis' = Minis
         /\ \A i \in DOMAIN calls : i \in DOMAIN calls' /\ calls'[i] = calls[i]
<1> DEFINE n == Len(calls)
<1>1. /\ calls'[n + 1].fn = "handler" /\ Nth(calls[n].todo, 1) = "end"
      /\ \A i \in DOMAIN calls' : Kept(i) \/ i = n + 1
      /\ \A i \in DOMAIN calls : i \in DOMAIN calls'
  BY DEF Calls
<1>2. DOMAIN calls = 1..n /\ n \in Nat
  BY LenProperties DEF Types
<1> HIDE DEF n
<1>3. \A k \in DOMAIN calls : k # n + 1
  BY <1>2
<1> QED
  BY <1>1, <1>3 DEF Minis, Kept, n, Next1

\* A frame that is done is not waited for by a question's loop.
LEMMA PopsAbove ==
  ASSUME Types, Pops, Top.fn # "mini"
  PROVE  /\ Next1(Len(calls)) = "end" /\ Minis' = Minis
         /\ \A i \in DOMAIN calls' : Kept(i)
         /\ \A i \in DOMAIN calls : i \in DOMAIN calls' \/ i = Len(calls)
BY DEF Pops, Minis, Kept, Next1

----

\* Whether a question's loop was told to end changes only with the lists of loops and the
\* two flags.
LEMMA ToldKeeps ==
  ASSUME Types, Minis' = Minis, \A k \in Minis : calls'[k] = calls[k], toolkit' = toolkit,
         UNCHANGED <<loops, minibuffer_exit, quit>>
  PROVE  Told' <=> Told
BY DEF Told

\* The m-th frame is the loop of a question that is current, or has been left.
Current(m) ==
  \/ buffer = "mini" \/ Told
  \/ \E i \in DOMAIN calls : i > m /\ Leaving(i)
  \/ Next1(Len(calls)) = "cancel" /\ text = Line(prompt)

\* The i-th frame, a key above the loop m, restores the minibuffer.
Restores(m, i) ==
  i > m /\ "restore" \in Range(calls[i].todo) => Next1(i) = "assert" \/ calls[i].saved = "mini"

\* The mishaps that FocusFollowsQuestion excepts.
Upright == upset \cap {"nested", "clicked", "failed", "activated"} = {}

\* Focused, loop by loop and frame by frame.
LEMMA FocusedIs ==
  Focused <=>
    (phase \in {"start", "run"} /\ frame = "shown" /\ Upright =>
       /\ Minis = {} => focus = "textview"
       /\ \A m \in Minis : Current(m) /\ \A i \in DOMAIN calls : Restores(m, i))
BY DEF Focused, Current, Restores, Upright

\* The open question stays current while a word gives way to others,
LEMMA CurrentSays ==
  ASSUME Types, LoopsListed, toolkit' = toolkit, SaysNow, Upright', NEW m \in Minis, Asking(m),
         Current(m), \A i \in DOMAIN calls : Restores(m, i)
  PROVE  Current(m)' /\ \A i \in DOMAIN calls' : Restores(m, i)'
<1>1. PICK w, ws, g : Rewrites(w, ws, g) /\ Changes(w, ws, g)
  BY DEF SaysNow
<1> DEFINE n == Len(calls)
<1>2. /\ n > m /\ w \in Answering /\ Next1(n) = w /\ n \in DOMAIN calls /\ Top = calls[n]
      /\ Minis' = Minis /\ \A k \in Minis : calls'[k] = calls[k]
  BY <1>1, RewritesAbove
<1>3. /\ n \in DOMAIN calls' /\ Len(calls') = n /\ calls'[n] = g
      /\ Nth(g.todo, 1) = IF ws = <<>> THEN Nth(Top.todo, 2) ELSE ws[1]
      /\ Nth(g.todo, 2) = IF ws = <<>> THEN Nth(Top.todo, 3)
                          ELSE IF Len(ws) = 1 THEN Nth(Top.todo, 2) ELSE ws[2]
      /\ Admits(w, ws)
      /\ Range(g.todo) \subseteq Range(ws) \cup Range(Top.todo)
      /\ \A i \in DOMAIN calls' : Kept(i) \/ i = n
      /\ \A i \in DOMAIN calls : i \in DOMAIN calls'
  BY <1>1 DEF Rewrites, Here
<1> HIDE DEF n
<1>4. w \in {"clear", "to_parent", "cancel", "assert", "insert", "accept", "restore"} /\ ws # AskWords
  <2>1. w # "do_quit"
    BY <1>1 DEF Changes, Open, Minis, Upright
  <2>2. w \in Feral
    BY <1>1 DEF Changes
  <2>3. ws = AskWords => w = "do_quit"
    BY <1>3 DEF Admits, AskWords
  <2> QED
    BY <1>2, <2>1, <2>2, <2>3 DEF Feral, Answering
<1>5. UNCHANGED <<loops, minibuffer_exit, quit>>
  BY DEF SaysNow, control
<1>6. \A i \in DOMAIN calls' : Restores(m, i)'
  <2>1. "restore" \notin Range(ws)
    BY <1>3, <1>4 DEF Admits, Range
  <2>2. "restore" \in Range(g.todo) => g.saved = "mini"
    <3> SUFFICES ASSUME "restore" \in Range(g.todo) PROVE g.saved = "mini"
      OBVIOUS
    <3>1. "restore" \in Range(Top.todo)
      BY <1>3, <2>1
    <3>2. w = "assert" \/ Top.saved = "mini"
      BY <1>2, <3>1 DEF Restores
    <3> QED
      BY <1>1, <1>4, <3>2 DEF Changes
  <2>3. \A i \in DOMAIN calls' : Kept(i) => Restores(m, i)'
    BY DEF Restores, Kept, Next1
  <2> QED
    BY <1>3, <2>2, <2>3 DEF Restores
<1>7. Current(m)'
  <2>1. CASE buffer = "mini"
    <3>1. CASE w = "restore"
      <4>1. "restore" \in Range(Top.todo)
        BY <1>1, <3>1 DEF Rewrites, Here
      <4>2. Top.saved = "mini"
        BY <1>2, <3>1, <4>1 DEF Restores
      <4> QED
        BY <1>1, <3>1, <4>2 DEF Changes, Current
    <3>2. CASE w = "to_parent"
      <4>1. ws \in {<<"cancel">>, <<"cancel", "invalidate">>}
        BY <1>1, <2>1, <3>2 DEF Changes
      <4>2. Nth(g.todo, 1) = "cancel"
        <5>1. ws # <<>> /\ ws[1] = "cancel"
          BY <4>1
        <5> QED
          BY <1>3, <5>1
      <4>3. text' = text /\ prompt' = prompt /\ text = Line(prompt)
        BY <1>1, <2>1, <3>2 DEF Changes, Upright
      <4>4. text' = Line(prompt')
        BY <4>3
      <4> QED
        BY <1>3, <4>2, <4>4 DEF Current, Next1
    <3>3. CASE w \notin {"restore", "to_parent"}
      BY <1>1, <1>4, <2>1, <3>3 DEF Changes, Current
    <3> QED
      BY <3>1, <3>2, <3>3
  <2>2. CASE Told
    BY <1>2, <1>5, <2>2, ToldKeeps DEF Current
  <2>3. ASSUME NEW i \in DOMAIN calls, i > m, Leaving(i)
        PROVE  Current(m)'
    <3>1. i # n
      BY <1>2, <1>4, <2>3 DEF Leaving
    <3>2. calls'[i] = calls[i] /\ i \in DOMAIN calls'
      BY <1>3, <3>1 DEF Kept
    <3> QED
      BY <2>3, <3>2 DEF Current, Leaving, Next1, Next2
  <2>4. CASE Next1(n) = "cancel" /\ text = Line(prompt)
    <3>1. ws \in {<<"leave">>, <<"invalidate", "leave">>}
      BY <1>1, <1>2, <2>4 DEF Changes
    <3>2. Nth(g.todo, 1) = "leave" \/ (Nth(g.todo, 1) = "invalidate" /\ Nth(g.todo, 2) = "leave")
      BY <1>3, <3>1
    <3> QED
      BY <1>2, <1>3, <3>2 DEF Current, Leaving, Next1, Next2
  <2> QED
    BY <2>1, <2>2, <2>3, <2>4 DEF Current, n
<1> QED
  BY <1>6, <1>7

\* while something is shown or a loop told to end,
LEMMA CurrentPasses ==
  ASSUME Types, LoopsListed, loops \in Seq(BOOLEAN), toolkit' = toolkit, PassesNow,
         NEW m \in Minis, Asking(m), Current(m), \A i \in DOMAIN calls : Restores(m, i)
  PROVE  Current(m)' /\ \A i \in DOMAIN calls' : Restores(m, i)'
<1>1. PICK w \in Quiet : \E g :
        /\ Rewrites(w, <<>>, g) /\ g.ask = Top.ask /\ g.saved = Top.saved
        /\ w = "exit" => Destroys
        /\ w = "leave" => TellsToQuit
        /\ w \notin {"exit", "leave"} => UNCHANGED control
  BY DEF PassesNow
<1>2. PICK g : Rewrites(w, <<>>, g) /\ g.saved = Top.saved
  BY <1>1
<1> DEFINE n == Len(calls)
<1>3. /\ n > m /\ w \in Answering /\ Next1(n) = w /\ n \in DOMAIN calls /\ Top = calls[n]
      /\ Minis' = Minis /\ \A k \in Minis : calls'[k] = calls[k]
  BY <1>2, RewritesAbove
<1>4. /\ n \in DOMAIN calls' /\ Len(calls') = n /\ calls'[n] = g
      /\ Nth(g.todo, 1) = Nth(Top.todo, 2)
      /\ Range(g.todo) \subseteq Range(<<>>) \cup Range(Top.todo)
      /\ \A i \in DOMAIN calls' : Kept(i) \/ i = n
      /\ \A i \in DOMAIN calls : i \in DOMAIN calls'
  BY <1>2 DEF Rewrites, Here
<1> HIDE DEF n
<1>5. w \in {"update", "redraw_mini", "repaint", "invalidate", "leave"}
  BY <1>3 DEF Quiet, Answering
<1>6. buffer' = buffer
  BY DEF PassesNow, askVars
<1>7. ASSUME w = "leave" PROVE Current(m)'
  <2>1. TellsToQuit
    BY <1>1, <1>7
  <2>2. Told'
    <3>1. CASE toolkit = "gtk"
      <4>1. calls[m].loop = Len(loops) /\ calls[m].loop \in DOMAIN loops
        BY <3>1 DEF Asking, LoopsListed, Minis
      <4>2. Gtk!MainQuit /\ loops # <<>>
        BY <2>1, <3>1, <4>1 DEF TellsToQuit
      <4>3. loops'[Len(loops)]
        BY <4>2, MainQuitIs
      <4> QED
        BY <1>3, <3>1, <4>1, <4>3 DEF Told
    <3>2. CASE toolkit # "gtk"
      BY <2>1, <3>2 DEF TellsToQuit, Told
    <3> QED
      BY <3>1, <3>2
  <2> QED
    BY <2>2 DEF Current
<1>8. ASSUME w # "leave" PROVE Current(m)'
  <2>1. UNCHANGED <<loops, minibuffer_exit, quit>>
    BY <1>1, <1>5, <1>8 DEF control
  <2>2. CASE Told
    BY <1>3, <2>1, <2>2, ToldKeeps DEF Current
  <2>3. ASSUME NEW i \in DOMAIN calls, i > m, Leaving(i)
        PROVE  Current(m)'
    <3>1. CASE i # n
      <4>1. calls'[i] = calls[i] /\ i \in DOMAIN calls'
        BY <1>4, <3>1 DEF Kept
      <4> QED
        BY <2>3, <4>1 DEF Current, Leaving, Next1, Next2
    <3>2. CASE i = n
      <4>1. Nth(Top.todo, 2) = "leave"
        BY <1>3, <1>8, <2>3, <3>2 DEF Leaving, Next2
      <4> QED
        BY <1>3, <1>4, <4>1 DEF Current, Leaving, Next1
    <3> QED
      BY <3>1, <3>2
  <2>4. Next1(n) # "cancel"
    BY <1>3, <1>5
  <2> QED
    BY <1>6, <2>2, <2>3, <2>4 DEF Current, n
<1>9. \A i \in DOMAIN calls' : Restores(m, i)'
  <2>1. "restore" \in Range(g.todo) => g.saved = "mini"
    <3>1. Range(<<>>) = {}
      BY DEF Range
    <3> QED
      BY <1>2, <1>3, <1>4, <1>5, <3>1 DEF Restores
  <2>2. \A i \in DOMAIN calls' : Kept(i) => Restores(m, i)'
    BY DEF Restores, Kept, Next1
  <2> QED
    BY <1>4, <2>1, <2>2 DEF Restores
<1> QED
  BY <1>7, <1>8, <1>9

\* while GTK's loop runs in the middle of a handler,
LEMMA CurrentPumps ==
  ASSUME Types, toolkit' = toolkit, PumpsNow,
         NEW m \in Minis, Asking(m), Current(m), \A i \in DOMAIN calls : Restores(m, i)
  PROVE  Current(m)' /\ \A i \in DOMAIN calls' : Restores(m, i)'
<1>1. PICK w \in {"invalidate", "clipboard"} : Pushes(w, Loop("pump", 0))
  BY DEF PumpsNow
<1> DEFINE n == Len(calls)
           h == calls'[n]
<1>2. Loop("pump", 0).fn # "mini" /\ Range(Loop("pump", 0).todo) = {}
  BY DEF Loop, Range
<1>3. /\ n > m /\ w \in Answering /\ Next1(n) = w /\ n \in DOMAIN calls /\ Top = calls[n]
      /\ Minis' = Minis /\ \A k \in Minis : calls'[k] = calls[k]
  BY <1>1, <1>2, PushesAbove
<1>4. /\ calls'[n + 1] = Loop("pump", 0) /\ Nth(h.todo, 1) = Nth(Top.todo, 2)
      /\ Range(h.todo) \subseteq Range(Top.todo) /\ h.saved = Top.saved
      /\ \A i \in DOMAIN calls' : Kept(i) \/ i = n \/ i = n + 1
      /\ \A i \in DOMAIN calls : i \in DOMAIN calls' /\ i < n + 1
  BY <1>1 DEF Pushes, Here
<1>5. DOMAIN calls = 1..n /\ n \in Nat
  BY LenProperties DEF Types
<1>6. \A i \in DOMAIN calls : i # n + 1
  BY <1>5
<1>7. w = "invalidate"
  BY <1>3 DEF Answering
<1>8. UNCHANGED <<loops, minibuffer_exit, quit>> /\ buffer' = buffer
  BY DEF PumpsNow, control, feral, askVars
<1> HIDE DEF n
<1>9. Current(m)'
  <2>2. CASE Told
    BY <1>3, <1>8, <2>2, ToldKeeps DEF Current
  <2>3. ASSUME NEW i \in DOMAIN calls, i > m, Leaving(i)
        PROVE  Current(m)'
    <3>1. CASE i # n
      <4>1. calls'[i] = calls[i] /\ i \in DOMAIN calls'
        BY <1>4, <1>6, <3>1 DEF Kept
      <4> QED
        BY <2>3, <4>1 DEF Current, Leaving, Next1, Next2
    <3>2. CASE i = n
      <4>1. Nth(Top.todo, 2) = "leave" /\ n \in DOMAIN calls'
        BY <1>3, <1>4, <1>7, <2>3, <3>2 DEF Leaving, Next2
      <4> QED
        BY <1>3, <1>4, <4>1 DEF Current, Leaving, Next1, h
    <3> QED
      BY <3>1, <3>2
  <2>4. Next1(n) # "cancel"
    BY <1>3, <1>7
  <2> QED
    BY <1>8, <2>2, <2>3, <2>4 DEF Current, n
<1>10. \A i \in DOMAIN calls' : Restores(m, i)'
  <2>1. "restore" \in Range(h.todo) => h.saved = "mini"
    BY <1>3, <1>4, <1>7 DEF Restores
  <2>2. \A i \in DOMAIN calls' : Kept(i) => Restores(m, i)'
    BY DEF Restores, Kept, Next1
  <2> QED
    BY <1>2, <1>4, <2>1, <2>2 DEF Restores, h
<1> QED
  BY <1>9, <1>10

\* and when an event is taken or a handler done.
LEMMA CurrentCalls ==
  ASSUME Types, toolkit' = toolkit, CallsNow \/ (ReturnsNow /\ Top.fn # "mini"),
         NEW m \in Minis, Current(m), \A i \in DOMAIN calls : Restores(m, i)
  PROVE  m \in Minis' /\ Current(m)' /\ \A i \in DOMAIN calls' : Restores(m, i)'
<1> DEFINE Goal == m \in Minis' /\ Current(m)' /\ \A i \in DOMAIN calls' : Restores(m, i)'
<1>1. ASSUME Next1(Len(calls)) = "end", Minis' = Minis,
             UNCHANGED <<loops, minibuffer_exit, quit, buffer>>,
             \A i \in DOMAIN calls : (i \in DOMAIN calls' /\ calls'[i] = calls[i]) \/ i = Len(calls),
             \A k \in Minis : calls'[k] = calls[k],
             \A i \in DOMAIN calls' : Kept(i) \/ Restores(m, i)'
      PROVE  Goal
  <2>1. ASSUME Told PROVE Current(m)'
    BY <1>1, <2>1, ToldKeeps DEF Current
  <2>2. ASSUME NEW i \in DOMAIN calls, i > m, Leaving(i)
        PROVE  Current(m)'
    <3>1. i # Len(calls)
      BY <1>1, <2>2 DEF Leaving
    <3>2. i \in DOMAIN calls' /\ calls'[i] = calls[i]
      BY <1>1, <3>1
    <3> QED
      BY <2>2, <3>2 DEF Current, Leaving, Next1, Next2
  <2>3. Current(m)'
    BY <1>1, <2>1, <2>2 DEF Current
  <2>4. \A i \in DOMAIN calls' : Restores(m, i)'
    BY <1>1 DEF Restores, Kept, Next1
  <2> QED
    BY <1>1, <2>3, <2>4
<1>2. CASE CallsNow
  <2>1. PICK ws : Calls(ws) /\ Handles(ws)
    BY <1>2 DEF CallsNow
  <2>2. /\ Next1(Len(calls)) = "end" /\ Minis' = Minis
        /\ \A i \in DOMAIN calls : i \in DOMAIN calls' /\ calls'[i] = calls[i]
    BY <2>1, CallsAbove
  <2>3. UNCHANGED <<loops, minibuffer_exit, quit, buffer>>
    BY <2>1 DEF Calls, control, askVars
  <2>4. \A i \in DOMAIN calls' : Kept(i) \/ Restores(m, i)'
    BY <2>1 DEF Calls, Handles, Restores, Next1
  <2>5. \A k \in Minis : calls'[k] = calls[k]
    BY <2>2 DEF Minis
  <2> QED
    BY <1>1, <2>2, <2>3, <2>4, <2>5
<1>3. CASE ReturnsNow /\ Top.fn # "mini"
  <2>1. Pops /\ UNCHANGED control /\ UNCHANGED feral
    BY <1>3 DEF ReturnsNow, Concludes
  <2>2. /\ Next1(Len(calls)) = "end" /\ Minis' = Minis
        /\ \A i \in DOMAIN calls' : Kept(i)
        /\ \A i \in DOMAIN calls : i \in DOMAIN calls' \/ i = Len(calls)
    BY <1>3, <2>1, PopsAbove
  <2>3. UNCHANGED <<loops, minibuffer_exit, quit, buffer>>
    BY <2>1 DEF control, feral, askVars
  <2>4. \A k \in Minis : calls'[k] = calls[k]
    BY <2>2 DEF Minis, Kept
  <2>5. \A i \in DOMAIN calls : (i \in DOMAIN calls' /\ calls'[i] = calls[i]) \/ i = Len(calls)
    BY <2>2 DEF Kept
  <2> QED
    BY <1>1, <2>2, <2>3, <2>4, <2>5
<1> QED
  BY <1>2, <1>3

\* What Focused says while the window is shown and nothing has gone wrong.
FocusedNow ==
  /\ Minis = {} => focus = "textview"
  /\ \A m \in Minis : Current(m) /\ \A i \in DOMAIN calls : Restores(m, i)

\* Every step keeps Focused.
LEMMA FocusedStep ==
  ASSUME Base, Questions, Focused, [Next]_vars
  PROVE  Focused'
<1>1. Questions' /\ Base' /\ Shape /\ Summary
  BY QuestionsStep, BaseStep
<1>2. /\ Types /\ Types' /\ Grammar /\ Grammar' /\ loops \in Seq(BOOLEAN) /\ LoopsListed
      /\ toolkit' = toolkit
  BY <1>1 DEF Base, Listed, Summary
<1>3. /\ phase = "run" <=> calls # <<>>
      /\ phase' = "run" <=> calls' # <<>>
  BY <1>2 DEF Grammar
<1> DEFINE Goal == FocusedNow'
<1> SUFFICES ASSUME phase' \in {"start", "run"}, frame' = "shown", Upright'
             PROVE  Goal
  BY FocusedIs DEF FocusedNow, Focused, Current, Restores, Upright
<1>4. ASSUME upset \subseteq upset', phase \in {"start", "run"}, frame = "shown"
      PROVE  FocusedNow /\ \A m \in Minis : Asking(m)
  BY <1>4, FocusedIs, OneQuestionIs DEF FocusedNow, Upright, Questions
<1>5. CASE SaysNow
  <2>1. PICK w, ws, g : Rewrites(w, ws, g)
    BY <1>5 DEF SaysNow
  <2>2. phase = "run" /\ frame = "shown" /\ upset \subseteq upset' /\ focus' = focus
    BY <1>5, <2>1 DEF SaysNow, Rewrites, Here, control
  <2>3. FocusedNow /\ \A m \in Minis : Asking(m)
    BY <1>4, <2>2
  <2>4. CASE Minis = {}
    <3>1. Minis' = {}
      BY <2>1, <2>4 DEF Rewrites, Here, Minis, Kept
    <3> QED
      BY <2>2, <2>3, <2>4, <3>1 DEF FocusedNow
  <2>5. CASE Minis # {}
    <3>1. Minis' = Minis
      BY <1>2, <2>1, <2>3, <2>5, RewritesAbove
    <3>2. \A m \in Minis : Current(m)' /\ \A i \in DOMAIN calls' : Restores(m, i)'
      BY <1>2, <1>5, <2>3, CurrentSays DEF FocusedNow
    <3> QED
      BY <2>5, <3>1, <3>2 DEF FocusedNow
  <2> QED
    BY <2>4, <2>5
<1>6. CASE PassesNow
  <2>1. PICK w \in Quiet : \E g :
          /\ Rewrites(w, <<>>, g) /\ g.ask = Top.ask /\ g.saved = Top.saved
          /\ w = "exit" => Destroys
          /\ w = "leave" => TellsToQuit
          /\ w \notin {"exit", "leave"} => UNCHANGED control
    BY <1>6 DEF PassesNow
  <2>2. PICK g : Rewrites(w, <<>>, g)
    BY <2>1
  <2>3. frame = "shown" /\ focus' = focus
    <3>1. w # "exit"
      BY <2>1 DEF Destroys
    <3> QED
      BY <2>1, <3>1 DEF TellsToQuit, control
  <2>4. phase = "run" /\ upset \subseteq upset'
    BY <1>6, <2>2 DEF PassesNow, Rewrites, Here
  <2>5. FocusedNow /\ \A m \in Minis : Asking(m)
    BY <1>4, <2>3, <2>4
  <2>6. CASE Minis = {}
    <3>1. Minis' = {}
      BY <2>2, <2>6 DEF Rewrites, Here, Minis, Kept
    <3> QED
      BY <2>3, <2>5, <2>6, <3>1 DEF FocusedNow
  <2>7. CASE Minis # {}
    <3>1. Minis' = Minis
      BY <1>2, <2>2, <2>5, <2>7, RewritesAbove
    <3>2. \A m \in Minis : Current(m)' /\ \A i \in DOMAIN calls' : Restores(m, i)'
      BY <1>2, <1>6, <2>5, CurrentPasses DEF FocusedNow
    <3> QED
      BY <2>7, <3>1, <3>2 DEF FocusedNow
  <2> QED
    BY <2>6, <2>7
<1>7. CASE PumpsNow
  <2>1. PICK w : Pushes(w, Loop("pump", 0))
    BY <1>7 DEF PumpsNow
  <2>2. Loop("pump", 0).fn # "mini"
    BY DEF Loop
  <2>3. phase = "run" /\ frame = "shown" /\ upset \subseteq upset' /\ focus' = focus
    BY <1>7, <2>1 DEF PumpsNow, Pushes, Here, control, feral
  <2>4. FocusedNow /\ \A m \in Minis : Asking(m)
    BY <1>4, <2>3
  <2>5. CASE Minis = {}
    <3>1. Minis' = {}
      BY <2>1, <2>2, <2>5 DEF Pushes, Here, Minis, Kept
    <3> QED
      BY <2>3, <2>4, <2>5, <3>1 DEF FocusedNow
  <2>6. CASE Minis # {}
    <3>1. Minis' = Minis
      BY <1>2, <2>1, <2>2, <2>4, <2>6, PushesAbove
    <3>2. \A m \in Minis : Current(m)' /\ \A i \in DOMAIN calls' : Restores(m, i)'
      BY <1>2, <1>7, <2>4, CurrentPumps DEF FocusedNow
    <3> QED
      BY <2>6, <3>1, <3>2 DEF FocusedNow
  <2> QED
    BY <2>5, <2>6
<1>8. CASE CallsNow \/ (ReturnsNow /\ Top.fn # "mini")
  <2>1. /\ phase = "run" /\ frame = "shown" /\ upset \subseteq upset' /\ focus' = focus
        /\ Minis' = Minis
    <3>1. CASE CallsNow
      BY <1>2, <3>1, CallsAbove DEF CallsNow, Calls, control
    <3>2. CASE ReturnsNow /\ Top.fn # "mini"
      BY <1>2, <3>2, PopsAbove DEF ReturnsNow, Pops, Concludes, control, feral
    <3> QED
      BY <1>8, <3>1, <3>2
  <2>2. FocusedNow
    BY <1>4, <2>1
  <2>3. \A m \in Minis : Current(m)' /\ \A i \in DOMAIN calls' : Restores(m, i)'
    BY <1>2, <1>8, <2>2, CurrentCalls DEF FocusedNow
  <2> QED
    BY <2>1, <2>2, <2>3 DEF FocusedNow
<1>9. CASE CommandsNow \/ AsksNow \/ FallsNow \/ (ReturnsNow /\ Top.fn = "mini")
  <2>1. /\ phase = "run" /\ frame = "shown" /\ upset \subseteq upset'
    BY <1>9 DEF CommandsNow, AsksNow, AsksIn, FallsNow, ReturnsNow, Concludes, feral, control,
       Pushes, Falls, Pops, Here
  <2>2. FocusedNow /\ \A m \in Minis : Asking(m)
    BY <1>4, <2>1
  <2>3. \A m \in Minis' : AsksNow /\ m = Len(calls) + 1 /\ Minis = {}
    BY <1>1, <1>2, <1>9, <2>2, NoneOpen
  <2>4. CASE AsksNow
    <3> DEFINE n == Len(calls) + 1
    <3>1. PICK k \in Nat : Pushes("main", Loop("mini", k)) /\ AsksIn(k)
      BY <2>4 DEF AsksNow
    <3>2. /\ n \in DOMAIN calls' /\ calls'[n].fn = "mini"
          /\ Next1(Len(calls)) = "main" /\ calls # <<>> /\ Len(calls') = n
      BY <3>1 DEF Pushes, Here, Loop, Next1
    <3>3. n \in Minis'
      BY <3>2 DEF Minis
    <3>4. buffer' = "mini"
      BY <3>1, <3>2 DEF Questions, MiniIsCurrent, AsksIn, feral, askVars
    <3>5. \A i \in DOMAIN calls' : ~(i > n)
      <4>1. DOMAIN calls' = 1..n /\ n \in Nat
        BY <1>2, <3>2, LenProperties DEF Types
      <4> QED
        BY <4>1
    <3> HIDE DEF n
    <3>6. \A m \in Minis' : m = n
      BY <2>3 DEF n
    <3> QED
      BY <3>3, <3>4, <3>5, <3>6 DEF FocusedNow, Current, Restores
  <2>5. CASE ~AsksNow
    <3>1. Minis' = {}
      BY <2>3, <2>5
    <3>2. focus' = "textview"
      <4>1. CASE CommandsNow
        <5>1. PICK k, f : Pushes(k, f) /\ f.fn = "catch"
          BY <4>1 DEF CommandsNow
        <5>2. Minis = {}
          <6>1. \A i \in DOMAIN calls : i \in DOMAIN calls'
            BY <5>1 DEF Pushes
          <6>2. Alike
            BY <1>1, <1>2, <5>1, FramesAlike DEF Pushes, Here
          <6> QED
            BY <3>1, <6>1, <6>2 DEF Minis, Alike
        <5> QED
          BY <2>2, <4>1, <5>2 DEF FocusedNow, CommandsNow, control
      <4>2. CASE FallsNow
        <5>1. PICK at : Falls(at)
          BY <4>2 DEF FallsNow
        <5>2. \A i \in DOMAIN calls : i > at => calls[i].fn # "mini"
          BY <5>1 DEF Falls, Upright
        <5>3. \A i \in DOMAIN calls : i > at \/ i \in DOMAIN calls'
          <6>1. DOMAIN calls = 1..Len(calls) /\ Len(calls) \in Nat
                /\ DOMAIN calls' = 1..Len(calls') /\ Len(calls') = at /\ at \in DOMAIN calls
            BY <1>2, <5>1, LenProperties DEF Falls, Types
          <6> QED
            BY <6>1
        <5>4. calls # <<>> /\ calls' # <<>>
          BY <5>1 DEF Falls
        <5>5. Alike
          BY <1>1, <1>2, <5>4, FramesAlike
        <5>6. Minis = {}
          BY <3>1, <5>2, <5>3, <5>5 DEF Minis, Alike
        <5> QED
          BY <2>2, <4>2, <5>6 DEF FocusedNow, FallsNow, control
      <4>3. CASE ReturnsNow /\ Top.fn = "mini"
        BY <2>1, <4>3 DEF ReturnsNow, Concludes
      <4> QED
        BY <1>9, <2>5, <4>1, <4>2, <4>3
    <3> QED
      BY <3>1, <3>2 DEF FocusedNow
  <2> QED
    BY <2>4, <2>5
<1>10. CASE StaysNow
  <2>1. calls' = calls /\ phase' = phase /\ buffer' = buffer /\ text' = text /\ prompt' = prompt
    BY <1>10 DEF StaysNow, askVars
  <2>2. Minis' = Minis
    BY <2>1 DEF Minis
  <2>3. CASE Prepares
    <3>1. Minis' = {}
      BY <1>3, <2>1, <2>2, <2>3 DEF Prepares, Minis
    <3>2. focus' = "textview"
      BY <2>3 DEF Prepares
    <3> QED
      BY <3>1, <3>2 DEF FocusedNow
  <2>4. CASE Idles
    <3>1. upset \subseteq upset' /\ frame = "shown" /\ focus' = focus /\ loops' = loops
          /\ minibuffer_exit' = minibuffer_exit
      BY <2>4 DEF Idles, feralVars
    <3>2. FocusedNow
      BY <1>4, <2>1, <3>1
    <3>3. CASE Minis = {}
      BY <2>2, <3>1, <3>2, <3>3 DEF FocusedNow
    <3>4. CASE Minis # {}
      <4>1. quit' = quit
        <5> SUFFICES ASSUME quit' # quit PROVE FALSE
          OBVIOUS
        <5>1. phase = "run" /\ Top.fn = "main"
          BY <2>4 DEF Idles, InLoop
        <5>2. Len(calls) \in Nat \ {0} /\ DOMAIN calls = 1..Len(calls) /\ Top = calls[Len(calls)]
          BY <1>2, <1>3, <5>1, TopSeat
        <5>3. Len(calls) \in DOMAIN calls
          BY <5>2
        <5>4. Len(calls) = 1
          BY <1>2, <5>1, <5>2, <5>3 DEF Grammar, Seated, Sits
        <5>5. DOMAIN calls = {1}
          BY <5>2, <5>4
        <5> QED
          BY <3>4, <5>1, <5>2, <5>4, <5>5 DEF Minis
      <4>2. Told' <=> Told
        BY <1>2, <2>1, <2>2, <3>1, <4>1, ToldKeeps
      <4>3. \A m \in Minis : Current(m)' /\ \A i \in DOMAIN calls' : Restores(m, i)'
        BY <2>1, <3>2, <4>2 DEF FocusedNow, Current, Restores, Leaving, Next1, Next2
      <4> QED
        BY <2>2, <3>4, <4>3 DEF FocusedNow
    <3> QED
      BY <3>3, <3>4
  <2>5. CASE Activates
    BY <2>5 DEF Activates, Upright
  <2> QED
    BY <1>10, <2>3, <2>4, <2>5 DEF StaysNow
<1>11. CASE StopsNow
  BY <1>3, <1>11 DEF StopsNow
<1>12. CASE Begins /\ calls = <<>>
  <2>1. calls' = <<Loop("main", 1)>> /\ upset \subseteq upset' /\ focus' = focus /\ frame = "shown"
        /\ phase = "start"
    BY <1>12 DEF Begins
  <2>2. DOMAIN calls' = {1} /\ calls'[1].fn = "main"
    BY <2>1 DEF Loop
  <2>3. Minis' = {} /\ Minis = {}
    BY <1>12, <2>2 DEF Minis
  <2>4. focus = "textview"
    BY <1>4, <2>1, <2>3 DEF FocusedNow
  <2> QED
    BY <2>1, <2>3, <2>4 DEF FocusedNow
<1> QED
  BY <1>1, <1>5, <1>6, <1>7, <1>8, <1>9, <1>10, <1>11, <1>12 DEF Shape

\* A question's loop is on top, and nothing is above it.
LEMMA TopLoop ==
  ASSUME Base, Rests
  PROVE  /\ Len(calls) \in DOMAIN calls /\ Top = calls[Len(calls)] /\ Next1(Len(calls)) = "end"
         /\ \A i \in DOMAIN calls : ~(i > Len(calls))
         /\ Top.fn = "main" => Minis = {}
         /\ calls # <<>>
<1>1. phase = "run" /\ Top.fn \in Loops /\ Types /\ Grammar
  BY DEF Rests, InLoop, Base
<1>2. calls # <<>>
  BY <1>1 DEF Grammar
<1>3. /\ Len(calls) \in Nat \ {0} /\ DOMAIN calls = 1..Len(calls) /\ Len(calls) \in DOMAIN calls
      /\ Top = calls[Len(calls)] /\ Top.todo = <<>>
      /\ Next1(Len(calls)) = Nth(Top.todo, 1)
  BY <1>1, <1>2, TopSeat
<1>4. \A i \in DOMAIN calls : ~(i > Len(calls))
  BY <1>3
<1>5. Next1(Len(calls)) = "end"
  BY <1>3 DEF Nth
<1>6. Top.fn = "main" => Minis = {}
  <2> SUFFICES ASSUME Top.fn = "main" PROVE Minis = {}
    OBVIOUS
  <2>1. Len(calls) = 1
    BY <1>1, <1>3 DEF Grammar, Seated, Sits
  <2>2. DOMAIN calls = {1}
    BY <1>3, <2>1
  <2> QED
    BY <1>3, <2>1, <2>2 DEF Minis
<1> QED
  BY <1>2, <1>3, <1>4, <1>5, <1>6

\* Where the editor waits for the user, Focused is what FocusFollowsQuestion says.
LEMMA FocusIsTheQuestions ==
  ASSUME Base, Questions, Focused
  PROVE  FocusFollowsQuestion
<1> SUFFICES ASSUME Upright
             PROVE  /\ WaitsInMain => buffer = "edit" /\ focus = "textview"
                    /\ WaitsForAnswer => buffer = "mini" /\ focus = "minibuffer"
  BY DEF Upright, FocusFollowsQuestion
<1>1. Rests => FocusedNow /\ \A m \in Minis : Asking(m)
  <2> SUFFICES ASSUME Rests PROVE FocusedNow /\ \A m \in Minis : Asking(m)
    OBVIOUS
  <2>1. phase = "run" /\ frame = "shown"
    BY DEF Rests, InLoop
  <2>2. upset \cap {"nested", "activated"} = {}
    BY DEF Upright
  <2> QED
    BY <2>1, <2>2, FocusedIs, OneQuestionIs DEF FocusedNow, Questions
<1>2. ASSUME WaitsInMain PROVE buffer = "edit" /\ focus = "textview"
  <2>1. Rests /\ Top.fn = "main"
    BY <1>2 DEF WaitsInMain
  <2>2. Minis = {} /\ Next1(Len(calls)) = "end" /\ calls # <<>>
    BY <2>1, TopLoop
  <2>3. buffer # "mini"
    BY <2>2 DEF Questions, Outer, Upright
  <2>4. buffer \in {"edit", "mini"}
    BY DEF Base, Types
  <2> QED
    BY <1>1, <2>1, <2>2, <2>3, <2>4 DEF FocusedNow
<1>3. ASSUME WaitsForAnswer PROVE buffer = "mini" /\ focus = "minibuffer"
  <2>1. Rests /\ Top.fn = "mini" /\ frame = "shown"
    BY <1>3 DEF WaitsForAnswer, Rests
  <2> DEFINE n == Len(calls)
  <2>2. /\ n \in DOMAIN calls /\ Top = calls[n] /\ Next1(n) = "end"
        /\ \A i \in DOMAIN calls : ~(i > n)
    BY <2>1, TopLoop
  <2>3. n \in Nat /\ DOMAIN calls = 1..n
    BY LenProperties DEF Base, Types
  <2> HIDE DEF n
  <2>4. n \in Minis
    BY <2>1, <2>2 DEF Minis
  <2>5. \A m \in Minis : m = n
    <3> SUFFICES ASSUME NEW m \in Minis, m # n PROVE FALSE
      OBVIOUS
    <3>1. n > m
      BY <2>3 DEF Minis
    <3>2. Asking(m)
      BY <1>1, <2>1
    <3> QED
      BY <2>1, <2>2, <3>1, <3>2 DEF Asking
  <2>6. ~Told
    <3>1. toolkit = "gtk" => ~loops[calls[n].loop]
      BY <1>3, <2>2 DEF WaitsForAnswer
    <3>2. toolkit # "gtk" => ~minibuffer_exit /\ ~quit
      BY <1>3 DEF WaitsForAnswer
    <3> QED
      BY <2>5, <3>1, <3>2 DEF Told
  <2>7. Current(n) /\ Asking(n)
    BY <1>1, <2>1, <2>4 DEF FocusedNow
  <2> QED
    BY <2>1, <2>2, <2>6, <2>7 DEF Current, Asking, n
<1> QED
  BY <1>2, <1>3

\* Keys go to the minibuffer, and it is the current buffer, while a question is open and
\* only then (minibuffer.feline, do-quit and minibuffer-accept-string; gtkui.c and winui.c,
\* their focus handlers).
THEOREM KeysGoToTheQuestion == Spec => []FocusFollowsQuestion
<1>1. Init => Base /\ Questions /\ Focused
  <2>1. Init => Focused
    BY DEF Init, FeralInit, Focused
  <2> QED
    BY <2>1, BaseStart, QuestionsStart
<1>2. Base /\ Questions /\ Focused /\ [Next]_vars => (Base /\ Questions /\ Focused)'
  BY QuestionsStep, FocusedStep
<1> QED
  BY <1>1, <1>2, FocusIsTheQuestions, PTL DEF Spec

----------------------------------------------------------------------------
(***************************************************************************)
(* Who owes an answer owns the prompt, the answer and the line.             *)
(***************************************************************************)

\* A frame that prepares its question, or has it still to answer.
Readies(f) ==
  \/ Nth(f.todo, 1) \in {"run", "main"}
  \/ Nth(f.todo, 1) = "invalidate" /\ Nth(f.todo, 2) = "run"

\* It has an answer to come.
Owes(f) ==
  \/ Readies(f) \/ Nth(f.todo, 1) = "answer"
  \/ Nth(f.todo, 1) = "restore" /\ Nth(f.todo, 2) = "answer"

\* The question that is asked with prompt p, is accepted as c, and has the line t, is f's.
Owns(f, p, c, t) ==
  /\ Owes(f) => p = f.ask /\ (c # NoText => c.of = f.ask)
  /\ Readies(f) => t.of = f.ask /\ c = NoText

\* Nothing is on top of a loop inside a handler, since no key is taken ahead.
PumpsLast == \A i \in DOMAIN calls : calls[i].fn = "pump" => i = Len(calls)

\* The question of the loop m has its own line, or is over.
Fits(m) ==
  \/ buffer # "mini" \/ text.of = calls[m - 1].ask \/ Told
  \/ \E i \in DOMAIN calls : i > m /\ Leaving(i)

\* After a question's loop has been told to end, no line is accepted for it.
Ceases(m) == Told => \A i \in DOMAIN calls : i > m => Next1(i) \notin {"assert", "accept"}

\* A key above the loop m leaves the minibuffer current.
Remains(m, i) ==
  i > m /\ "restore" \in Range(calls[i].todo) =>
    Next1(i) = "assert" \/ (buffer = "mini" /\ calls[i].saved = "mini")

\* The mishaps that AnswersAreOwn excepts.
Untroubled == upset \cap {"ahead", "nested", "activated"} = {}

\* What Answered says while none of these has happened.
AnsweredNow ==
  /\ PumpsLast
  /\ \A i \in DOMAIN calls : Owns(calls[i], prompt, contents, text)
  /\ \A m \in Minis : Fits(m) /\ Ceases(m) /\ \A i \in DOMAIN calls : Remains(m, i)

\* Answered, without the mishaps that it does not speak of.
LEMMA AnsweredIs == Answered <=> (Untroubled => AnsweredNow)
<1> USE DEF Answered, AnsweredNow, Untroubled
<1>1. \A i : /\ Preparing(i) <=> Readies(calls[i])
             /\ Asked(i) <=> Owes(calls[i])
  BY DEF Preparing, Readies, Asked, Owes, Next1, Next2
<1>2. \A m : Fits(m) <=>
         \/ buffer # "mini" \/ text.of = calls[m - 1].ask \/ Told
         \/ \E i \in DOMAIN calls : i > m /\ Leaving(i)
  BY DEF Fits
<1>3. \A m : Ceases(m) <=>
         (Told => \A i \in DOMAIN calls : i > m => Next1(i) \notin {"assert", "accept"})
  BY DEF Ceases
<1>4. \A m, i : Remains(m, i) <=>
         (i > m /\ "restore" \in Range(calls[i].todo) =>
            Next1(i) = "assert" \/ (buffer = "mini" /\ calls[i].saved = "mini"))
  BY DEF Remains
<1> QED
  BY <1>1, <1>2, <1>3, <1>4 DEF PumpsLast, Owns

\* Who asks beneath a handler waits for the answer in a loop of its own.
LEMMA LoneAsker ==
  ASSUME Types, Grammar, PumpsLast, calls # <<>>, Top.fn # "pump",
         NEW i \in DOMAIN calls, i # Len(calls), Owes(calls[i])
  PROVE  i + 1 \in Minis /\ ~Readies(calls[i]) /\ i + 1 <= Len(calls)
<1>1. /\ Len(calls) \in Nat \ {0} /\ DOMAIN calls = 1..Len(calls) /\ Len(calls) \in DOMAIN calls
      /\ Top = calls[Len(calls)]
  BY TopSeat
<1>2. i \in Nat /\ i < Len(calls) /\ i + 1 \in DOMAIN calls /\ i + 1 <= Len(calls)
  BY <1>1
<1>3. Waits(calls[i], calls[i + 1])
  BY <1>2 DEF Grammar
<1>4. calls[i + 1].fn # "pump"
  BY <1>1, <1>2 DEF PumpsLast
<1>5. Nth(calls[i].todo, 1) = "restore" /\ Nth(calls[i].todo, 2) = "answer"
  BY <1>3, <1>4 DEF Owes, Readies, Waits, Waiting, Command
<1> QED
  BY <1>2, <1>3, <1>5 DEF Waits, Readies, Minis

\* Above the loop of a question there is only one handler.
LEMMA OnlyAbove ==
  ASSUME Types, Grammar, PumpsLast, calls # <<>>, Top.fn # "pump",
         NEW m \in Minis, Asking(m), Len(calls) > m
  PROVE  Len(calls) = m + 1 /\ \A i \in DOMAIN calls : i > m => i = Len(calls)
<1> DEFINE n == Len(calls)
<1>1. /\ n \in Nat \ {0} /\ DOMAIN calls = 1..n /\ n \in DOMAIN calls /\ Top = calls[n]
  BY TopSeat
<1>2. Top.fn = "handler"
  BY <1>1 DEF Asking
<1>3. calls[n - 1].fn \in Loops
  BY <1>1, <1>2 DEF Grammar, Seated, Sits
<1> HIDE DEF n
<1>4. m \in Nat /\ n > m /\ m \in 1..n
  BY <1>1 DEF Minis, n
<1>5. n - 1 \in DOMAIN calls /\ n - 1 # n /\ (n - 1 > m \/ n - 1 = m)
  BY <1>1, <1>4
<1>6. calls[n - 1].fn # "pump"
  BY <1>5 DEF PumpsLast, n
<1>7. ~(n - 1 > m)
  BY <1>3, <1>5, <1>6 DEF Asking, Loops
<1>8. n = m + 1
  BY <1>1, <1>4, <1>5, <1>7
<1>9. \A i \in DOMAIN calls : i > m => i = n
  BY <1>1, <1>4, <1>8
<1> QED
  BY <1>8, <1>9 DEF n

\* Who asked waits right below the loop of the question.
LEMMA AskerIs ==
  ASSUME Types, Grammar, NEW m \in Minis
  PROVE  m - 1 \in DOMAIN calls /\ Owes(calls[m - 1])
<1>1. m \in DOMAIN calls /\ calls[m].fn = "mini"
  BY DEF Minis
<1>2. DOMAIN calls = 1..Len(calls) /\ Len(calls) \in Nat
  BY LenProperties DEF Types
<1>3. Seated(m)
  BY <1>1 DEF Grammar
<1>4. m # 1 /\ Nth(calls[m - 1].todo, 1) = "restore" /\ Nth(calls[m - 1].todo, 2) = "answer"
  BY <1>1, <1>3 DEF Seated, Sits
<1>5. m - 1 \in DOMAIN calls
  BY <1>1, <1>2, <1>4
<1> QED
  BY <1>4, <1>5 DEF Owes

\* What clicks into the text view has only the display to update.
LEMMA Clicks ==
  ASSUME Types, Grammar, calls # <<>>, Nth(Top.todo, 1) = "to_parent"
  PROVE  "restore" \notin Range(Top.todo)
<1>1. Top.todo \in Seq(Word) /\ Lawful(toolkit, Top.fn, Top.todo)
  BY TopSeat
<1>2. Nth(Top.todo, 2) = "update" /\ Nth(Top.todo, 3) = "end"
  BY <1>1, LawfulHere DEF Follows
<1>3. Len(Top.todo) \in Nat /\ DOMAIN Top.todo = 1..Len(Top.todo)
  BY <1>1, LenProperties
<1>4. 3 \notin DOMAIN Top.todo
  <2>1. \A k \in DOMAIN Top.todo : Top.todo[k] \in Word
    BY <1>1, <1>3, ElementOfSeq
  <2>2. "end" \notin Word
    BY DEF Word, Command
  <2> QED
    BY <1>2, <2>1, <2>2 DEF Nth
<1>5. \A k \in 1..Len(Top.todo) : k = 1 \/ k = 2
  <2>1. Len(Top.todo) < 3
    BY <1>3, <1>4
  <2> QED
    BY <1>3, <2>1
<1>6. \A k \in DOMAIN Top.todo : Top.todo[k] \in {"to_parent", "update"}
  BY <1>2, <1>3, <1>5 DEF Nth
<1> QED
  BY <1>6 DEF Range

\* The words that a question and its line may give way to.
LEMMA AdmittedAre ==
  ASSUME NEW w, NEW ws, Admits(w, ws)
  PROVE  /\ ws = AskWords => w = "do_quit"
         /\ ws # <<>> /\ ws[1] = "invalidate" => ws \in {<<"invalidate">>, <<"invalidate", "leave">>}
         /\ ws = <<"invalidate">> => w \in {"clear", "say", "prompt", "cancel"}
<1>1. ws = AskWords => w = "do_quit"
  BY DEF Admits, AskWords
<1>2. AskWords[1] = "prompt"
  BY DEF AskWords
<1>3. ASSUME ws # <<>>, ws[1] = "invalidate" PROVE ws \in {<<"invalidate">>, <<"invalidate", "leave">>}
  BY <1>2, <1>3 DEF Admits
<1>4. ws = <<"invalidate">> => w \in {"clear", "say", "prompt", "cancel"}
  BY DEF Admits, AskWords
<1> QED
  BY <1>1, <1>3, <1>4

\* The words of a handler above the loop of a question.
LEMMA AnsweringSays ==
  ASSUME NEW w, NEW ws, NEW g, Rewrites(w, ws, g), Changes(w, ws, g), w \in Answering,
         NEW m \in Minis, "nested" \notin upset'
  PROVE  /\ w \in {"clear", "to_parent", "cancel", "assert", "insert", "accept", "restore"}
         /\ ws # AskWords
<1>1. w # "do_quit"
  BY DEF Changes, Open, Minis
<1>2. w \in Feral /\ Admits(w, ws)
  BY DEF Changes, Rewrites
<1>3. ws = AskWords => w = "do_quit"
  BY <1>2 DEF Admits, AskWords
<1> QED
  BY <1>1, <1>2, <1>3 DEF Feral, Answering

\* The frame that speaks owns its question before and after.
LEMMA OwnsSays ==
  ASSUME Types, NEW w, NEW ws, NEW g, Rewrites(w, ws, g), Changes(w, ws, g),
         Owns(Top, prompt, contents, text)
  PROVE  Owns(g, prompt', contents', text')
<1>1. /\ Nth(g.todo, 1) = IF ws = <<>> THEN Nth(Top.todo, 2) ELSE ws[1]
      /\ Nth(g.todo, 2) = IF ws = <<>> THEN Nth(Top.todo, 3)
                          ELSE IF Len(ws) = 1 THEN Nth(Top.todo, 2) ELSE ws[2]
      /\ Admits(w, ws) /\ w \in Word /\ Nth(Top.todo, 1) = w
      /\ Follows(toolkit, Top.fn, w, Nth(Top.todo, 2))
      /\ Third(w, Nth(Top.todo, 2), Nth(Top.todo, 3))
  BY DEF Rewrites, Here
<1>2. w \in Feral
  BY DEF Changes
<1>3. CASE w = "prompt"
  <2>1. prompt' = Top.ask /\ contents' = NoText /\ text'.of = Top.ask
    BY <1>3 DEF Changes, Line
  <2>2. ws # AskWords
    BY <1>1, <1>3, AdmittedAre
  <2>3. g.ask = Top.ask
    BY <2>2 DEF Changes
  <2> QED
    BY <2>1, <2>3 DEF Owns
<1>4. CASE w = "run"
  <2>1. Readies(Top) /\ ws = <<>>
    BY <1>1, <1>4 DEF Readies, Admits
  <2>2. g.ask = Top.ask /\ prompt' = prompt /\ contents' = contents /\ text' = text
    BY <1>4, <2>1 DEF Changes, AskWords
  <2> QED
    BY <2>1, <2>2 DEF Owns, Owes
<1>5. CASE w = "restore"
  <2>1. ws = <<>> /\ Nth(g.todo, 1) \in {"answer", "redraw_mini"}
    BY <1>1, <1>5 DEF Follows, Admits
  <2>2. g.ask = Top.ask /\ prompt' = prompt /\ contents' = contents /\ text' = text
    BY <1>5, <2>1 DEF Changes, AskWords
  <2>3. ~Readies(g)
    BY <2>1 DEF Readies
  <2>4. Owes(g) => Owes(Top)
    BY <1>1, <1>5, <2>1 DEF Owes, Readies
  <2> QED
    BY <2>2, <2>3, <2>4 DEF Owns
<1>6. CASE w \notin {"prompt", "run", "restore"}
  <2>1. ws = <<>> => Nth(Top.todo, 2) \notin {"run", "main", "answer"}
    <3>1. Nth(Top.todo, 2) = "run" => w \in {"prompt", "invalidate"}
      BY <1>1 DEF Follows, Word, Command, Finish, Shows
    <3> QED
      BY <1>1, <1>2, <1>6, <3>1, FollowsIs DEF Feral
  <2>2. ws = <<>> => ~(Nth(Top.todo, 2) = "restore" /\ Nth(Top.todo, 3) = "answer")
    BY <1>1, <1>2 DEF Third, Feral
  <2>3. ws = <<>> => ~(Nth(Top.todo, 2) = "invalidate" /\ Nth(Top.todo, 3) = "run")
    BY <1>1 DEF Third
  <2>4. CASE ws = <<>>
    BY <1>1, <2>1, <2>2, <2>3, <2>4 DEF Owns, Owes, Readies
  <2>5. CASE ws # <<>>
    <3>1. ws[1] \in {"invalidate", "leave", "exit", "prompt", "cancel"}
      BY <1>1, <2>5, AdmittedIs
    <3>2. ws[1] = "invalidate" => Nth(g.todo, 2) # "run"
      <4>1. ws[1] = "invalidate" => ws \in {<<"invalidate">>, <<"invalidate", "leave">>}
        BY <1>1, <2>5, AdmittedAre
      <4>2. CASE ws = <<"invalidate">>
        <5>1. Nth(g.todo, 2) = Nth(Top.todo, 2)
          BY <1>1, <4>2
        <5>2. w \in {"clear", "say", "cancel"}
          BY <1>1, <1>6, <4>2, AdmittedAre
        <5> QED
          BY <1>1, <5>1, <5>2 DEF Follows, Command
      <4>3. CASE ws = <<"invalidate", "leave">>
        BY <1>1, <4>3
      <4> QED
        BY <4>1, <4>2, <4>3
    <3> QED
      BY <1>1, <2>5, <3>1, <3>2 DEF Owns, Owes, Readies
  <2> QED
    BY <2>4, <2>5
<1> QED
  BY <1>3, <1>4, <1>5, <1>6

\* The questions of the frames beneath keep their prompts and answers.
LEMMA OwnsBeneath ==
  ASSUME Base, Questions, AnsweredNow, \A m \in Minis : Asking(m),
         NEW w, NEW ws, NEW g, Rewrites(w, ws, g), Changes(w, ws, g),
         NEW i \in DOMAIN calls, i # Len(calls)
  PROVE  Owns(calls[i], prompt', contents', text')
<1> SUFFICES ASSUME Owes(calls[i])
             PROVE  Owns(calls[i], prompt', contents', text')
  BY DEF Owns, Owes
<1> DEFINE n == Len(calls)
           m == i + 1
<1>1. Types /\ Grammar /\ PumpsLast
  BY DEF Base, AnsweredNow
<1>2. calls # <<>> /\ Top.fn \in {"handler", "catch"} /\ Top = calls[n] /\ Nth(Top.todo, 1) = w
      /\ n \in DOMAIN calls /\ w \in Range(Top.todo)
  BY DEF Rewrites, Here
<1>3. m \in Minis /\ ~Readies(calls[i]) /\ m <= n
  BY <1>1, <1>2, LoneAsker
<1>4. Owns(calls[i], prompt, contents, text) /\ Fits(m) /\ Ceases(m) /\ Asking(m)
  BY <1>3 DEF AnsweredNow
<1>5. n \in Nat /\ i \in Nat /\ m - 1 = i
  BY <1>1, TopSeat, <1>2
<1> HIDE DEF m
<1>6. m # n
  BY <1>2, <1>3 DEF Minis
<1>7. m \in Nat
  BY <1>5 DEF m
<1> HIDE DEF n
<1>8. n > m
  BY <1>3, <1>5, <1>6, <1>7
<1>9. w \in Answering
  BY <1>2, <1>4, <1>8 DEF Asking
<1>10. prompt' = prompt
  BY <1>9 DEF Changes, Answering
<1>11. CASE w = "accept"
  <2>1. contents' = text
    BY <1>11 DEF Changes
  <2>2. Next1(n) = "accept"
    BY <1>2, <1>11 DEF Next1
  <2>3. buffer = "mini"
    BY <1>2, <2>2 DEF Questions, MiniIsCurrent, n
  <2>4. ~Told
    BY <1>2, <1>4, <1>8, <2>2 DEF Ceases
  <2>5. \A k \in DOMAIN calls : k > m => k = n
    BY <1>1, <1>2, <1>3, <1>4, <1>8, OnlyAbove DEF n
  <2>6. \A k \in DOMAIN calls : k > m => ~Leaving(k)
    BY <2>2, <2>5 DEF Leaving
  <2>7. text.of = calls[i].ask
    BY <1>4, <1>5, <2>3, <2>4, <2>6 DEF Fits
  <2> QED
    BY <1>3, <1>4, <1>10, <2>1, <2>7 DEF Owns
<1>12. CASE w # "accept"
  <2>1. contents' = contents \/ contents' = NoText
    BY <1>12 DEF Changes
  <2> QED
    BY <1>3, <1>4, <1>10, <2>1 DEF Owns
<1> QED
  BY <1>11, <1>12

\* A handler's word leaves the question that it serves with its own line and answer.
LEMMA AnsweredSays ==
  ASSUME Base, Questions, AnsweredNow, \A m \in Minis : Asking(m), toolkit' = toolkit,
         NEW w, NEW ws, NEW g, Rewrites(w, ws, g), Changes(w, ws, g),
         UNCHANGED control, "nested" \notin upset',
         NEW m \in Minis
  PROVE  Fits(m)' /\ Ceases(m)' /\ \A i \in DOMAIN calls' : Remains(m, i)'
<1> DEFINE n == Len(calls)
           word == Nth(g.todo, 1)
<1>1. Types /\ Grammar /\ PumpsLast
  BY DEF Base, AnsweredNow
<1>2. /\ n > m /\ w \in Answering /\ Next1(n) = w /\ n \in DOMAIN calls /\ Top = calls[n]
      /\ Minis' = Minis /\ \A k \in Minis : calls'[k] = calls[k]
      /\ Top.fn = "handler"
  BY <1>1, RewritesAbove
<1>3. /\ n \in DOMAIN calls' /\ Len(calls') = n /\ calls'[n] = g /\ calls # <<>>
      /\ word = IF ws = <<>> THEN Nth(Top.todo, 2) ELSE ws[1]
      /\ Nth(g.todo, 2) = IF ws = <<>> THEN Nth(Top.todo, 3)
                          ELSE IF Len(ws) = 1 THEN Nth(Top.todo, 2) ELSE ws[2]
      /\ Admits(w, ws) /\ w \in Word /\ w \in Range(Top.todo) /\ Nth(Top.todo, 1) = w
      /\ Follows(toolkit, Top.fn, w, Nth(Top.todo, 2))
      /\ Range(g.todo) \subseteq Range(ws) \cup Range(Top.todo)
      /\ \A i \in DOMAIN calls' : (i < n /\ Kept(i)) \/ i = n
      /\ \A i \in DOMAIN calls : i \in DOMAIN calls'
  BY DEF Rewrites, Here
<1>4. w \in {"clear", "to_parent", "cancel", "assert", "insert", "accept", "restore"} /\ ws # AskWords
  BY <1>2, AnsweringSays
<1>5. Fits(m) /\ Ceases(m) /\ Remains(m, n) /\ Asking(m)
  BY <1>2 DEF AnsweredNow
<1>6. \A i \in DOMAIN calls : i > m => i = n
  BY <1>1, <1>2, <1>3, OnlyAbove
<1>7. \A i \in DOMAIN calls' : i > m => i = n
  BY <1>3, <1>6 DEF Kept
<1>8. /\ m - 1 \in DOMAIN calls /\ Owes(calls[m - 1]) /\ m - 1 # n
      /\ m - 1 \in DOMAIN calls'
  <2>1. m - 1 \in DOMAIN calls /\ Owes(calls[m - 1])
    BY <1>1, AskerIs
  <2>2. DOMAIN calls = 1..n /\ n \in Nat
    BY <1>1, LenProperties DEF Types
  <2>3. m \in DOMAIN calls
    BY DEF Minis
  <2> HIDE DEF n
  <2>4. m - 1 # n
    BY <1>2, <2>2, <2>3
  <2> QED
    BY <1>3, <2>1, <2>4
<1>9. calls'[m - 1] = calls[m - 1]
  BY <1>3, <1>8 DEF Kept
<1>10. prompt = calls[m - 1].ask
  BY <1>8 DEF AnsweredNow, Owns
<1>11. Told' <=> Told
  BY <1>1, <1>2, ToldKeeps DEF control
<1>12. w \in {"accept", "insert"} => buffer = "mini"
  BY <1>2, <1>3 DEF Questions, MiniIsCurrent
<1> HIDE DEF n
<1>13. \A i \in DOMAIN calls' : Remains(m, i)'
  <2>1. "restore" \in Range(g.todo) => buffer' = "mini" /\ g.saved = "mini"
    <3> SUFFICES ASSUME "restore" \in Range(g.todo) PROVE buffer' = "mini" /\ g.saved = "mini"
      OBVIOUS
    <3>1. "restore" \notin Range(ws)
      BY <1>3, <1>4 DEF Admits, Range
    <3>2. "restore" \in Range(Top.todo)
      BY <1>3, <3>1
    <3>3. w = "assert" \/ (buffer = "mini" /\ Top.saved = "mini")
      BY <1>2, <1>5, <3>2 DEF Remains
    <3>4. w # "to_parent"
      BY <1>1, <1>3, <3>2, Clicks
    <3> QED
      BY <1>4, <3>3, <3>4 DEF Changes
  <2> QED
    BY <1>3, <1>7, <2>1 DEF Remains
<1>14. Ceases(m)'
  <2> SUFFICES ASSUME Told PROVE word \notin {"assert", "accept"}
    BY <1>3, <1>7, <1>11 DEF Ceases, Next1
  <2>1. w \notin {"assert", "accept"}
    BY <1>2, <1>5 DEF Ceases
  <2>2. CASE ws = <<>>
    BY <1>3, <1>4, <2>1, <2>2, FollowsIs
  <2>3. CASE ws # <<>>
    <3>1. ws[1] \in {"invalidate", "leave", "exit", "prompt", "cancel"}
      BY <1>3, <2>3, AdmittedIs
    <3> QED
      BY <1>3, <2>3, <3>1
  <2> QED
    BY <2>2, <2>3
<1>15. Fits(m)'
  <2>1. CASE buffer # "mini"
    <3>1. w # "restore"
      BY <1>2, <1>3, <1>5, <2>1 DEF Remains
    <3>2. buffer' = buffer
      BY <1>4, <2>1, <3>1 DEF Changes
    <3> QED
      BY <2>1, <3>2 DEF Fits
  <2>2. CASE Told
    BY <1>11, <2>2 DEF Fits
  <2>3. ASSUME ws \in {<<"leave">>, <<"invalidate", "leave">>} PROVE Fits(m)'
    <3>0. /\ ws # <<>> /\ (ws[1] = "leave" \/ (ws[1] = "invalidate" /\ Len(ws) = 2 /\ ws[2] = "leave"))
      BY <2>3
    <3>1. word = "leave" \/ (word = "invalidate" /\ Nth(g.todo, 2) = "leave")
      BY <1>3, <3>0
    <3> QED
      BY <1>2, <1>3, <3>1 DEF Fits, Leaving, Next1, Next2
  <2>4. CASE buffer = "mini" /\ text.of = calls[m - 1].ask
    <3>1. CASE w = "accept" \/ (w = "cancel" /\ text = Line(prompt))
      BY <2>3, <3>1 DEF Changes
    <3>2. CASE w = "cancel" /\ text # Line(prompt)
      <4>1. text' = Line(prompt)
        BY <3>2 DEF Changes
      <4>2. text'.of = calls'[m - 1].ask
        BY <1>9, <1>10, <4>1 DEF Line
      <4> QED
        BY <4>2 DEF Fits
    <3>3. CASE w = "insert"
      <4>1. text' \in {text, [text EXCEPT !.typed = TRUE]}
        BY <3>3 DEF Changes
      <4>2. text'.of = text.of
        BY <1>1, <4>1 DEF Types, Text
      <4> QED
        BY <1>9, <2>4, <4>2 DEF Fits
    <3>4. CASE w \in {"clear", "to_parent", "assert", "restore"}
      <4>1. text' = text
        BY <2>4, <3>4 DEF Changes
      <4> QED
        BY <1>9, <2>4, <4>1 DEF Fits
    <3> QED
      BY <1>4, <3>1, <3>2, <3>3, <3>4
  <2>5. ASSUME NEW i \in DOMAIN calls, i > m, Leaving(i)
        PROVE  Fits(m)'
    BY <1>2, <1>4, <1>6, <2>5 DEF Leaving
  <2> QED
    BY <1>5, <2>1, <2>2, <2>4, <2>5 DEF Fits
<1> QED
  BY <1>13, <1>14, <1>15

\* A frame that goes on with a word that changes no question still owns its own.
LEMMA OwnsGoesOn ==
  ASSUME NEW w \in Quiet, Here(w), NEW g, g.ask = Top.ask,
         Nth(g.todo, 1) = Nth(Top.todo, 2), Nth(g.todo, 2) = Nth(Top.todo, 3),
         NEW p, NEW c, NEW t, Owns(Top, p, c, t)
  PROVE  Owns(g, p, c, t)
<1>1. /\ w \in Word /\ Nth(Top.todo, 1) = w /\ Follows(toolkit, Top.fn, w, Nth(Top.todo, 2))
      /\ Third(w, Nth(Top.todo, 2), Nth(Top.todo, 3))
  BY DEF Here
<1>2. Nth(Top.todo, 2) \notin {"main", "answer"}
  BY <1>1, FollowsIs DEF Quiet
<1>3. Nth(Top.todo, 2) = "run" => w = "invalidate"
  BY <1>1 DEF Follows, Quiet, Command, Finish
<1>4. ~(Nth(Top.todo, 2) = "restore" /\ Nth(Top.todo, 3) = "answer")
  BY <1>1 DEF Third, Quiet
<1>5. Nth(Top.todo, 3) # "run"
  BY <1>1 DEF Third
<1>6. Readies(g) => Readies(Top)
  BY <1>1, <1>2, <1>3, <1>5 DEF Readies
<1>7. Owes(g) => Owes(Top)
  BY <1>2, <1>4, <1>6 DEF Owes
<1> QED
  BY <1>6, <1>7 DEF Owns

\* Such a step leaves the open question its own, which may now be told to end.
LEMMA AnsweredPasses ==
  ASSUME Base, AnsweredNow, \A m \in Minis : Asking(m), toolkit' = toolkit, PassesNow,
         NEW m \in Minis
  PROVE  Fits(m)' /\ Ceases(m)' /\ \A i \in DOMAIN calls' : Remains(m, i)'
<1>0. Types /\ Grammar /\ PumpsLast /\ LoopsListed /\ loops \in Seq(BOOLEAN)
  BY DEF Base, AnsweredNow, Listed
<1>1. PICK w \in Quiet : \E g :
        /\ Rewrites(w, <<>>, g) /\ g.ask = Top.ask /\ g.saved = Top.saved
        /\ w = "exit" => Destroys
        /\ w = "leave" => TellsToQuit
        /\ w \notin {"exit", "leave"} => UNCHANGED control
  BY DEF PassesNow
<1>2. PICK g : Rewrites(w, <<>>, g) /\ g.saved = Top.saved
  BY <1>1
<1> DEFINE n == Len(calls)
<1>3. /\ n > m /\ w \in Answering /\ Next1(n) = w /\ n \in DOMAIN calls /\ Top = calls[n]
      /\ Minis' = Minis /\ \A k \in Minis : calls'[k] = calls[k]
  BY <1>0, <1>2, RewritesAbove
<1>4. /\ n \in DOMAIN calls' /\ Len(calls') = n /\ calls'[n] = g /\ calls # <<>>
      /\ Top.fn \in {"handler", "catch"} /\ w \in Word
      /\ Nth(g.todo, 1) = Nth(Top.todo, 2) /\ Nth(g.todo, 2) = Nth(Top.todo, 3)
      /\ Follows(toolkit, Top.fn, w, Nth(Top.todo, 2))
      /\ Range(g.todo) \subseteq Range(<<>>) \cup Range(Top.todo)
      /\ \A i \in DOMAIN calls' : (i < n /\ Kept(i)) \/ i = n
      /\ \A i \in DOMAIN calls : i \in DOMAIN calls'
  BY <1>2 DEF Rewrites, Here
<1>5. w \in {"update", "redraw_mini", "repaint", "invalidate", "leave"}
  BY <1>3 DEF Quiet, Answering
<1>6. UNCHANGED askVars
  BY DEF PassesNow
<1>7. Fits(m) /\ Ceases(m) /\ Remains(m, n) /\ Asking(m)
  BY <1>3 DEF AnsweredNow
<1>8. \A i \in DOMAIN calls : i > m => i = n
  BY <1>0, <1>3, <1>4, OnlyAbove
<1>9. \A i \in DOMAIN calls' : i > m => i = n
  BY <1>4, <1>8 DEF Kept
<1>10. /\ m - 1 \in DOMAIN calls /\ calls'[m - 1] = calls[m - 1]
  <2>1. m - 1 \in DOMAIN calls
    BY <1>0, AskerIs
  <2>2. DOMAIN calls = 1..n /\ n \in Nat
    BY <1>0, LenProperties DEF Types
  <2>3. m \in DOMAIN calls
    BY DEF Minis
  <2> HIDE DEF n
  <2>4. m - 1 # n
    BY <1>3, <2>2, <2>3
  <2> QED
    BY <1>4, <2>1, <2>4 DEF Kept
<1> HIDE DEF n
<1>11. \A i \in DOMAIN calls' : Remains(m, i)'
  <2>1. Range(<<>>) = {}
    BY DEF Range
  <2>2. "restore" \in Range(g.todo) => buffer' = "mini" /\ g.saved = "mini"
    BY <1>2, <1>3, <1>4, <1>5, <1>6, <1>7, <2>1 DEF Remains, askVars
  <2> QED
    BY <1>4, <1>9, <2>2 DEF Remains
<1>12. Ceases(m)'
  <2>1. Nth(g.todo, 1) \notin {"assert", "accept"}
    BY <1>4, <1>5, FollowsIs
  <2> QED
    BY <1>4, <1>9, <2>1 DEF Ceases, Next1
<1>13. ASSUME w = "leave" PROVE Fits(m)'
  <2>1. TellsToQuit
    BY <1>1, <1>13
  <2>2. Told'
    <3>1. CASE toolkit = "gtk"
      <4>1. calls[m].loop = Len(loops) /\ calls[m].loop \in DOMAIN loops
        BY <1>0, <1>7, <3>1 DEF Asking, LoopsListed, Minis
      <4>2. Gtk!MainQuit /\ loops # <<>>
        BY <1>0, <2>1, <3>1, <4>1 DEF TellsToQuit
      <4>3. loops'[Len(loops)]
        BY <1>0, <4>2, MainQuitIs
      <4> QED
        BY <1>3, <3>1, <4>1, <4>3 DEF Told
    <3>2. CASE toolkit # "gtk"
      BY <2>1, <3>2 DEF TellsToQuit, Told
    <3> QED
      BY <3>1, <3>2
  <2> QED
    BY <2>2 DEF Fits
<1>14. ASSUME w # "leave" PROVE Fits(m)'
  <2>1. UNCHANGED <<loops, minibuffer_exit, quit>>
    BY <1>1, <1>5, <1>14 DEF control
  <2>2. Told => Told'
    BY <1>0, <1>3, <2>1, ToldKeeps
  <2>3. ASSUME NEW i \in DOMAIN calls, i > m, Leaving(i)
        PROVE  Fits(m)'
    <3>1. Next1(n) = "invalidate" /\ Next2(n) = "leave"
      BY <1>3, <1>8, <1>14, <2>3 DEF Leaving
    <3>2. Nth(g.todo, 1) = "leave"
      BY <1>3, <1>4, <3>1 DEF Next2
    <3> QED
      BY <1>3, <1>4, <3>2 DEF Fits, Leaving, Next1
  <2>4. buffer' = buffer /\ text' = text
    BY <1>6 DEF askVars
  <2> QED
    BY <1>7, <1>10, <2>2, <2>3, <2>4 DEF Fits
<1> QED
  BY <1>11, <1>12, <1>13, <1>14

\* GTK's loop, run in the middle of a handler, leaves question and line as they are.
LEMMA AnsweredPumps ==
  ASSUME Base, AnsweredNow, \A m \in Minis : Asking(m), toolkit' = toolkit, PumpsNow,
         NEW m \in Minis
  PROVE  Fits(m)' /\ Ceases(m)' /\ \A i \in DOMAIN calls' : Remains(m, i)'
<1>0. Types /\ Grammar /\ PumpsLast
  BY DEF Base, AnsweredNow
<1>1. PICK w \in {"invalidate", "clipboard"} : Pushes(w, Loop("pump", 0))
  BY DEF PumpsNow
<1> DEFINE n == Len(calls)
           h == calls'[n]
<1>2. Loop("pump", 0).fn # "mini" /\ Loop("pump", 0).todo = <<>>
  BY DEF Loop
<1>3. /\ n > m /\ w \in Answering /\ Next1(n) = w /\ n \in DOMAIN calls /\ Top = calls[n]
      /\ Minis' = Minis /\ \A k \in Minis : calls'[k] = calls[k]
  BY <1>0, <1>1, <1>2, PushesAbove
<1>4. /\ calls'[n + 1] = Loop("pump", 0) /\ Nth(h.todo, 1) = Nth(Top.todo, 2) /\ calls # <<>>
      /\ Range(h.todo) \subseteq Range(Top.todo) /\ h.saved = Top.saved
      /\ \A i \in DOMAIN calls' : (i < n /\ Kept(i)) \/ i = n \/ i = n + 1
      /\ \A i \in DOMAIN calls : i \in DOMAIN calls' /\ i < n + 1
      /\ Top.fn \in {"handler", "catch"} /\ w \in Word
      /\ Follows(toolkit, Top.fn, w, Nth(Top.todo, 2))
  BY <1>1 DEF Pushes, Here
<1>5. w = "invalidate"
  BY <1>3 DEF Answering
<1>6. UNCHANGED askVars /\ UNCHANGED control
  BY DEF PumpsNow, feral
<1>7. Fits(m) /\ Ceases(m) /\ Remains(m, n)
  BY <1>3 DEF AnsweredNow
<1>8. \A i \in DOMAIN calls : i > m => i = n
  BY <1>0, <1>3, <1>4, OnlyAbove
<1>9. \A i \in DOMAIN calls' : i > m => i = n \/ i = n + 1
  BY <1>4, <1>8 DEF Kept
<1>10. /\ m - 1 \in DOMAIN calls /\ calls'[m - 1] = calls[m - 1]
  <2>1. m - 1 \in DOMAIN calls
    BY <1>0, AskerIs
  <2>2. DOMAIN calls = 1..n /\ n \in Nat
    BY <1>0, LenProperties DEF Types
  <2>3. m \in DOMAIN calls
    BY DEF Minis
  <2> HIDE DEF n
  <2>4. m - 1 # n /\ m - 1 # n + 1
    BY <1>3, <2>2, <2>3
  <2> QED
    BY <1>4, <2>1, <2>4 DEF Kept
<1> HIDE DEF n, h
<1>11. Range(<<>>) = {} /\ Nth(<<>>, 1) = "end"
  BY DEF Range, Nth
<1>12. \A i \in DOMAIN calls' : Remains(m, i)'
  <2>1. "restore" \in Range(h.todo) => buffer' = "mini" /\ h.saved = "mini"
    BY <1>3, <1>4, <1>5, <1>6, <1>7 DEF Remains, askVars
  <2> QED
    BY <1>2, <1>4, <1>9, <1>11, <2>1 DEF Remains, h
<1>13. Ceases(m)'
  <2>1. Nth(h.todo, 1) \notin {"assert", "accept"}
    BY <1>4, <1>5, FollowsIs
  <2> QED
    BY <1>2, <1>4, <1>9, <1>11, <2>1 DEF Ceases, Next1, h
<1>14. Fits(m)'
  <2>1. Told => Told'
    BY <1>0, <1>3, <1>6, ToldKeeps DEF control
  <2>2. ASSUME NEW i \in DOMAIN calls, i > m, Leaving(i)
        PROVE  Fits(m)'
    <3>1. Next2(n) = "leave"
      BY <1>3, <1>5, <1>8, <2>2 DEF Leaving
    <3>2. Nth(h.todo, 1) = "leave"
      BY <1>3, <1>4, <3>1 DEF Next2
    <3> QED
      BY <1>3, <1>4, <3>2 DEF Fits, Leaving, Next1, h
  <2>3. buffer' = buffer /\ text' = text
    BY <1>6 DEF askVars
  <2> QED
    BY <1>7, <1>10, <2>1, <2>2, <2>3 DEF Fits
<1> QED
  BY <1>12, <1>13, <1>14

\* No question is open where the main loop waits.
LEMMA TopMain ==
  ASSUME Types, Grammar, calls # <<>>, Top.fn = "main"
  PROVE  Minis = {}
<1>1. /\ Len(calls) \in Nat \ {0} /\ DOMAIN calls = 1..Len(calls) /\ Len(calls) \in DOMAIN calls
      /\ Top = calls[Len(calls)]
  BY TopSeat
<1>2. Len(calls) = 1
  BY <1>1 DEF Grammar, Seated, Sits
<1>3. DOMAIN calls = {1}
  BY <1>1, <1>2
<1> QED
  BY <1>1, <1>2, <1>3 DEF Minis

\* A loop that calls a handler is the main loop, or that of the open question.
LEMMA AnsweredCalls ==
  ASSUME Base, AnsweredNow, \A m \in Minis : Asking(m), toolkit' = toolkit, CallsNow,
         "ahead" \notin upset'
  PROVE  AnsweredNow'
<1>0. Types /\ Grammar /\ PumpsLast
  BY DEF Base, AnsweredNow
<1>1. PICK ws : Calls(ws) /\ Handles(ws) /\ Taken(ws)
  BY DEF CallsNow
<1> DEFINE n == Len(calls)
           h == calls'[n + 1]
<1>2. /\ n \in DOMAIN calls /\ Top = calls[n] /\ Top.fn \in Loops /\ calls # <<>>
      /\ h.fn = "handler" /\ h.todo = ws /\ Len(calls') = n + 1
      /\ \A i \in DOMAIN calls' : (i <= n /\ Kept(i)) \/ i = n + 1
      /\ UNCHANGED askVars /\ UNCHANGED control
      /\ upset' = IF Top.fn = "pump" THEN upset \cup {"ahead"} ELSE upset
  BY <1>1 DEF Calls
<1>3. Top.fn \in {"main", "mini"}
  BY <1>2 DEF Loops
<1>4. /\ Next1(n) = "end" /\ Minis' = Minis
      /\ \A i \in DOMAIN calls : i \in DOMAIN calls' /\ calls'[i] = calls[i]
  BY <1>0, <1>1, CallsAbove
<1>5. DOMAIN calls = 1..n /\ n \in Nat
  BY <1>0, LenProperties DEF Types
<1>6. Nth(ws, 1) \in {"clear", "edit", "to_parent", "update", "do_quit", "assert"}
  BY <1>1 DEF Handles
<1>7. "restore" \in Range(ws) => Nth(ws, 1) = "assert"
  BY <1>1 DEF Handles
<1> HIDE DEF n, h
<1>8. PumpsLast'
  <2>1. \A i \in DOMAIN calls : calls[i].fn # "pump"
    BY <1>0, <1>2, <1>3 DEF PumpsLast, n
  <2> QED
    BY <1>2, <2>1 DEF PumpsLast, Kept, h
<1>9. \A i \in DOMAIN calls' : Owns(calls[i], prompt, contents, text)'
  <2>1. ~Owes(h)
    BY <1>2, <1>6 DEF Owes, Readies
  <2>2. Owns(h, prompt', contents', text')
    BY <2>1 DEF Owns, Owes
  <2>3. \A i \in DOMAIN calls' : Kept(i) => Owns(calls'[i], prompt', contents', text')
    BY <1>2 DEF AnsweredNow, Kept, askVars
  <2>4. \A i \in DOMAIN calls' : Owns(calls'[i], prompt', contents', text')
    BY <1>2, <2>2, <2>3 DEF h
  <2> QED
    BY <2>4
<1>10. ASSUME NEW m \in Minis
       PROVE  Fits(m)' /\ Ceases(m)' /\ \A i \in DOMAIN calls' : Remains(m, i)'
  <2>1. m \in DOMAIN calls /\ Fits(m) /\ Asking(m)
    BY <1>10 DEF Minis, AnsweredNow
  <2>2. \A k \in Minis : k = n
    <3> SUFFICES ASSUME NEW k \in Minis, k # n PROVE FALSE
      OBVIOUS
    <3>1. n > k
      BY <1>5 DEF Minis
    <3>2. Top.fn \in {"handler", "pump"}
      BY <1>2, <3>1 DEF Asking
    <3> QED
      BY <1>3, <3>2
  <2>3. Top.fn = "mini" /\ m = n
    BY <1>2, <1>10, <2>2 DEF Minis
  <2>4. ~Told
    <3>1. IF toolkit = "gtk" THEN ~loops[Top.loop] ELSE ~minibuffer_exit /\ ~quit
      BY <1>1, <2>3 DEF Taken
    <3> QED
      BY <1>2, <2>2, <3>1 DEF Told
  <2>5. ~Told'
    <3>1. \A k \in Minis : calls'[k] = calls[k]
      BY <1>4 DEF Minis
    <3> QED
      BY <1>0, <1>2, <1>4, <2>4, <3>1, ToldKeeps DEF control
  <2>6. \A i \in DOMAIN calls : ~(i > m)
    BY <1>5, <2>3
  <2>7. buffer # "mini" \/ text.of = calls[m - 1].ask
    BY <2>1, <2>4, <2>6 DEF Fits
  <2>8. calls'[m - 1] = calls[m - 1]
    BY <1>0, <1>4, <1>10, AskerIs
  <2>9. buffer' = buffer /\ text' = text
    BY <1>2 DEF askVars
  <2>10. Fits(m)'
    BY <2>7, <2>8, <2>9 DEF Fits
  <2>11. \A i \in DOMAIN calls' : i > m => i = n + 1
    BY <1>2, <2>6 DEF Kept
  <2>12. \A i \in DOMAIN calls' : Remains(m, i)'
    BY <1>2, <1>7, <2>11 DEF Remains, Next1, h
  <2> QED
    BY <2>5, <2>10, <2>12 DEF Ceases
<1> QED
  BY <1>4, <1>8, <1>9, <1>10 DEF AnsweredNow

\* A frame that is done leaves the others as they are.
LEMMA AnsweredReturns ==
  ASSUME Base, AnsweredNow, toolkit' = toolkit, ReturnsNow, Top.fn = "mini" => Minis' = {}
  PROVE  AnsweredNow'
<1>0. Types /\ PumpsLast
  BY DEF Base, AnsweredNow
<1>1. /\ Pops /\ UNCHANGED feral /\ (Top.fn # "mini" => UNCHANGED control)
  BY DEF ReturnsNow, Concludes
<1> DEFINE n == Len(calls)
<1>2. /\ \A i \in DOMAIN calls' : i < n /\ Kept(i)
      /\ n \in DOMAIN calls /\ Nth(calls[n].todo, 1) = "end"
      /\ \A i \in DOMAIN calls : i \in DOMAIN calls' \/ i = n
  BY <1>1 DEF Pops
<1>3. n \in Nat /\ DOMAIN calls = 1..n
  BY <1>0, LenProperties DEF Types
<1>4. UNCHANGED askVars
  BY <1>1 DEF feral
<1> HIDE DEF n
<1>5. \A i \in DOMAIN calls' : i \in DOMAIN calls /\ i # n
  BY <1>2, <1>3 DEF Kept
<1>6. PumpsLast'
  BY <1>0, <1>2, <1>5 DEF PumpsLast, Kept, n
<1>7. \A i \in DOMAIN calls' : Owns(calls'[i], prompt', contents', text')
  BY <1>2, <1>4 DEF AnsweredNow, Kept, askVars
<1>8. CASE Minis' = {}
  BY <1>6, <1>7, <1>8 DEF AnsweredNow
<1>9. CASE Minis' # {}
  <2>1. Top.fn # "mini" /\ UNCHANGED control
    BY <1>1, <1>9
  <2>2. Minis' = Minis
    BY <1>0, <1>1, <2>1, PopsAbove
  <2>3. \A k \in Minis : calls'[k] = calls[k] /\ k \in DOMAIN calls'
    BY <1>2, <2>2 DEF Minis, Kept
  <2>4. Told' <=> Told
    BY <1>0, <2>1, <2>2, <2>3, ToldKeeps DEF control
  <2>5. ASSUME NEW m \in Minis
        PROVE  Fits(m)' /\ Ceases(m)' /\ \A i \in DOMAIN calls' : Remains(m, i)'
    <3>1. Fits(m) /\ Ceases(m) /\ \A i \in DOMAIN calls : Remains(m, i)
      BY <2>5 DEF AnsweredNow
    <3>2. buffer' = buffer /\ text' = text
      BY <1>4 DEF askVars
    <3>3. ASSUME NEW i \in DOMAIN calls, i > m, Leaving(i)
          PROVE  Fits(m)'
      <4>1. i # n
        BY <1>2, <3>3 DEF Leaving, Next1
      <4>2. i \in DOMAIN calls' /\ calls'[i] = calls[i]
        BY <1>2, <4>1 DEF Kept
      <4> QED
        BY <3>3, <4>2 DEF Fits, Leaving, Next1, Next2
    <3>4. calls'[m - 1] = calls[m - 1]
      <4>1. m \in DOMAIN calls' /\ m - 1 \in DOMAIN calls
        BY <2>3, <2>5, <1>0, AskerIs DEF Base
      <4>2. m - 1 # n
        BY <1>2, <1>3, <1>5, <4>1
      <4> QED
        BY <1>2, <4>1, <4>2 DEF Kept
    <3>5. Fits(m)'
      BY <2>4, <3>1, <3>2, <3>3, <3>4 DEF Fits
    <3>6. Ceases(m)' /\ \A i \in DOMAIN calls' : Remains(m, i)'
      BY <1>2, <2>4, <3>1, <3>2 DEF Ceases, Remains, Kept, Next1
    <3> QED
      BY <3>5, <3>6
  <2> QED
    BY <1>6, <1>7, <2>2, <2>5 DEF AnsweredNow
<1> QED
  BY <1>8, <1>9

\* A command and a question only begin when no question is open.
LEMMA AnsweredPushes ==
  ASSUME Base, Base', AnsweredNow, \A m \in Minis : Asking(m), toolkit' = toolkit, Shape,
         CommandsNow \/ AsksNow
  PROVE  AnsweredNow'
<1>0. Types /\ Types' /\ Grammar /\ PumpsLast
  BY DEF Base, AnsweredNow
<1>1. \A m \in Minis' : AsksNow /\ m = Len(calls) + 1 /\ Minis = {}
  BY <1>0, NoneOpen
<1>2. PICK w, f :
        /\ Pushes(w, f) /\ f.fn # "pump"
        /\ Nth(f.todo, 1) \in {"prompt", "do_quit", "throw", "clipboard", "end"}
        /\ UNCHANGED askVars
        /\ w \in Command \ {"edit"} \/ (w = "main" /\ AsksNow)
  <2>1. CASE CommandsNow
    <3>0. PICK k \in Command \ {"edit"} : \E f :
            /\ Pushes(k, f) /\ f.fn = "catch"
            /\ f.todo \in {AskWords, <<"do_quit">>, <<"throw">>, <<"clipboard", "edit">>}
      BY <2>1 DEF CommandsNow
    <3>1. PICK f :
            /\ Pushes(k, f) /\ f.fn = "catch"
            /\ f.todo \in {AskWords, <<"do_quit">>, <<"throw">>, <<"clipboard", "edit">>}
      BY <3>0
    <3>2. Nth(f.todo, 1) \in {"prompt", "do_quit", "throw", "clipboard", "end"}
      BY <3>1 DEF Nth, AskWords
    <3> QED
      BY <2>1, <3>1, <3>2 DEF CommandsNow, feral
  <2>2. CASE AsksNow
    <3>1. PICK k \in Nat : Pushes("main", Loop("mini", k)) /\ AsksIn(k)
      BY <2>2 DEF AsksNow
    <3>2. Loop("mini", k).fn # "pump" /\ Nth(Loop("mini", k).todo, 1) = "end"
      BY DEF Loop, Nth
    <3> QED
      BY <2>2, <3>1, <3>2 DEF AsksIn, feral
  <2> QED
    BY <2>1, <2>2
<1> DEFINE n == Len(calls)
           h == calls'[n]
<1>3. /\ n \in DOMAIN calls /\ Top = calls[n] /\ calls'[n + 1] = f /\ calls # <<>>
      /\ Top.fn \in {"handler", "catch"} /\ h.fn = Top.fn /\ h.ask = Top.ask
      /\ Nth(Top.todo, 1) = w /\ w \in Word
      /\ Nth(h.todo, 1) = Nth(Top.todo, 2) /\ Nth(h.todo, 2) = Nth(Top.todo, 3)
      /\ Follows(toolkit, Top.fn, w, Nth(Top.todo, 2))
      /\ Third(w, Nth(Top.todo, 2), Nth(Top.todo, 3))
      /\ Len(calls') = n + 1
      /\ \A i \in DOMAIN calls' : (i < n /\ Kept(i)) \/ i = n \/ i = n + 1
  BY <1>2 DEF Pushes, Here
<1>4. n \in Nat
  BY <1>0, LenProperties DEF Types
<1>5. DOMAIN calls' = 1..n + 1
  BY <1>0, <1>3, LenProperties DEF Types
<1> HIDE DEF n, h
<1>6. PumpsLast'
  <2>1. \A i \in DOMAIN calls' : i < n => i # n
    BY <1>4
  <2> QED
    BY <1>0, <1>2, <1>3, <2>1 DEF PumpsLast, Kept, h, n
<1>7. Owns(Top, prompt, contents, text)
  BY <1>3 DEF AnsweredNow
<1>8. Owns(h, prompt, contents, text)
  <2>1. CASE w = "main"
    <3>1. Readies(Top) /\ Owes(Top)
      BY <1>3, <2>1 DEF Readies, Owes
    <3>2. Nth(h.todo, 1) = "restore"
      BY <1>3, <2>1 DEF Follows
    <3>3. ~Readies(h)
      BY <3>2 DEF Readies
    <3> QED
      BY <1>3, <1>7, <3>1, <3>3 DEF Owns
  <2>2. CASE w \in Command \ {"edit"}
    <3>1. Nth(h.todo, 1) \in {"redraw", "update"}
      BY <1>3, <2>2 DEF Follows, Finish
    <3>2. ~Owes(h)
      BY <3>1 DEF Owes, Readies
    <3> QED
      BY <3>2 DEF Owns, Owes
  <2> QED
    BY <1>2, <2>1, <2>2
<1>9. Owns(f, prompt, contents, text)
  <2>1. ~Owes(f)
    BY <1>2 DEF Owes, Readies
  <2> QED
    BY <2>1 DEF Owns, Owes
<1>10. \A i \in DOMAIN calls' : Owns(calls'[i], prompt', contents', text')
  <2>1. UNCHANGED <<prompt, contents, text>>
    BY <1>2 DEF askVars
  <2> QED
    BY <1>3, <1>8, <1>9, <2>1 DEF AnsweredNow, Kept, h
<1>11. ASSUME NEW m \in Minis'
       PROVE  Fits(m)' /\ Ceases(m)' /\ \A i \in DOMAIN calls' : Remains(m, i)'
  <2>1. AsksNow /\ m = n + 1
    BY <1>1, <1>11 DEF n
  <2>2. w = "main"
    <3>1. PICK k : Pushes("main", Loop("mini", k))
      BY <2>1 DEF AsksNow
    <3> QED
      BY <1>3, <3>1 DEF Pushes, Here
  <2>3. text.of = Top.ask
    BY <1>3, <1>7, <2>2 DEF Owns, Readies
  <2>4. calls'[m - 1].ask = Top.ask
    <3>1. m - 1 = n
      BY <1>4, <2>1
    <3> QED
      BY <1>3, <3>1 DEF h
  <2>5. text' = text
    BY <1>2 DEF askVars
  <2>6. \A i \in DOMAIN calls' : ~(i > m)
    BY <1>4, <1>5, <2>1
  <2> QED
    BY <2>3, <2>4, <2>5, <2>6 DEF Fits, Ceases, Remains
<1> QED
  BY <1>6, <1>10, <1>11 DEF AnsweredNow

\* An error leaves no frame that asks.
LEMMA AnsweredFalls ==
  ASSUME Base, Base', AnsweredNow, \A m \in Minis : Asking(m), Shape, FallsNow
  PROVE  AnsweredNow'
<1>0. Types /\ Types' /\ Grammar /\ PumpsLast
  BY DEF Base, AnsweredNow
<1>1. Minis' = {}
  <2>1. \A m \in Minis' : m = Len(calls) + 1 /\ AsksNow
    BY <1>0, NoneOpen
  <2>2. PICK at : Falls(at)
    BY DEF FallsNow
  <2>3. DOMAIN calls = 1..Len(calls) /\ Len(calls) \in Nat
    BY <1>0, LenProperties DEF Types
  <2>4. \A m \in DOMAIN calls' : m \in DOMAIN calls
    BY <2>2 DEF Falls, Kept
  <2> QED
    BY <2>1, <2>3, <2>4 DEF Minis
<1>2. PICK at : Falls(at)
  BY DEF FallsNow
<1> DEFINE n == Len(calls)
<1>3. /\ at \in DOMAIN calls /\ calls[at].fn = "catch" /\ calls # <<>>
      /\ \A i \in DOMAIN calls' : (i < at /\ Kept(i)) \/ i = at
      /\ calls'[at].fn = "catch" /\ calls'[at].todo = <<"say">>
  BY <1>2 DEF Falls
<1>4. DOMAIN calls = 1..n /\ n \in Nat /\ n \in DOMAIN calls /\ Top = calls[n]
      /\ (Top.fn \in Loops => Top.todo = <<>>)
  BY <1>0, <1>3, TopSeat
<1>5. Top.fn # "pump"
  <2>1. Next1(n) # "end"
    BY DEF FallsNow
  <2> QED
    BY <1>4, <2>1 DEF Next1, Nth, Loops
<1> HIDE DEF n
<1>6. \A i \in DOMAIN calls' : i < at => i \in DOMAIN calls /\ i # n
  BY <1>3, <1>4 DEF Kept
<1>7. PumpsLast'
  BY <1>0, <1>3, <1>6 DEF PumpsLast, Kept, n
<1>8. ASSUME NEW i \in DOMAIN calls', i < at
      PROVE  ~Owes(calls'[i])
  <2> SUFFICES ASSUME Owes(calls[i]) PROVE FALSE
    BY <1>3, <1>8 DEF Kept
  <2>1. i + 1 \in Minis
    BY <1>0, <1>3, <1>5, <1>6, <1>8, LoneAsker DEF n
  <2>2. i + 1 # at
    BY <1>3, <2>1 DEF Minis
  <2>3. at > i + 1
    BY <1>4, <1>3, <1>6, <1>8, <2>2
  <2> QED
    BY <1>3, <2>1, <2>3 DEF Asking
<1>9. ~Owes(calls'[at])
  <2>1. Nth(calls'[at].todo, 1) = "say"
    BY <1>3 DEF Nth
  <2> QED
    BY <2>1 DEF Owes, Readies
<1>10. \A i \in DOMAIN calls' : ~Owes(calls'[i])
  BY <1>3, <1>8, <1>9
<1>11. \A i \in DOMAIN calls' : Owns(calls'[i], prompt', contents', text')
  BY <1>10 DEF Owns, Owes
<1> QED
  BY <1>1, <1>7, <1>11 DEF AnsweredNow

\* Every step keeps Answered.
LEMMA AnsweredStep ==
  ASSUME Base, Questions, Answered, [Next]_vars
  PROVE  Answered'
<1>1. Questions' /\ Base' /\ Shape /\ Summary
  BY QuestionsStep, BaseStep
<1>2. Types /\ Types' /\ Grammar /\ Grammar' /\ toolkit' = toolkit
  BY <1>1 DEF Base, Summary
<1>3. phase = "run" <=> calls # <<>>
  BY <1>2 DEF Grammar
<1> DEFINE Goal == AnsweredNow'
<1> SUFFICES ASSUME Untroubled' PROVE Goal
  BY AnsweredIs DEF Answered, AnsweredNow, Untroubled, Preparing, Asked, Readies, Owes, Owns, PumpsLast,
     Fits, Ceases, Remains, Next1, Next2
<1>4. ASSUME upset \subseteq upset'
      PROVE  AnsweredNow /\ \A m \in Minis : Asking(m)
  <2>1. Untroubled /\ upset \cap {"nested", "activated"} = {}
    BY <1>4 DEF Untroubled
  <2> QED
    BY <2>1, AnsweredIs, OneQuestionIs DEF Questions
<1>5. CASE SaysNow
  <2>1. PICK w, ws, g : Rewrites(w, ws, g) /\ Changes(w, ws, g)
    BY <1>5 DEF SaysNow
  <2>2. upset \subseteq upset' /\ UNCHANGED control /\ "nested" \notin upset'
    BY <1>5 DEF SaysNow, Untroubled
  <2>3. AnsweredNow /\ \A m \in Minis : Asking(m)
    BY <1>4, <2>2
  <2>4. /\ Len(calls) \in DOMAIN calls /\ Top = calls[Len(calls)]
        /\ calls'[Len(calls)] = g /\ g.fn = Top.fn /\ Top.fn \in {"handler", "catch"}
        /\ Len(calls') = Len(calls)
        /\ \A i \in DOMAIN calls' : (i < Len(calls) /\ Kept(i)) \/ i = Len(calls)
    BY <2>1 DEF Rewrites, Here
  <2>5. PumpsLast'
    BY <2>3, <2>4 DEF AnsweredNow, PumpsLast, Kept
  <2>6. \A i \in DOMAIN calls' : Owns(calls'[i], prompt', contents', text')
    <3>1. Owns(g, prompt', contents', text')
      <4>1. Owns(Top, prompt, contents, text)
        BY <2>3, <2>4 DEF AnsweredNow
      <4> QED
        BY <1>2, <2>1, <4>1, OwnsSays
    <3>2. ASSUME NEW i \in DOMAIN calls', i < Len(calls), Kept(i)
          PROVE  Owns(calls'[i], prompt', contents', text')
      <4>1. i \in DOMAIN calls /\ calls'[i] = calls[i]
        BY <3>2 DEF Kept
      <4>2. i # Len(calls)
        <5>1. Len(calls) \in Nat
          BY <1>2, LenProperties DEF Types
        <5> QED
          BY <3>2, <5>1
      <4> QED
        BY <2>1, <2>3, <4>1, <4>2, OwnsBeneath
    <3> QED
      BY <2>4, <3>1, <3>2
  <2>7. ASSUME NEW m \in Minis'
        PROVE  Fits(m)' /\ Ceases(m)' /\ \A i \in DOMAIN calls' : Remains(m, i)'
    <3>1. m \in Minis
      BY <2>4, <2>7 DEF Minis, Kept
    <3> QED
      BY <1>2, <2>1, <2>2, <2>3, <3>1, AnsweredSays
  <2> QED
    BY <2>5, <2>6, <2>7 DEF AnsweredNow
<1>6. CASE PassesNow
  <2>1. PICK w \in Quiet : \E g : Rewrites(w, <<>>, g) /\ g.ask = Top.ask /\ g.saved = Top.saved
    BY <1>6 DEF PassesNow
  <2>2. PICK g : Rewrites(w, <<>>, g) /\ g.ask = Top.ask
    BY <2>1
  <2>3. upset \subseteq upset' /\ UNCHANGED askVars
    BY <1>6 DEF PassesNow
  <2>4. AnsweredNow /\ \A m \in Minis : Asking(m)
    BY <1>4, <2>3
  <2>5. /\ Len(calls) \in DOMAIN calls /\ Top = calls[Len(calls)] /\ Here(w)
        /\ calls'[Len(calls)] = g /\ g.fn = Top.fn /\ Top.fn \in {"handler", "catch"}
        /\ Len(calls') = Len(calls)
        /\ Nth(g.todo, 1) = Nth(Top.todo, 2) /\ Nth(g.todo, 2) = Nth(Top.todo, 3)
        /\ \A i \in DOMAIN calls' : (i < Len(calls) /\ Kept(i)) \/ i = Len(calls)
    BY <2>2 DEF Rewrites, Here
  <2>6. PumpsLast'
    BY <2>4, <2>5 DEF AnsweredNow, PumpsLast, Kept
  <2>7. \A i \in DOMAIN calls' : Owns(calls'[i], prompt', contents', text')
    <3>1. Owns(Top, prompt, contents, text)
      BY <2>4, <2>5 DEF AnsweredNow
    <3>2. Owns(g, prompt, contents, text)
      BY <2>2, <2>5, <3>1, OwnsGoesOn
    <3>3. UNCHANGED <<prompt, contents, text>>
      BY <2>3 DEF askVars
    <3> QED
      BY <2>4, <2>5, <3>2, <3>3 DEF AnsweredNow, Kept
  <2>8. ASSUME NEW m \in Minis'
        PROVE  Fits(m)' /\ Ceases(m)' /\ \A i \in DOMAIN calls' : Remains(m, i)'
    <3>1. m \in Minis
      BY <2>5, <2>8 DEF Minis, Kept
    <3> QED
      BY <1>2, <1>6, <2>4, <3>1, AnsweredPasses
  <2> QED
    BY <2>6, <2>7, <2>8 DEF AnsweredNow
<1>7. CASE PumpsNow
  <2>1. PICK w \in {"invalidate", "clipboard"} : Pushes(w, Loop("pump", 0))
    BY <1>7 DEF PumpsNow
  <2>2. upset \subseteq upset' /\ UNCHANGED askVars
    BY <1>7 DEF PumpsNow, feral
  <2>3. AnsweredNow /\ \A m \in Minis : Asking(m)
    BY <1>4, <2>2
  <2> DEFINE n == Len(calls)
             h == calls'[n]
  <2>4. /\ n \in DOMAIN calls /\ Top = calls[n] /\ Here(w) /\ Len(calls') = n + 1
        /\ calls'[n + 1] = Loop("pump", 0) /\ h.fn = Top.fn /\ Top.fn \in {"handler", "catch"}
        /\ h.ask = Top.ask
        /\ Nth(h.todo, 1) = Nth(Top.todo, 2) /\ Nth(h.todo, 2) = Nth(Top.todo, 3)
        /\ \A i \in DOMAIN calls' : (i < n /\ Kept(i)) \/ i = n \/ i = n + 1
    BY <2>1 DEF Pushes, Here
  <2>5. n \in Nat
    BY <1>2, LenProperties DEF Types
  <2> HIDE DEF n, h
  <2>6. PumpsLast'
    <3>1. \A i \in DOMAIN calls' : i < n => i # n
      BY <2>5
    <3> QED
      BY <2>3, <2>4, <3>1 DEF AnsweredNow, PumpsLast, Kept, h, n
  <2>7. \A i \in DOMAIN calls' : Owns(calls'[i], prompt', contents', text')
    <3>1. Owns(Top, prompt, contents, text)
      BY <2>3, <2>4 DEF AnsweredNow
    <3>2. w \in Quiet
      BY DEF Quiet
    <3>3. Owns(h, prompt, contents, text)
      BY <2>4, <3>1, <3>2, OwnsGoesOn
    <3>4. UNCHANGED <<prompt, contents, text>>
      BY <2>2 DEF askVars
    <3>5. Owns(Loop("pump", 0), prompt, contents, text)
      BY DEF Owns, Owes, Readies, Loop, Nth
    <3> QED
      BY <2>3, <2>4, <3>3, <3>4, <3>5 DEF AnsweredNow, Kept, h
  <2>8. ASSUME NEW m \in Minis'
        PROVE  Fits(m)' /\ Ceases(m)' /\ \A i \in DOMAIN calls' : Remains(m, i)'
    <3>1. Loop("pump", 0).fn # "mini"
      BY DEF Loop
    <3>2. m \in Minis
      BY <2>4, <2>8, <3>1 DEF Minis, Kept, h
    <3> QED
      BY <1>2, <1>7, <2>3, <3>2, AnsweredPumps
  <2> QED
    BY <2>6, <2>7, <2>8 DEF AnsweredNow
<1>8. CASE CommandsNow \/ AsksNow \/ FallsNow
  <2>1. upset \subseteq upset'
    BY <1>8 DEF CommandsNow, AsksNow, AsksIn, FallsNow, feral
  <2> QED
    BY <1>1, <1>2, <1>4, <1>8, <2>1, AnsweredPushes, AnsweredFalls
<1>9. CASE CallsNow
  <2>1. upset \subseteq upset' /\ "ahead" \notin upset'
    BY <1>9 DEF CallsNow, Calls, Untroubled
  <2> QED
    BY <1>2, <1>4, <1>9, <2>1, AnsweredCalls
<1>10. CASE ReturnsNow
  <2>1. upset \subseteq upset'
    BY <1>10 DEF ReturnsNow, feral
  <2>2. AnsweredNow /\ \A m \in Minis : Asking(m)
    BY <1>4, <2>1
  <2>3. Top.fn = "mini" => Minis' = {}
    <3> SUFFICES ASSUME Top.fn = "mini", NEW m \in Minis' PROVE FALSE
      OBVIOUS
    <3>1. m = Len(calls) + 1
      BY <1>1, <1>2, <1>10, <2>2, NoneOpen
    <3>2. m < Len(calls) /\ m \in DOMAIN calls
      BY <1>10 DEF ReturnsNow, Pops, Minis, Kept
    <3>3. Len(calls) \in Nat
      BY <1>2, LenProperties DEF Types
    <3> QED
      BY <3>1, <3>2, <3>3
  <2> QED
    BY <1>2, <1>10, <2>2, <2>3, AnsweredReturns
<1>11. CASE StaysNow
  <2>1. calls' = calls /\ UNCHANGED askVars
    BY <1>11 DEF StaysNow
  <2>2. Minis' = Minis
    BY <2>1 DEF Minis
  <2>3. CASE Prepares
    <3>1. DOMAIN calls' = {}
      BY <1>3, <2>1, <2>3 DEF Prepares
    <3> QED
      BY <3>1 DEF AnsweredNow, PumpsLast, Minis
  <2>4. CASE Idles
    <3>1. upset \subseteq upset' /\ loops' = loops /\ minibuffer_exit' = minibuffer_exit
      BY <2>4 DEF Idles, feralVars
    <3>2. AnsweredNow
      BY <1>4, <3>1
    <3>3. PumpsLast' /\ \A i \in DOMAIN calls' : Owns(calls'[i], prompt', contents', text')
      BY <2>1, <3>2 DEF AnsweredNow, PumpsLast, askVars
    <3>4. ASSUME NEW m \in Minis
          PROVE  Fits(m)' /\ Ceases(m)' /\ \A i \in DOMAIN calls' : Remains(m, i)'
      <4>1. quit' = quit
        <5> SUFFICES ASSUME quit' # quit PROVE FALSE
          OBVIOUS
        <5>1. phase = "run" /\ Top.fn = "main"
          BY <2>4 DEF Idles, InLoop
        <5> QED
          BY <1>2, <1>3, <3>4, <5>1, TopMain
      <4>2. Told' <=> Told
        BY <1>2, <2>1, <2>2, <3>1, <4>1, ToldKeeps
      <4>3. buffer' = buffer /\ text' = text
        BY <2>1 DEF askVars
      <4> QED
        BY <2>1, <3>2, <3>4, <4>2, <4>3 DEF AnsweredNow, Fits, Ceases, Remains, Leaving, Next1, Next2
    <3> QED
      BY <2>2, <3>3, <3>4 DEF AnsweredNow
  <2>5. CASE Activates
    BY <2>5 DEF Activates, Untroubled
  <2> QED
    BY <1>11, <2>3, <2>4, <2>5 DEF StaysNow
<1>12. CASE calls' = <<>>
  <2>1. DOMAIN calls' = {}
    BY <1>12
  <2> QED
    BY <2>1 DEF AnsweredNow, PumpsLast, Minis
<1>13. CASE Begins
  <2>1. calls' = <<Loop("main", 1)>>
    BY <1>13 DEF Begins
  <2>2. DOMAIN calls' = {1} /\ calls'[1].fn = "main" /\ calls'[1].todo = <<>>
    BY <2>1 DEF Loop
  <2>3. ~Owes(calls'[1]) /\ Minis' = {}
    BY <2>2 DEF Owes, Readies, Nth, Minis
  <2> QED
    BY <2>2, <2>3 DEF AnsweredNow, PumpsLast, Owns, Owes
<1> QED
  BY <1>1, <1>5, <1>6, <1>7, <1>8, <1>9, <1>10, <1>11, <1>12, <1>13 DEF Shape, StopsNow

\* An answer is the line that this very question was answered with (minibuffer.feline,
\* minibuffer-accept-string; its callers act on what they get).
THEOREM AnswersBelong == Spec => []AnswersAreOwn
<1>1. Init => Base /\ Questions /\ Answered
  <2>1. Init => Answered
    <3> SUFFICES ASSUME Init PROVE Answered
      OBVIOUS
    <3>1. DOMAIN calls = {}
      BY DEF Init, FeralInit
    <3> QED
      BY <3>1 DEF Answered, Minis
  <2> QED
    BY <2>1, BaseStart, QuestionsStart
<1>2. Base /\ Questions /\ Answered /\ [Next]_vars => (Base /\ Questions /\ Answered)'
  BY QuestionsStep, AnsweredStep
<1>3. Base /\ Answered => AnswersAreOwn
  <2> SUFFICES ASSUME Base, Answered, Next_("answer"), contents # NoText,
                      upset \cap {"ahead", "nested", "activated"} = {}
               PROVE  contents.of = Top.ask /\ prompt = Top.ask
    BY DEF AnswersAreOwn
  <2>1. AnsweredNow
    BY AnsweredIs DEF Untroubled
  <2>2. /\ calls # <<>> /\ Nth(Top.todo, 1) = "answer"
    BY TopWords DEF Base, Grammar, Next_
  <2>3. Len(calls) \in DOMAIN calls /\ Top = calls[Len(calls)]
    BY <2>2, TopSeat DEF Base
  <2> QED
    BY <2>1, <2>2, <2>3 DEF AnsweredNow, Owns, Owes
<1> QED
  BY <1>1, <1>2, <1>3, PTL DEF Spec

----------------------------------------------------------------------------
(***************************************************************************)
(* In Windows the text view's keys are served below the open question.      *)
(***************************************************************************)

\* Only who asks runs a question's loop.
LEMMA MinisStay ==
  ASSUME Types, Grammar, Shape, ~AsksNow
  PROVE  Minis' \subseteq Minis
<1> SUFFICES ASSUME NEW m, m \in DOMAIN calls', calls'[m].fn = "mini"
             PROVE  m \in DOMAIN calls /\ calls[m].fn = "mini"
  BY DEF Minis
<1>1. CASE SaysNow \/ PassesNow
  BY <1>1 DEF SaysNow, PassesNow, Rewrites, Here, Kept
<1>2. CASE CommandsNow \/ PumpsNow
  <2>1. PICK w, f : Pushes(w, f) /\ f.fn # "mini"
    <3>1. Loop("pump", 0).fn = "pump"
      BY DEF Loop
    <3> QED
      BY <1>2, <3>1 DEF CommandsNow, PumpsNow
  <2> QED
    BY <2>1 DEF Pushes, Here, Kept
<1>3. CASE ReturnsNow
  BY <1>3 DEF ReturnsNow, Pops, Kept
<1>4. CASE FallsNow
  BY <1>4 DEF FallsNow, Falls, Kept
<1>5. CASE CallsNow
  BY <1>5 DEF CallsNow, Calls, Kept
<1>6. CASE StaysNow
  BY <1>6 DEF StaysNow
<1>7. CASE Begins
  <2>1. calls' = <<Loop("main", 1)>>
    BY <1>7 DEF Begins
  <2>2. DOMAIN calls' = {1} /\ calls'[1].fn = "main"
    BY <2>1 DEF Loop
  <2> QED
    BY <2>2
<1>8. calls' # <<>>
  OBVIOUS
<1> QED
  BY <1>1, <1>2, <1>3, <1>4, <1>5, <1>6, <1>7, <1>8 DEF Shape, StopsNow

\* The mishaps that NothingStaysStale excepts.
Sound == upset \cap {"activated", "failed"} = {}

\* The open question has the focus, or its loop has been told to end.
KeysGo == Minis # {} /\ frame = "shown" => focus = "minibuffer" \/ Told

\* In Windows the open question has the focus, or its loop ends.
LEMMA KeysGoStep ==
  ASSUME Base, Base', Shape, toolkit = "winui", toolkit' = toolkit, Sound', KeysGo
  PROVE  KeysGo'
<1>1. Types /\ Grammar
  BY DEF Base
<1>2. frame = "shown" => ~quit
  BY DEF Base, Quits
<1> SUFFICES ASSUME Minis' # {}, frame' = "shown"
             PROVE  focus' = "minibuffer" \/ minibuffer_exit' \/ quit'
  BY DEF KeysGo, Told
<1>3. CASE AsksNow
  BY <1>3 DEF AsksNow, AsksIn
<1> SUFFICES ASSUME ~AsksNow
             PROVE  focus' = "minibuffer" \/ minibuffer_exit' \/ quit'
  BY <1>3
<1>4. Minis # {}
  BY <1>1, MinisStay
<1>5. frame = "shown" => focus = "minibuffer" \/ minibuffer_exit
  BY <1>2, <1>4 DEF KeysGo, Told
<1>6. CASE SaysNow \/ CommandsNow \/ PumpsNow \/ FallsNow \/ CallsNow \/ (ReturnsNow /\ Top.fn # "mini")
  <2>1. UNCHANGED control
    BY <1>6 DEF SaysNow, CommandsNow, PumpsNow, FallsNow, CallsNow, Calls, ReturnsNow, Concludes
  <2> QED
    BY <1>5, <2>1 DEF control
<1>7. CASE PassesNow
  BY <1>5, <1>7 DEF PassesNow, Destroys, TellsToQuit, control
<1>8. CASE ReturnsNow /\ Top.fn = "mini"
  BY <1>2, <1>8 DEF ReturnsNow, Concludes
<1>9. CASE StaysNow
  <2>1. calls # <<>>
    BY <1>1, <1>4 DEF Minis
  <2>2. CASE Idles
    BY <1>5, <2>2 DEF Idles
  <2>3. CASE Prepares
    BY <1>1, <2>1, <2>3 DEF Prepares, Grammar
  <2>4. CASE Activates
    BY <2>4 DEF Activates, Sound
  <2> QED
    BY <1>9, <2>2, <2>3, <2>4 DEF StaysNow
<1>10. calls' # <<>> /\ calls # <<>>
  BY <1>4 DEF Minis
<1> QED
  BY <1>6, <1>7, <1>8, <1>9, <1>10 DEF Shape, StopsNow

\* The text view's keys, and what they paste, are served below the open question.
KeysLow == \A i \in DOMAIN calls : KeysAt(i) => Beneath(i) = {}

\* KeysBelow, in its two parts.
LEMMA KeysBelowIs == KeysBelow <=> (toolkit = "winui" /\ Sound => KeysGo /\ KeysLow)
BY DEF KeysBelow, Sound, KeysGo, KeysLow

\* No step begins to serve the text view's keys above an open question.
LEMMA KeysLowStep ==
  ASSUME Base, Base', Shape, toolkit = "winui", toolkit' = toolkit, KeysGo, KeysLow
  PROVE  KeysLow'
<1>0. Types /\ Types' /\ Grammar /\ (phase = "run" <=> calls # <<>>)
  BY DEF Base, Grammar
<1> DEFINE n == Len(calls)
           Keys == Command \cup {"clipboard"}
           Goal == KeysLow'
<1>1. DOMAIN calls = 1..n /\ n \in Nat
  BY <1>0, LenProperties DEF Types
<1>2. calls # <<>> => n \in DOMAIN calls
  BY <1>0, TopSeat
<1> HIDE DEF n
<1>3. CASE calls = <<>> \/ calls' = <<>>
  <2>1. CASE calls' = <<>>
    BY <2>1 DEF KeysLow
  <2>2. CASE calls = <<>>
    <3>1. calls' = calls \/ calls' = <<>> \/ calls' = <<Loop("main", 1)>>
      BY <2>2 DEF Shape, StaysNow, StopsNow, Begins, SaysNow, PassesNow, CommandsNow, PumpsNow, AsksNow,
         ReturnsNow, FallsNow, CallsNow, Rewrites, Pushes, Here, Pops, Falls, Calls
    <3>2. CASE calls' = <<Loop("main", 1)>>
      <4>1. DOMAIN calls' = {1} /\ calls'[1].todo = <<>>
        BY <3>2 DEF Loop
      <4>2. Range(<<>>) = {}
        BY DEF Range
      <4> QED
        BY <4>1, <4>2 DEF KeysLow, KeysAt
    <3> QED
      BY <2>1, <2>2, <3>1, <3>2
  <2> QED
    BY <1>3, <2>1, <2>2
<1> SUFFICES ASSUME calls # <<>>, calls' # <<>> PROVE Goal
  BY <1>3
<1>4. Alike
  BY <1>0, FramesAlike
<1>5. \A i \in DOMAIN calls' : i \in DOMAIN calls => Beneath(i)' = Beneath(i)
  BY <1>4, BeneathIs
<1>6. \A i \in DOMAIN calls' : Kept(i) => (KeysAt(i)' => Beneath(i)' = {})
  <2> SUFFICES ASSUME NEW i \in DOMAIN calls', Kept(i), KeysAt(i)' PROVE Beneath(i)' = {}
    OBVIOUS
  <2>1. i \in DOMAIN calls /\ KeysAt(i)
    BY DEF Kept, KeysAt
  <2> QED
    BY <1>5, <2>1 DEF KeysLow
<1>7. ASSUME \A i \in DOMAIN calls' : Kept(i) \/ Range(calls'[i].todo) \cap Keys = {}
                 \/ (i = n /\ Range(calls'[i].todo) \cap Keys \subseteq Range(Top.todo))
                 \/ Minis' = {},
             Top = calls[n]
      PROVE  Goal
  <2> SUFFICES ASSUME NEW i \in DOMAIN calls', KeysAt(i)' PROVE Beneath(i)' = {}
    BY DEF KeysLow
  <2>1. Range(calls'[i].todo) \cap Keys # {}
    BY DEF KeysAt
  <2>2. CASE Kept(i)
    BY <1>6, <2>2
  <2>3. CASE i = n /\ Range(calls'[i].todo) \cap Keys \subseteq Range(Top.todo)
    <3>1. KeysAt(n)
      BY <1>7, <2>1, <2>3 DEF KeysAt
    <3> QED
      BY <1>2, <1>5, <2>3, <3>1 DEF KeysLow
  <2>4. CASE Minis' = {}
    BY <2>4 DEF Minis, Beneath
  <2> QED
    BY <1>7, <2>1, <2>2, <2>3, <2>4
<1>8. CASE SaysNow
  <2>1. PICK w, ws, g : Rewrites(w, ws, g)
    BY <1>8 DEF SaysNow
  <2>2. Range(ws) \cap Keys = {}
    <3>1. Admits(w, ws)
      BY <2>1 DEF Rewrites
    <3> QED
      BY <3>1 DEF Admits, AskWords, Range, Command
  <2>3. /\ Range(g.todo) \subseteq Range(ws) \cup Range(Top.todo) /\ Top = calls[n] /\ calls'[n] = g
        /\ \A i \in DOMAIN calls' : Kept(i) \/ i = n
    BY <2>1 DEF Rewrites, Here, n
  <2> QED
    BY <1>7, <2>2, <2>3
<1>9. CASE PassesNow
  <2>1. PICK w, g : Rewrites(w, <<>>, g)
    BY <1>9 DEF PassesNow
  <2>2. Range(<<>>) = {}
    BY DEF Range
  <2>3. /\ Range(g.todo) \subseteq Range(<<>>) \cup Range(Top.todo) /\ Top = calls[n] /\ calls'[n] = g
        /\ \A i \in DOMAIN calls' : Kept(i) \/ i = n
    BY <2>1 DEF Rewrites, Here, n
  <2> QED
    BY <1>7, <2>2, <2>3
<1>10. CASE AsksNow
  <2>1. PICK f : Pushes("main", f) /\ f.todo = <<>>
    <3>1. PICK k : Pushes("main", Loop("mini", k))
      BY <1>10 DEF AsksNow
    <3> QED
      BY <3>1 DEF Loop
  <2>2. Range(<<>>) = {}
    BY DEF Range
  <2>3. /\ Range(calls'[n].todo) \subseteq Range(Top.todo) /\ Top = calls[n] /\ calls'[n + 1] = f
        /\ \A i \in DOMAIN calls' : Kept(i) \/ i = n \/ i = n + 1
    BY <2>1 DEF Pushes, Here, n
  <2> QED
    BY <1>7, <2>1, <2>2, <2>3
<1>11. CASE CommandsNow
  <2>1. PICK k \in Command \ {"edit"} : \E f : Pushes(k, f) /\ f.fn = "catch"
    BY <1>11 DEF CommandsNow
  <2>2. PICK f : Pushes(k, f) /\ f.fn = "catch"
    BY <2>1
  <2>3. /\ k \in Range(Top.todo) /\ Top = calls[n] /\ Top.fn \in {"handler", "catch"}
    BY <2>2 DEF Pushes, Here, n
  <2>4. KeysAt(n)
    BY <2>3 DEF KeysAt
  <2>5. Beneath(n) = {}
    BY <1>2, <2>4 DEF KeysLow
  <2>6. Minis = {}
    <3> SUFFICES ASSUME NEW m \in Minis PROVE FALSE
      OBVIOUS
    <3>1. m \in DOMAIN calls /\ m # n
      BY <2>3 DEF Minis
    <3>2. m < n
      BY <1>1, <3>1
    <3> QED
      BY <2>5, <3>1, <3>2 DEF Beneath, Minis
  <2>7. ~AsksNow
    <3> SUFFICES ASSUME AsksNow PROVE FALSE
      OBVIOUS
    <3>1. PICK j : Pushes("main", Loop("mini", j))
      BY DEF AsksNow
    <3>2. k = "main"
      BY <2>2, <3>1 DEF Pushes, Here
    <3> QED
      BY <3>2 DEF Command
  <2>8. Minis' = {}
    BY <1>0, <2>6, <2>7, MinisStay
  <2> QED
    BY <1>7, <2>3, <2>8
<1>12. CASE PumpsNow
  BY <1>12 DEF PumpsNow
<1>13. CASE ReturnsNow
  <2>1. \A i \in DOMAIN calls' : Kept(i)
    BY <1>13 DEF ReturnsNow, Pops
  <2> QED
    BY <1>6, <2>1 DEF KeysLow
<1>14. CASE FallsNow
  <2>1. PICK at : Falls(at)
    BY <1>14 DEF FallsNow
  <2>2. calls'[at].todo = <<"say">> /\ \A i \in DOMAIN calls' : Kept(i) \/ i = at
    BY <2>1 DEF Falls
  <2>3. Range(<<"say">>) \cap Keys = {}
    BY DEF Range, Command
  <2>4. \A i \in DOMAIN calls' : KeysAt(i)' => Kept(i)
    BY <2>2, <2>3 DEF KeysAt
  <2> QED
    BY <1>6, <2>4 DEF KeysLow
<1>15. CASE CallsNow
  <2>1. PICK ws : Calls(ws) /\ Handles(ws) /\ Taken(ws)
    BY <1>15 DEF CallsNow
  <2>2. /\ Top = calls[n] /\ Top.fn \in Loops /\ frame = "shown"
        /\ calls'[n + 1].todo = ws
        /\ \A i \in DOMAIN calls' : Kept(i) \/ i = n + 1
    BY <2>1 DEF Calls, n
  <2>3. Range(ws) \cap Keys = {} \/ focus = "textview"
    BY <2>1 DEF Handles
  <2>4. CASE Range(ws) \cap Keys = {}
    BY <1>7, <2>2, <2>4
  <2>5. CASE focus = "textview"
    <3>1. Minis # {} => Told
      BY <2>2, <2>5 DEF KeysGo
    <3>2. Top.fn = "mini" => ~Told
      BY <2>1 DEF Taken, Told
    <3>3. Top.fn # "pump"
      <4>1. Seated(n)
        BY <1>0, <1>2 DEF Grammar
      <4> QED
        BY <2>2, <4>1 DEF Seated, Sits
    <3>4. Top.fn = "main" => Minis = {}
      BY <1>0, TopMain
    <3>5. Top.fn = "mini" => n \in Minis
      BY <1>2, <2>2 DEF Minis
    <3>6. Minis = {}
      BY <2>2, <3>1, <3>2, <3>3, <3>4, <3>5 DEF Loops
    <3>7. Minis' = Minis
      BY <1>0, <2>1, CallsAbove
    <3> QED
      BY <1>7, <2>2, <3>6, <3>7
  <2> QED
    BY <2>3, <2>4, <2>5
<1>16. CASE StaysNow
  BY <1>16 DEF StaysNow, KeysLow, KeysAt, Beneath
<1>17. CASE Begins /\ calls = <<>>
  BY <1>17
<1> QED
  BY <1>8, <1>9, <1>10, <1>11, <1>12, <1>13, <1>14, <1>15, <1>16, <1>17 DEF Shape, StopsNow

\* Every step keeps KeysBelow.
LEMMA KeysBelowStep ==
  ASSUME Base, Base', Shape, toolkit' = toolkit, KeysBelow
  PROVE  KeysBelow'
<1> SUFFICES ASSUME toolkit = "winui", Sound'
             PROVE  KeysGo' /\ KeysLow'
  BY DEF KeysBelow, Sound, KeysGo, KeysLow
<1>1. Sound
  <2>1. upset \subseteq upset'
    BY DEF Shape, StaysNow, StopsNow, Begins, SaysNow, PassesNow, CommandsNow, PumpsNow, AsksNow, AsksIn,
       ReturnsNow, FallsNow, CallsNow, Calls, Activates, Idles, Prepares, feral, feralVars
  <2> QED
    BY <2>1 DEF Sound
<1>2. KeysGo /\ KeysLow
  BY <1>1, KeysBelowIs
<1> QED
  BY <1>2, KeysGoStep, KeysLowStep

----------------------------------------------------------------------------
(***************************************************************************)
(* What is out of date on the screen will be drawn again.                   *)
(***************************************************************************)

\* What Fresh says of the word that comes next, of a loop, and of a handler that is done.
LEMMA FreshIs ==
  ASSUME Base, Fresh, frame = "shown", calls # <<>>, toolkit = "winui" => Sound
  PROVE  /\ InLoop => Unshown = {}
         /\ \A w : Next_(w) =>
              /\ w \notin {"invalidate", Shows(toolkit), Finish(toolkit)} => Unshown = {}
              /\ w \in {"invalidate", Shows(toolkit)} => Unshown \subseteq {"mini"}
              /\ w = Finish(toolkit) => toolkit = "gtk" \/ "mini" \notin Unshown
         /\ Top.todo = <<>> =>
              Unshown = {} \/ (Top.fn = "catch" /\ (toolkit = "gtk" \/ "mini" \notin Unshown))
<1>0. Types /\ Grammar /\ toolkit \in {"gtk", "winui"}
  BY DEF Base
<1>1. /\ \/ Unshown = {}
         \/ Unshown \subseteq {"mini"} /\ Next1(Len(calls)) \in {"invalidate", Shows(toolkit)}
         \/ /\ toolkit = "gtk" \/ "mini" \notin Unshown
            /\ \/ Next1(Len(calls)) = Finish(toolkit)
               \/ Top.fn = "catch" /\ Next1(Len(calls)) = "end"
  BY DEF Fresh, Sound
<1>2. /\ Next1(Len(calls)) = Nth(Top.todo, 1)
      /\ Top.fn \in Loops => Top.todo = <<>>
  BY <1>0, TopSeat
<1>3. Nth(<<>>, 1) = "end"
  BY DEF Nth
<1>4. /\ Shows(toolkit) \in {"invalidate", "repaint"} /\ Finish(toolkit) \in {"redraw", "update"}
      /\ "catch" \notin Loops
  BY DEF Shows, Finish, Loops
<1>5. InLoop => Unshown = {}
  BY <1>1, <1>2, <1>3, <1>4 DEF InLoop
<1>6. ASSUME NEW w, Next_(w)
      PROVE  /\ w \notin {"invalidate", Shows(toolkit), Finish(toolkit)} => Unshown = {}
             /\ w \in {"invalidate", Shows(toolkit)} => Unshown \subseteq {"mini"}
             /\ w = Finish(toolkit) => toolkit = "gtk" \/ "mini" \notin Unshown
  <2>1. Nth(Top.todo, 1) = w /\ w \in Word
    <3>1. Nth(Top.todo, 1) = w /\ Top.todo \in Seq(Word) /\ Top.todo # <<>> /\ Head(Top.todo) = w
      BY <1>0, <1>6, TopWords
    <3>2. Head(Top.todo) \in Word
      BY <3>1, HeadTailProperties
    <3> QED
      BY <3>1, <3>2
  <2>2. w # "end"
    BY <2>1 DEF Word, Command
  <2> QED
    BY <1>1, <1>2, <1>4, <2>1, <2>2
<1>7. Top.todo = <<>> =>
        Unshown = {} \/ (Top.fn = "catch" /\ (toolkit = "gtk" \/ "mini" \notin Unshown))
  BY <1>1, <1>2, <1>3, <1>4
<1> QED
  BY <1>5, <1>6, <1>7

\* A word that changes nothing on the screen, and is none that shows something.
LEMMA FreshStays ==
  ASSUME Base, Fresh, toolkit' = toolkit, UNCHANGED <<stale, queued>>,
         frame' = "shown" => frame = "shown", upset \subseteq upset', phase' # "start",
         NEW w, Next_(w), w \notin {"invalidate", Shows(toolkit), Finish(toolkit)}
  PROVE  Fresh' /\ StartsFresh'
<1>1. calls # <<>>
  BY TopWords DEF Base, Grammar
<1>2. frame = "shown" /\ (toolkit = "winui" => Sound) => Unshown = {}
  BY <1>1, FreshIs
<1> QED
  BY <1>2 DEF Fresh, StartsFresh, Unshown, Sound

\* A loop waits only when everything is queued.
LEMMA FreshLoops ==
  ASSUME Base, Fresh, toolkit' = toolkit, Unshown' \subseteq Unshown,
         frame' = "shown" => frame = "shown", upset \subseteq upset', phase' # "start", InLoop
  PROVE  Fresh' /\ StartsFresh'
<1>1. calls # <<>>
  BY DEF Base, Grammar, InLoop
<1>2. frame = "shown" /\ (toolkit = "winui" => Sound) => Unshown = {}
  BY <1>1, FreshIs
<1> QED
  BY <1>2 DEF Fresh, StartsFresh, Sound

\* The editor's words that leave the screen alone.
LEMMA FreshFeral ==
  ASSUME Base, Base', Fresh, toolkit' = toolkit, UNCHANGED <<stale, queued, frame>>,
         FeralStep \/ ToParent(<<>>) \/ ToParent(<<"invalidate">>)
  PROVE  Fresh' /\ StartsFresh'
<1>0. Types /\ Grammar /\ (phase = "run" => calls # <<>>) /\ Base
  BY DEF Base, Grammar
<1>1. ASSUME NEW w, Next_(w), w \in Command \cup {"do_quit", "throw", "run", "restore", "answer", "assert", "to_parent"}
      PROVE  phase = "run" /\ w \notin {"invalidate", Shows(toolkit), Finish(toolkit)}
  BY <1>1 DEF Next_, Shows, Finish, Command
<1>2. ASSUME NEW w, Next_(w), w \in Command \cup {"do_quit", "throw", "run", "restore", "answer", "assert", "to_parent"},
             upset \subseteq upset', phase' \in {phase, "dead"}
      PROVE  Fresh' /\ StartsFresh'
  BY <1>1, <1>2, FreshStays
<1>3. Throw => upset \subseteq upset' /\ phase' \in {phase, "dead"}
  BY DEF Throw
<1>4. CASE AskCommand \/ QuitCommand \/ FailingCommand \/ PasteCommand
  <2>1. /\ \E w \in Command : Next_(w)
        /\ UNCHANGED <<phase, upset>>
    BY <1>4 DEF AskCommand, QuitCommand, FailingCommand, PasteCommand, SafeCall, Command
  <2> QED
    BY <1>2, <2>1
<1>5. CASE DoQuit
  BY <1>2, <1>5 DEF DoQuit
<1>6. CASE Raise
  BY <1>2, <1>3, <1>6 DEF Raise
<1>7. CASE MinibufferRun \/ Restore
  <2>1. \/ Next_("run") /\ UNCHANGED <<phase, upset>>
        \/ Next_("restore") /\ UNCHANGED <<phase, upset>>
    BY <1>7 DEF MinibufferRun, Restore
  <2> QED
    BY <1>2, <2>1
<1>8. CASE Answer
  <2>1. Next_("answer") /\ upset \subseteq upset' /\ phase' \in {phase, "dead"}
    BY <1>3, <1>8 DEF Answer
  <2> QED
    BY <1>2, <2>1
<1>9. CASE AssertMinibuffer
  <2>1. Next_("assert") /\ upset \subseteq upset' /\ phase' \in {phase, "dead"}
    BY <1>3, <1>9 DEF AssertMinibuffer
  <2> QED
    BY <1>2, <2>1
<1>10. CASE ToParent(<<>>) \/ ToParent(<<"invalidate">>)
  <2>1. Next_("to_parent") /\ upset \subseteq upset' /\ phase' = phase
    BY <1>10, ToParentIs
  <2> QED
    BY <1>2, <2>1
<1>11. CASE Return
  <2>1. /\ phase = "run" /\ Top.fn \notin Loops /\ Top.todo = <<>> /\ calls' = Front(calls)
        /\ phase' = phase /\ upset' = upset
    BY <1>11 DEF Return
  <2>2. calls # <<>>
    BY <1>0, <2>1
  <2>3. StartsFresh'
    BY <2>1 DEF StartsFresh
  <2> SUFFICES ASSUME frame' = "shown", calls' # <<>>, toolkit = "winui" => Sound
               PROVE  \/ Unshown = {}
                      \/ /\ toolkit = "gtk" \/ "mini" \notin Unshown
                         /\ Next1(Len(calls))' = Finish(toolkit)
    BY <2>1, <2>3 DEF Fresh, Unshown, Sound
  <2>4. Unshown = {} \/ (Top.fn = "catch" /\ (toolkit = "gtk" \/ "mini" \notin Unshown))
    BY <1>0, <2>1, <2>2, FreshIs
  <2>5. ASSUME Top.fn = "catch" PROVE Next1(Len(calls))' = Finish(toolkit)
    <3> DEFINE n == Len(calls)
    <3>1. n \in DOMAIN calls /\ Top = calls[n] /\ n \in Nat \ {0}
      BY <1>0, <2>2, TopSeat
    <3>2. calls[n - 1].todo = <<Finish(toolkit)>>
      <4>1. Seated(n)
        BY <1>0, <3>1 DEF Grammar
      <4> QED
        BY <2>5, <3>1, <4>1 DEF Seated, Sits
    <3>3. Len(calls') = n - 1 /\ n - 1 \in DOMAIN calls' /\ calls'[n - 1] = calls[n - 1]
      <4>1. Len(calls') = Len(calls) - 1 /\ DOMAIN calls' = 1..Len(calls) - 1 /\ Keeps(Len(calls) - 1)
        BY <1>0, <2>1, <2>2, FrontTops DEF Types
      <4>2. n - 1 \in 1..n - 1
        <5>1. n - 1 # 0
          <6>1. Len(calls') # 0 /\ Len(calls') \in Nat
            BY EmptySeq, LenProperties DEF Base, Types
          <6> QED
            BY <4>1, <6>1
        <5> QED
          BY <3>1, <5>1
      <4> QED
        BY <4>1, <4>2 DEF Keeps
    <3>4. Nth(<<Finish(toolkit)>>, 1) = Finish(toolkit)
      BY DEF Nth
    <3> QED
      BY <3>2, <3>3, <3>4 DEF Next1
  <2> QED
    BY <2>4, <2>5
<1> QED
  BY <1>4, <1>5, <1>6, <1>7, <1>8, <1>9, <1>10, <1>11 DEF FeralStep

\* A word of the top frame that gives way to the words ws.
LEMMA FreshSays ==
  ASSUME Types, Grammar, toolkit' = toolkit, NEW w, Next_(w), NEW ws, Do(ws), Admits(w, ws),
         phase' = phase
  PROVE  /\ calls' # <<>> /\ Top'.fn = Top.fn
         /\ Follows(toolkit, Top.fn, w, Nth(Top.todo, 2))
         /\ Next1(Len(calls))' = IF ws = <<>> THEN Nth(Top.todo, 2) ELSE ws[1]
<1>1. Top \in Call
  BY TopWords DEF Grammar
<1>2. Rewritten(w, ws, Top)
  BY <1>1 DEF Rewritten, Says, Do
<1>3. PICK g : Rewrites(w, ws, g)
  BY <1>2, RewritesIs
<1>4. /\ Len(calls) \in DOMAIN calls /\ Len(calls) \in DOMAIN calls'
      /\ Len(calls') = Len(calls) /\ calls'[Len(calls)] = g /\ g.fn = Top.fn
      /\ Nth(g.todo, 1) = IF ws = <<>> THEN Nth(Top.todo, 2) ELSE ws[1]
      /\ Follows(toolkit, Top.fn, w, Nth(Top.todo, 2))
  BY <1>3 DEF Rewrites, Here
<1>5. Top' = g
  BY <1>4 DEF Top, Last
<1>6. Next1(Len(calls))' = Nth(g.todo, 1)
  BY <1>4 DEF Next1
<1>7. calls' # <<>>
  BY <1>4
<1> QED
  BY <1>4, <1>5, <1>6, <1>7

\* The words that change the minibuffer's line go on to show it.
LEMMA FreshEdits ==
  ASSUME Base, Fresh, toolkit' = toolkit, UNCHANGED <<queued, frame>>, FeralEdit
  PROVE  Fresh' /\ StartsFresh'
<1>0. Types /\ Grammar /\ (phase = "run" => calls # <<>>)
  BY DEF Base, Grammar
<1> DEFINE Edits == {"clear", "say", "prompt", "insert", "accept", "cancel"}
<1>1. PICK w \in Edits : Next_(w)
  BY DEF FeralEdit, ClearMessage, Message, SetPrompt, InsertChar, Accept, Cancel
<1>2. phase = "run" /\ calls # <<>> /\ w \notin {"invalidate", Shows(toolkit), Finish(toolkit)}
  BY <1>0, <1>1 DEF Next_, Shows, Finish
<1>3. ASSUME text' = text, upset \subseteq upset', phase' \in {phase, "dead"}
      PROVE  Fresh' /\ StartsFresh'
  <2>1. stale' = stale
    BY <1>3 DEF FeralEdit
  <2> QED
    BY <1>1, <1>2, <1>3, <2>1, FreshStays
<1>4. ASSUME NEW v, Next_(v), v \in Edits, NEW ws, Do(ws), Admits(v, ws), UNCHANGED <<phase, upset>>,
             text' # text,
             \/ ws # <<>> /\ ws[1] = "invalidate"
             \/ ws = <<>> /\ v = "insert"
      PROVE  Fresh' /\ StartsFresh'
  <2>1. /\ calls' # <<>> /\ Top'.fn = Top.fn
        /\ Follows(toolkit, Top.fn, v, Nth(Top.todo, 2))
        /\ Next1(Len(calls))' = IF ws = <<>> THEN Nth(Top.todo, 2) ELSE ws[1]
    BY <1>0, <1>4, FreshSays
  <2>2. Next1(Len(calls))' \in {"invalidate", Shows(toolkit)}
    BY <1>4, <2>1 DEF Follows
  <2>3. stale' \subseteq stale \cup {"mini"}
    BY DEF FeralEdit
  <2>4. StartsFresh'
    BY <1>2, <1>4 DEF StartsFresh
  <2>5. ASSUME frame' = "shown", toolkit = "winui" => Sound PROVE Unshown' \subseteq {"mini"}
    <3>1. v \notin {"invalidate", Shows(toolkit), Finish(toolkit)}
      BY <1>4 DEF Shows, Finish
    <3>2. Unshown = {}
      BY <1>2, <1>4, <2>5, <3>1, FreshIs
    <3> QED
      BY <2>3, <3>2 DEF Unshown
  <2> QED
    BY <1>4, <2>2, <2>4, <2>5 DEF Fresh, Sound
<1>5. ASSUME NEW t, SetText(t, <<>>), UNCHANGED <<phase, upset>>,
             NEW v, Next_(v), v \in {"clear", "say", "prompt", "cancel"}
      PROVE  Fresh' /\ StartsFresh'
  <2>1. CASE text' = text
    BY <1>3, <1>5, <2>1
  <2>2. CASE text' # text
    <3>1. Do(<<"invalidate">>)
      BY <1>5, <2>2, SetTextIs
    <3>2. <<"invalidate">> # <<>> /\ <<"invalidate">>[1] = "invalidate"
      OBVIOUS
    <3> QED
      BY <1>4, <1>5, <2>2, <3>1, <3>2, AdmitsAre
  <2> QED
    BY <2>1, <2>2
<1>6. ASSUME NEW t, SetText(t, <<"leave">>), UNCHANGED <<phase, upset>>,
             NEW v, Next_(v), v \in {"accept", "cancel"}
      PROVE  Fresh' /\ StartsFresh'
  <2>1. CASE text' = text
    BY <1>3, <1>6, <2>1
  <2>2. CASE text' # text
    <3>1. Do(<<"invalidate", "leave">>)
      BY <1>6, <2>2, SetTextIs
    <3>2. <<"invalidate", "leave">> # <<>> /\ <<"invalidate", "leave">>[1] = "invalidate"
      OBVIOUS
    <3> QED
      BY <1>4, <1>6, <2>2, <3>1, <3>2, AdmitsAre
  <2> QED
    BY <2>1, <2>2
<1> HIDE DEF Edits
<1>7. CASE ClearMessage
  <2>1. Next_("clear") /\ UNCHANGED <<phase, upset>> /\ (text' = text \/ SetText(Empty, <<>>))
    BY <1>7 DEF ClearMessage
  <2> QED
    BY <1>3, <1>5, <2>1
<1>8. CASE Message
  <2>1. Next_("say") /\ UNCHANGED <<phase, upset>> /\ (text' = text \/ SetText(Line("message"), <<>>))
    BY <1>8 DEF Message
  <2> QED
    BY <1>3, <1>5, <2>1
<1>9. CASE SetPrompt
  <2>1. Next_("prompt") /\ UNCHANGED <<phase, upset>> /\ SetText(Line(Top.ask), <<>>)
    BY <1>9 DEF SetPrompt
  <2> QED
    BY <1>5, <2>1
<1>10. CASE InsertChar
  <2>1. Next_("insert") /\ UNCHANGED <<phase, upset>> /\ Do(<<>>)
    BY <1>10 DEF InsertChar
  <2>2. "insert" \in Edits
    BY DEF Edits
  <2> QED
    BY <1>3, <1>4, <2>1, <2>2, AdmitsAre
<1>11. CASE Accept
  <2>1. \/ Next_("accept") /\ SetText(Empty, <<"leave">>) /\ UNCHANGED <<phase, upset>>
        \/ text' = text /\ Throw
    BY <1>11 DEF Accept
  <2>2. Throw => upset \subseteq upset' /\ phase' \in {phase, "dead"}
    BY DEF Throw
  <2> QED
    BY <1>3, <1>6, <2>1, <2>2
<1>12. CASE Cancel
  <2>1. /\ Next_("cancel") /\ UNCHANGED <<phase, upset>>
        /\ SetText(Empty, <<"leave">>) \/ SetText(Line(prompt), <<>>)
    BY <1>12 DEF Cancel
  <2> QED
    BY <1>5, <1>6, <2>1
<1> QED
  BY <1>7, <1>8, <1>9, <1>10, <1>11, <1>12 DEF FeralEdit

\* A key that changes the current buffer is followed by what shows it.  In Windows that is
\* not the minibuffer.
LEMMA FreshBuffer ==
  ASSUME Base, Fresh, KeysBelow, Outer, toolkit' = toolkit, UNCHANGED <<queued, frame>>, EditBuffer
  PROVE  Fresh' /\ StartsFresh'
<1>0. Types /\ Grammar /\ toolkit \in {"gtk", "winui"}
  BY DEF Base
<1>1. /\ Next_("edit") /\ Do(<<>>) /\ UNCHANGED <<buffer, phase, upset>>
      /\ stale' = IF buffer = "mini" THEN stale \cup {"mini"} ELSE stale \cup {"text", "mode"}
  BY DEF EditBuffer
<1>2. phase = "run" /\ calls # <<>> /\ Nth(Top.todo, 1) = "edit" /\ Top.todo \in Seq(Word)
      /\ Top.todo # <<>> /\ Head(Top.todo) = "edit"
  BY <1>0, <1>1, TopWords DEF Grammar
<1>3. /\ calls' # <<>> /\ Top'.fn = Top.fn
      /\ Follows(toolkit, Top.fn, "edit", Nth(Top.todo, 2))
      /\ Next1(Len(calls))' = Nth(Top.todo, 2)
  <2>1. Admits("edit", <<>>)
    BY AdmitsAre
  <2> QED
    BY <1>0, <1>1, <2>1, FreshSays
<1>4. /\ Len(calls) \in DOMAIN calls /\ Top = calls[Len(calls)] /\ Top.fn \in Loops \cup {"handler", "catch"}
      /\ Top.fn \in Loops => Top.todo = <<>>
      /\ Next1(Len(calls)) = "edit" /\ DOMAIN calls = 1..Len(calls) /\ Len(calls) \in Nat
  BY <1>0, <1>2, TopSeat
<1>5. \/ Next1(Len(calls))' = Finish(toolkit)
      \/ Top'.fn = "catch" /\ Next1(Len(calls))' = "end"
  BY <1>2, <1>3, <1>4 DEF Follows
<1>6. ASSUME toolkit = "winui", Sound PROVE buffer # "mini"
  <2>1. KeysAt(Len(calls))
    <3>1. "edit" \in Range(Top.todo)
      <4>1. Top.todo[1] = "edit" /\ 1 \in DOMAIN Top.todo
        BY <1>2 DEF Nth
      <4> QED
        BY <4>1 DEF Range
    <3> QED
      BY <1>4, <3>1 DEF KeysAt, Command
  <2>2. Beneath(Len(calls)) = {}
    BY <1>4, <1>6, <2>1 DEF KeysBelow, Sound
  <2>3. Minis = {}
    <3> SUFFICES ASSUME NEW m \in Minis PROVE FALSE
      OBVIOUS
    <3>1. m \in DOMAIN calls /\ calls[m].fn = "mini" /\ m # Len(calls)
      BY <1>2, <1>4 DEF Minis, Loops
    <3>2. m < Len(calls)
      BY <1>4, <3>1
    <3> QED
      BY <2>2, <3>1, <3>2 DEF Beneath
  <2> QED
    BY <1>2, <1>4, <1>6, <2>3 DEF Outer, Sound
<1>7. ASSUME frame' = "shown", toolkit = "winui" => Sound
      PROVE  toolkit = "gtk" \/ "mini" \notin Unshown'
  <2>1. Unshown = {}
    <3>1. "edit" \notin {"invalidate", Shows(toolkit), Finish(toolkit)}
      BY DEF Shows, Finish
    <3> QED
      BY <1>1, <1>2, <1>7, <3>1, FreshIs
  <2>2. toolkit = "winui" => stale' = stale \cup {"text", "mode"}
    BY <1>1, <1>6, <1>7
  <2> QED
    BY <1>0, <2>1, <2>2 DEF Unshown
<1>8. StartsFresh'
  BY <1>1, <1>2 DEF StartsFresh
<1> QED
  BY <1>1, <1>5, <1>7, <1>8 DEF Fresh, Sound

\* GTK draws again whatever is out of date.
LEMMA GtkFresh ==
  ASSUME toolkit = "gtk", Base, Base', KeysBelow, Outer, Fresh, StartsFresh,
         Gtk!GtkNext, UNCHANGED <<toolkit, winVars>>
  PROVE  Fresh' /\ StartsFresh'
<1> USE GtkIsFeral
<1>0. Types /\ Grammar /\ Screens
  BY DEF Base
<1>1. ASSUME NEW w, Next_(w), frame' = "shown" => frame = "shown",
             UNCHANGED <<upset, phase>>, Unshown # {} /\ frame' = "shown" => Unshown' = {},
             Unshown = {} => Unshown' = {}
      PROVE  Fresh' /\ StartsFresh'
  <2>1. phase = "run"
    BY <1>1 DEF Next_
  <2> QED
    BY <1>1, <2>1 DEF Fresh, StartsFresh
<1>2. ASSUME phase' # "start", frame' = "shown" => Unshown' = {}
      PROVE  Fresh' /\ StartsFresh'
  BY <1>2 DEF Fresh, StartsFresh
<1>3. ASSUME NEW w, Next_(w), w \notin {"invalidate", "redraw"},
             frame' = "shown" => frame = "shown", phase' = phase,
             Unshown = {} /\ frame = "shown" => Unshown' = {}
      PROVE  Fresh' /\ StartsFresh'
  <2>1. phase = "run" /\ calls # <<>>
    BY <1>0, <1>3 DEF Next_, Grammar
  <2>2. w \notin {"invalidate", Shows(toolkit), Finish(toolkit)}
    BY <1>3 DEF Shows, Finish
  <2>3. frame = "shown" => Unshown = {}
    BY <1>3, <2>1, <2>2, FreshIs
  <2> QED
    BY <1>2, <1>3, <2>1, <2>3
<1>4. CASE Gtk!User
  <2>1. PICK ws : Gtk!Event(ws)
    BY <1>4 DEF Gtk!User, Gtk!TextviewDoubleClick,
       Gtk!TextviewButtonPress, Gtk!TextviewMotionNotify, Gtk!TextviewMousewheel, Gtk!Close,
       Gtk!TextviewKeyPress, Gtk!MinibufferKeyPress
  <2>2. Take(ws) /\ UNCHANGED <<frame, stale, queued>>
    BY <2>1, GtkFeral DEF Gtk!Event, Gtk!gtkVars, Gtk!screenVars
  <2>3. InLoop /\ upset \subseteq upset' /\ phase' = phase /\ phase = "run"
    BY <2>2 DEF Take, CanTake, InLoop
  <2> QED
    BY <2>2, <2>3, FreshLoops DEF Unshown
<1>5. CASE Gtk!SizeAllocate
  <2>1. /\ phase = "run" /\ Top.fn = "main" /\ stale' = stale \cup {"text"} /\ queued' = queued \cup {"text"}
        /\ UNCHANGED <<frame, phase, upset>>
    BY <1>5 DEF Gtk!SizeAllocate, Gtk!feralVars
  <2>2. InLoop /\ Unshown' \subseteq Unshown
    BY <2>1 DEF InLoop, Loops, Unshown
  <2> QED
    BY <2>1, <2>2, FreshLoops
<1>6. CASE Gtk!Initialize
  <2>1. calls' = calls /\ phase' = "start" /\ stale' = queued'
    BY <1>6 DEF Gtk!Initialize, Gtk!feralVars
  <2> QED
    BY <2>1 DEF Fresh, StartsFresh, Unshown
<1>7. CASE Gtk!GtkMain
  <2>1. phase = "start" /\ phase' = "run" /\ UNCHANGED <<stale, queued>>
    BY <1>7 DEF Gtk!GtkMain, Gtk!screenVars
  <2> QED
    BY <1>2, <2>1 DEF StartsFresh, Unshown
<1>8. CASE Gtk!GtkMainReturns
  <2>1. calls' = <<>> /\ phase' = "over"
    BY <1>8 DEF Gtk!GtkMainReturns
  <2> QED
    BY <2>1 DEF Fresh, StartsFresh
<1>9. CASE Gtk!MinibufferMain
  <2>1. /\ Next_("main") /\ UNCHANGED <<frame, phase>>
        /\ IF frame = "shown" THEN stale' = stale \cup {"text", "mini"} /\ queued' = queued \cup {"text", "mini"}
           ELSE UNCHANGED <<stale, queued>>
    BY <1>9 DEF Gtk!MinibufferMain, Gtk!GrabFocus
  <2>2. Unshown = {} => Unshown' = {}
    BY <2>1 DEF Unshown
  <2> QED
    BY <1>3, <2>1, <2>2
<1>10. CASE Gtk!MinibufferMainReturns
  <2>1. /\ phase = "run" /\ Top.fn = "mini" /\ UNCHANGED <<frame, phase, upset>>
        /\ IF frame = "shown" THEN stale' = stale \cup {"text", "mini"} /\ queued' = queued \cup {"text", "mini"}
           ELSE UNCHANGED <<stale, queued>>
    BY <1>10 DEF Gtk!MinibufferMainReturns, Gtk!GrabFocus, Gtk!ToldToQuit, InLoop
  <2>2. InLoop /\ Unshown' \subseteq Unshown
    BY <2>1 DEF InLoop, Loops, Unshown
  <2> QED
    BY <2>1, <2>2, FreshLoops
<1>11. CASE Gtk!MinibufferExit
  <2>1. Next_("leave") /\ UNCHANGED <<frame, phase, stale, queued>>
    BY <1>11 DEF Gtk!MinibufferExit, Gtk!screenVars
  <2> QED
    BY <1>3, <2>1 DEF Unshown
<1>12. CASE Gtk!Exit
  <2>1. Next_("exit") /\ frame' = "destroyed" /\ phase' = phase
    BY <1>12 DEF Gtk!Exit
  <2> QED
    BY <1>3, <2>1 DEF Next_, Fresh, StartsFresh
<1>13. CASE Gtk!Draw
  <2>1. InLoop /\ UNCHANGED <<frame, phase, upset>> /\ stale' = stale \ queued /\ queued' = {}
    BY <1>13 DEF Gtk!Draw, Gtk!feralVars
  <2> QED
    BY <2>1, FreshLoops DEF Unshown, InLoop
<1>14. CASE Gtk!UpdateDisplay
  <2>1. /\ UNCHANGED <<frame, phase, upset>>
        /\ stale' = IF frame = "shown" THEN stale \cup {"mode"} ELSE stale
        /\ \/ Next_("update") /\ queued' = IF frame = "shown" THEN queued \cup {"text", "mode"} ELSE queued
           \/ Next_("redraw") /\ queued' = IF frame = "shown" THEN queued \cup Widget ELSE queued
    BY <1>14 DEF Gtk!UpdateDisplay, Gtk!resting, Gtk!TextviewInvalidate, Gtk!Queue
  <2>2. CASE Next_("update") /\ queued' = IF frame = "shown" THEN queued \cup {"text", "mode"} ELSE queued
    BY <1>3, <2>1, <2>2 DEF Unshown
  <2>3. CASE Next_("redraw") /\ queued' = IF frame = "shown" THEN queued \cup Widget ELSE queued
    <3>1. stale \subseteq Widget /\ "mode" \in Widget
      BY <1>0 DEF Screens, Widget
    <3> QED
      BY <1>1, <2>1, <2>3, <3>1 DEF Unshown
  <2> QED
    BY <2>1, <2>2, <2>3
<1>15. CASE Gtk!QueueDraw
  <2>1. /\ Next_("redraw_mini") /\ UNCHANGED <<frame, phase, stale>>
        /\ queued \subseteq queued'
    BY <1>15 DEF Gtk!QueueDraw, Gtk!resting, Gtk!Queue
  <2> QED
    BY <1>3, <2>1 DEF Unshown
<1>16. CASE Gtk!MinibufferInvalidate
  <2>1. /\ Next_("invalidate") /\ UNCHANGED <<frame, phase, upset, stale>>
        /\ queued' = IF frame = "shown" THEN queued \cup {"mini"} ELSE queued
    BY <1>16 DEF Gtk!MinibufferInvalidate, Gtk!resting, Gtk!Queue
  <2>2. phase = "run" /\ calls # <<>>
    BY <1>0, <2>1 DEF Next_, Grammar
  <2>3. frame = "shown" => Unshown \subseteq {"mini"}
    BY <2>1, <2>2, FreshIs
  <2> QED
    BY <1>2, <2>1, <2>2, <2>3 DEF Unshown
<1>17. CASE Gtk!GetClipboardText
  <2>1. Next_("clipboard") /\ UNCHANGED <<frame, phase, stale, queued>>
    BY <1>17 DEF Gtk!GetClipboardText, Gtk!gtkVars, Gtk!screenVars
  <2> QED
    BY <1>3, <2>1 DEF Unshown
<1>18. CASE Gtk!PumpEnds
  <2>1. InLoop /\ UNCHANGED <<frame, phase, upset, stale, queued>>
    BY <1>18 DEF Gtk!PumpEnds, Gtk!gtkVars, Gtk!screenVars
  <2> QED
    BY <2>1, FreshLoops DEF Unshown, InLoop
<1>19. CASE (Gtk!FeralStep \/ Gtk!ToParent(<<"invalidate">>)) /\ UNCHANGED Gtk!gtkVars
  <2>1. (FeralStep \/ ToParent(<<"invalidate">>)) /\ UNCHANGED <<stale, queued, frame>>
    BY <1>19, GtkFeral DEF Gtk!gtkVars, Gtk!screenVars
  <2> QED
    BY <2>1, FreshFeral
<1>20. CASE (Gtk!FeralEdit \/ Gtk!EditBuffer) /\ UNCHANGED <<Gtk!resting, queued>>
  <2>1. (FeralEdit \/ EditBuffer) /\ UNCHANGED <<queued, frame>>
    BY <1>20, GtkFeral DEF Gtk!resting
  <2> QED
    BY <2>1, FreshEdits, FreshBuffer
<1> QED
  BY <1>4, <1>5, <1>6, <1>7, <1>8, <1>9, <1>10, <1>11, <1>12, <1>13, <1>14,
     <1>15, <1>16, <1>17, <1>18, <1>19, <1>20 DEF Gtk!GtkNext, Gtk!GtkStep

\* So does Windows, while the question keeps the focus and no error has left its loop.
LEMMA WinFresh ==
  ASSUME toolkit = "winui", Base, Base', KeysBelow, Outer, Fresh, StartsFresh,
         Win!WinNext, UNCHANGED <<toolkit, loops>>
  PROVE  Fresh' /\ StartsFresh'
<1> USE WinIsFeral
<1>0. Types /\ Grammar /\ Screens
  BY DEF Base
<1>1. ASSUME NEW w, Next_(w), w \notin {"invalidate", "repaint", "update"},
             UNCHANGED <<frame, stale, queued, upset>>, phase' = phase
      PROVE  Fresh' /\ StartsFresh'
  <2>1. phase = "run" /\ w \notin {"invalidate", Shows(toolkit), Finish(toolkit)}
    BY <1>1 DEF Next_, Shows, Finish
  <2> QED
    BY <1>1, <2>1, FreshStays
<1>2. ASSUME InLoop, UNCHANGED <<frame, phase, upset>>, Unshown' \subseteq Unshown
      PROVE  Fresh' /\ StartsFresh'
  BY <1>2, FreshLoops DEF InLoop
<1>3. ASSUME NEW w, Next_(w), UNCHANGED <<frame, phase, upset>>,
             frame = "shown" /\ Sound => Unshown' = {}
      PROVE  Fresh' /\ StartsFresh'
  BY <1>3 DEF Next_, Fresh, StartsFresh, Sound
<1>4. CASE Win!User
  <2>1. (\E ws : Win!Event(ws)) \/ Win!Activate
    BY <1>4 DEF Win!User, Win!TextviewDoubleClick, Win!TextviewLbuttondown, Win!TextviewShiftClick,
       Win!TextviewMousemove, Win!TextviewMousewheel, Win!RequestUpdateDisplay, Win!Close,
       Win!TextviewKeydown, Win!MinibufferKeydown, Win!MinibufferChar, Win!TextviewOtherKey,
       Win!TextviewChar
  <2>2. ASSUME NEW ws, Win!Event(ws) PROVE Fresh' /\ StartsFresh'
    <3>1. Take(ws) /\ UNCHANGED <<frame, stale, queued>>
      BY <2>2, WinFeral DEF Win!Event, Win!screenVars
    <3>2. InLoop /\ upset \subseteq upset' /\ phase' = phase /\ phase = "run"
      BY <3>1 DEF Take, CanTake, InLoop
    <3> QED
      BY <3>1, <3>2, FreshLoops DEF Unshown
  <2>3. CASE Win!Activate
    <3>1. Win!CanTake /\ phase' = phase /\ "activated" \in upset'
      BY <2>3 DEF Win!Activate
    <3>2. phase = "run"
      BY <3>1 DEF Win!CanTake, Win!InLoop
    <3> QED
      BY <3>1, <3>2 DEF Fresh, StartsFresh
  <2> QED
    BY <2>1, <2>2, <2>3
<1>5. CASE Win!Resize
  <2>1. PICK h \in Heights : Win!Size(h, measured)
    BY <1>5 DEF Win!Resize
  <2>2. queued' = Widget /\ stale' = stale /\ phase = "run"
    BY <1>5 DEF Win!Resize
  <2>3. phase' \in {phase, "dead"}
    BY <2>1 DEF Win!Size
  <2>4. Unshown' = {}
    BY <1>0, <2>2 DEF Screens, Unshown
  <2> QED
    BY <2>2, <2>3, <2>4 DEF Fresh, StartsFresh
<1>6. CASE Win!Initialize
  <2>1. calls' = calls /\ phase' = phase /\ frame' = "none" /\ UNCHANGED <<stale, queued>>
    BY <1>6 DEF Win!Initialize, Win!feralVars, Win!screenVars
  <2> QED
    BY <2>1 DEF Fresh, StartsFresh, Unshown
<1>7. CASE Win!CreateFrame
  <2>1. phase = "start" /\ (stale' = queued' \/ (stale' = stale /\ queued' = queued))
    BY <1>7 DEF Win!CreateFrame
  <2> QED
    BY <2>1 DEF Fresh, StartsFresh, Unshown
<1>8. CASE Win!WinMain
  <2>1. phase = "start" /\ phase' = "run" /\ UNCHANGED <<stale, queued>>
    BY <1>8 DEF Win!WinMain, Win!screenVars
  <2> QED
    BY <2>1 DEF Fresh, StartsFresh, Unshown
<1>9. CASE Win!IgnoreQuit
  <2>1. InLoop /\ UNCHANGED <<frame, phase, upset, stale, queued>>
    BY <1>9 DEF Win!IgnoreQuit, Win!feralVars, Win!screenVars
  <2> QED
    BY <1>2, <2>1 DEF Unshown
<1>10. CASE Win!MinibufferMain
  <2>1. Next_("main") /\ UNCHANGED <<frame, phase, upset, stale, queued>>
    BY <1>10 DEF Win!MinibufferMain
  <2> QED
    BY <1>1, <2>1
<1>11. CASE Win!MinibufferMainReturns
  <2>1. InLoop /\ UNCHANGED <<frame, phase, upset, stale, queued>>
    BY <1>11 DEF Win!MinibufferMainReturns
  <2> QED
    BY <1>2, <2>1 DEF Unshown
<1>12. CASE Win!MinibufferExit
  <2>1. Next_("leave") /\ UNCHANGED <<frame, phase, upset, stale, queued>>
    BY <1>12 DEF Win!MinibufferExit, Win!screenVars
  <2> QED
    BY <1>1, <2>1
<1>13. CASE Win!Exit
  <2>1. Next_("exit") /\ frame' = "destroyed" /\ phase' \in {phase, "over"}
    BY <1>13 DEF Win!Exit
  <2>2. phase = "run"
    BY <2>1 DEF Next_
  <2> QED
    BY <2>1, <2>2 DEF Fresh, StartsFresh
<1>14. CASE Win!TextviewPaint \/ Win!MinibufferPaint \/ Win!ModelinePaint
  <2>1. /\ InLoop /\ UNCHANGED <<frame, phase, upset>>
        /\ \E x : stale' = stale \ {x} /\ queued' = queued \ {x}
    BY <1>14 DEF Win!TextviewPaint, Win!MinibufferPaint, Win!ModelinePaint, Win!feralVars
  <2> QED
    BY <1>2, <2>1 DEF Unshown
<1>15. CASE Win!UpdateDisplay
  <2>1. /\ Next_("update") /\ UNCHANGED <<frame, phase, upset, queued>>
        /\ stale' = stale \ {"text", "mode"}
    BY <1>15 DEF Win!UpdateDisplay
  <2>2. frame = "shown" /\ Sound => "mini" \notin Unshown
    <3>1. "update" = Finish(toolkit) /\ calls # <<>>
      BY <1>0, <2>1 DEF Finish, Next_, Grammar
    <3> QED
      BY <2>1, <3>1, FreshIs
  <2>3. stale \subseteq {"text", "mode", "mini"}
    BY <1>0 DEF Screens, Widget
  <2> QED
    BY <1>3, <2>1, <2>2, <2>3 DEF Unshown
<1>16. CASE Win!RepaintMinibuffer
  <2>1. Next_("repaint") /\ UNCHANGED <<frame, phase, upset, queued>> /\ stale' = stale \ {"mini"}
    BY <1>16 DEF Win!RepaintMinibuffer
  <2>2. frame = "shown" /\ Sound => Unshown \subseteq {"mini"}
    <3>1. "repaint" = Shows(toolkit) /\ calls # <<>>
      BY <1>0, <2>1 DEF Shows, Next_, Grammar
    <3> QED
      BY <2>1, <3>1, FreshIs
  <2> QED
    BY <1>3, <2>1, <2>2 DEF Unshown
<1>17. CASE Win!MinibufferInvalidate
  <2>1. /\ Next_("invalidate") /\ UNCHANGED <<frame, phase, upset, stale>>
        /\ queued' = IF frame = "shown" THEN queued \cup {"mini"} ELSE queued
    BY <1>17 DEF Win!MinibufferInvalidate
  <2>2. frame = "shown" /\ Sound => Unshown \subseteq {"mini"}
    <3>1. calls # <<>>
      BY <1>0, <2>1 DEF Next_, Grammar
    <3> QED
      BY <2>1, <3>1, FreshIs
  <2> QED
    BY <1>3, <2>1, <2>2 DEF Unshown
<1>18. CASE Win!GetClipboardText
  <2>1. Next_("clipboard") /\ UNCHANGED <<frame, phase, upset, stale, queued>>
    BY <1>18 DEF Win!GetClipboardText, Win!screenVars
  <2> QED
    BY <1>1, <2>1
<1>19. CASE (Win!FeralStep \/ Win!ToParent(<<>>)) /\ UNCHANGED <<frame, focus, screenVars, winVars>>
  <2>1. (FeralStep \/ ToParent(<<>>)) /\ UNCHANGED <<stale, queued, frame>>
    BY <1>19, WinFeral DEF screenVars
  <2> QED
    BY <2>1, FreshFeral
<1>20. CASE (Win!FeralEdit \/ Win!EditBuffer)
            /\ UNCHANGED <<frame, focus, queued, caret, view, sizeVars, winVars>>
  <2>1. (FeralEdit \/ EditBuffer) /\ UNCHANGED <<queued, frame>>
    BY <1>20, WinFeral
  <2> QED
    BY <2>1, FreshEdits, FreshBuffer
<1> QED
  BY <1>4, <1>5, <1>6, <1>7, <1>8, <1>9, <1>10, <1>11, <1>12, <1>13, <1>14, <1>15, <1>16, <1>17,
     <1>18, <1>19, <1>20 DEF Win!WinNext, Win!WinStep, Win!screenVars, screenVars, Win!sizeVars,
     sizeVars, Win!winVars, winVars

\* Every step keeps Fresh and StartsFresh.
LEMMA FreshStep ==
  ASSUME Base, Base', KeysBelow, Outer, Fresh, StartsFresh, [Next]_vars
  PROVE  Fresh' /\ StartsFresh'
<1>1. CASE OfGtk(Gtk!GtkNext)
  BY <1>1, GtkFresh DEF OfGtk
<1>2. CASE OfWin(Win!WinNext)
  BY <1>2, WinFresh DEF OfWin
<1>3. CASE UNCHANGED vars
  BY <1>3 DEF vars, feralVars, screenVars, Fresh, StartsFresh, Unshown, Next1, Top
<1> QED
  BY <1>1, <1>2, <1>3 DEF Next

\* When the editor waits, whatever is out of date on the screen will be drawn again
\* (gtkui.c, the invalidate functions; winui.c, WM_PAINT and update-display).
THEOREM NothingIsLeftStale == Spec => []NothingStaysStale
<1> DEFINE Inv == Base /\ Questions /\ KeysBelow /\ Fresh /\ StartsFresh
<1>1. Init => Inv
  <2> SUFFICES ASSUME Init PROVE Inv
    OBVIOUS
  <2>1. calls = <<>> /\ stale = {}
    BY DEF Init, FeralInit
  <2>2. DOMAIN calls = {}
    BY <2>1
  <2>3. Minis = {}
    BY <2>2 DEF Minis
  <2>4. KeysBelow
    BY <2>2, <2>3 DEF KeysBelow
  <2> QED
    BY <2>1, <2>4, BaseStart, QuestionsStart DEF Fresh, StartsFresh, Unshown
<1>2. Inv /\ [Next]_vars => Inv'
  <2> SUFFICES ASSUME Inv, [Next]_vars PROVE Inv'
    OBVIOUS
  <2>1. Questions' /\ Base' /\ Shape /\ Summary
    BY QuestionsStep, BaseStep
  <2>2. toolkit' = toolkit
    BY <2>1 DEF Summary
  <2>3. KeysBelow'
    BY <2>1, <2>2, KeysBelowStep
  <2>4. Fresh' /\ StartsFresh'
    BY <2>1, FreshStep DEF Questions
  <2> QED
    BY <2>1, <2>3, <2>4
<1>3. Inv => NothingStaysStale
  <2> SUFFICES ASSUME Inv, Rests, upset \cap {"activated", "failed"} = {}
               PROVE  stale \subseteq queued
    BY DEF NothingStaysStale
  <2>1. InLoop /\ frame = "shown" /\ calls # <<>>
    BY DEF Rests, InLoop, Base, Grammar
  <2>2. Unshown = {}
    BY <2>1, FreshIs DEF Sound
  <2> QED
    BY <2>2 DEF Unshown
<1> HIDE DEF Inv
<1> QED
  BY <1>1, <1>2, <1>3, PTL DEF Spec
==============================================================================
