------------------------ MODULE FrontEndsInvariants ------------------------
EXTENDS FrontEnds

(***************************************************************************)
(* What holds of the front ends at every step.  The properties of          *)
(* FrontEnds are the part of it that a user sees, when the editor waits.   *)
(***************************************************************************)

(***************************************************************************)
(* The frames of the call stack.  What a frame may still have to do: which *)
(* word follows which, "end" being the end of its words.                   *)
(***************************************************************************)
Nth(words, n) == IF n \in DOMAIN words THEN words[n] ELSE "end"

\* Ends a key's handler, and shows what is typed in the minibuffer.
Finish(tk) == IF tk = "gtk" THEN "redraw" ELSE "update"
Shows(tk) == IF tk = "gtk" THEN "invalidate" ELSE "repaint"

\* What a frame has next when another is on top of it.
Waiting ==
  Command \cup {"redraw", "update", "to_parent", "leave", "invalidate", "restore", "run", "end"}

\* After w comes next, in a frame that is a fn.
Follows(tk, fn, w, next) ==
  /\ w = "clear" => next \in Command \cup {"update", "to_parent", "end"}
  /\ w \in Command \ {"edit"} => fn = "handler" /\ next = Finish(tk)
  /\ w = "edit" => next = IF fn = "handler" THEN Finish(tk) ELSE "end"
  /\ w = "clipboard" => fn = "catch" /\ next = "edit"
  /\ w \in {"redraw", "update", "redraw_mini", "repaint", "say"} => next = "end"
  /\ w = "to_parent" => next = "update"
  /\ w \in {"cancel", "accept", "leave"} => next \in {"invalidate", "update"}
  /\ w = "invalidate" => next \in Waiting
  /\ w = "assert" =>
       next \in {"insert", "accept", "cancel", "do_quit", "throw", "restore", "end"}
  /\ w = "insert" => next = Shows(tk)
  /\ w \in {"do_quit", "answer", "exit"} => next \in {"invalidate", "end"}
  /\ w = "throw" => next \in {"restore", "end"}
  /\ w = "restore" => next \in {"answer", "redraw_mini"}
  /\ w = "prompt" => next = "run"
  /\ w = "run" => next = "main"
  /\ w = "main" => next = "restore"

\* A buffer is restored after a question, whose answer is used then, or at a handler's end.
Third(w, next, third) ==
  /\ w = "main" => third = "answer"
  /\ w # "main" /\ next = "restore" => third = "redraw_mini"
  /\ third # "run"

\* The words of a frame that is a fn are in order.
Lawful(tk, fn, words) ==
  /\ words \in Seq(Word)
  /\ \A n \in DOMAIN words :
       /\ Follows(tk, fn, words[n], Nth(words, n + 1))
       /\ Third(words[n], Nth(words, n + 1), Nth(words, n + 2))

Next1(i) == Nth(calls[i].todo, 1)
Next2(i) == Nth(calls[i].todo, 2)

\* The frame f may be the i-th, on top of b.
Sits(tk, i, f, b) ==
  /\ f.fn = "main" <=> i = 1
  /\ f.fn \in Loops => f.todo = <<>>
  /\ f.fn = "handler" => b.fn \in Loops
  /\ f.fn = "catch" => b.fn = "handler" /\ b.todo = <<Finish(tk)>>
  /\ f.fn \in {"mini", "pump"} => b.fn \in {"handler", "catch"}
  /\ f.fn = "mini" => Nth(b.todo, 1) = "restore" /\ Nth(b.todo, 2) = "answer"
  /\ f.fn = "pump" => tk = "gtk"

\* The frame f may wait for g to be done.
Waits(f, g) ==
  /\ Nth(f.todo, 1) \in Waiting
  /\ Nth(f.todo, 1) = "restore" /\ Nth(f.todo, 2) = "answer" => g.fn = "mini"
  /\ Nth(f.todo, 1) = "run" => g.fn = "pump"
  /\ Nth(f.todo, 1) = "invalidate" => Nth(f.todo, 2) # "run"

\* The i-th frame sits where it may.
Seated(i) == Sits(toolkit, i, calls[i], calls[i - 1])

\* All frames are in order, while the program runs and only then.
Grammar ==
  /\ phase = "run" <=> calls # <<>>
  /\ \A i \in DOMAIN calls : Seated(i) /\ Lawful(toolkit, calls[i].fn, calls[i].todo)
  /\ \A i \in DOMAIN calls : i < Len(calls) => Waits(calls[i], calls[i + 1])

\* GTK's list has the loops that run, in order.
LoopsListed ==
  toolkit = "gtk" =>
    /\ \A i \in DOMAIN calls : calls[i].fn \in {"main", "mini"} => calls[i].loop \in DOMAIN loops
    /\ \A i, j \in DOMAIN calls :
         calls[i].fn \in {"main", "mini"} /\ calls[j].fn \in {"main", "mini"} /\ i < j
         => calls[i].loop < calls[j].loop

----------------------------------------------------------------------------
(***************************************************************************)
(* The question that is open.  Beneath the i-th frame, and in all, the     *)
(* loops of questions.                                                     *)
(***************************************************************************)
Beneath(i) == {m \in DOMAIN calls : m < i /\ calls[m].fn = "mini"}
Minis == {m \in DOMAIN calls : calls[m].fn = "mini"}

\* The current buffer is the document, but for the question that is asked, and that will restore it.
Outer ==
  "failed" \notin upset =>
    /\ buffer = "mini" /\ Minis = {} /\ calls # <<>> =>
         Next1(Len(calls)) \in {"main", "restore"}
    /\ \A i \in DOMAIN calls : Beneath(i) = {} =>
         /\ Next1(i) = "main" \/ (Next1(i) = "restore" /\ Next2(i) = "answer")
              => calls[i].saved = "edit"
         /\ "redraw_mini" \in Range(calls[i].todo) => Next1(i) = "assert"

\* The loop of a question has been told to end.
Told == IF toolkit = "gtk" THEN \E m \in Minis : loops[calls[m].loop] ELSE minibuffer_exit \/ quit

\* What keys and clicks do while a question is open.
Answering ==
  {"clear", "to_parent", "cancel", "invalidate", "leave", "update", "assert", "insert",
   "accept", "do_quit", "throw", "restore", "redraw_mini", "repaint"}

\* One question at a time.
OneQuestion ==
  upset \cap {"nested", "activated"} = {} =>
    \A m \in Minis :
      /\ frame = "shown" => focus = "minibuffer"
      /\ toolkit = "gtk" => calls[m].loop = Len(loops)
      /\ \A i \in DOMAIN calls : i > m =>
           calls[i].fn \in {"handler", "pump"} /\ Range(calls[i].todo) \subseteq Answering

\* The i-th frame is about to tell it.
Leaving(i) == Next1(i) = "leave" \/ (Next1(i) = "invalidate" /\ Next2(i) = "leave")

\* The buffer and the focus are those of the open question, or of the text.
Focused ==
  /\ phase \in {"start", "run"} /\ frame = "shown"
  /\ upset \cap {"nested", "clicked", "failed", "activated"} = {}
  =>
    /\ Minis = {} => focus = "textview"
    /\ \A m \in Minis :
         /\ \/ buffer = "mini" \/ Told
            \/ \E i \in DOMAIN calls : i > m /\ Leaving(i)
            \/ Next1(Len(calls)) = "cancel" /\ text = Line(prompt)
         /\ \A i \in DOMAIN calls : i > m /\ "restore" \in Range(calls[i].todo) =>
                Next1(i) = "assert" \/ calls[i].saved = "mini"

\* The i-th frame goes on to ask its question, or has an answer to come.
Preparing(i) ==
  Next1(i) \in {"run", "main"} \/ (Next1(i) = "invalidate" /\ Next2(i) = "run")
Asked(i) ==
  Preparing(i) \/ Next1(i) = "answer" \/ (Next1(i) = "restore" /\ Next2(i) = "answer")

\* Who has an answer to come owns the prompt and what is accepted, and the open
\* question the line until its loop has been told to end.
Answered ==
  upset \cap {"ahead", "nested", "activated"} = {} =>
    /\ \A i \in DOMAIN calls :
         /\ calls[i].fn = "pump" => i = Len(calls)
         /\ Asked(i) => /\ prompt = calls[i].ask
                        /\ contents # NoText => contents.of = calls[i].ask
         /\ Preparing(i) => text.of = calls[i].ask /\ contents = NoText
    /\ \A m \in Minis :
         /\ \/ buffer # "mini" \/ text.of = calls[m - 1].ask \/ Told
            \/ \E i \in DOMAIN calls : i > m /\ Leaving(i)
         /\ Told => \A i \in DOMAIN calls : i > m => Next1(i) \notin {"assert", "accept"}
         /\ \A i \in DOMAIN calls : i > m /\ "restore" \in Range(calls[i].todo) =>
                Next1(i) = "assert" \/ (buffer = "mini" /\ calls[i].saved = "mini")

\* The minibuffer is current where its line is changed or accepted, and when its loop begins.
MiniIsCurrent ==
  calls # <<>> /\ Next1(Len(calls)) \in {"accept", "insert", "main"} => buffer = "mini"

\* GTK leaves the focus where it is; in Windows only a destroyed window posts WM_QUIT.
Quits ==
  /\ toolkit = "gtk" => "activated" \notin upset
  /\ toolkit = "winui" /\ quit => frame = "destroyed"

----------------------------------------------------------------------------
(***************************************************************************)
(* The screen.                                                             *)
(***************************************************************************)
\* In Windows, keys of the text view are only taken when no question is open.
KeysAt(i) == Range(calls[i].todo) \cap (Command \cup {"clipboard"}) # {}
KeysBelow ==
  toolkit = "winui" /\ upset \cap {"activated", "failed"} = {} =>
    /\ Minis # {} /\ frame = "shown" => focus = "minibuffer" \/ Told
    /\ \A i \in DOMAIN calls : KeysAt(i) => Beneath(i) = {}

\* What is out of date is drawn when the handler goes on, or ends.
Unshown == stale \ queued
Fresh ==
  frame = "shown" /\ calls # <<>> /\ (toolkit = "winui" => upset \cap {"activated", "failed"} = {}) =>
    \/ Unshown = {}
    \/ Unshown \subseteq {"mini"} /\ Next1(Len(calls)) \in {"invalidate", Shows(toolkit)}
    \/ /\ toolkit = "gtk" \/ "mini" \notin Unshown
       /\ \/ Next1(Len(calls)) = Finish(toolkit)
          \/ Top.fn = "catch" /\ Next1(Len(calls)) = "end"

\* So it is before the main loop begins.
StartsFresh == phase = "start" => Unshown = {}

\* A caret stands where the keys go, but in GTK only once it has been drawn.
Carets ==
  frame = "shown" =>
    /\ focus \in {"textview", "minibuffer"}
    /\ toolkit = "winui" => caret = IF focus = "textview" THEN {"text"} ELSE {"mini"}
    /\ toolkit = "gtk" =>
         /\ caret \subseteq {"text", "mini"}
         /\ "text" \notin queued => ("text" \in caret <=> focus = "textview")
         /\ "mini" \notin queued => ("mini" \in caret <=> focus = "minibuffer")

\* GTK's text view shows the document, and so does what a question goes back to.
Document ==
  toolkit = "gtk" /\ upset \cap {"nested", "failed"} = {} => parent = "edit" /\ view = "edit"
=============================================================================
