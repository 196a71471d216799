----------------------------- MODULE Minibuffer -----------------------------
(***************************************************************************)
(* The part of the Feral editor that its two window front ends share: the  *)
(* text view's and the minibuffer's key handlers, the questions asked in   *)
(* the minibuffer, errors, and the quit command (feral/feral-main.feline,  *)
(* feral/quit.feline and feral/{gtkui,winui}-minibuffer.feline).           *)
(*                                                                         *)
(* A question is asked by a nested call of the toolkit's event loop, which *)
(* runs further handlers on top of the command that asked.  So the control *)
(* state is a call stack: a frame is an event loop of the toolkit, or a    *)
(* handler with the words it has still to execute.  What a word does to    *)
(* the windows is an action of GtkUi or WinUi.                             *)
(***************************************************************************)
EXTENDS Naturals, FiniteSets, Sequences, SequencesExt

CONSTANTS MaxCalls,   \* bound on the depth of the call stack
          MaxPumps,   \* bound on event loops inside handlers that take input
          MaxUpset,   \* the user rests when more than this has gone wrong
          CharHeight, \* of the font, in the unit of the heights
          Heights     \* heights that the text view may be given

ASSUME BoundsAssumption ==
    MaxCalls \in Nat \ {0} /\ MaxPumps \in Nat /\ MaxUpset \in Nat
ASSUME SizesAssumption == CharHeight \in Nat \ {0} /\ Heights \subseteq Nat

VARIABLES
    calls,     \* the call stack, the running frame last
    buffer,    \* current-buffer: "edit" or "mini"
    parent,    \* parent>> of the minibuffer
    prompt,    \* prompt: who asked last
    text,      \* the minibuffer's line: for which question it was begun with a
               \*   prompt, and whether keys have changed it
    contents,  \* minibuffer-contents: the line that was accepted, or NoText
    phase,     \* of the editor: "start", "run", "over", "dead"
    upset,     \* history: what has happened that the code does not provide for
    frame,     \* the window: "none", "hidden", "shown", "destroyed"
    focus,     \* the widget with the keyboard focus
    stale,     \* widgets that do not show what they should
    queued,    \* widgets that will be drawn again
    caret,     \* widgets that show a caret
    view,      \* the buffer that the text view shows
    height,    \* of the text view
    measured,  \* char_height and char_width have been taken from the font
    rows       \* textview_rows

askVars == <<buffer, parent, prompt, text, contents>>
feralVars == <<calls, askVars, phase, upset>>
sizeVars == <<height, measured, rows>>
screenVars == <<stale, queued, caret, view, sizeVars>>

Widget == {"text", "mode", "mini"}

\* Commands that ask: one in the text view, and do-quit with modified buffers.
Asker == {"file", "quit"}

Text == [of : Asker \cup {"none", "message"}, typed : BOOLEAN]
Line(a) == [of |-> a, typed |-> FALSE]
Empty == Line("none")
NoText == [of |-> "nil", typed |-> FALSE]

\* What the properties have to except.
\*   "ahead"   a key or click was taken while a handler waited for redrawing
\*   "nested"  do-quit was called while a question was open
\*   "clicked" a click in the text left the minibuffer's loop running
\*   "failed"  an error escaped through a running event loop
\*   "activated" the window got the focus back while a question was open
Mishap == {"ahead", "nested", "clicked", "failed", "activated"}

\* Commands of the text view that the model tells apart, and all words of handlers.
Command == {"edit", "ask", "quit", "fail", "paste"}
Word == Command \cup
    {"clear", "say", "update", "redraw", "redraw_mini", "repaint", "invalidate", "clipboard",
     "to_parent", "assert", "insert", "accept", "cancel", "leave", "throw",
     "do_quit", "exit", "prompt", "run", "main", "restore", "answer"}

Loops == {"main", "mini", "pump"}
Call == [fn : Loops \cup {"handler", "catch"}, todo : Seq(Word), loop : Nat,
         ask : Asker \cup {"none"}, saved : {"edit", "mini"}]

\* A loop that the toolkit knows as its n-th, a handler, a safe-call-symbol.
Loop(fn, n) ==
    [fn |-> fn, todo |-> <<>>, loop |-> n, ask |-> "none", saved |-> "edit"]
Handler(words) == [Loop("handler", 0) EXCEPT !.todo = words]
Catch(words, asker) == [Loop("catch", 0) EXCEPT !.todo = words, !.ask = asker]

Top == Last(calls)
InLoop == phase = "run" /\ Top.fn \in Loops
Open(fn) == {i \in DOMAIN calls : calls[i].fn = fn}

\* The running handler's next word is w.
Next_(w) == phase = "run" /\ Top.todo # <<>> /\ Head(Top.todo) = w

\* Replaces the next word by the words ws, the running frame being f.
Become(f, ws) == Append(Front(calls), [f EXCEPT !.todo = ws \o Tail(Top.todo)])
Do(ws) == calls' = Become(Top, ws)
Push(f) == calls' = Append(Become(Top, <<>>), f)

FeralInit ==
    /\ calls = <<>>
    /\ buffer = "edit" /\ parent = "edit"
    /\ prompt = "none" /\ text = Empty /\ contents = NoText
    /\ phase = "start" /\ upset = {}
    /\ frame = "none" /\ focus = "none"
    /\ stale = {} /\ queued = {} /\ caret = {} /\ view = "edit"
    /\ height \in Heights /\ measured = FALSE /\ rows = 0

----------------------------------------------------------------------------
(* throw: back to the innermost safe-call-symbol, which reports the error; *)
(* without one, no_catch ends the editor.  The frames in between are gone  *)
(* without having done the rest of their work.                             *)
Throw ==
    LET at == SelectLastInSeq(calls, LAMBDA f : f.fn = "catch")
    IN  /\ upset' = IF \E i \in DOMAIN calls : i > at /\ i > 1 /\ calls[i].fn \in Loops
                    THEN upset \cup {"failed"} ELSE upset
        /\ IF at = 0
           THEN phase' = "dead" /\ calls' = <<>>
           ELSE /\ phase' = phase
                /\ calls' = Append(SubSeq(calls, 1, at - 1),
                                   [calls[at] EXCEPT !.todo = <<"say">>])

\* minibuffer-set-text: shows nothing new if the text is the same.
SetText(t, rest) ==
    /\ text' = t
    /\ Do((IF t = text THEN <<>> ELSE <<"invalidate">>) \o rest)

\* clear-message and message leave the minibuffer alone while it is current.
ClearMessage ==
    /\ Next_("clear")
    /\ IF buffer = "mini" THEN Do(<<>>) /\ UNCHANGED text ELSE SetText(Empty, <<>>)
    /\ UNCHANGED <<buffer, parent, prompt, contents, phase, upset>>

Message ==
    /\ Next_("say")
    /\ IF buffer = "mini" THEN Do(<<>>) /\ UNCHANGED text
       ELSE SetText(Line("message"), <<>>)
    /\ UNCHANGED <<buffer, parent, prompt, contents, phase, upset>>

----------------------------------------------------------------------------
(* Commands, called by safe-call-symbol.                                   *)
SafeCall(w, words, asker) ==
    /\ Next_(w)
    /\ Push(Catch(words, asker))
    /\ UNCHANGED <<askVars, phase, upset>>

AskWords == <<"prompt", "run", "main", "restore", "answer">>

AskCommand == SafeCall("ask", AskWords, "file")
QuitCommand == SafeCall("quit", <<"do_quit">>, "none")
FailingCommand == SafeCall("fail", <<"throw">>, "none")
PasteCommand == SafeCall("paste", <<"clipboard", "edit">>, "none")

\* do-quit leaves at once when no buffer is modified, and asks otherwise.
DoQuit ==
    /\ Next_("do_quit")
    /\ \/ Do(<<"exit">>)
       \/ calls' = Become([Top EXCEPT !.ask = "quit"], AskWords)
    /\ upset' = IF Open("mini") # {} THEN upset \cup {"nested"} ELSE upset
    /\ UNCHANGED <<askVars, phase>>

Raise ==
    /\ Next_("throw")
    /\ Throw
    /\ UNCHANGED askVars

----------------------------------------------------------------------------
(* minibuffer-accept-string: the prompt, the nested loop, the answer.      *)
SetPrompt_Late ==
    /\ Next_("prompt")
    /\ contents' = NoText
    /\ SetText(Line(Top.ask), <<>>)
    /\ UNCHANGED <<buffer, parent, prompt, phase, upset>>

SetPrompt ==
    /\ Next_("prompt")
    /\ prompt' = Top.ask
    /\ contents' = NoText
    /\ SetText(Line(Top.ask), <<>>)
    /\ UNCHANGED <<buffer, parent, phase, upset>>

\* minibuffer-run, inside keep-current-buffer.
MinibufferRun ==
    /\ Next_("run")
    /\ parent' = buffer
    /\ buffer' = "mini"
    /\ calls' = Become([Top EXCEPT !.saved = buffer], <<>>)
    /\ UNCHANGED <<prompt, text, contents, phase, upset>>

Restore ==
    /\ Next_("restore")
    /\ buffer' = Top.saved
    /\ Do(<<>>)
    /\ UNCHANGED <<parent, prompt, text, contents, phase, upset>>

\* What was accepted, less the length of the prompt that is now in force.  The
\* tail of a line that does not begin with it is rubbish or an error, be it another
\* question's line or one in which keys have edited the prompt away.
Answer ==
    /\ Next_("answer")
    /\ \/ Do(<<>>) /\ UNCHANGED <<phase, upset>>
       \/ /\ Top.ask = "quit" /\ contents # NoText /\ contents.typed
          /\ Do(<<"exit">>) /\ UNCHANGED <<phase, upset>>
       \/ contents # NoText /\ Throw
    /\ UNCHANGED askVars

----------------------------------------------------------------------------
(* minibuffer-dispatch and the commands of the minibuffer's keymap.        *)
\* It asserts that the minibuffer is current, and keeps it so (keep-current-buffer).
AssertMinibuffer ==
    /\ Next_("assert")
    /\ IF buffer = "mini"
       THEN /\ calls' = Become([Top EXCEPT !.saved = buffer], <<>>)
            /\ UNCHANGED <<phase, upset>>
       ELSE Throw
    /\ UNCHANGED askVars

InsertChar ==
    /\ Next_("insert")
    /\ text' = [text EXCEPT !.typed = TRUE]
    /\ Do(<<>>)
    /\ UNCHANGED <<buffer, parent, prompt, contents, phase, upset>>

\* update-history takes the tail behind the prompt, which may fail as in Answer.
Accept ==
    /\ Next_("accept")
    /\ contents' = text
    /\ \/ SetText(Empty, <<"leave">>) /\ UNCHANGED <<phase, upset>>
       \/ Throw /\ UNCHANGED text
    /\ UNCHANGED <<buffer, parent, prompt>>

\* minibuffer-cancel gives up the question only if nothing has been typed.
Cancel ==
    /\ Next_("cancel")
    /\ IF text = Line(prompt)
       THEN contents' = NoText /\ SetText(Empty, <<"leave">>)
       ELSE UNCHANGED contents /\ SetText(Line(prompt), <<>>)
    /\ UNCHANGED <<buffer, parent, prompt, phase, upset>>

\* A click in the text view makes the minibuffer's parent current and cancels.
ToParent(rest) ==
    /\ Next_("to_parent")
    /\ IF buffer = "mini"
       THEN /\ buffer' = parent
            /\ Do(<<"cancel">> \o rest)
            /\ upset' = IF text = Line(prompt) THEN upset ELSE upset \cup {"clicked"}
       ELSE Do(<<>>) /\ UNCHANGED <<buffer, upset>>
    /\ UNCHANGED <<parent, prompt, text, contents, phase>>

\* A handler that has executed its words returns to the frame below.
Return ==
    /\ phase = "run" /\ Top.fn \notin Loops /\ Top.todo = <<>>
    /\ calls' = Front(calls)
    /\ UNCHANGED <<askVars, phase, upset>>

\* The words that change nothing of the windows.
FeralStep ==
    \/ AskCommand \/ QuitCommand \/ FailingCommand \/ PasteCommand \/ DoQuit \/ Raise
    \/ MinibufferRun \/ Restore \/ Answer
    \/ AssertMinibuffer \/ Return

\* The words that change the line of the minibuffer, which it then has to show.
FeralEdit ==
    /\ ClearMessage \/ Message \/ SetPrompt \/ InsertChar \/ Accept \/ Cancel
    /\ stale' = IF text' = text \/ frame # "shown" THEN stale ELSE stale \cup {"mini"}

\* insert-char and the like, in the current buffer.
EditBuffer ==
    /\ Next_("edit")
    /\ IF buffer = "mini"
       THEN text' = [text EXCEPT !.typed = TRUE] /\ stale' = stale \cup {"mini"}
       ELSE text' = text /\ stale' = stale \cup {"text", "mode"}
    /\ Do(<<>>)
    /\ UNCHANGED <<buffer, parent, prompt, contents, phase, upset>>

----------------------------------------------------------------------------
(* A loop of the toolkit calls a handler for something the user does.      *)
CanTake ==
    /\ InLoop /\ frame = "shown"
    /\ Len(calls) < MaxCalls
    /\ Cardinality(Open("pump")) <= MaxPumps
    /\ Cardinality(upset) <= MaxUpset

Take(words) ==
    /\ CanTake
    /\ calls' = Append(calls, Handler(words))
    /\ upset' = IF Top.fn = "pump" THEN upset \cup {"ahead"} ELSE upset
    /\ UNCHANGED <<askVars, phase>>
=============================================================================
