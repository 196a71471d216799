----------------------------- MODULE FrontEnds ------------------------------
(***************************************************************************)
(* The Feral editor with one of its two window front ends, GtkUi or WinUi, *)
(* from its start to its end, and what the two promise alike.              *)
(***************************************************************************)
EXTENDS Minibuffer

CONSTANTS Toolkits,   \* the front ends that Feline may have been built with
          MaxLoops    \* see GtkUi

ASSUME ToolkitsAssumption == Toolkits \subseteq {"gtk", "winui"} /\ MaxLoops \in Nat

VARIABLES toolkit, loops, classes, windows, minibuffer_exit, quit, standalone

Gtk == INSTANCE GtkUi
Win == INSTANCE WinUi

winVars == <<classes, windows, minibuffer_exit, quit, standalone>>
vars == <<feralVars, frame, focus, screenVars, toolkit, loops, winVars>>

Init ==
    /\ FeralInit
    /\ toolkit \in Toolkits
    /\ loops = <<>>
    /\ Win!InitWin
    /\ toolkit = "gtk" => standalone    \* which makes no difference there

OfGtk(A) == toolkit = "gtk" /\ A /\ UNCHANGED <<toolkit, winVars>>
OfWin(A) == toolkit = "winui" /\ A /\ UNCHANGED <<toolkit, loops>>

Next == OfGtk(Gtk!GtkNext) \/ OfWin(Win!WinNext)

\* Handlers run on and the toolkit's loops serve what is queued; what the user does,
\* and when the window is resized, is up to them.
Spec ==
    /\ Init /\ [][Next]_vars
    /\ WF_vars(OfGtk(Gtk!GtkStep))
    /\ WF_vars(OfWin(Win!WinStep))

----------------------------------------------------------------------------
TypeOK ==
    /\ calls \in Seq(Call)
    /\ buffer \in {"edit", "mini"} /\ parent \in {"edit", "mini"}
    /\ prompt \in Asker \cup {"none"}
    /\ text \in Text /\ contents \in Text \cup {NoText}
    /\ phase \in {"start", "run", "over", "dead"}
    /\ upset \subseteq Mishap
    /\ frame \in {"none", "hidden", "shown", "destroyed"}
    /\ focus \in {"none", "textview", "minibuffer"}
    /\ stale \subseteq Widget /\ queued \subseteq Widget /\ caret \subseteq Widget
    /\ view \in {"edit", "mini"}
    /\ height \in Heights /\ measured \in BOOLEAN /\ rows \in Nat
    /\ loops \in Seq(BOOLEAN)
    /\ classes \in 0..3 /\ windows \in 0..4
    /\ minibuffer_exit \in BOOLEAN /\ quit \in BOOLEAN /\ standalone \in BOOLEAN

\* An answer is the line that this very question was answered with.
\* (quit.feline and the callers of minibuffer-accept-string act on what they get.)
AnswersAreOwn ==
    /\ Next_("answer") /\ contents # NoText
    /\ upset \cap {"ahead", "nested", "activated"} = {}
    => contents.of = Top.ask /\ prompt = Top.ask

\* The editor waits for the user, in the main loop or for an answer.
Rests == InLoop /\ Top.fn # "pump" /\ frame = "shown"
WaitsInMain == Rests /\ Top.fn = "main"
WaitsForAnswer ==
    /\ Rests /\ Top.fn = "mini"
    /\ IF toolkit = "gtk" THEN ~loops[Top.loop] ELSE ~minibuffer_exit /\ ~quit

\* Keys go to the minibuffer, and it is the current buffer, while a question is open
\* and only then, however its loop was left.
FocusFollowsQuestion ==
    upset \cap {"nested", "clicked", "failed", "activated"} = {} =>
        /\ WaitsInMain => buffer = "edit" /\ focus = "textview"
        /\ WaitsForAnswer => buffer = "mini" /\ focus = "minibuffer"

\* When the editor waits, whatever is out of date on the screen will be drawn again.
NothingStaysStale ==
    Rests /\ upset \cap {"activated", "failed"} = {} => stale \subseteq queued

\* When all is drawn, there is one caret, where the keys go.
CaretIsWhereKeysGo ==
    Rests /\ queued = {} => caret = (IF focus = "textview" THEN {"text"} ELSE {"mini"})

\* GTK's text view shows the document also while a question is open.
ViewShowsTheDocument ==
    toolkit = "gtk" /\ upset \cap {"nested", "failed"} = {} =>
        (Rests /\ queued = {} => view = "edit")

\* "current-buffer minibuffer assert-eq" (gtkui-minibuffer.feline) and
\* "current-buffer minibuffer? assert" (winui-minibuffer.feline).
AssertHolds == Next_("assert") => buffer = "mini"

\* When the window has been destroyed the editor ends, in GTK by leaving every loop
\* and in Windows by bye, unless something else runs on the primordial thread.
ExitEnds ==
    /\ frame = "destroyed"
    /\ toolkit = "winui" => standalone
    /\ upset \cap {"ahead", "nested", "failed"} = {}
    ~> phase # "run"
=============================================================================
