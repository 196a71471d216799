------------------------------- MODULE WinUi --------------------------------
(***************************************************************************)
(* The Windows front end of Feral (src/winui.c): the windows, the message  *)
(* loops and the window procedures that call back into Feral (Minibuffer). *)
(*                                                                         *)
(* The main loop polls the message queue for ever and takes no notice of   *)
(* WM_QUIT.  The loop of a question waits for a message, and looks at one  *)
(* global flag, minibuffer_exit, before it dispatches the message.         *)
(***************************************************************************)
EXTENDS Minibuffer

VARIABLES
    classes,    \* window classes registered: none, frame, text view, minibuffer
    windows,    \* windows created: none, frame, text view, modeline, minibuffer
    minibuffer_exit,
    quit,       \* WM_QUIT is in the message queue
    standalone  \* the editor runs on the primordial thread

winVars == <<classes, windows, minibuffer_exit, quit, standalone>>

InitWin ==
    /\ classes = 0 /\ windows = 0
    /\ minibuffer_exit = FALSE /\ quit = FALSE
    /\ standalone \in BOOLEAN

\* SetFocus: the old window destroys the caret and the new one creates it.
SetFocus(w) ==
    /\ focus' = IF frame = "shown" THEN w ELSE focus
    /\ caret' = IF frame # "shown" THEN caret
                ELSE IF w = "textview" THEN {"text"} ELSE {"mini"}

----------------------------------------------------------------------------
(* Start.                                                                  *)

\* winui__initialize gives up at the first class that it cannot register.
Initialize ==
    /\ phase = "start" /\ frame = "none" /\ classes = 0
    /\ classes' \in 0..3
    /\ UNCHANGED <<feralVars, frame, focus, screenVars,
                   windows, minibuffer_exit, quit, standalone>>

\* winui__create_font, called when the frame has been created.
CreateFont == measured' \in BOOLEAN

\* A text view without a font divides its height by zero (WM_SIZE).
Size(h, font) ==
    /\ height' = h
    /\ IF font THEN rows' = h \div CharHeight /\ UNCHANGED <<phase, calls>>
       ELSE phase' = "dead" /\ calls' = <<>> /\ UNCHANGED rows

\* How many windows can be created: the modeline is of a class of the system's.
Creatable == IF classes < 2 THEN classes ELSE classes + 1

\* winui__create_frame gives up at the first window that it cannot create, which
\* is there and stays hidden.  Only when all are there the frame is shown.
CreateFrame ==
    /\ phase = "start" /\ frame = "none"
    /\ windows' \in 0..Creatable
    /\ IF windows' = 0 THEN UNCHANGED measured ELSE CreateFont
    /\ IF windows' < 2 THEN UNCHANGED <<height, rows, phase, calls>> ELSE Size(height, measured')
    /\ frame' = IF windows' < 4 THEN "hidden" ELSE "shown"
    /\ focus' = IF windows' < 4 THEN focus ELSE "textview"
    /\ caret' = IF windows' < 4 THEN caret ELSE {"text"}
    /\ stale' = IF windows' < 4 THEN stale ELSE Widget
    /\ queued' = IF windows' < 4 THEN queued ELSE Widget
    /\ UNCHANGED <<askVars, upset, view, classes, minibuffer_exit, quit, standalone>>

\* winui__main is entered whatever could be created.
WinMain ==
    /\ phase = "start" /\ frame # "none"
    /\ phase' = "run"
    /\ calls' = <<Loop("main", 1)>>
    /\ UNCHANGED <<askVars, upset, frame, focus, screenVars, winVars>>

----------------------------------------------------------------------------
(* The loops.                                                              *)

\* winui__main dispatches WM_QUIT like any message, and runs on.
IgnoreQuit ==
    /\ InLoop /\ Top.fn = "main" /\ quit
    /\ quit' = FALSE
    /\ UNCHANGED <<feralVars, frame, focus, screenVars,
                   classes, windows, minibuffer_exit, standalone>>

\* winui__minibuffer_main up to its loop.
MinibufferMain ==
    /\ Next_("main")
    /\ minibuffer_exit' = FALSE
    /\ SetFocus("minibuffer")
    /\ Push(Loop("mini", 1))
    /\ UNCHANGED <<askVars, phase, upset, frame, stale, queued, view, sizeVars,
                   classes, windows, quit, standalone>>

\* It ends with WM_QUIT, or with a message that it takes and drops.
MinibufferMainReturns ==
    /\ InLoop /\ Top.fn = "mini"
    /\ quit \/ minibuffer_exit
    /\ quit' = FALSE
    /\ SetFocus("textview")
    /\ calls' = Front(calls)
    /\ UNCHANGED <<askVars, phase, upset, frame, stale, queued, view, sizeVars,
                   classes, windows, minibuffer_exit, standalone>>

MinibufferExit ==
    /\ Next_("leave")
    /\ minibuffer_exit' = TRUE
    /\ Do(<<>>)
    /\ UNCHANGED <<askVars, phase, upset, frame, focus, screenVars,
                   classes, windows, quit, standalone>>

\* exit-feral: winui__exit, whose WM_DESTROY posts WM_QUIT, and then bye if the
\* thread is the primordial one.
Exit ==
    /\ Next_("exit")
    /\ frame' = "destroyed" /\ focus' = "none"
    /\ stale' = {} /\ queued' = {} /\ caret' = {}
    /\ quit' = TRUE
    /\ IF standalone THEN phase' = "over" /\ calls' = <<>> ELSE Do(<<>>) /\ UNCHANGED phase
    /\ UNCHANGED <<askVars, upset, view, sizeVars,
                   classes, windows, minibuffer_exit, standalone>>

----------------------------------------------------------------------------
(* Painting.  What is drawn shows the current buffer, be it the minibuffer. *)

\* winui__resize, for WM_SIZE of the frame: the text view is given its height and
\* everything is drawn again.
Resize ==
    /\ phase = "run" /\ Top.fn = "main" /\ frame = "shown"
    /\ \E h \in Heights : Size(h, measured)
    /\ queued' = Widget
    /\ UNCHANGED <<askVars, upset, frame, focus, stale, caret, view, measured, winVars>>

\* winui__textview_text_out and winui__textview_clear_eol, for each line (repaint).
TextOut == view' = buffer

\* WM_PAINT of the text view.
TextviewPaint ==
    /\ InLoop /\ frame = "shown" /\ "text" \in queued
    /\ TextOut
    /\ stale' = stale \ {"text"}
    /\ queued' = queued \ {"text"}
    /\ UNCHANGED <<feralVars, frame, focus, caret, sizeVars, winVars>>

\* WM_PAINT of the minibuffer.
MinibufferPaint ==
    /\ InLoop /\ frame = "shown" /\ "mini" \in queued
    /\ stale' = stale \ {"mini"}
    /\ queued' = queued \ {"mini"}
    /\ UNCHANGED <<feralVars, frame, focus, caret, view, sizeVars, winVars>>

\* The mode line is a control of the system's and paints itself.
ModelinePaint ==
    /\ InLoop /\ frame = "shown" /\ "mode" \in queued
    /\ stale' = stale \ {"mode"}
    /\ queued' = queued \ {"mode"}
    /\ UNCHANGED <<feralVars, frame, focus, caret, view, sizeVars, winVars>>

\* update-display paints at once, all lines or only those that have changed, and
\* winui__modeline_set_text.
UpdateDisplay ==
    /\ Next_("update")
    /\ TextOut \/ UNCHANGED view
    /\ stale' = stale \ {"text", "mode"}
    /\ Do(<<>>)
    /\ UNCHANGED <<askVars, phase, upset, frame, focus, queued, caret, sizeVars, winVars>>

\* repaint-minibuffer: winui__minibuffer_text_out and winui__minibuffer_clear_eol.
RepaintMinibuffer ==
    /\ Next_("repaint")
    /\ stale' = stale \ {"mini"}
    /\ Do(<<>>)
    /\ UNCHANGED <<askVars, phase, upset, frame, focus, queued, caret, view, sizeVars, winVars>>

\* winui__minibuffer_invalidate.
MinibufferInvalidate ==
    /\ Next_("invalidate")
    /\ queued' = IF frame = "shown" THEN queued \cup {"mini"} ELSE queued
    /\ Do(<<>>)
    /\ UNCHANGED <<askVars, phase, upset, frame, focus, stale, caret, view, sizeVars, winVars>>

\* winui__get_clipboard_text returns a text or NULL, and waits for nothing; NULL
\* or not, what paste inserts is the head of the kill list.
GetClipboardText ==
    /\ Next_("clipboard")
    /\ Do(<<>>)
    /\ UNCHANGED <<askVars, phase, upset, frame, focus, screenVars, winVars>>

----------------------------------------------------------------------------
(* Messages that the user or another thread sends.  A question that has been *)
(* answered takes nothing more.                                             *)
Event(words) ==
    /\ CanTake /\ (Top.fn = "mini" => ~minibuffer_exit /\ ~quit)
    /\ Take(words)
    /\ UNCHANGED <<frame, focus, screenVars, winVars>>

\* winui__textview_keydown: without a command for the key nothing is updated.
TextviewKeydown(k) == focus = "textview" /\ Event(<<"clear", k, "update">>)
TextviewOtherKey == focus = "textview" /\ Event(<<"clear">>)

\* WM_CHAR.
TextviewChar == focus = "textview" /\ Event(<<"edit", "update">>)

\* select-word, like a key; no text changes.
TextviewDoubleClick == Event(<<"clear", "update">>)
TextviewLbuttondown == Event(<<"clear", "to_parent", "update">>)
TextviewShiftClick == Event(<<"clear", "update">>)

\* WM_MOUSEMOVE with the button down, WM_MOUSEWHEEL, WM_FERAL_UPDATE_DISPLAY.
TextviewMousemove == Event(<<"update">>)
TextviewMousewheel == Event(<<"update">>)
RequestUpdateDisplay == Event(<<"update">>)

\* winui__minibuffer_keydown and WM_CHAR.
MinibufferCommand ==
    {<<"accept", "invalidate">>, <<"cancel", "invalidate">>,
     <<"do_quit", "invalidate">>, <<"throw">>, <<>>}
MinibufferKeydown(ws) == focus = "minibuffer" /\ Event(<<"assert">> \o ws)
MinibufferChar == focus = "minibuffer" /\ Event(<<"assert", "insert", "repaint">>)

\* WM_CLOSE: winui_close.
Close == Event(<<"do_quit">>)

\* The frame is activated again (WM_SETFOCUS), and gives the text view the focus.
Activate ==
    /\ CanTake /\ Top.fn = "mini"
    /\ SetFocus("textview")
    /\ upset' = upset \cup {"activated"}
    /\ UNCHANGED <<calls, askVars, phase, frame, stale, queued, view, sizeVars, winVars>>

User ==
    \/ \E k \in Command : TextviewKeydown(k)
    \/ TextviewOtherKey \/ TextviewChar \/ TextviewDoubleClick
    \/ TextviewLbuttondown \/ TextviewShiftClick
    \/ TextviewMousemove \/ TextviewMousewheel \/ RequestUpdateDisplay
    \/ \E ws \in MinibufferCommand : MinibufferKeydown(ws)
    \/ MinibufferChar \/ Close \/ Activate

WinStep ==
    \/ Initialize \/ CreateFrame \/ WinMain
    \/ IgnoreQuit \/ MinibufferMain \/ MinibufferMainReturns \/ MinibufferExit \/ Exit
    \/ TextviewPaint \/ MinibufferPaint \/ ModelinePaint
    \/ UpdateDisplay \/ RepaintMinibuffer \/ MinibufferInvalidate \/ GetClipboardText
    \/ (FeralStep \/ ToParent(<<>>)) /\ UNCHANGED <<frame, focus, screenVars, winVars>>
    \/ (FeralEdit \/ EditBuffer)
        /\ UNCHANGED <<frame, focus, queued, caret, view, sizeVars, winVars>>

WinNext == WinStep \/ Resize \/ User

=============================================================================
