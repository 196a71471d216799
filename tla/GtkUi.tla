------------------------------- MODULE GtkUi --------------------------------
(***************************************************************************)
(* The GTK front end of Feral (src/gtkui.c): the widgets, the event loops  *)
(* and the handlers that call back into Feral (Minibuffer).                *)
(*                                                                         *)
(* gtk_main runs a GMainLoop and keeps the loops in a list of its own;     *)
(* gtk_main_quit stops the head of that list, whoever is running.  A       *)
(* redraw of the minibuffer runs the main context until nothing is         *)
(* pending, on top of the handler that asked for it ("pump").              *)
(***************************************************************************)
EXTENDS Minibuffer

CONSTANT MaxLoops   \* bound on GTK's list of loops: abandoned ones stay in it

VARIABLE loops    \* GTK's list of main loops, the head last: TRUE once told to quit

gtkVars == <<frame, focus, loops, screenVars>>
resting == <<frame, focus, loops, caret, view, sizeVars>>

\* Draws of the widgets ws are asked for; nothing comes of it without a window.
Queue(ws) == queued' = IF frame = "shown" THEN queued \cup ws ELSE queued

\* gtk_widget_grab_focus; both widgets are redrawn for it.
GrabFocus_OneDrawn(w) ==
    IF frame = "shown"
    THEN /\ focus' = w
         /\ stale' = stale \cup {"text", "mini"}
         /\ queued' = queued \cup (IF w = "textview" THEN {"text"} ELSE {"mini"})
    ELSE UNCHANGED <<focus, stale, queued>>

GrabFocus(w) ==
    IF frame = "shown"
    THEN /\ focus' = w
         /\ stale' = stale \cup {"text", "mini"}
         /\ queued' = queued \cup {"text", "mini"}
    ELSE UNCHANGED <<focus, stale, queued>>

----------------------------------------------------------------------------
(* Start and the loops.                                                    *)

\* gtkui__initialize: the frame, its three widgets and their handlers.
Initialize ==
    /\ phase = "start" /\ frame = "none"
    /\ frame' = "shown" /\ focus' = "textview"
    /\ stale' = Widget /\ queued' = Widget
    /\ UNCHANGED <<feralVars, loops, caret, view, sizeVars>>

GtkMain ==
    /\ phase = "start" /\ frame = "shown"
    /\ phase' = "run"
    /\ calls' = <<Loop("main", 1)>>
    /\ loops' = <<FALSE>>
    /\ UNCHANGED <<askVars, upset, frame, focus, screenVars>>

\* gtk_main_quit has been called for the loop that runs.
ToldToQuit == InLoop /\ Top.fn # "pump" /\ loops[Top.loop]

\* g_main_loop_run returns; the loop is taken off the list.
GtkMainReturns ==
    /\ ToldToQuit /\ Top.fn = "main"
    /\ phase' = "over" /\ calls' = <<>>
    /\ loops' = RemoveAt(loops, Top.loop)
    /\ UNCHANGED <<askVars, upset, frame, focus, screenVars>>

\* gtkui__minibuffer_main up to the nested gtk_main, and from there.
MinibufferMain ==
    /\ Next_("main")
    /\ GrabFocus("minibuffer")
    /\ Push(Loop("mini", Len(loops) + 1))
    /\ loops' = Append(loops, FALSE)
    /\ UNCHANGED <<askVars, phase, upset, frame, caret, view, sizeVars>>

MinibufferMainReturns_Unfocused ==
    /\ ToldToQuit /\ Top.fn = "mini"
    /\ calls' = Front(calls)
    /\ loops' = RemoveAt(loops, Top.loop)
    /\ UNCHANGED <<askVars, phase, upset, frame, focus, screenVars>>

MinibufferMainReturns ==
    /\ ToldToQuit /\ Top.fn = "mini"
    /\ GrabFocus("textview")
    /\ calls' = Front(calls)
    /\ loops' = RemoveAt(loops, Top.loop)
    /\ UNCHANGED <<askVars, phase, upset, frame, caret, view, sizeVars>>

\* gtk_main_quit.
MainQuit == loops' = IF loops = <<>> THEN loops ELSE [loops EXCEPT ![Len(loops)] = TRUE]

MinibufferExit ==
    /\ Next_("leave")
    /\ MainQuit
    /\ Do(<<>>)
    /\ UNCHANGED <<askVars, phase, upset, frame, focus, screenVars>>

\* exit-feral: gtkui__exit.
Exit_LoopsRun ==
    /\ Next_("exit")
    /\ frame' = "destroyed" /\ focus' = "none"
    /\ Do(<<>>)
    /\ queued' = {} /\ stale' = {} /\ caret' = {}
    /\ UNCHANGED <<askVars, phase, upset, loops, view, sizeVars>>

Exit ==
    /\ Next_("exit")
    /\ frame' = "destroyed" /\ focus' = "none"
    /\ MainQuit
    /\ Do(<<>>)
    /\ queued' = {} /\ stale' = {} /\ caret' = {}
    /\ UNCHANGED <<askVars, phase, upset, view, sizeVars>>

----------------------------------------------------------------------------
(* The size of the text view, and drawing.                                 *)

\* gtkui__textview_size_allocate, after gtkui__frame_configure has asked for it.
\* (Nothing else depends on the size: it changes while the main loop waits.)
SizeAllocate ==
    /\ phase = "run" /\ Top.fn = "main" /\ frame = "shown"
    /\ height' \in Heights
    /\ rows' = IF measured THEN height' \div CharHeight ELSE rows
    /\ stale' = stale \cup {"text"} /\ queued' = queued \cup {"text"}
    /\ UNCHANGED <<feralVars, frame, focus, loops, caret, view, measured>>

\* The first draw takes the metrics of the font.
Measure ==
    /\ measured' = TRUE
    /\ rows' = IF measured THEN rows ELSE height \div CharHeight

\* gtkui__textview_text_out, called for each line of the buffer by editor:repaint,
\* which turns to the parent while the minibuffer is current.
TextOut_Current == view' = buffer

TextOut == view' = IF buffer = "mini" THEN parent ELSE buffer

\* A caret is drawn where the focus is.
TextviewDrawCaret == IF focus = "textview" THEN {"text"} ELSE {}
MinibufferDrawCaret == IF focus = "minibuffer" THEN {"mini"} ELSE {}

\* gtkui__textview_draw.
TextviewDraw ==
    IF "text" \in queued THEN Measure /\ TextOut ELSE UNCHANGED <<measured, rows, view>>

\* gtkui__minibuffer_draw and gtkui__textview_draw leave these carets.
CaretsDrawn ==
    (IF "text" \in queued THEN TextviewDrawCaret ELSE caret \cap {"text"}) \cup
    (IF "mini" \in queued THEN MinibufferDrawCaret ELSE caret \cap {"mini"})

\* The toolkit draws all that is queued; what is drawn shows the present state.
Draw ==
    /\ InLoop /\ frame = "shown" /\ queued # {}
    /\ TextviewDraw
    /\ caret' = CaretsDrawn
    /\ stale' = stale \ queued
    /\ queued' = {}
    /\ UNCHANGED <<feralVars, frame, focus, loops, height>>

----------------------------------------------------------------------------
(* The words of handlers that touch the widgets.                           *)

\* gtkui__textview_invalidate.
TextviewInvalidate_TextOnly == Queue({"text"})

TextviewInvalidate == Queue({"text", "mode"})

\* update-display, which also sets a new text for the mode line (modeline_set_text).
\* After a key ("redraw") the whole frame is redrawn.
UpdateDisplay ==
    /\ \/ Next_("update") /\ TextviewInvalidate
       \/ Next_("redraw") /\ Queue(Widget)
    /\ stale' = IF frame = "shown" THEN stale \cup {"mode"} ELSE stale
    /\ Do(<<>>)
    /\ UNCHANGED <<askVars, phase, upset, resting>>

\* on_minibuffer_key_press ends with a redraw.
QueueDraw ==
    /\ Next_("redraw_mini")
    /\ Queue({"mini"})
    /\ Do(<<>>)
    /\ UNCHANGED <<askVars, phase, upset, resting, stale>>

\* gtkui__minibuffer_invalidate: queues the draw and runs the main context.
MinibufferInvalidate ==
    /\ Next_("invalidate")
    /\ Queue({"mini"})
    /\ Push(Loop("pump", 0))
    /\ UNCHANGED <<askVars, phase, upset, resting, stale>>

\* gtkui__get_clipboard_text waits for the text in a loop of its own.
GetClipboardText ==
    /\ Next_("clipboard")
    /\ Push(Loop("pump", 0))
    /\ UNCHANGED <<askVars, phase, upset, gtkVars>>

\* Nothing is pending any more.
PumpEnds ==
    /\ InLoop /\ Top.fn = "pump"
    /\ calls' = Front(calls)
    /\ UNCHANGED <<askVars, phase, upset, gtkVars>>

----------------------------------------------------------------------------
(* What the user does: the innermost loop calls the handler.               *)

\* A loop that has been told to quit takes nothing more.
Event(words) == ~ToldToQuit /\ Len(loops) <= MaxLoops /\ Take(words) /\ UNCHANGED gtkVars

\* gtkui__textview_key_press takes no notice of the modifier keys themselves.
TextviewKeyPress(k) ==
    /\ focus = "textview"
    /\ Event(<<"clear", k, "redraw">>)

\* gtkui__textview_button_press: a double click counts as a key, that of
\* select-word, by which no text changes.
TextviewDoubleClick == Event(<<"clear", "update">>)
TextviewButtonPress == Event(<<"to_parent", "update">>)

\* gtkui__textview_motion_notify, with the button down; the position may be the same.
TextviewMotionNotify == Event(<<"update">>)

\* gtkui__textview_mousewheel: either way the text view is invalidated.
TextviewMousewheel == Event(<<"update">>)

\* on_minibuffer_key_press: Shift by itself is dispatched and means nothing.
MinibufferCommand ==
    {<<"insert", "invalidate">>, <<"accept", "invalidate">>, <<"cancel", "invalidate">>,
     <<"do_quit", "invalidate">>, <<"throw">>, <<>>}

MinibufferKeyPress(ws) ==
    /\ focus = "minibuffer"
    /\ Event(<<"assert">> \o ws \o <<"restore", "redraw_mini">>)

\* The close button: gtkui__close.
Close == Event(<<"do_quit">>)

User ==
    \/ \E k \in Command : TextviewKeyPress(k)
    \/ TextviewDoubleClick \/ TextviewButtonPress
    \/ TextviewMotionNotify \/ TextviewMousewheel
    \/ \E ws \in MinibufferCommand : MinibufferKeyPress(ws)
    \/ Close

GtkStep ==
    \/ Initialize \/ GtkMain \/ GtkMainReturns
    \/ MinibufferMain \/ MinibufferMainReturns \/ MinibufferExit \/ Exit
    \/ Draw \/ UpdateDisplay \/ QueueDraw
    \/ MinibufferInvalidate \/ GetClipboardText \/ PumpEnds
    \/ (FeralStep \/ ToParent(<<"invalidate">>)) /\ UNCHANGED gtkVars
    \/ (FeralEdit \/ EditBuffer) /\ UNCHANGED <<resting, queued>>

GtkNext == GtkStep \/ SizeAllocate \/ User

=============================================================================
