------------------------------- MODULE Process ------------------------------
(***************************************************************************)
(* The process that Feline runs in: main() up to the Feline system proper  *)
(* (src/main.c), the modes of the terminal (src/terminal.c), and the ways  *)
(* in which the process ends.  The terminal outlives the process.          *)
(***************************************************************************)
EXTENDS Integers

CONSTANT Plans   \* what a behaviour may do at most, one of a set of records:
                 \*   starts     how often the program is started
                 \*   terminals  whether standard input is a terminal
                 \*   accepts    whether accept-string is loaded
                 \*   users      the threads that have something to do, see Saving
                 \*   texts, errors, ticks, fds    see Saving

ASSUME PlansAssumption == \A p \in Plans :
    /\ {p.starts, p.texts, p.errors, p.ticks, p.fds} \subseteq Nat
    /\ p.ticks # 0 /\ p.terminals \subseteq BOOLEAN /\ p.accepts \subseteq BOOLEAN

VARIABLES
    plan,       \* the one that this behaviour keeps to
    stage,      \* what main() does next, "up" when Feline runs, "off" without a process
    ended,      \* how the last process ended
    starts,     \* how often the program has been started
    tty,        \* the terminal: "sane", or "raw" (no echo, no line editing, no signals)
    found,      \* what it was when the process started
    isterm,     \* standard input is a terminal that TERM does not call dumb
    otio,       \* the mode that prep_terminal has saved
    prepped,    \* terminal_prepped
    missing,    \* what could not be reserved
    accept      \* the word accept-string is there (accept.feline has been loaded)

tellVars == <<tty, found, isterm, otio, prepped>>
procVars == <<plan, stage, ended, starts, tellVars, missing, accept>>

InitProcess ==
    /\ plan \in Plans
    /\ stage = "off" /\ ended = "none" /\ starts = 0
    /\ tty = "sane" /\ found = "sane" /\ isterm = TRUE
    /\ otio = "sane" /\ prepped = FALSE
    /\ missing = {} /\ accept = FALSE

----------------------------------------------------------------------------
(* main().                                                                 *)
Start ==
    /\ stage = "off" /\ starts < plan.starts
    /\ stage' = "terminal" /\ starts' = starts + 1
    /\ tty' \in {tty, "sane"}       \* the shell may have set it right
    /\ found' = tty'
    /\ isterm' \in plan.terminals
    /\ prepped' = FALSE /\ missing' = {} /\ accept' = FALSE
    /\ UNCHANGED <<plan, ended, otio>>

\* prep_terminal leaves anything but a terminal alone.
PrepTerminal ==
    /\ stage = "terminal"
    /\ stage' = "code"
    /\ prepped' = isterm
    /\ IF isterm THEN otio' = tty /\ tty' = "raw" ELSE UNCHANGED <<otio, tty>>
    /\ UNCHANGED <<plan, ended, starts, found, isterm, missing, accept>>

\* initialize_dynamic_code_space exits when there is no space at any address.
InitializeDynamicCodeSpace ==
    /\ stage = "code"
    /\ \/ stage' = "handles" /\ UNCHANGED ended
       \/ stage' = "off" /\ ended' = "failure"
    /\ UNCHANGED <<plan, starts, tellVars, missing, accept>>

\* reserve_handle_space, initialize_datastack and initialize_threads go on when
\* they have got nothing, the first of them without a word.
Reserve(at, next, what) ==
    /\ stage = at
    /\ stage' = next
    /\ missing' \in {missing, missing \cup {what}}
    /\ UNCHANGED <<plan, ended, starts, tellVars, accept>>

ReserveHandleSpace == Reserve("handles", "data", "handles")
InitializeDatastack == Reserve("data", "threads", "data")
InitializeThreads == Reserve("threads", "cold", "tls")

\* The handlers are installed and cold() runs.  It uses the handle space and the data
\* stack at once: a fault there faults again in signal_handler, which looks for the
\* current thread, and kills.  With the key of no thread it may go either way.
Cold ==
    /\ stage = "cold"
    /\ \/ missing \subseteq {"tls"} /\ stage' = "up" /\ accept' \in plan.accepts /\ UNCHANGED ended
       \/ missing # {} /\ stage' = "off" /\ ended' = "killed" /\ UNCHANGED accept
    /\ missing' = {}
    /\ UNCHANGED <<plan, starts, tellVars>>

Boot ==
    \/ PrepTerminal \/ InitializeDynamicCodeSpace \/ ReserveHandleSpace
    \/ InitializeDatastack \/ InitializeThreads \/ Cold

----------------------------------------------------------------------------
(* While Feline runs, and the end.                                         *)

\* deprep_terminal.
Deprepped_Not == tty
Deprepped == IF prepped THEN otio ELSE tty

\* os_accept_string, with which query reads a line for want of accept-string.
OsAcceptString ==
    /\ stage = "up" /\ ~accept
    /\ tty' = Deprepped
    /\ UNCHANGED <<plan, stage, ended, starts, found, isterm, otio, prepped, missing, accept>>

Ends(how) ==
    /\ stage' = "off" /\ ended' = how
    /\ UNCHANGED <<plan, starts, found, isterm, otio, prepped, missing, accept>>

\* os_bye.
OsBye == stage = "up" /\ tty' = Deprepped /\ Ends("bye")

\* A signal that no handler is installed for.
Killed == stage # "off" /\ UNCHANGED tty /\ Ends("killed")

ProcessTypeOK ==
    /\ stage \in {"off", "terminal", "code", "handles", "data", "threads", "cold", "up"}
    /\ ended \in {"none", "failure", "killed", "bye"}
    /\ starts \in 0..plan.starts
    /\ {tty, found, otio} \subseteq {"sane", "raw"}
    /\ {isterm, prepped, accept} \subseteq BOOLEAN
    /\ missing \subseteq {"handles", "data", "tls"}

\* Once bye has ended Feline the terminal is what it was when Feline started, whatever
\* prep_terminal and the reading of lines have done to it in between (os_bye).
ByeRestoresTerminal == stage = "off" /\ ended = "bye" => tty = found
=============================================================================
