------------------------------- MODULE MCHost -------------------------------
(***************************************************************************)
(* Host on three plans: the program and its terminal, and no files; an     *)
(* editor whose calls fail, with a crash at any point and a restart; the   *)
(* editor and the REPL on the same file.                                   *)
(***************************************************************************)
EXTENDS Host

ThePlans == {
    [starts |-> 3, terminals |-> BOOLEAN, accepts |-> BOOLEAN,
     users |-> {}, texts |-> 0, errors |-> 0, ticks |-> 1, fds |-> 1],
    [starts |-> 2, terminals |-> {FALSE}, accepts |-> {TRUE},
     users |-> {"editor"}, texts |-> 3, errors |-> 2, ticks |-> 1, fds |-> 2],
    [starts |-> 1, terminals |-> {TRUE}, accepts |-> {TRUE},
     users |-> {"editor", "repl"}, texts |-> 1, errors |-> 1, ticks |-> 2, fds |-> 2]}
=============================================================================
