------------------------------- MODULE Recover -------------------------------
(***************************************************************************)
(* Errors and dynamic scope: catch, throw and recover (recover.asm), the   *)
(* dynamic scope (dynamic-scope.asm), and the words of quit.asm that use   *)
(* both: evaluate, query, do-error and reset.                              *)
(*                                                                         *)
(* catch and recover keep what they need on the return stack of their      *)
(* thread, and the catch stack says where.  error_object_ and the vector   *)
(* dynamic_scope_ are one for all threads.  A throw cuts the return stack  *)
(* and tells nobody whose rest is cut off; a reset cuts it and leaves the  *)
(* catch stack as it is.                                                   *)
(***************************************************************************)
EXTENDS Naturals, FiniteSets, Sequences, SequencesExt

CONSTANTS Threads,     \* threads
          Primordial,  \* the one that runs the REPL
          Errors,      \* objects, thrown or not
          None,        \* nil
          Plans        \* how far a behaviour may go, one of these: bounds on each
                       \*   thread's return stack, on what user code leaves on a
                       \*   data stack, on the dynamic scope and on catch stacks,
                       \*   and the objects that are thrown

ASSUME PrimordialAssumption == Primordial \in Threads
ASSUME NoneAssumption == None \notin (Threads \X Nat) \cup Errors
ASSUME PlansAssumption ==
    \A p \in Plans : /\ p.frames \in [Threads -> Nat] /\ p.stack \in Nat
                     /\ p.scopes \in Nat \ {0} /\ p.catches \in Nat
                     /\ p.errors # {} /\ p.errors \subseteq Errors

VARIABLES
    plan,         \* the bounds of this behaviour
    pc,           \* what each thread is doing
    rs,           \* return stacks, as frames, the running one last
    ds,           \* data stacks
    catchstack,   \* of each thread: places on its return stack
    error_object, \* error_object_
    length, data, \* dynamic_scope_: its length and all its cells
    seen,         \* the length that each thread has read
    stale,        \* history: entries of the catch stacks that a reset has left
    tries,        \* history: the data stacks that the open tries have found
    want,         \* history: what the last throw promised to the handler
    crossed,      \* history: threads whose error another one has replaced
    leaked,       \* history: scopes whose end was cut off
    upset         \* history: what the properties of the scopes except

threadVars == <<pc, rs, ds, catchstack>>
scopeVars == <<length, data, seen>>
tryVars == <<stale, tries, want, crossed>>
vars == <<threadVars, error_object, scopeVars, tryVars, leaked, upset, plan>>

\* A frame is a quotation that runs: the thread's own code, what catch,
\* recover or with-dynamic-scope calls, or a handler; "evaluate" is the word
\* itself between its scope and its recover.  do-error is the REPL's handler.
Frame == [fn : {"base", "catch", "recover", "scope", "evaluate", "handler"},
          saved : Seq(Errors), by : {"user", "do_error"}]
Run(fn, saved, by) == [fn |-> fn, saved |-> saved, by |-> by]
Base == Run("base", <<>>, "user")

Top(t) == Last(rs[t])
Depth(t) == Len(rs[t])
TryFrames(t) ==
    {i \in DOMAIN rs[t] : /\ rs[t][i].fn \in {"catch", "recover"}
                          /\ pc[t] \in {"caught", "stored"} => i # Depth(t)}
Scoped(f) == f.fn \in {"scope", "evaluate"}
OpenScopes(t) ==
    {i \in DOMAIN rs[t] : Scoped(rs[t][i]) /\ (pc[t] = "push" => i # Depth(t))}

AtPrompt(t) == pc[t] = "run" /\ t = Primordial /\ Top(t).fn = "base"
UserCode(t) ==
    /\ pc[t] = "run"
    /\ \/ Top(t).fn \in {"catch", "recover", "scope"}
       \/ Top(t).fn = "handler" /\ Top(t).by = "user"
       \/ Top(t).fn = "base" /\ t # Primordial
\* set takes the last scope, and fails if there is none.
NoScope == length = 0 \/ data[length] = None

Room(t, n) == Depth(t) + n <= plan.frames[t] /\ Len(catchstack[t]) < plan.catches

Init ==
    /\ plan \in Plans
    /\ pc = [t \in Threads |-> "run"]
    /\ rs = [t \in Threads |-> <<Base>>]
    /\ ds = [t \in Threads |-> <<>>]
    /\ catchstack = [t \in Threads |-> <<>>]
    /\ error_object = None
    /\ length = 1 /\ data = [i \in 1..plan.scopes |-> IF i = 1 THEN <<Primordial, 0>> ELSE None]
    /\ seen = [t \in Threads |-> 0]
    /\ stale = [t \in Threads |-> 0] /\ tries = [t \in Threads |-> <<>>]
    /\ want = [t \in Threads |-> <<>>] /\ crossed = {}
    /\ leaked = 0 /\ upset = {}

Goto(t, p) == pc' = [pc EXCEPT ![t] = p]
Frames(t, s) == rs' = [rs EXCEPT ![t] = s]

----------------------------------------------------------------------------
(* User code and its data stack.                                           *)

Push(t) ==
    /\ UserCode(t) /\ Len(ds[t]) < plan.stack
    /\ \E v \in plan.errors : ds' = [ds EXCEPT ![t] = Append(@, v)]
    /\ UNCHANGED <<pc, rs, catchstack, error_object, scopeVars, tryVars, leaked, upset, plan>>

Drop(t) ==
    /\ UserCode(t) /\ ds[t] # <<>>
    /\ ds' = [ds EXCEPT ![t] = Front(@)]
    /\ UNCHANGED <<pc, rs, catchstack, error_object, scopeVars, tryVars, leaked, upset, plan>>

----------------------------------------------------------------------------
(* catch, throw and recover.                                               *)

\* catch notes where it is and calls; recover has pushed the data stack before.
EnterCatch(t, frame) ==
    /\ Frames(t, Append(rs[t], frame))
    /\ catchstack' = [catchstack EXCEPT ![t] = Append(@, Depth(t) + 1)]
    /\ tries' = [tries EXCEPT ![t] = Append(@, ds[t])]
    /\ UNCHANGED <<ds, error_object, stale, want, crossed, leaked>>

Recover(t) ==
    /\ UserCode(t) /\ Room(t, 1) /\ Len(ds[t]) <= plan.stack
    /\ EnterCatch(t, Run("recover", ds[t], "user"))
    /\ UNCHANGED <<pc, scopeVars, upset, plan>>

\* query: the REPL's line is read by a Feline word, under catch.
Query(t) ==
    /\ AtPrompt(t) /\ ~NoScope /\ Room(t, 1)
    /\ EnterCatch(t, Run("catch", <<>>, "do_error"))
    /\ UNCHANGED <<pc, scopeVars, upset, plan>>

\* catch that leaves its place on the catch stack.
LeaveCatch_Fault(t) ==
    /\ UserCode(t) /\ Top(t).fn \in {"catch", "recover"}
    /\ Frames(t, Front(rs[t]))
    /\ tries' = [tries EXCEPT ![t] = Front(@)]
    /\ UNCHANGED <<pc, ds, catchstack, error_object, scopeVars, stale, want, crossed,
                   leaked, upset, plan>>

\* Without an error.
LeaveCatch(t) ==
    /\ UserCode(t) /\ Top(t).fn \in {"catch", "recover"}
    /\ Frames(t, Front(rs[t]))
    /\ catchstack' = [catchstack EXCEPT ![t] = Front(@)]
    /\ tries' = [tries EXCEPT ![t] = Front(@)]
    /\ UNCHANGED <<pc, ds, error_object, scopeVars, stale, want, crossed, leaked, upset, plan>>

DoingError(t) == pc[t] = "run" /\ Top(t).fn = "handler" /\ Top(t).by = "do_error"

\* do-error takes the error that it prints.
Printed(t) == IF DoingError(t) THEN Front(ds[t]) ELSE ds[t]

\* throw that goes to the outermost catch.
Throw_Fault(t, e) ==
    LET c == catchstack[t]
        at == Head(c)
    IN  /\ IF c = <<>>
           THEN /\ pc' = [u \in Threads |-> "gone"]
                /\ UNCHANGED <<rs, ds, catchstack, stale, tries, want, leaked>>
           ELSE /\ catchstack' = [catchstack EXCEPT ![t] = Front(@)]
                /\ stale' = [stale EXCEPT ![t] = IF @ < Len(c) THEN @ ELSE Len(c) - 1]
                /\ IF at \in TryFrames(t)
                   THEN /\ Goto(t, "caught")
                        /\ Frames(t, SubSeq(rs[t], 1, at))
                        /\ ds' = [ds EXCEPT ![t] = Append(Printed(t), e)]
                        /\ want' = [want EXCEPT ![t] = <<Last(tries[t]), e>>]
                        /\ tries' = [tries EXCEPT ![t] = Front(@)]
                        /\ leaked' = leaked + Cardinality({i \in OpenScopes(t) : i > at})
                   ELSE Goto(t, "lost") /\ UNCHANGED <<rs, ds, want, tries, leaked>>
        /\ UNCHANGED <<error_object, length, data, seen, crossed>>

\* no_catch ends the process.  An entry that a reset has left leads to a place
\* on the return stack where something else is by now: the thread is lost.
Throw(t, e) ==
    LET c == catchstack[t]
        at == Last(c)
    IN  /\ IF c = <<>>
           THEN /\ pc' = [u \in Threads |-> "gone"]
                /\ UNCHANGED <<rs, ds, catchstack, stale, tries, want, leaked>>
           ELSE /\ catchstack' = [catchstack EXCEPT ![t] = Front(@)]
                /\ stale' = [stale EXCEPT ![t] = IF @ < Len(c) THEN @ ELSE Len(c) - 1]
                /\ IF at \in TryFrames(t)
                   THEN /\ Goto(t, "caught")
                        /\ Frames(t, SubSeq(rs[t], 1, at))
                        /\ ds' = [ds EXCEPT ![t] = Append(Printed(t), e)]
                        /\ want' = [want EXCEPT ![t] = <<Last(tries[t]), e>>]
                        /\ tries' = [tries EXCEPT ![t] = Front(@)]
                        /\ leaked' = leaked + Cardinality({i \in OpenScopes(t) : i > at})
                   ELSE Goto(t, "lost") /\ UNCHANGED <<rs, ds, want, tries, leaked>>
        /\ UNCHANGED <<error_object, length, data, seen, crossed>>

\* recover writes error_object_ and empties the data stack.  query does not.
Caught(t) ==
    /\ pc[t] = "caught"
    /\ IF Top(t).fn = "recover"
       THEN /\ Goto(t, "stored")
            /\ error_object' = Last(ds[t])
            /\ ds' = [ds EXCEPT ![t] = <<>>]
            /\ crossed' = crossed \cup {u \in Threads \ {t} : pc[u] = "stored"}
            /\ UNCHANGED <<rs, want>>
       ELSE /\ Goto(t, "run")
            /\ Frames(t, Append(Front(rs[t]), Run("handler", <<>>, Top(t).by)))
            /\ want' = [want EXCEPT ![t] = <<>>]
            /\ UNCHANGED <<error_object, ds, crossed>>
    /\ UNCHANGED <<catchstack, scopeVars, stale, tries, leaked, upset, plan>>

\* It fills the data stack again, element by element, takes the error from
\* error_object_, and calls the handler.
Handle(t) ==
    /\ pc[t] = "stored"
    /\ Goto(t, "run")
    /\ ds' = [ds EXCEPT ![t] = Append(Top(t).saved, error_object)]
    /\ Frames(t, Append(Front(rs[t]), Run("handler", <<>>, Top(t).by)))
    /\ crossed' = crossed \ {t} /\ want' = [want EXCEPT ![t] = <<>>]
    /\ UNCHANGED <<catchstack, error_object, scopeVars, stale, tries, leaked, upset, plan>>

LeaveHandler(t) ==
    /\ UserCode(t) /\ Top(t).fn = "handler"
    /\ Frames(t, Front(rs[t]))
    /\ UNCHANGED <<pc, ds, catchstack, error_object, scopeVars, tryVars, leaked, upset,
                   plan>>

\* User code throws, and so may do-error while it prints, and the printing of
\* the data stack at the prompt.
UserThrow(t) ==
    /\ UserCode(t) \/ AtPrompt(t) \/ DoingError(t)
    /\ \E e \in plan.errors : Throw(t, e)
    /\ UNCHANGED <<upset, plan>>

----------------------------------------------------------------------------
(* The dynamic scope.  A push reads the length, writes the cell behind the *)
(* last and increments the length; a pop reads it and writes it back less  *)
(* one.  Nothing keeps another thread from doing so in between.            *)

Between(t) == \E u \in Threads \ {t} : pc[u] \in {"push", "pop"}

BeginScope(t, fn) ==
    /\ Room(t, 1)
    /\ length < plan.scopes
    /\ Frames(t, Append(rs[t], Run(fn, <<>>, "user")))
    /\ Goto(t, "push")
    /\ seen' = [seen EXCEPT ![t] = length]
    /\ upset' = upset \cup (IF \E u \in Threads \ {t} : \E i \in DOMAIN rs[u] : Scoped(rs[u][i])
                            THEN {"shared"} ELSE {})
    /\ UNCHANGED <<ds, catchstack, error_object, length, data, tryVars, leaked, plan>>

WithDynamicScope(t) == UserCode(t) /\ BeginScope(t, "scope")

\* evaluate, and load, which is the same as to errors and scopes.
Evaluate(t) ==
    /\ UserCode(t) \/ (AtPrompt(t) /\ ~NoScope)
    /\ Room(t, 2) /\ BeginScope(t, "evaluate")

PushScope(t) ==
    /\ pc[t] = "push" /\ length < plan.scopes
    /\ data' = [data EXCEPT ![seen[t] + 1] = <<t, Depth(t)>>]
    /\ length' = length + 1
    /\ Goto(t, IF Top(t).fn = "evaluate" THEN "set" ELSE "run")
    /\ upset' = IF Between(t) THEN upset \cup {"torn"} ELSE upset
    /\ seen' = [seen EXCEPT ![t] = 0]
    /\ UNCHANGED <<rs, ds, catchstack, error_object, tryVars, leaked, plan>>

\* What is to be evaluated may be no string (query gives f at the end of the
\* input): make-lexer throws, when the scope is there and recover not yet.
EvaluateTry(t) ==
    /\ pc[t] = "set"
    /\ \/ \E e \in plan.errors : Throw(t, e)
       \/ /\ ~NoScope
          /\ EnterCatch(t, Run("recover", ds[t], "do_error"))
          /\ Goto(t, "run") /\ UNCHANGED scopeVars
    /\ UNCHANGED <<upset, plan>>

\* evaluate that forgets its end-dynamic-scope.
EndScope_Fault(t) ==
    /\ pc[t] = "run" /\ Scoped(Top(t))
    /\ IF Top(t).fn = "evaluate"
       THEN Frames(t, Front(rs[t])) /\ UNCHANGED <<pc, seen>>
       ELSE /\ Goto(t, "pop") /\ UNCHANGED rs
            /\ seen' = [seen EXCEPT ![t] = length]
    /\ UNCHANGED <<ds, catchstack, error_object, length, data, tryVars, leaked, upset, plan>>

EndScope(t) ==
    /\ pc[t] = "run" /\ Scoped(Top(t))
    /\ Goto(t, "pop")
    /\ seen' = [seen EXCEPT ![t] = length]
    /\ UNCHANGED <<rs, ds, catchstack, error_object, length, data, tryVars, leaked, upset, plan>>

PopScope(t) ==
    /\ pc[t] = "pop"
    /\ IF seen[t] = 0
       THEN \E e \in plan.errors : Throw(t, e)
       ELSE /\ length' = seen[t] - 1
            /\ data' = [data EXCEPT ![seen[t]] = None]
            /\ Goto(t, "run")
            /\ Frames(t, Front(rs[t]))
            /\ seen' = [seen EXCEPT ![t] = 0]
            /\ UNCHANGED <<ds, catchstack, error_object, tryVars, leaked>>
    /\ upset' = IF Between(t) THEN upset \cup {"torn"} ELSE upset
    /\ UNCHANGED plan

----------------------------------------------------------------------------
(* reset: back to the prompt, or the end of a thread.                      *)

\* reset that leaves the dynamic scope as it is.
ResetPrimordial_Fault(t) ==
    /\ t = Primordial
    /\ Goto(t, "run") /\ Frames(t, <<Base>>)
    /\ stale' = [stale EXCEPT ![t] = Len(catchstack[t])]
    /\ tries' = [tries EXCEPT ![t] = <<>>]
    /\ leaked' = 0
    /\ UNCHANGED <<catchstack, error_object, length, data, seen, want, crossed, upset, plan>>

\* The first scope alone remains.  The catch stack is left as it is.
ResetPrimordial(t) ==
    /\ t = Primordial
    /\ Goto(t, "run") /\ Frames(t, <<Base>>)
    /\ length' = 1
    /\ stale' = [stale EXCEPT ![t] = Len(catchstack[t])]
    /\ tries' = [tries EXCEPT ![t] = <<>>]
    /\ leaked' = 0
    /\ upset' = upset \cup
         (IF \E u \in Threads \ {t} : \E i \in DOMAIN rs[u] : Scoped(rs[u][i])
          THEN {"cut"} ELSE {})
    /\ UNCHANGED <<catchstack, error_object, data, seen, want, crossed, plan>>

ResetOther(t) ==
    /\ t # Primordial
    /\ Goto(t, "gone") /\ Frames(t, <<>>)
    /\ leaked' = leaked + Cardinality(OpenScopes(t))
    /\ UNCHANGED <<catchstack, error_object, scopeVars, tryVars, upset, plan>>

\* From do-error, which has printed the error, from the word itself, or after a
\* fault.
Reset(t) ==
    /\ UserCode(t) \/ DoingError(t)
    /\ ds' = [ds EXCEPT ![t] = Printed(t)]
    /\ ResetPrimordial(t) \/ ResetOther(t)

\* The quotation of a created thread returns.
Finish(t) ==
    /\ UserCode(t) /\ Top(t).fn = "base"
    /\ Goto(t, "gone") /\ Frames(t, <<>>)
    /\ UNCHANGED <<ds, catchstack, error_object, scopeVars, tryVars, leaked, upset, plan>>

Step(t) ==
    \/ Push(t) \/ Drop(t)
    \/ Recover(t) \/ Query(t) \/ LeaveCatch(t) \/ UserThrow(t)
    \/ Caught(t) \/ Handle(t) \/ LeaveHandler(t)
    \/ WithDynamicScope(t) \/ Evaluate(t) \/ PushScope(t) \/ EvaluateTry(t)
    \/ EndScope(t) \/ PopScope(t) \/ Reset(t) \/ Finish(t)

Next == \E t \in Threads : Step(t)
Spec == Init /\ [][Next]_vars

----------------------------------------------------------------------------
(* Properties.                                                             *)

TypeOK ==
    /\ plan \in Plans
    /\ pc \in [Threads -> {"run", "push", "set", "pop", "caught", "stored", "gone", "lost"}]
    /\ rs \in [Threads -> Seq(Frame)] /\ ds \in [Threads -> Seq(Errors)]
    /\ catchstack \in [Threads -> Seq(Nat)]
    /\ error_object \in Errors \cup {None}
    /\ length \in 0..plan.scopes /\ seen \in [Threads -> 0..plan.scopes]
    /\ data \in [1..plan.scopes -> (Threads \X Nat) \cup {None}]
    /\ stale \in [Threads -> Nat] /\ tries \in [Threads -> Seq(Seq(Errors))]
    /\ crossed \subseteq Threads /\ leaked \in Nat
    /\ upset \subseteq {"shared", "torn", "cut"}

Alive(t) == pc[t] \notin {"gone", "lost"}

\* The entries of a catch stack above those that a reset has left are the places
\* of the catches that run on the return stack, the innermost last: so a throw
\* goes to the innermost, and to none that has ended.
CatchesMatch ==
    \A t \in Threads : Alive(t) =>
        LET c == catchstack[t]
            live == stale[t] + 1 .. Len(c)
        IN  /\ {c[i] : i \in live} = TryFrames(t)
            /\ \A i, j \in live : i < j => c[i] < c[j]

\* Whatever has happened in between, in other tries and other threads, the
\* handler of a recover is given the data stack that the recover has found, and
\* with it the error that was thrown there, unless another thread has been in
\* recover at the same moment.
RecoverRestores ==
    \A t \in Threads : pc[t] = "stored" =>
        /\ Top(t).saved = want[t][1]
        /\ t \notin crossed => error_object = want[t][2]

\* While no error or reset has cut off the end of a scope, and no two threads have
\* had scopes at the same time, the dynamic scope is the first one and the scopes
\* that run, in order: each end takes away what its own begin has put there.
ScopesNest ==
    upset = {} /\ leaked = 0 /\ (\E t \in Threads : Alive(t)) =>
        \E t \in Threads :
            /\ \A u \in Threads \ {t} : pc[u] = "gone" \/ OpenScopes(u) = {}
            /\ {<<t, i>> : i \in OpenScopes(t)} = {data[i] : i \in 2..length}
            /\ \A i, j \in 2..length : i < j => data[i][2] < data[j][2]

\* However the scopes and errors of the threads interleave, the scopes that are
\* there are as many as the first one, those that run, and those whose end an error
\* or the end of a thread has cut off: so the first, with the streams and the
\* REPL's settings, is never taken away.  Excepted are two threads inside a push or
\* pop at the same moment, and a reset of the REPL while another thread has a scope.
ScopesCounted ==
    upset \cap {"torn", "cut"} = {} /\ (\E t \in Threads : Alive(t)) =>
        length = 1 + leaked + Cardinality(UNION {
            {<<t, i>> : i \in OpenScopes(t)} : t \in {u \in Threads : pc[u] # "gone"}})
=============================================================================
