# Feline in TLA+

Feline is a concatenative language for x86-64. Its runtime is written in assembly (`src/src/*.asm`)
with some C (`os.c`, `main.c`, `terminal.c`, and the front ends `gtkui.c` and `winui.c`), its library in Feline itself (`src/src/*.feline`), and Feral, an
editor, on top of it (`src/feral`). This directory holds TLA+ models of the parts where a mistake is
hard to see in the code and hard to provoke in a test, the TLC configurations that check them on small
instances, and proofs, checked by TLAPS, that the main results hold for every value of the constants.

    tlc -config MCStwWorld.cfg MCStopTheWorld    # one run
    tlapm StopTheWorldProofs.tla                 # one module of proofs

`PROJECT.json` is the index: components, runs, the source lines that each definition stands for, the
faulty variants, findings, hazards and theorems.

## 1. The system

| Component | State | Operations | Talks to |
|---|---|---|---|
| Mutexes (`mutex.asm`, `os.c`) | OS mutex, owner slot | lock, trylock, unlock | threads; the three locks of the runtime |
| Threads (`thread.asm`, `os.c`, `quit.asm`) | `all_threads_`; state, saved registers, result, catch stack of each | make-thread, thread-create, thread-join, reset, safepoints | collector (states, saved registers), all_threads lock |
| Handle space (`handles.asm`) | cells, `handle_space_free_`, `unused_`, recycled vector | new_handle, release, empty-handles, maybe_gc, each_handle | handles lock, gc lock, collector |
| Garbage collector (`gc2.asm`, `objects.asm`) | mark bytes, work list, `stop_for_gc?_`, gc-inhibit, gc-pending | gc, gc-enable, gc-disable, stop and start the world, mark, sweep | everything that holds a handle |
| Vectors, arrays, byte vectors | length, capacity, data | push, pop, nth, insert, remove, grow | used by all |
| Hashtables (`hashtable.asm`, `fixnum-hashtable.asm`) | slots, count, deletions | at, set-at, delete-at, grow | generic dispatch, vocabularies, dynamic scope |
| Generic functions and types (`generic.asm`, `method.asm`, `type.asm`, `tuple.asm`) | method and dispatch tables, typecodes | define, install-method, dispatch | hashtables, compiler |
| Numeric tower (`fixnum.asm`, `int64.asm`, `float.asm`, `numbers.asm`) | none | arithmetic and comparison over three representations | generic dispatch |
| Strings, sbufs, slices, ranges, iterators | length, capacity, bounds | append, insert, substring, iterate | vectors |
| Sequences and combinators | none | each, map, find, while, ... | safepoints |
| Symbols, vocabularies | context vector, hashtables | find, define, using | reader |
| Reader and loader (`lexer.asm`, `syntax.asm`, `load.asm`) | position, nesting, conditionals, accumulated definition | read, parse, load | compiler, vocabularies |
| Compiler (`compile-word.asm`, `compiler.feline`) | pending literals, pc, forward jumps, code area | compile, inline, patch | generic functions, symbols |
| Errors and dynamic scope (`recover.asm`, `dynamic-scope.asm`, `errors.asm`) | catch stacks, `error_object_`, `dynamic_scope_` | catch, throw, recover, with-dynamic-scope | all stacks |
| Start, REPL, end (`main.c`, `quit.asm`, `accept.feline`) | what could be reserved; input, history | start, reset, accept, bye, signals | errors, threads, terminal |
| Terminal (`terminal.c`) | the mode of the tty, the mode that was found | prep, deprep | start, bye, the reading of lines |
| Streams and files (`os.c`, `files.asm`, `file-output-stream.asm`) | descriptors, columns | open, size, read, create, write, close, file-contents, set-file-contents, copy-file | operating system, editor, help |
| Window front ends (`gtkui.c`, `winui.c`) | windows, focus, carets, invalid regions, event loops, text view size | start, event loop, nested loop of a question, draw, resize, keys, mouse, clipboard, exit | the editor's handlers, which call back |
| Regular expressions (`regex.feline`) | compiled pattern | match | strings |
| Feral (`src/feral`) | buffers, lines, dot and mark, mod-counts, undo and redo stacks, kill ring; the minibuffer with its prompt and parent | edit, move, search, undo, redo, visit, save, ask, quit | library, files, front ends |

What makes the behaviour hard:

* *Concurrency.* Threads are OS threads without a global lock. They meet the collector only at
  safepoints; the handshake is a flag, one state word per thread, and polling. Four locks are taken in
  more than one order, kept from deadlock by trylocks alone.
* *Order inside one step of the program.* State and saved registers, OS mutex and owner slot, method
  table and dispatch table, new and old data of a growing table are written one after the other.
* *Limits.* Handle space, tables and vectors that are full; numbers at the end of a range.
* *Event loops inside handlers.* A question in the editor is a call of the toolkit's event loop from inside a
  handler, and so is a redraw of GTK's minibuffer: other handlers run on top of the one that waits, an error
  leaves through all of them, and what was told to end is the innermost loop, which may not be the one meant.
* *Failure.* Every system call may fail between two others; a thread may fault, and the process be killed, at any
  of them, and be started again on what is on the disk and on a terminal in whatever mode it was left.
* *Histories.* Deletion marks, marks left by a collection, undo records and recycled handles matter
  only many operations later.

What makes each part correct: mutexes exclude, and the owner slot never lies for long; a thread that can touch objects is
registered, and stopped while somebody else collects; a collection takes what cannot be reached, all of
it and nothing else; the free list names each free cell once; every collection ends; a hashtable is a
dictionary; an answer reaches the question it was given to, and focus, current buffer, caret and screen agree when the
editor waits; a save loses nothing; the terminal comes back; dispatch finds the method installed last; arithmetic equals
that of the integers until it says float; compiled code does what the quotation says; an error restores what `recover`
promises; undo and redo are inverse. The clauses up to the terminal and that of errors are treated here, the others are planned
(section 7).

## 2. The modules

| Module | What it is |
|---|---|
| `Mutex` | one mutex object: OS mutex and owner slot, changed by separate instructions |
| `StopTheWorld` | thread life cycle, allocation with its retry, collection with its handshake |
| `Reclaim` | what the heap promises: the abstract specification of the collector |
| `MarkSweep` | handle space, marking and sweep; implements `Reclaim` |
| `Dictionary` | what a hashtable promises |
| `Hashtable` | the general and the fixnum table; implements `Dictionary` |
| `Minibuffer` | Feral's handlers, questions, errors and quitting, which both front ends share: a call stack |
| `GtkUi`, `WinUi` | the two toolkits' windows, loops, focus, carets and drawing, over `Minibuffer` |
| `FrontEnds` | the editor with one of the two, from start to end, and what both promise |
| `Process` | `main()`, the terminal's modes, and the ways in which the process ends |
| `Saving` | a file, the system calls on it, the editor that saves it and the REPL that reads it, over `Process` |
| `Host` | the composition: calls fail, threads fault, the process ends anywhere and starts again |
| `Recover` | errors and dynamic scopes of several threads: catch stacks, return stacks, what is shared |
| `MC*` | small instances for TLC |
| `FrontEndsInvariants` | what holds of the front ends' call stack, question, focus and screen at every step |
| `MutexProofs`, `StopTheWorldProofs`, `MarkSweepProofs`, `HashtableProofs`, `FrontEndsProofs`, `HostProofs`, `SavingProofs`, `RecoverProofs` | theorems |

**Mutex.** `pc[t]` says where thread `t` is inside `mutex-lock`, `mutex-trylock` or `mutex-unlock`;
`holder` is the OS mutex, `owner` the slot. `StampOwner` and `WipeOwner` are steps of their own since
`mutex.asm` writes the slot after `os.c` has returned. Threads unlock only what they have locked, which
all callers in the runtime do.

**StopTheWorld.** A thread at location `"run"` is in user code and may call any operation in `Ops`.
Each operation is cut where another thread can see the difference: `new_handle` is `nh_*` (safepoint,
trylock of the handles lock, get, collect when empty, look once more, give up), `gc2` is `gc_*`,
`gc2_collect` is `c_*`, `stop_current_thread_for_gc` is `sp_*`, `thread-join` is `tj_*`, the end of
`thread_run_internal` is `tr_*`. The three locks of the runtime are mutexes taken and given back in one step:
`Mutex` looks inside them. The heap here is the set of handles in use and, for each thread
and for the shared roots, which of them can be reached from there; an object on the stacks is a
handle, `Put`, `Take`, `Drop` and `Clear` are what user code does with references. Where a
thread's saved registers do not describe its current stacks (`saved[t]` false), the collector's scan of them
finds some of their handles, or none: that is what reading an old range of the stack amounts to.
`OsThreadCreate` may fail: the code prints and goes on, and the thread object stays registered, STARTING, at location `"failed"`.
History variables record which threads ran on beside a collection (`escaped`), whether a collection has missed
part of a stack (`breached`), and what was garbage when a collection was put off and has not been taken since (`owed`); no guard of the code reads them.

**MarkSweep, Reclaim.** The collector with the world to itself. `object` gives each cell its kind and
references; `nextFree`, `unused` and `recycled` are the handle space; `mark`, `workList` and
`scan` the marking, `cursor` the sweep. There are three sorts of kind: without references (strings), with
references and a scanner, and with references but without an entry in `gc2_dispatch_table_`
(wrappers, keywords, slices). `Reclaim` says that at any time the cell of an object that cannot be reached
over scanned references may be taken back, one cell at a time; `ReclaimsOnlyGarbage` is the refinement.

**Hashtable, Dictionary.** `kind` chooses the table. The general one grows before it stores, when more
than two thirds of its slots are taken, and probes each slot once; the fixnum one grows after it has stored, when half
are taken, and its probe wraps at a sentinel and then stops at nothing but the key or an empty slot.
Growth sets the old slots aside and enters them one by one (`Rehash`). `Dictionary` has three
operations; growth is stuttering. `nil` is no key (the general table marks empty slots with it) and `Absent`
is the answer `f f` of `at*`.

**Minibuffer, GtkUi, WinUi, FrontEnds.** `calls` is the call stack of the primordial thread. A frame is an event loop of the
toolkit or a handler, with the words it has still to execute; a step executes the first word of the top frame, returns from
it, or lets the loop on top draw or call a handler for something the user does. `ask` pushes the loop of a question on
top of its own rest, `<<"restore", "answer">>`, and `throw` cuts the stack back to the innermost `safe-call-symbol`. A buffer is
"edit" or "mini", a line is whose prompt it begins with and whether something has been typed behind it: the answer is the line
less the length of the prompt *now in force*, so that is what must not be confused; taking it may fail, since keys can edit the prompt away. `stale` says what the screen does not show,
`queued` what the toolkit will draw again. In GTK, `loops` is the toolkit's own list of main loops: `gtk_main_quit` stops its head, while
the loop that runs is the one on top of the stack, and after an error the two differ. Windows has one flag, `minibuffer_exit`,
looked at after each message. `Initialize` and `CreateFrame` fail at each of their steps. `FrontEnds` instantiates both and chooses one.
The history `upset` records the five mishaps that the properties have to except (section 6).

**Process, Saving, Host.** `stage` is where `main()` is, with each reservation failing or not; `tty` outlives the process, and so do
`disk` and `stamp`. A thread that reads or writes has a job, the sequence of calls its words make (`SaveCalls` is
`do-save` with `copy-file` before and `set-file-contents` at the end), and does one call a step: open, size, read,
close, create and write may fail, a write may be short, and what follows is then not done. A content is the text it is of, and
how much of it. The buffer has its text, the two mod-counts and the undo stack. `SignalHandler` is a fault in a thread: the REPL goes
back to its prompt, the editor's thread is gone with its buffer. `Gone` is the end of the process at any point, after which `Start` is
possible again. History variables: `held` (what the last save found in the file), `failed`, `branched`, `overtaken`. `Plans` bounds
a behaviour and says which threads have something to do, so that a run can have several small scenarios.

**Recover.** `rs[t]` is the return stack of a thread as frames: a quotation that catch, recover or with-dynamic-scope has called, with what
`recover` keeps there, or a handler. `catchstack[t]` holds places on it, as the code's holds values of rsp, and the two are changed
separately: `Throw` pops a place and cuts, `Reset` cuts and leaves the places. `ds[t]` is the data stack. `error_object`, and `length` and
`data` of the vector `dynamic_scope_`, are shared; a push and a pop of the vector read the length in one step and write it in another, as
the instructions do. A scope in `data` is known by whose it is and by the frame that has begun it; its bindings are left out, and so is that
an error may be `f`, which `throw` drops. `Throw` is the same action whoever throws: user code, do-error while it prints, `set` without a scope,
`vector-pop*` of an empty vector, and `make-lexer` of what is no string, between the scope of evaluate and its recover. A place that is taken from the catch stack and is not that of a try leads nowhere: the thread is "lost". `stale` counts
the places that a reset has left, `tries` and `want` remember what `recover` has found and the handler is to get, `leaked` counts the scopes
whose end was cut off.

**Faulty variants.** Definitions named `Operation_Fault` stand before the operations they vary. No
specification uses them. Put in the place of the operation, each makes one property fail
(`PROJECT.json`, "mutants"); they are plausible slips in that code: a missing reset, a
dropped test, two lines swapped.

## 3. The runs

| Run | Instance | What it asks |
|---|---|---|
| `mutex` | 3 threads | Do lock and trylock exclude? What can a reader of the owner slot see? |
| `stw_single` | 1 thread, 3 handles | Does the process give up only when nothing can be reclaimed? Is a postponed collection done when collection is enabled again? |
| `stw_world` | 3 threads, 1 handle, life cycle and heap | Is a handle in use ever freed? Is a collector that takes itself to be alone alone? Is the world stopped? Does a collector wait for somebody who is stuck? |
| `stw_live` | 3 threads with roles, fair | Does a collection end, a stopped thread resume, a join return, unless the collector waits for a thread that cannot stop? Is a handle handed out during a collection? |
| `stw_create` | 3 threads, fair | Do make-thread and thread-create return? (They need not: section 6.) |
| `stw_stack` | 2 threads, 2 handles | Does what is on a stack survive a collection? (It need not: section 6.) |
| `mark_sweep` | 3 cells, one kind of each sort, fair | Colours, work list, free list, all garbage and nothing else, termination |
| `hashtable` | 3 keys, 2 values, all hash functions with two codes, 2 to 8 slots | Is the table a dictionary, does probing end? |
| `front_ends` | both front ends, calls nested 7 deep, fair | Do answers reach their question? Do focus, current buffer, caret and screen agree when the editor waits? Does quitting end the editor? |
| `minibuffer_assert` | GTK | Does the minibuffer's handler find the minibuffer current, as it asserts? (It need not: section 6.) |
| `recover` | two threads, three plans | Does a throw reach the innermost try, and the handler its data stack and error? Are the dynamic scopes those that were begun and not ended? |
| `host` | three plans | After failed calls, faults, kills and restarts: is the old version there, is "not modified" true, do descriptors, glossary and terminal come back? |

Bounds, and why they are enough to be interesting:

* *Threads.* Two are a collector and one that races it. Three are needed for a late write of the owner
  slot to meet a third thread, for a collector, a creator and the thread created, and for two collectors and a thread
  between them.
* *Handles.* `GcThreshold` is 10 in the code and is scaled with the handle space (1, or 2 of 3), so
  that `maybe_gc` collects sometimes. Two handles (`stw_stack`) are enough to have one kept and one freed;
  with three, a single thread can hold some, share one and run out. `stw_world` has three threads and a single handle, which they hold, share,
  lose and get again; about 1 200 000 states.
* *Cells.* Three hold a chain, a cycle with an entry, and a cycle without.
* *Ops.* Each configuration names the operations that matter to its question, so that the others'
  interleavings need not be explored: `stw_world` leaves out gc-disable, an explicit gc or safepoint (an allocation does
  both), and the reading and clearing of a root, the single-thread run the life cycle.
  `stw_create` keeps only what blocks there. The properties of `stw_single` are meant for one thread: with two, `gc-enable` of one ends
  the inhibition of the other, and the collection that it asks for is dropped when the other holds the gc lock.
* *Roles.* Liveness of three threads is checked from a state in the middle of a program (`LiveInit`: a first thread runs and collects, the primordial one has
  made another), and each thread has a role (`Role`): the one creates and joins, the other collects, the third runs and ends or resets. All
  three may pass safepoints and the first collector may collect again and again, so a collection meets a creation, a refused one, a start, an end,
  a reset and a join at every step of theirs. `make-thread` blocks like `thread-create` and is left to `stw_create` and `stw_world`. About 15 000 states.
* *Tables.* `HashCode = {1, 7}` names the slots 1 and the last one for every capacity, so probes collide, chain
  and wrap around. Two slots is the smallest table (`1 <hashtable>`), and the only one that gets
  full. `MaxCapacity` stops insertion where the next growth would exceed it; lookup and deletion go on.
* *Front ends.* Seven frames are two questions, one inside the other, each with a handler at the prompt and the redraw it waits
  for. One loop that waits for redrawing may take input (`MaxPumps`), two loops may be abandoned in GTK's list (`MaxLoops`), and the user rests
  after two mishaps (`MaxUpset`): each occurs, and with each other. One height and a font of a fixed height suffice, since sizes
  matter only to the division by a font height that may be missing. About 810 000 states.
* *Plans.* (1) The program started three times with and without a terminal and `accept-string`, nobody doing anything: all of
  `main()`, and every end. (2) An editor, three texts, two errors a process, two starts: a save after a save that failed, an undo past a
  save, a crash between any two calls and a save after it. (3) Editor and REPL on one file, one error, two seconds. About 710 000 states.
* *Plans of `recover`.* (1) Two threads that try, throw two different errors and reset, without scopes: three frames each hold a try
  inside a try. (2) Two threads with scopes: each may be in the middle of a push or pop while the other is, and four scopes are the first, two of one and
  one of the other. (3) The REPL alone, five frames deep: evaluate in a try in a scope. A push that would exceed `scopes` waits: the
  bound is the model's. About 3 500 000 states.
* *Symmetry.* Handles are interchangeable, and so are the threads other than the primordial one;
  it is used in the safety runs only.

Deadlock is checked in `mutex`, `mark_sweep` and `hashtable`. In the runs of `StopTheWorld` it is not: the process may end in
`os_bye` ("out of handles"). Nor in those of `FrontEnds`, where the editor ends, its start fails, or a nested loop of GTK is left without a window,
nor in `host`, whose last process ends, nor in `recover`, where all threads may be gone.

## 4. Fairness

* `Mutex`, `Hashtable`, `Host`, `Recover`: none, their properties are safety. A blocked `pthread_mutex_lock` is not queued, so that a
  particular waiter may never be served, and no property says it is.
* `StopTheWorld`: strong fairness of each thread's steps inside the runtime (a spin on a lock or
  on a flag that is free again and again succeeds: the steps are a few instructions and the OS schedules every
  thread), of its passing a safepoint (the loops of the library poll the flag: `while`, `times`, `each`), and
  of the end of the quotation of a created thread. It is not assumed that user code allocates,
  collects, creates or joins. Weak fairness would not do: a thread that retries `trylock_handles` alternates with
  the safepoint, so the step that wins is never enabled for long.
* `MarkSweep`: weak fairness of the collector's steps; a collection that has begun waits for nobody there.
* `FrontEnds`: weak fairness of the editor's side as a whole: a handler executes its next word, and the loop on top draws what is queued and
  ends when it has been told to. A handler is sequential code and the toolkit dispatches what is pending. It is
  not assumed that the user does anything, or that the window is resized.

## 5. What is proved

Every safety property that a run checks and that holds is also a theorem. The theorems hold for any number of threads, handles, cells,
keys, files and texts, and any bounds. The assumptions are those that the modules name
(`NIL` is no thread, the sets are finite, the kinds are disjoint); TLC evaluates them in every run. Two theorems have a hypothesis of their own,
`Thread = {Primordial}` (below).

*Mutex.* `Exclusion` is inductive with the typing. For the owner slot the invariant is `OwnerWillWrite`: whoever
the slot names has stamped it and has not passed its own wipe. From there `OwnerSlot`: a thread in
its critical section reads itself or nil, and at rest the slot is nil.

*StopTheWorld.* The invariants are layered; each uses those before it.
`Types` (with what `op` and `child` must be in the middle of an operation); `Locks`, who holds which lock at which location, gives
`BothLocks`; `Registry` (a child is unborn until it is started, and has one maker) gives `Registered`; `FlagOwned` gives
`FlagNamesCollector`; `Alone` needs the count of registered threads to be one, so everybody else is unregistered and
stays so, since only a running thread makes another; `StateTold` (a thread marked STOPPED is parked or dead)
and `StoppedStays` give `WorldStopped`; `HeapSafe` adds that what is marked covers the stacks
and roots from the scan to the sweep, unless a thread slipped through, and gives `HeapIsSafe`.
`NoAllocation` is an action property from the same invariants. `Waited` adds to them that a parked thread says STOPPED, that a registered one is not dead,
and not unborn unless its creator is about to start it, and that the collector waits for registered threads only. What is left are steps that need nothing and the places of
`Unstoppable`: `NoOtherDeadlock`, the part of the termination of `stop_the_world` that is a safety property, for any number of threads. The two properties of `stw_single` are about programs with one thread, since
`new_handle` also gives up when another thread holds the gc lock: `OutOfHandlesOnlyWhenFull` assumes `Thread = {Primordial}`. Its invariant, `Solo`, follows
what has been marked through the collection, so that where `new_handle` gives up every handle is taken and in use, or collection is inhibited.
`PostponedIsTaken` rests on it too, and on `SoloOwes`: what is owed is garbage and in use, and as long as there is any, either collection is inhibited and gc-pending says so, or
it is not and the thread is between gc-enable and the end of a sweep (`Serving`), which takes all of it.

*MarkSweep.* `FreeList`: the recycled vector, without repetition, together with the cells from `nextFree` on, is exactly
the set of the empty cells, and `unused` counts the latter. `Colours` is the invariant of a collection: gray is what is on the work
list; black objects and roots refer to nothing white that is not waiting in `scan`; in the sweep the
survivors are closed and hold the roots. So a white object in the sweep is unreachable, and each step of the
collector maps to `Free` or to a stutter of `Reclaim`: `Reclaims` is the refinement. `OnlyReached`, that nothing but what can be
reached is coloured, gives the converse, `AllGarbage`. `SlotsInUse` says that objects refer to cells with objects in them, in a sweep those that can be
reached only; with it `HandlesNameObjects` shows that no root and no reachable object has a handle of an empty cell, until a
collection takes one to which only an object without a scanner refers (`orphaned`).

*Hashtable.* For any hash function. Two places at which the probe for a key ends are one (`ProbesAgree`), so a key that stands where its probe ends has one entry,
and a probe that ends at an empty slot shows that it has none. `Split` says of a growing table that its old part is half as large and has no key in
common with the new one, from the cursor on. `Load` bounds the count in each phase, so that a probe that must end at an empty slot finds one: a table
that grows has at most one entry for each slot it has passed. They give `EntriesAreFound`, `CountsHold`, `NoProbeRunsOn` and `PlaceIsFound`, and each step maps to a
step of `Dictionary` or stutters (`TablesAreDictionaries`).

*FrontEnds.* For both toolkits, all depths of the call stack, any number of pumps and mishaps. What the steps do is found out once: `Summary` has one case for each kind
of step, and `Shape` says the same in terms of the frames that are kept, rewritten, pushed and popped; each invariant is then kept for a reason that
names kinds of steps, and not the forty actions. The invariants are in `FrontEndsInvariants`, each resting on those before it.
`Grammar`: each word of a handler is followed by one that may follow it, each frame sits on one that it may sit on, and who is beneath another waits for it.
`LoopsListed`: GTK's list holds the loops on the stack in their order. `Carets` adds to `CaretIsWhereKeysGo` what is queued.
`MiniIsCurrent`, `Outer` and `OneQuestion` say who restores the current buffer, and that above the loop of a question there is nothing but what answers it;
`Document` follows for GTK's text view, and so does `Focused`: while a question is open its buffer is current, or its loop has been told to end, or a handler
above is about to tell it. `Answered`: whoever has an answer to come owns the prompt, the accepted line and, until then, the line that is typed. `KeysBelow` says
that in Windows no key of the text view is served above an open question, so that what such a key changes is the document, which `update` paints; with it
`Fresh` says at each word what is out of date and not yet queued, and that a word to come shows it. The theorems are `Typing`, `CaretsFollowFocus`, `TheDocumentIsShown`, `KeysGoToTheQuestion`,
`AnswersBelong` and `NothingIsLeftStale`, each with the exceptions (`upset`) that its property names.

*Host.* For all `Plans`. `TerminalInv`: once the terminal is prepared, `otio` is the mode it was found in, and else the terminal
still is in that mode; so `bye` leaves it as it was found (`TerminalComesBack`). For the files (`SavingProofs`): a thread's job is a
suffix of one of three sequences of calls (`Rest(job, SaveJob, k)`: k calls are done), and the invariant says for each k what holds after so many calls.
For a save that is `SaveInv`: up to the eighth call the file is what the save found, from the sixth on the backup is, and the four calls in
between, which write the one, leave the other alone. `UndoInv` says that the mod-counts of the undo records increase up to the
buffer's, so that a record with the count of the last save is the saved text: without the order, undo could come back to that count with another text.
`ReadInv` says that while the REPL reads, its old time is not the file's as long as nobody writes. They give `SavesAreSafe`,
`UnmodifiedIsOnDisk` and `GlossaryIsTheFile`. `HostProofs` builds on these: `Descriptors` says that an open descriptor is owned by one thread, whose job still closes it, or is lost, and that no more
are lost than calls have failed (`DescriptorsAreClosed`). `Typing` needs a bound on each counter; a plan lets the clock, which starts at 1, be at 1 (`PlansAssumption`).

*Recover.* For any threads and `Plans`. `Tries` relates a catch stack `c`, of which the first `s` entries are stale, to the return stack and to what the tries have
found (`Matched`): entry `s + i` is the place of the i-th try, in order, no try is missing, and what a `recover` has put aside is what the i-th try has
found. It is stated for the first n frames, since between a throw and the handler the top frame is a try that the catch stack has forgotten. Four lemmas say what pushing
a frame, pushing a try, and popping do to it (`MatchedPush`, `MatchedTry`, `MatchedLast`, `MatchedPop`); `Promise` carries the error and the data stack
from the throw to the handler. They give `CatchStackIsExact` and `RecoverKeepsItsPromise`. For the dynamic scopes the invariant `Scopes` counts the places of all return stacks where a scope is
open: while no push or pop is torn and no reset has cut them, `dynamic_scope_` has one element more than these and the leaked ones (`DynamicScopeIsCounted`), and while one thread at a time
has scopes it holds them in the order of that thread's stack (`DynamicScopeNests`).

Proved, and not in a run any more because the theorem says all: `Registered`, `FlagNamesCollector`, `BothLocks`, `WhiteAtStart`, and the types of
`Mutex`, `StopTheWorld`, `MarkSweep`, `Recover` and `FrontEnds`.

Only model-checked: liveness, that is `CollectionEnds` (twice), `StoppedResumes`, `JoinReturnsAtLast` and `ExitEnds`; the prover
does not reason about fairness and ENABLED. The three runs that expect a violation are traces, not theorems. `Reachable` is defined as what lies in every closed
set that holds the roots and not by recursion, so that it can be reasoned about.

## 6. Findings

* **A thread says STOPPED before its registers are saved** (`gc2.asm:716`, `thread.asm:755`; run `stw_stack`). A
  collector that polls the state in between scans from old registers and may free what is on that stack. `HeapIsSafe` says that
  this and the ways named below are the only ones.
* **make-thread and thread-create can deadlock with a collector** (`thread.asm:468`, `:735`; run `stw_create`). They block on the
  all_threads lock while RUNNING; the collector holds it and waits for them to stop. `reset` does the same (`quit.asm:368`).
* **A thread that the OS refuses to create is waited for** (`os.c:771-775`, `thread.asm:731-750`). It stays in `all_threads` as STARTING, so the next
  `stop_the_world` does not end; thread-join would use an identifier that was never written. The model has the refusal; no run of its own shows
  it, since nothing in the repository says what should happen then.
* **A click in the text while a question is open leaves the minibuffer's loop running** when something has been typed
  (`feral-main.feline:245`; run `minibuffer_assert`). The click makes the document current and calls `minibuffer-cancel`, which then
  only resets the line; focus and loop stay, and the next key fails the assertion at the head of the minibuffer's handler.

`CollectionEnds`, `StoppedResumes` and `JoinReturnsAtLast` except the wait for a thread in one of these places (`Deadlocked`), and the last the join of a thread that was never
created; `CollectorWaitsForMovers` shows that there are no others. With one thread a postponed collection is done (`PostponedGcIsDone`). With two the code does not promise it: `gc-enable`
of one ends the inhibition of the other, `gc2` gives up when another thread has the gc lock, and a collection put off between the reading of gc-inhibit and the writing of
gc-pending (`gc2.asm:945-947`) stays put off until the next.

`WorldIsStopped` names the ways in which a thread is not parked although the collector has seen it stopped:
it had left the wait loop before the flag was raised again; it returned from `thread-join`, which looks at no flag; or such a
thread created it. They are exceptions in the property because the code has them; `stw_world` and `HeapIsSafe` show that
nothing else endangers the heap.

The properties of `FrontEnds` except five mishaps, which are real sequences in the code: a key taken by a loop that only waits for a
redraw ("ahead"); do-quit from the close button or the minibuffer while a question is open, whose own question then changes the prompt of the
first ("nested"); the click above ("clicked"); an error that escapes through a running event loop and leaves it in the toolkit's list ("failed");
in Windows, the window activated while a question is open, which gives the text view the focus ("activated"). `ViewShowsTheDocument` is
claimed for GTK only: Windows paints the current buffer, which during a question is the minibuffer. Those of `Host` except: a save that failed half
way, with a buffer undone to the count of the last save ("failed"); an edit after an undo past the last save, by which the
mod-count comes to the saved value with another text ("branched"); a file written within the second of its write time ("overtaken"). A
process that is killed, or that fails in `main()`, leaves the terminal raw, and only `bye` restores it.

Those of `Recover` except what the code does not keep apart. Two threads between throw and handler: the second takes or replaces the error of the first
("crossed"). Two threads in a push or pop of `dynamic_scope_` ("torn"), or in scopes at the same time ("shared", which costs the order only). A reset of the REPL,
which cuts the scopes of all threads ("cut"). An error, which ends no scope ("leaked": one more scope stays until the REPL resets; there was a test of this,
now a comment, `test.feline:1366`). And a reset leaves the catch stack as it was, so that a
later throw outside any try jumps to an old place instead of ending with "no catch"; `CatchesMatch` shows that a throw inside a try is safe from that.

## 7. Plan

Order of what comes next, with what each module is to show:

1. **Vectors**: growth, insertion and removal of vectors and sbufs as sequences with a capacity, implementing abstract
   sequences; the vector `all_threads_` under concurrent tracing.
2. **Generic** over `Hashtable`: methods, dispatch, default methods and static binding by the compiler.
3. **Numbers**: the tower as functions on `w`-bit integers against the integers, over all operands for small `w`.
4. **Compiler**: pending literals, inlined combinators and jump distances against the meaning of the quotation.
5. **Reader**: conditionals, nesting, load state and vocabulary search.
6. **Buffer**: `Saving` with texts of lines, dot and mark; redo as the inverse of undo; search and replace; kill ring; the minibuffer's
   history and completion.
7. **Regex**: the matcher against a reference definition.

The modules of section 2 came in the order Mutex, StopTheWorld, MarkSweep, Hashtable, front ends, host, errors: what is shared between threads
first, then what is shared with the user and the disk. Runs of the pure algorithms (3, 4, 7) enumerate bounded inputs in their initial states. Theorems wanted next: what the steps of `StopTheWorld` promise to
`Mutex` and `MarkSweep` (that the locks taken in one step there are those of `Mutex`, and that a stopped world is what `MarkSweep` starts from), and the capacity
invariants of `Vectors`.

## 8. What is not modelled, and why

Sockets (`socket.c`): no Feline code calls them. Directories, append and rename, the terminal's size and the columns of output
streams; in the front ends colours, positions of text and carets, columns, the title, maximizing, and what the clipboard is set to: values passed through,
on which no control depends. The disassembler, inspector, help but for its glossary, backtraces, syntax colouring and key tables: tables and
formatting. The C of `numbers.c`: pure functions (plan, 3). What `fsync` would be for: no code calls it, and a failure of power is no action. Primitive stack words: single instructions. The
discipline by which assembly words keep handles on a stack while they use raw addresses: a matter of each word's instructions
(see the hazard at `hashtable.asm:582`). The data stack of the window front ends: every callback goes back to its base (`mov rbp, [gtkui_raw_sp0_]` in
`gtkui.asm:45-47`, and so in `winui.asm`), so that a handler nested in another overwrites what the suspended one left there; the call stack of `Minibuffer` has words and no
data, and says nothing of what they find. Editing of the prompt itself, which keys of the minibuffer can do (`minibuffer-keymap.feline:99-149`, with a FIXME): `tail` may then fail, which
`Accept` and `Answer` have as an error that is always possible, or cut off the beginning of the answer, which `AnswersAreOwn` does not see: it is about which question a line is an answer to. Hash functions: any function is allowed instead, the same for the life of a table; `hashtable-set-hash-function`
and `-set-test-function` (`hashtable.asm:208-219`) can be called on a table with entries, which loses them, but the runtime calls them on new tables only. `equal-hashtable.asm`: unfinished (its insertion
still demands fixnum keys). Steps are taken to be
sequentially consistent: x86-64 may delay a store past later loads of the same thread, and a delayed RUNNING acts like a wait loop
that is left late, which the model has.
