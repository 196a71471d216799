----------------------------- MODULE HostProofs -----------------------------
(***************************************************************************)
(* Proofs about Host, for all plans: the terminal, the types of everything *)
(* that Host keeps, and the descriptors.  What a thread has in hand where  *)
(* is known from the jobs, call by call (SavingProofs).                    *)
(***************************************************************************)
EXTENDS SavingProofs, FiniteSetTheorems, NaturalsInduction, WellFoundedInduction

----------------------------------------------------------------------------
(* The terminal.                                                           *)

\* prep_terminal has the mode that the terminal was found in, and before it, and where
\* standard input is no terminal, the terminal still is in that mode.
TerminalInv ==
    /\ ByeRestoresTerminal
    /\ stage = "terminal" => ~prepped
    /\ stage # "off" => IF prepped THEN otio = found ELSE tty = found

\* The steps that do not touch the process leave the terminal alone.
LEMMA FilesLeaveTheProcess ==
    ASSUME NEW t \in Threads,
           Call(t) \/ SignalHandler(t) \/ Editor \/ Repl \/ Tick
    PROVE  UNCHANGED procVars
BY DEF Call, SignalHandler, Editor, Repl, Tick

\* The ends of the process, and what runs before them, keep TerminalInv.
LEMMA ProcessKeepsTerminal ==
    ASSUME TerminalInv, Start \/ Boot \/ OsAcceptString \/ OsBye \/ Killed
    PROVE  TerminalInv'
<1> USE DEF TerminalInv, ByeRestoresTerminal, tellVars
<1>1. CASE Start
  BY <1>1 DEF Start
<1>2. CASE PrepTerminal
  BY <1>2 DEF PrepTerminal
<1>3. CASE InitializeDynamicCodeSpace
  BY <1>3 DEF InitializeDynamicCodeSpace
<1>4. CASE ReserveHandleSpace \/ InitializeDatastack \/ InitializeThreads
  BY <1>4 DEF ReserveHandleSpace, InitializeDatastack, InitializeThreads, Reserve
<1>5. CASE Cold
  BY <1>5 DEF Cold
<1>6. CASE OsAcceptString
  BY <1>6 DEF OsAcceptString, Deprepped
<1>7. CASE OsBye
  BY <1>7 DEF OsBye, Ends, Deprepped
<1>8. CASE Killed
  BY <1>8 DEF Killed, Ends
<1>9. QED
  BY <1>1, <1>2, <1>3, <1>4, <1>5, <1>6, <1>7, <1>8 DEF Boot

\* Once bye has ended Feline the terminal is as Feline found it, on every plan, however
\* often the program was killed and started before (os_bye, deprep_terminal).
THEOREM TerminalComesBack == Spec => []ByeRestoresTerminal
<1>1. Init => TerminalInv
  BY DEF Init, InitProcess, TerminalInv, ByeRestoresTerminal
<1>2. TerminalInv /\ [Next]_vars => TerminalInv'
  <2> SUFFICES ASSUME TerminalInv, [Next]_vars PROVE TerminalInv'
    OBVIOUS
  <2>1. CASE UNCHANGED procVars
    BY <2>1 DEF TerminalInv, ByeRestoresTerminal, procVars, tellVars
  <2>2. CASE Start \/ Boot \/ OsAcceptString \/ OsBye \/ Killed
    BY <2>2, ProcessKeepsTerminal
  <2>3. \/ UNCHANGED procVars
        \/ Start \/ Boot \/ OsAcceptString \/ OsBye \/ Killed
    BY FilesLeaveTheProcess DEF Next, End, vars, Threads
  <2> QED
    BY <2>1, <2>2, <2>3
<1>3. TerminalInv => ByeRestoresTerminal
  BY DEF TerminalInv
<1> QED
  BY <1>1, <1>2, <1>3, PTL DEF Spec

----------------------------------------------------------------------------
(* Types.                                                                  *)

\* Nothing changes the plan.
LEMMA PlanStays == ASSUME [Next]_vars PROVE plan' = plan
<1>1. CASE Start \/ Boot \/ OsAcceptString
  BY <1>1 DEF Start, Boot, PrepTerminal, InitializeDynamicCodeSpace, ReserveHandleSpace,
     InitializeDatastack, InitializeThreads, Reserve, Cold, OsAcceptString
<1>2. CASE End
  BY <1>2 DEF End, OsBye, Killed, Ends
<1>3. CASE UNCHANGED procVars
  BY <1>3 DEF procVars
<1> QED
  BY <1>1, <1>2, <1>3
     DEF Next, Call, SignalHandler, Editor, Repl, Tick, vars

LEMMA ContentStays == ASSUME plan' = plan PROVE Content' = Content
BY DEF Content

\* The texts that there are, and what is made of them.
LEMMA ContentIs ==
    ASSUME plan.texts \in Nat
    PROVE  /\ Empty \in Content /\ NoFile \in Content
           /\ \A n \in 0..plan.texts : Whole(n) \in Content
           /\ \A c \in Content : \A p \in {"absent", "none", "some", "whole"} :
                 [c EXCEPT !.part = p] \in Content
BY DEF Content, Empty, NoFile, Whole

\* TypeOK, component by component.  A mod-count is not above the number of texts that have
\* been typed: an undo brings back an earlier one, which is lower (UndoInv).
DiskTypes ==
    /\ disk \in [Names -> Content] /\ held \in Content
    /\ stamp \in 1..clock /\ clock \in 1..plan.ticks /\ texts \in 0..plan.texts
FdTypes ==
    /\ fds \in [1..plan.fds -> Names \cup {"free"}]
    /\ hand \in [Threads -> [fd : 0..plan.fds, size : Content, got : Content]]
    /\ errors \in 0..plan.errors
BufTypes ==
    /\ buf.text \in Content /\ buf.mod \in 0..texts /\ buf.saved \in 0..texts
    /\ buf.undo \in Seq([mod : Nat, text : Content])
ReadTypes == glossary \in Content /\ glossary_file_write_time \in 0..plan.ticks
AllTypes ==
    plan \in Plans /\ ProcessTypeOK /\ DiskTypes /\ FdTypes /\ BufTypes /\ ReadTypes

LEMMA PlanIs ==
    ASSUME plan \in Plans
    PROVE  /\ plan.starts \in Nat /\ plan.texts \in Nat /\ plan.errors \in Nat
           /\ plan.ticks \in Nat \ {0} /\ plan.fds \in Nat
           /\ plan.terminals \subseteq BOOLEAN /\ plan.accepts \subseteq BOOLEAN
BY PlansAssumption

LEMMA ProcessTypesAre ==
    ProcessTypeOK <=>
      /\ stage \in {"off", "terminal", "code", "handles", "data", "threads", "cold", "up"}
      /\ ended \in {"none", "failure", "killed", "bye"}
      /\ starts \in 0..plan.starts
      /\ tty \in {"sane", "raw"} /\ found \in {"sane", "raw"} /\ otio \in {"sane", "raw"}
      /\ isterm \in BOOLEAN /\ prepped \in BOOLEAN /\ accept \in BOOLEAN
      /\ missing \subseteq {"handles", "data", "tls"}
BY DEF ProcessTypeOK

LEMMA InitTypes == Init => AllTypes
<1> SUFFICES ASSUME Init PROVE AllTypes
  OBVIOUS
<1> USE DEF Init, InitProcess, InitSaving
<1>1. plan \in Plans /\ plan.starts \in Nat /\ plan.texts \in Nat /\ plan.errors \in Nat
      /\ plan.ticks \in Nat \ {0} /\ plan.fds \in Nat
  BY PlanIs
<1>2. ProcessTypeOK
  <2>1. isterm \in BOOLEAN /\ prepped \in BOOLEAN /\ accept \in BOOLEAN
    BY Zenon
  <2>2. starts \in 0..plan.starts
    BY <1>1
  <2> QED
    BY <2>1, <2>2, ProcessTypesAre, Zenon
<1>3. DiskTypes
  BY <1>1, ContentIs DEF DiskTypes
<1>4. FdTypes
  BY <1>1, ContentIs DEF FdTypes, Hand
<1>5. BufTypes
  BY <1>1, ContentIs DEF BufTypes, NoBuffer
<1>6. ReadTypes
  BY <1>1, ContentIs DEF ReadTypes
<1> QED
  BY <1>1, <1>2, <1>3, <1>4, <1>5, <1>6 DEF AllTypes

\* The process: its stages.
LEMMA ProcessTypes ==
    ASSUME AllTypes, [Next]_vars
    PROVE  ProcessTypeOK'
<1> USE DEF ProcessTypeOK, tellVars
<1>1. /\ plan' = plan /\ plan.starts \in Nat
      /\ plan.terminals \subseteq BOOLEAN /\ plan.accepts \subseteq BOOLEAN
      /\ ProcessTypeOK
  BY PlanStays, PlanIs DEF AllTypes
<1> HIDE DEF ProcessTypeOK
<1>2. CASE Start
  <2>1. starts' \in 0..plan'.starts
    BY <1>1, <1>2 DEF Start, ProcessTypeOK
  <2>2. isterm' \in BOOLEAN /\ prepped' \in BOOLEAN /\ accept' \in BOOLEAN
    BY <1>1, <1>2, Zenon DEF Start
  <2>3. /\ stage' = "terminal" /\ ended' = ended /\ otio' = otio /\ missing' = {}
        /\ tty' \in {tty, "sane"} /\ found' = tty'
    BY <1>2 DEF Start
  <2> QED
    BY <1>1, <2>1, <2>2, <2>3 DEF ProcessTypeOK
<1>3. CASE PrepTerminal \/ InitializeDynamicCodeSpace
  BY <1>1, <1>3 DEF PrepTerminal, InitializeDynamicCodeSpace, ProcessTypeOK
<1>4. CASE ReserveHandleSpace \/ InitializeDatastack \/ InitializeThreads
  BY <1>1, <1>4
     DEF ReserveHandleSpace, InitializeDatastack, InitializeThreads, Reserve, ProcessTypeOK
<1>5. CASE Cold
  BY <1>1, <1>5 DEF Cold, ProcessTypeOK
<1>6. CASE OsAcceptString
  BY <1>1, <1>6 DEF OsAcceptString, Deprepped, ProcessTypeOK
<1>7. CASE End
  BY <1>1, <1>7 DEF End, OsBye, Killed, Ends, Deprepped, ProcessTypeOK
<1>8. CASE UNCHANGED procVars
  BY <1>1, <1>8 DEF procVars, ProcessTypeOK
<1> QED
  BY <1>2, <1>3, <1>4, <1>5, <1>6, <1>7, <1>8
     DEF Next, Boot, Call, SignalHandler, Editor, Repl, Tick, vars

\* The lowest free descriptor is one.
LEMMA MinIsFree ==
    ASSUME Free # {}, plan.fds \in Nat
    PROVE  Min(Free) \in Free
<1>1. Free \subseteq Nat
  BY DEF Free
<1>2. PICK x \in Free : \A y \in Free : <<y, x>> \notin OpToRel(<, Nat)
  <2> HIDE DEF Free
  <2> QED
    BY <1>1, NatLessThanWellFounded, WFMin
<1>3. \A y \in Free : ~(y < x)
  BY <1>1, <1>2 DEF OpToRel
<1>4. \E z \in Free : \A y \in Free : z =< y
  <2> HIDE DEF Free
  <2> QED
    BY <1>1, <1>3
<1> QED
  BY <1>4 DEF Min

LEMMA HandWith ==
    ASSUME NEW C, NEW n \in Nat, NEW t \in Threads,
           hand \in [Threads -> [fd : 0..n, size : C, got : C]]
    PROVE  /\ \A d \in 0..n : [hand EXCEPT ![t].fd = d]
                 \in [Threads -> [fd : 0..n, size : C, got : C]]
           /\ \A c \in C : /\ [hand EXCEPT ![t].size = c]
                                \in [Threads -> [fd : 0..n, size : C, got : C]]
                           /\ [hand EXCEPT ![t].got = c]
                                \in [Threads -> [fd : 0..n, size : C, got : C]]
           /\ Hand \in [fd : 0..n, size : C, got : C] =>
                 [hand EXCEPT ![t] = Hand] \in [Threads -> [fd : 0..n, size : C, got : C]]
OBVIOUS

\* A call of a thread.
LEMMA CallKeepsTypes ==
    ASSUME AllTypes, Types, NEW t \in Threads, Call(t), plan' = plan
    PROVE  DiskTypes' /\ FdTypes' /\ BufTypes' /\ ReadTypes'
<1>1. /\ plan.texts \in Nat /\ plan.errors \in Nat /\ plan.ticks \in Nat \ {0} /\ plan.fds \in Nat
      /\ Content' = Content
  BY PlanIs, ContentStays DEF AllTypes
<1> DEFINE T == [Threads -> [fd : 0..plan.fds, size : Content, got : Content]]
<1>2. /\ job[t] # <<>>
      /\ UNCHANGED <<buf, held, texts, clock, glossary, glossary_file_write_time>>
  BY DEF Call, OsFileOpenRead, OsFileSize, OsReadFile, OsCloseFile, OsFileCreateWrite,
         OsWriteFile, Next_, readVars, Written, Opened, Fine, Error, GiveUp, editVars, diskVars
<1>3. /\ File(t) \in Names /\ hand \in T /\ hand[t] \in [fd : 0..plan.fds, size : Content, got : Content]
      /\ disk[File(t)] \in Content
  BY <1>2, FileIsName DEF AllTypes, FdTypes, DiskTypes
<1>4. Hand \in [fd : 0..plan.fds, size : Content, got : Content]
  BY <1>1, ContentIs DEF Hand
<1>5. /\ [hand EXCEPT ![t] = Hand] \in T
      /\ \A d \in 0..plan.fds : [hand EXCEPT ![t].fd = d] \in T
      /\ \A c \in Content : [hand EXCEPT ![t].size = c] \in T /\ [hand EXCEPT ![t].got = c] \in T
  BY <1>1, <1>3, <1>4, HandWith
<1>6. Free # {} => Min(Free) \in 1..plan.fds
  BY <1>1, MinIsFree DEF Free
<1>7. errors' \in 0..plan.errors
  BY <1>1 DEF Call, OsFileOpenRead, OsFileSize, OsReadFile, OsCloseFile, OsFileCreateWrite,
         OsWriteFile, Opened, Fine, Error, GiveUp, AllTypes, FdTypes
<1>8. fds' \in [1..plan.fds -> Names \cup {"free"}]
  BY <1>3, <1>6 DEF Call, OsFileOpenRead, OsFileSize, OsReadFile, OsCloseFile,
         OsFileCreateWrite, OsWriteFile, Opened, AllTypes, FdTypes
<1>9. hand' \in T
  <2> HIDE DEF T
  <2>1. CASE OsFileOpenRead(t) \/ OsFileCreateWrite(t)
    BY <1>1, <1>3, <1>5, <1>6, <2>1
       DEF OsFileOpenRead, OsFileCreateWrite, Opened, Error, GiveUp, Drops
  <2>2. CASE OsFileSize(t)
    BY <1>3, <1>5, <2>2 DEF OsFileSize, Error, GiveUp, Drops
  <2>3. CASE OsReadFile(t)
    BY <1>1, <1>3, <1>5, <2>3, ContentIs DEF OsReadFile, Error, GiveUp, Drops
  <2>4. CASE OsCloseFile(t) \/ OsWriteFile(t)
    BY <1>3, <1>5, <2>4 DEF OsCloseFile, OsWriteFile, Error, GiveUp, Drops
  <2> QED
    BY <2>1, <2>2, <2>3, <2>4 DEF Call
<1>10. disk' \in [Names -> Content] /\ stamp' \in 1..clock
  <2>1. Empty \in Content /\ hand[t].got \in Content
        /\ [hand[t].got EXCEPT !.part = "some"] \in Content
    BY <1>1, <1>3, ContentIs
  <2> QED
    BY <1>1, <2>1 DEF Call, OsFileOpenRead, OsFileSize, OsReadFile, OsCloseFile, OsFileCreateWrite,
         OsWriteFile, Written, diskVars, AllTypes, DiskTypes
<1> QED
  BY <1>1, <1>2, <1>7, <1>8, <1>9, <1>10 DEF AllTypes, DiskTypes, FdTypes, BufTypes, ReadTypes

\* A command or a step of the editor.
LEMMA EditorKeepsTypes ==
    ASSUME AllTypes, Types, Safe, Editor, plan' = plan
    PROVE  DiskTypes' /\ FdTypes' /\ BufTypes' /\ ReadTypes'
<1> DEFINE R == [mod : Nat, text : Content]
<1>1. /\ plan.texts \in Nat /\ plan.errors \in Nat /\ plan.ticks \in Nat \ {0} /\ plan.fds \in Nat
      /\ Content' = Content
  BY PlanIs, ContentStays DEF AllTypes
<1>2. UNCHANGED <<disk, stamp, clock, fds, errors, glossary, glossary_file_write_time>>
  BY DEF Editor, diskVars, readVars
<1>3. /\ buf \in Buffers /\ buf.text \in Content /\ buf.mod \in 0..texts /\ buf.saved \in 0..texts
      /\ buf.undo \in Seq(R) /\ texts \in 0..plan.texts
      /\ hand["editor"].got \in Content
  BY DEF AllTypes, BufTypes, DiskTypes, FdTypes, Types, Threads
<1>4. texts' \in 0..plan.texts /\ texts' >= texts
  BY <1>1, <1>3 DEF Editor, EditorStep, Visit, RemoveTrailingWhitespace, Saved, CreateBuffer,
     CreateBufferForFile, Edit, Undo, DoSave, KillBuffer
<1>5. Whole(texts') \in Content /\ Empty \in Content /\ NoFile \in Content
  BY <1>1, <1>4, ContentIs
<1>6. held' \in Content
  BY <1>5 DEF Editor, EditorStep, Visit, RemoveTrailingWhitespace, Saved, CreateBuffer,
     CreateBufferForFile, Edit, Undo, DoSave, KillBuffer, editVars, AllTypes, DiskTypes, Names
<1>7. BufTypes'
  <2> SUFFICES /\ buf'.text \in Content /\ buf'.mod \in 0..texts' /\ buf'.saved \in 0..texts'
               /\ buf'.undo \in Seq(R)
    BY <1>1 DEF BufTypes
  <2>0. <<>> \in Seq(R)
    OBVIOUS
  <2>1. CASE UNCHANGED buf
    BY <1>1, <1>3, <1>4, <2>1
  <2>2. CASE buf' = NoBuffer \/ CreateBuffer \/ Visit
    <3>1. /\ buf'.text \in {Empty, hand["editor"].got} /\ buf'.mod = 0 /\ buf'.saved = 0
          /\ buf'.undo = <<>>
      <4>1. CASE buf' = NoBuffer \/ CreateBuffer
        BY <4>1 DEF CreateBuffer, NoBuffer
      <4>2. CASE Visit
        BY <4>2 DEF Visit, NoBuffer
      <4> QED
        BY <2>2, <4>1, <4>2
    <3> QED
      BY <1>1, <1>3, <1>4, <1>5, <2>0, <3>1
  <2>3. CASE RemoveTrailingWhitespace /\ buf' # buf
    <3>1. /\ texts' = texts + 1
          /\ buf' = [Bumped(buf) EXCEPT !.text = Whole(texts')]
      BY <2>3 DEF RemoveTrailingWhitespace
    <3>2. buf'.text = Whole(texts') /\ buf'.mod = buf.mod + 1 /\ buf'.saved = buf.saved
          /\ buf'.undo = buf.undo
      BY <1>3, <3>1 DEF Bumped, Buffers
    <3> QED
      BY <1>1, <1>3, <1>5, <3>1, <3>2
  <2>4. CASE Edit
    <3>1. /\ texts' = texts + 1
          /\ buf' = [Bumped(buf) EXCEPT !.text = Whole(texts'),
                  !.undo = Append(buf.undo, [mod |-> buf.mod, text |-> buf.text])]
      BY <1>3, <2>4 DEF Edit, Bumped, Buffers
    <3>2. buf'.text = Whole(texts') /\ buf'.mod = buf.mod + 1 /\ buf'.saved = buf.saved
          /\ buf'.undo = Append(buf.undo, [mod |-> buf.mod, text |-> buf.text])
      BY <1>3, <3>1 DEF Bumped, Buffers
    <3>3. [mod |-> buf.mod, text |-> buf.text] \in R
      BY <1>1, <1>3
    <3>4. buf'.undo \in Seq(R)
      <4> HIDE DEF R
      <4> QED
        BY <1>3, <3>2, <3>3
    <3> QED
      BY <1>1, <1>3, <1>5, <3>1, <3>2, <3>4
  <2>5. CASE Undo
    <3> DEFINE n == Len(buf.undo)
               rec == buf.undo[n]
    <3>1. buf.undo \in Seq(R) /\ buf.undo # <<>>
      BY <1>3, <2>5 DEF Undo
    <3> HIDE DEF R
    <3>2. n \in Nat \ {0} /\ rec \in R /\ SubSeq(buf.undo, 1, n - 1) \in Seq(R)
      BY <3>1
    <3>3. rec.mod < buf.mod
      BY <3>2 DEF Safe, UndoInv
    <3>4. buf'.text = rec.text /\ buf'.mod = rec.mod /\ buf'.saved = buf.saved
          /\ buf'.undo = SubSeq(buf.undo, 1, n - 1) /\ texts' = texts
      BY <1>3, <2>5 DEF Undo, Buffers
    <3>5. rec.mod \in Nat /\ rec.text \in Content
      BY <3>2 DEF R
    <3> QED
      BY <1>1, <1>3, <3>2, <3>3, <3>4, <3>5
  <2>6. CASE Saved
    BY <1>1, <1>3, <1>4, <2>6 DEF Saved, Buffers
  <2> QED
    BY <2>1, <2>2, <2>3, <2>4, <2>5, <2>6
       DEF Editor, EditorStep, CreateBufferForFile, DoSave, KillBuffer, editVars
<1>8. hand' \in [Threads -> [fd : 0..plan.fds, size : Content, got : Content]]
  <2>1. Hand \in [fd : 0..plan.fds, size : Content, got : Content]
    BY <1>1, <1>5 DEF Hand
  <2>2. buf'.text \in Content
    BY <1>1, <1>7 DEF BufTypes
  <2>3. /\ hand \in [Threads -> [fd : 0..plan.fds, size : Content, got : Content]]
        /\ "editor" \in Threads
    BY DEF AllTypes, FdTypes, Threads
  <2>4. \/ UNCHANGED hand \/ hand' = [hand EXCEPT !["editor"] = Hand]
        \/ hand' = [hand EXCEPT !["editor"].got = buf'.text]
    BY DEF Editor, EditorStep, Visit, RemoveTrailingWhitespace, Saved, CreateBuffer,
       CreateBufferForFile, Edit, Undo, DoSave, KillBuffer, Drops
  <2> DEFINE T == [Threads -> [fd : 0..plan.fds, size : Content, got : Content]]
  <2>5. /\ [hand EXCEPT !["editor"] = Hand] \in T
        /\ \A c \in Content : [hand EXCEPT !["editor"].got = c] \in T
    BY <1>1, <2>1, <2>3, HandWith
  <2> HIDE DEF T
  <2>6. hand' \in T
    BY <2>2, <2>3, <2>4, <2>5 DEF T
  <2> QED
    BY <2>6 DEF T
<1> QED
  BY <1>1, <1>2, <1>4, <1>6, <1>7, <1>8 DEF AllTypes, DiskTypes, FdTypes, ReadTypes

LEMMA NextAllTypes ==
    ASSUME AllTypes, Types, Safe, [Next]_vars
    PROVE  AllTypes'
<1>1. /\ plan' = plan /\ plan \in Plans /\ Content' = Content
      /\ plan.texts \in Nat /\ plan.errors \in Nat /\ plan.ticks \in Nat \ {0} /\ plan.fds \in Nat
  BY PlanStays, PlanIs, ContentStays DEF AllTypes
<1>2. ProcessTypeOK'
  BY ProcessTypes
<1> SUFFICES DiskTypes' /\ FdTypes' /\ BufTypes' /\ ReadTypes'
  BY <1>1, <1>2 DEF AllTypes
<1> USE DEF AllTypes
<1>3. CASE UNCHANGED savingVars
  BY <1>1, <1>3 DEF savingVars, diskVars, editVars, readVars, DiskTypes, FdTypes, BufTypes, ReadTypes
<1>4. ASSUME NEW t \in Threads, Call(t) PROVE DiskTypes' /\ FdTypes' /\ BufTypes' /\ ReadTypes'
  BY <1>1, <1>4, CallKeepsTypes
<1>5. CASE Editor
  BY <1>1, <1>5, EditorKeepsTypes
<1>6. Hand \in [fd : 0..plan.fds, size : Content, got : Content]
      /\ Empty \in Content
  BY <1>1, ContentIs DEF Hand
<1>7. ASSUME NEW t \in Threads, SignalHandler(t)
      PROVE  DiskTypes' /\ FdTypes' /\ BufTypes' /\ ReadTypes'
  <2>1. /\ UNCHANGED <<disk, stamp, clock, texts, fds, glossary, glossary_file_write_time, held>>
        /\ hand' = [hand EXCEPT ![t] = Hand]
        /\ errors < plan.errors /\ errors' = errors + 1 /\ buf' \in {NoBuffer, buf}
    BY <1>7 DEF SignalHandler, GiveUp, Drops, diskVars, readVars
  <2>2. [hand EXCEPT ![t] = Hand] \in [Threads -> [fd : 0..plan.fds, size : Content, got : Content]]
    BY <1>1, <1>6, HandWith DEF FdTypes
  <2>3. BufTypes'
    <3>1. CASE UNCHANGED buf
      BY <1>1, <2>1, <3>1 DEF BufTypes
    <3>2. CASE buf' = NoBuffer
      BY <1>1, <1>6, <2>1, <3>2 DEF BufTypes, NoBuffer, DiskTypes
    <3> QED
      BY <2>1, <3>1, <3>2
  <2> QED
    BY <1>1, <2>1, <2>2, <2>3 DEF DiskTypes, FdTypes, ReadTypes
<1>8. CASE Repl
  <2>1. /\ UNCHANGED <<disk, stamp, clock, texts, fds, errors, buf, held>>
        /\ hand' = hand \/ hand' = [hand EXCEPT !["repl"] = Hand]
        /\ glossary' \in {glossary, hand["repl"].got}
        /\ glossary_file_write_time' \in {glossary_file_write_time, FileWriteTime}
    BY <1>8 DEF Repl, ReplStep, MaybeLoadGlossary, Lines, OsFileWriteTime, Drops, diskVars, editVars
  <2>2. "repl" \in Threads /\ hand["repl"].got \in Content
    BY DEF FdTypes, Threads
  <2>3. [hand EXCEPT !["repl"] = Hand] \in [Threads -> [fd : 0..plan.fds, size : Content, got : Content]]
    BY <1>1, <1>6, <2>2, HandWith DEF FdTypes
  <2>4. FileWriteTime \in 0..plan.ticks
    BY <1>1 DEF FileWriteTime, DiskTypes
  <2> QED
    BY <1>1, <2>1, <2>2, <2>3, <2>4 DEF DiskTypes, FdTypes, ReadTypes, BufTypes
<1>9. CASE Tick
  BY <1>1, <1>9 DEF Tick, diskVars, readVars, editVars, DiskTypes, FdTypes, BufTypes, ReadTypes
<1>10. CASE End
  <2>1. Gone
    BY <1>10 DEF End
  <2>2. BufTypes'
    BY <1>1, <1>6, <2>1 DEF Gone, BufTypes, NoBuffer, DiskTypes
  <2>3. FdTypes'
    BY <1>1, <1>6, <2>1 DEF Gone, FdTypes
  <2> QED
    BY <1>1, <1>6, <2>1, <2>2, <2>3 DEF Gone, diskVars, DiskTypes, ReadTypes
<1> QED
  BY <1>3, <1>4, <1>5, <1>7, <1>8, <1>9, <1>10 DEF Next, vars

----------------------------------------------------------------------------
(* Descriptors.                                                            *)
HoldingCalls == {"size", "read", "write", "close"}
OpeningCalls == {"open", "create"}

\* A thread whose next call needs the descriptor that it has opened.
Owes(calls) == calls # <<>> /\ Head(calls).call \in HoldingCalls
Owing(t) == Owes(job[t])

\* The open descriptors that no thread will close.  There are not more than calls have
\* failed: the thread that gives up has had one at most, and nobody else can close it.
Lost == {d \in 1..plan.fds : fds[d] # "free" /\ \A t \in Threads : Owing(t) => hand[t].fd # d}
Owned ==
    /\ \A t \in Threads : Owing(t) => hand[t].fd \in 1..plan.fds /\ fds[hand[t].fd] # "free"
    /\ \A t, u \in Threads : t # u /\ Owing(t) /\ Owing(u) => hand[t].fd # hand[u].fd
Descriptors == Owned /\ Cardinality(Lost) <= errors

\* In each job a descriptor is needed from the call that opens it to the one that closes it.
NeedsIt(j, k) ==
    j[k + 1].call \in HoldingCalls <=>
        j[k].call \in OpeningCalls \/ j[k].call \in HoldingCalls \ {"close"}

LEMMA JobsCloseTheirs ==
    /\ \A k \in 1..4 : NeedsIt(VisitJob, k)
    /\ \A k \in 1..5 : NeedsIt(ReplJob, k)
    /\ \A k \in 1..11 : NeedsIt(SaveJob, k)
    /\ VisitJob[5].call = "visit" /\ ReplJob[6].call = "time" /\ SaveJob[12].call = "saved"
    /\ VisitJob[1].call = "open" /\ ReplJob[1].call = "open"
    /\ SaveJob[1].call = "open" /\ SaveJob[8].call = "trim"
<1> USE DEF NeedsIt, HoldingCalls, OpeningCalls, Do
<1>1. /\ \A k \in 1..4 : NeedsIt(VisitJob, k)
      /\ VisitJob[1].call = "open" /\ VisitJob[5].call = "visit"
  BY DEF VisitJob
<1>2. /\ \A k \in 1..5 : NeedsIt(ReplJob, k)
      /\ ReplJob[1].call = "open" /\ ReplJob[6].call = "time"
  BY DEF ReplJob
<1>3. /\ SaveJob[1].call = "open" /\ SaveJob[2].call = "size" /\ SaveJob[3].call = "read"
      /\ SaveJob[4].call = "close" /\ SaveJob[5].call = "create" /\ SaveJob[6].call = "write"
      /\ SaveJob[7].call = "close" /\ SaveJob[8].call = "trim" /\ SaveJob[9].call = "create"
      /\ SaveJob[10].call = "write" /\ SaveJob[11].call = "close" /\ SaveJob[12].call = "saved"
  BY DEF SaveJob
<1>4. \A k \in 1..11 : NeedsIt(SaveJob, k)
  BY <1>3
<1> QED
  BY <1>1, <1>2, <1>3, <1>4

\* What is needed after a call.
LEMMA RestOwes ==
    ASSUME NEW s \in Seq(Calls), NEW j \in {VisitJob, SaveJob, ReplJob}, NEW k \in Nat,
           k < Len(j), NEW c, c = j[k + 1], Rest(s, j, k + 1), k + 1 = Len(j) => s = <<>>
    PROVE  Owes(s) <=> c.call \in OpeningCalls \/ c.call \in HoldingCalls \ {"close"}
<1>1. Len(VisitJob) = 5 /\ Len(SaveJob) = 12 /\ Len(ReplJob) = 6
  BY Lengths
<1>2. CASE k + 1 = Len(j)
  BY <1>1, <1>2, JobsCloseTheirs DEF Owes, HoldingCalls, OpeningCalls
<1>3. CASE k + 1 < Len(j)
  <2>1. s # <<>> /\ Head(s) = j[(k + 1) + 1]
    BY <1>3, JobStep
  <2>2. NeedsIt(j, k + 1)
    <3> DEFINE n == k + 1
    <3>0. n \in 1..(Len(j) - 1)
      BY <1>1, <1>3
    <3> HIDE DEF n
    <3>1. n \in 1..4 => NeedsIt(VisitJob, n)
      BY JobsCloseTheirs, Zenon
    <3>2. n \in 1..5 => NeedsIt(ReplJob, n)
      BY JobsCloseTheirs, Zenon
    <3>3. n \in 1..11 => NeedsIt(SaveJob, n)
      BY JobsCloseTheirs, Zenon
    <3>4. \/ j = VisitJob /\ n \in 1..4
          \/ j = ReplJob /\ n \in 1..5
          \/ j = SaveJob /\ n \in 1..11
      <4>1. \/ j = VisitJob /\ Len(j) = 5
            \/ j = ReplJob /\ Len(j) = 6
            \/ j = SaveJob /\ Len(j) = 12
        BY <1>1
      <4>2. Len(j) = 5 => n \in 1..4
        BY <3>0
      <4>3. Len(j) = 6 => n \in 1..5
        BY <3>0
      <4>4. Len(j) = 12 => n \in 1..11
        BY <3>0
      <4> QED
        BY <4>1, <4>2, <4>3, <4>4
    <3>5. NeedsIt(j, n)
      BY <3>1, <3>2, <3>3, <3>4
    <3> QED
      BY <3>5 DEF n
  <2> QED
    BY <2>1, <2>2 DEF Owes, NeedsIt
<1> QED
  BY <1>1, <1>2, <1>3

LEMMA AfterCall ==
    ASSUME Types, Safe, NEW t \in Threads, job[t] # <<>>
    PROVE  LET call == Head(job[t]).call IN
           Owes(Tail(job[t])) <=> call \in OpeningCalls \/ call \in HoldingCalls \ {"close"}
<1> DEFINE c == Head(job[t])    s == Tail(job[t])
           Goal == Owes(s) <=> c.call \in OpeningCalls \/ c.call \in HoldingCalls \ {"close"}
<1>1. SUFFICES Goal
  OBVIOUS
<1>2. Len(VisitJob) = 5 /\ Len(SaveJob) = 12 /\ Len(ReplJob) = 6
  BY Lengths
<1>3. s \in Seq(Calls)
  BY FileIsName
<1>4. ASSUME NEW j \in {VisitJob, SaveJob, ReplJob}, NEW k \in Nat, k < Len(j), c = j[k + 1],
             Rest(s, j, k + 1), k + 1 = Len(j) => s = <<>>
      PROVE  Goal
  <2> HIDE DEF c, s
  <2> QED
    BY <1>3, <1>4, RestOwes
<1>5. CASE t = "editor" /\ \E k \in 0..4 : /\ c = VisitJob[k + 1] /\ Rest(s, VisitJob, k + 1)
                                           /\ k = 4 => s = <<>>
  <2> HIDE DEF c, s, Goal
  <2>1. PICK k \in 0..4 : c = VisitJob[k + 1] /\ Rest(s, VisitJob, k + 1) /\ (k = 4 => s = <<>>)
    BY <1>5
  <2>2. k \in Nat /\ k < Len(VisitJob) /\ (k + 1 = Len(VisitJob) => s = <<>>)
    BY <1>2, <2>1
  <2> QED
    BY <1>4, <2>1, <2>2
<1>6. CASE t = "editor" /\ \E k \in 0..11 : /\ c = SaveJob[k + 1] /\ Rest(s, SaveJob, k + 1)
                                            /\ k = 11 => s = <<>>
  <2> HIDE DEF c, s, Goal
  <2>1. PICK k \in 0..11 : c = SaveJob[k + 1] /\ Rest(s, SaveJob, k + 1) /\ (k = 11 => s = <<>>)
    BY <1>6
  <2>2. k \in Nat /\ k < Len(SaveJob) /\ (k + 1 = Len(SaveJob) => s = <<>>)
    BY <1>2, <2>1
  <2> QED
    BY <1>4, <2>1, <2>2
<1>7. CASE t = "repl"
  <2>1. PICK k \in 0..5 : c = ReplJob[k + 1] /\ Rest(s, ReplJob, k + 1) /\ (k = 5 => s = <<>>)
    BY <1>7, ReplAt DEF Safe
  <2> HIDE DEF c, s, Goal
  <2>2. k \in Nat /\ k < Len(ReplJob) /\ (k + 1 = Len(ReplJob) => s = <<>>)
    BY <1>2, <2>1
  <2> QED
    BY <1>4, <2>1, <2>2
<1> QED
  BY <1>5, <1>6, <1>7, EditorAt DEF Threads, Safe

\* The jobs begin without one.
LEMMA JobsOweNothing ==
    /\ ~Owes(<<>>)
    /\ ~Owes(SaveCalls)
    /\ ~Owes(FileContents("file") \o <<Do("visit", "file")>>)
    /\ ~Owes(FileContents("file") \o <<Do("lines", "file"), Do("time", "file")>>)
<1> USE DEF Owes, HoldingCalls
<1>1. ASSUME NEW s \in Seq(Calls), NEW j \in {VisitJob, SaveJob, ReplJob}, NEW k \in Nat,
             k < Len(j), Rest(s, j, k), j[k + 1].call \notin HoldingCalls
      PROVE  ~Owes(s)
  BY <1>1, JobStep
<1>2. /\ VisitJob[0 + 1].call \notin HoldingCalls /\ ReplJob[0 + 1].call \notin HoldingCalls
      /\ SaveJob[0 + 1].call \notin HoldingCalls /\ SaveJob[7 + 1].call \notin HoldingCalls
  BY JobsCloseTheirs
<1>3. 0 < Len(VisitJob) /\ 0 < Len(ReplJob) /\ 0 < Len(SaveJob) /\ 7 < Len(SaveJob)
  BY Lengths
<1> HIDE DEF Owes, HoldingCalls
<1>4. ~Owes(SaveCalls)
  <2>1. SaveCalls \in Seq(Calls) /\ (Rest(SaveCalls, SaveJob, 0) \/ Rest(SaveCalls, SaveJob, 7))
    BY Jobs
  <2> QED
    BY <1>1, <1>2, <1>3, <2>1
<1>5. ~Owes(FileContents("file") \o <<Do("visit", "file")>>)
  <2> DEFINE s == FileContents("file") \o <<Do("visit", "file")>>
  <2>1. s \in Seq(Calls) /\ Rest(s, VisitJob, 0)
    BY Jobs
  <2> HIDE DEF s
  <2>2. ~Owes(s)
    BY <1>1, <1>2, <1>3, <2>1
  <2> QED
    BY <2>2 DEF s
<1>6. ~Owes(FileContents("file") \o <<Do("lines", "file"), Do("time", "file")>>)
  <2> DEFINE s == FileContents("file") \o <<Do("lines", "file"), Do("time", "file")>>
  <2>1. s \in Seq(Calls) /\ Rest(s, ReplJob, 0)
    BY Jobs
  <2> HIDE DEF s
  <2>2. ~Owes(s)
    BY <1>1, <1>2, <1>3, <2>1
  <2> QED
    BY <2>2 DEF s
<1> QED
  BY <1>4, <1>5, <1>6 DEF Owes

LEMMA LostIsFinite ==
    ASSUME plan.fds \in Nat
    PROVE  IsFiniteSet(Lost) /\ Cardinality(Lost) \in Nat
<1>1. IsFiniteSet(1..plan.fds)
  BY FS_Interval
<1> QED
  BY <1>1, FS_Subset, FS_CardinalityType DEF Lost

LEMMA LostIsFiniteNext == ASSUME plan'.fds \in Nat
                          PROVE  IsFiniteSet(Lost') /\ Cardinality(Lost') \in Nat
<1>1. IsFiniteSet(1..plan'.fds)
  BY FS_Interval
<1> QED
  BY <1>1, FS_Subset, FS_CardinalityType DEF Lost

\* Nothing is lost, or one descriptor and a call has failed.
LEMMA LostIsCounted ==
    ASSUME plan.fds \in Nat, plan' = plan, errors \in Nat, Cardinality(Lost) <= errors,
           \/ Lost' \subseteq Lost /\ errors' \in {errors, errors + 1}
           \/ \E d : Lost' \subseteq Lost \cup {d} /\ errors' = errors + 1
    PROVE  Cardinality(Lost') <= errors'
<1>1. /\ IsFiniteSet(Lost) /\ Cardinality(Lost) \in Nat
      /\ IsFiniteSet(Lost') /\ Cardinality(Lost') \in Nat
  BY LostIsFinite, LostIsFiniteNext
<1>2. CASE Lost' \subseteq Lost
  <2>1. Cardinality(Lost') <= Cardinality(Lost)
    BY <1>1, <1>2, FS_Subset
  <2> QED
    BY <1>1, <2>1
<1>3. ASSUME NEW d, Lost' \subseteq Lost \cup {d}, errors' = errors + 1
      PROVE  Cardinality(Lost') <= errors'
  <2> DEFINE L == Lost \cup {d}
  <2>1. /\ IsFiniteSet(L)
        /\ Cardinality(L) = IF d \in Lost THEN Cardinality(Lost) ELSE Cardinality(Lost) + 1
    BY <1>1, FS_AddElement
  <2>2. Cardinality(Lost') <= Cardinality(L)
    BY <1>3, <2>1, FS_Subset
  <2> HIDE DEF L
  <2> QED
    BY <1>1, <1>3, <2>1, <2>2
<1> QED
  BY <1>2, <1>3

\* What the other threads have is left to them.
OthersKeep(t) == \A u \in Threads \ {t} : job'[u] = job[u] /\ hand'[u].fd = hand[u].fd

\* A thread opens a descriptor that was free, and will close it.
LEMMA OpenedIsOwned ==
    ASSUME plan.fds \in Nat, plan' = plan, fds \in [1..plan.fds -> Names \cup {"free"}],
           Descriptors, NEW t \in Threads, OthersKeep(t), ~Owing(t), Owing(t)',
           NEW d \in 1..plan.fds, fds[d] = "free", NEW f \in Names,
           fds' = [fds EXCEPT ![d] = f], hand'[t].fd = d, errors \in Nat, errors' = errors
    PROVE  Descriptors'
<1>1. \A u \in Threads \ {t} : (Owing(u)' <=> Owing(u)) /\ (Owing(u) => hand[u].fd # d)
  BY DEF OthersKeep, Owing, Descriptors, Owned
<1>2. fds'[d] # "free" /\ \A e \in 1..plan.fds \ {d} : fds'[e] = fds[e]
  BY DEF Names
<1>3. Owned'
  BY <1>1, <1>2 DEF Owned, Descriptors, OthersKeep
<1>4. Lost' \subseteq Lost
  BY <1>1, <1>2 DEF Lost, OthersKeep
<1> QED
  BY <1>3, <1>4, LostIsCounted DEF Descriptors

\* A thread goes on with what it has, or with nothing.
LEMMA KeptIsOwned ==
    ASSUME plan' = plan, Descriptors, NEW t \in Threads, OthersKeep(t),
           Owing(t)' <=> Owing(t), Owing(t) => hand'[t].fd = hand[t].fd,
           UNCHANGED <<fds, errors>>
    PROVE  Descriptors'
<1>1. \A u \in Threads : (Owing(u)' <=> Owing(u)) /\ (Owing(u) => hand'[u].fd = hand[u].fd)
  BY DEF OthersKeep, Owing
<1>2. Owned'
  BY <1>1 DEF Owned, Descriptors
<1>3. Lost' = Lost
  BY <1>1 DEF Lost
<1> QED
  BY <1>2, <1>3 DEF Descriptors

\* A thread gives up, and what it had is lost.
LEMMA GivenUpIsLost ==
    ASSUME plan.fds \in Nat, plan' = plan, Descriptors, NEW t \in Threads, OthersKeep(t),
           ~Owing(t)', fds' = fds, errors \in Nat, errors' = errors + 1
    PROVE  Descriptors'
<1>1. \A u \in Threads \ {t} : Owing(u)' <=> Owing(u)
  BY DEF OthersKeep, Owing
<1>2. Owned'
  BY <1>1 DEF Owned, Descriptors, OthersKeep
<1>3. Lost' \subseteq Lost \cup {hand[t].fd}
  BY <1>1 DEF Lost, OthersKeep
<1> QED
  BY <1>2, <1>3, LostIsCounted DEF Descriptors

\* A thread closes what it has, and even if that fails it is closed.
LEMMA ClosedIsFree ==
    ASSUME plan.fds \in Nat, plan' = plan, fds \in [1..plan.fds -> Names \cup {"free"}],
           Descriptors, NEW t \in Threads, OthersKeep(t), Owing(t), ~Owing(t)',
           fds' = [fds EXCEPT ![hand[t].fd] = "free"], errors \in Nat,
           errors' \in {errors, errors + 1}
    PROVE  Descriptors'
<1>1. \A u \in Threads \ {t} :
         (Owing(u)' <=> Owing(u)) /\ (Owing(u) => hand[u].fd # hand[t].fd)
  BY DEF OthersKeep, Owing, Descriptors, Owned
<1>2. fds'[hand[t].fd] = "free" /\ \A e \in 1..plan.fds \ {hand[t].fd} : fds'[e] = fds[e]
  BY DEF Descriptors, Owned
<1>3. Owned'
  BY <1>1, <1>2 DEF Owned, Descriptors, OthersKeep
<1>4. Lost' \subseteq Lost
  BY <1>1, <1>2 DEF Lost, OthersKeep
<1> QED
  BY <1>3, <1>4, LostIsCounted DEF Descriptors

NoneOpen ==
    /\ fds = [d \in 1..plan.fds |-> "free"] /\ errors = 0 /\ job = [t \in Threads |-> <<>>]

LEMMA NothingIsLost == NoneOpen => Descriptors
<1> SUFFICES ASSUME NoneOpen PROVE Descriptors
  OBVIOUS
<1>1. \A t \in Threads : ~Owing(t)
  BY DEF NoneOpen, Owing, Owes
<1>2. Lost = {}
  BY DEF NoneOpen, Lost
<1> QED
  BY <1>1, <1>2, FS_EmptySet DEF NoneOpen, Descriptors, Owned

LEMMA NothingIsLostNext == NoneOpen' => Descriptors'
BY NothingIsLost, PTL

LEMMA CallKeepsDescriptors ==
    ASSUME AllTypes, Types, Safe, Descriptors, NEW t \in Threads, Call(t), plan' = plan
    PROVE  Descriptors'
<1>1. /\ plan.fds \in Nat /\ fds \in [1..plan.fds -> Names \cup {"free"}] /\ errors \in Nat
      /\ job \in [Threads -> Seq(Calls)]
      /\ DOMAIN hand = Threads /\ \A u \in Threads : "fd" \in DOMAIN hand[u]
  BY PlanIs DEF AllTypes, FdTypes, Types, Fields
<1> DEFINE c == Head(job[t]).call
<1>2. /\ job[t] # <<>> /\ File(t) \in Names
      /\ c \in {"open", "size", "read", "close", "create", "write"}
  <2>1. job[t] # <<>>
    BY DEF Call, OsFileOpenRead, OsFileSize, OsReadFile, OsCloseFile, OsFileCreateWrite,
           OsWriteFile, Next_
  <2> QED
    BY <2>1, FileIsName DEF Call, OsFileOpenRead, OsFileSize, OsReadFile, OsCloseFile,
           OsFileCreateWrite, OsWriteFile, Next_
<1>3. /\ Owing(t) <=> c \in HoldingCalls
      /\ Owes(Tail(job[t])) <=> c \in OpeningCalls \/ c \in HoldingCalls \ {"close"}
  BY <1>2, AfterCall DEF Owing, Owes
<1>4. Continue(t) => (Owing(t)' <=> Owes(Tail(job[t])))
  BY <1>1 DEF Continue, Owing
<1>5. ASSUME Error(t)
      PROVE  OthersKeep(t) /\ ~Owing(t)' /\ errors' = errors + 1
  BY <1>1, <1>5 DEF Error, GiveUp, Drops, OthersKeep, Owing, Owes
<1>6. CASE Error(t) /\ UNCHANGED fds
  BY <1>1, <1>5, <1>6, GivenUpIsLost
<1>7. CASE c \in OpeningCalls /\ Opened(t)
  <2>1. Min(Free) \in 1..plan.fds /\ fds[Min(Free)] = "free"
    BY <1>1, <1>7, MinIsFree DEF Opened, Free
  <2>2. /\ fds' = [fds EXCEPT ![Min(Free)] = File(t)] /\ hand'[t].fd = Min(Free)
        /\ errors' = errors /\ Continue(t) /\ OthersKeep(t)
    BY <1>1, <1>7 DEF Opened, Fine, Continue, OthersKeep
  <2>3. ~Owing(t) /\ Owing(t)'
    BY <1>3, <1>4, <1>7, <2>2 DEF OpeningCalls, HoldingCalls
  <2> QED
    BY <1>1, <1>2, <2>1, <2>2, <2>3, OpenedIsOwned
<1>8. CASE /\ c \in HoldingCalls \ {"close"} /\ Continue(t) /\ Fine /\ UNCHANGED fds
           /\ \A u \in Threads : hand'[u].fd = hand[u].fd
  <2>1. OthersKeep(t) /\ errors' = errors
    BY <1>1, <1>8 DEF OthersKeep, Continue, Fine
  <2>2. Owing(t)' <=> Owing(t)
    BY <1>3, <1>4, <1>8
  <2> QED
    BY <1>8, <2>1, <2>2, KeptIsOwned
<1>9. CASE c = "close" /\ OsCloseFile(t)
  <2>1. OthersKeep(t) /\ ~Owing(t)' /\ errors' \in {errors, errors + 1}
    <3>1. CASE Error(t)
      BY <1>5, <3>1
    <3>2. CASE Continue(t) /\ Fine /\ UNCHANGED hand
      BY <1>1, <1>3, <1>4, <1>9, <3>2 DEF OthersKeep, Continue, Fine, OpeningCalls
    <3> QED
      BY <1>9, <3>1, <3>2 DEF OsCloseFile
  <2>2. Owing(t) /\ fds' = [fds EXCEPT ![hand[t].fd] = "free"]
    BY <1>3, <1>9 DEF OsCloseFile, HoldingCalls
  <2> QED
    BY <1>1, <2>1, <2>2, ClosedIsFree
<1>10. CASE OsFileOpenRead(t) \/ OsFileCreateWrite(t)
  BY <1>6, <1>7, <1>10 DEF OsFileOpenRead, OsFileCreateWrite, Next_, OpeningCalls
<1>11. CASE OsFileSize(t) \/ OsReadFile(t) \/ OsWriteFile(t)
  <2>1. UNCHANGED fds /\ c \in HoldingCalls \ {"close"}
    BY <1>11 DEF OsFileSize, OsReadFile, OsWriteFile, Next_, HoldingCalls
  <2>2. \/ Error(t)
        \/ /\ Continue(t) /\ Fine
           /\ \/ UNCHANGED hand
              \/ \E x : hand' = [hand EXCEPT ![t].size = x]
              \/ \E x : hand' = [hand EXCEPT ![t].got = x]
    BY <1>11 DEF OsFileSize, OsReadFile, OsWriteFile
  <2>3. ASSUME \E x : hand' = [hand EXCEPT ![t].size = x] \/ hand' = [hand EXCEPT ![t].got = x]
        PROVE  \A u \in Threads : hand'[u].fd = hand[u].fd
    BY <1>1, <2>3
  <2> QED
    BY <1>6, <1>8, <2>1, <2>2, <2>3
<1> QED
  BY <1>9, <1>10, <1>11 DEF Call, OsCloseFile, Next_

LEMMA NextDescriptors ==
    ASSUME AllTypes, Types, Safe, Descriptors, [Next]_vars
    PROVE  Descriptors'
<1>1. /\ plan' = plan /\ plan.fds \in Nat /\ errors \in Nat /\ job \in [Threads -> Seq(Calls)]
      /\ DOMAIN hand = Threads
  BY PlanStays, PlanIs DEF AllTypes, FdTypes, Types
<1>2. CASE UNCHANGED <<fds, job, hand, errors>>
  BY <1>1, <1>2 DEF Descriptors, Owned, Owing, Lost
<1>3. ASSUME NEW t \in Threads, Call(t) PROVE Descriptors'
  BY <1>1, <1>3, CallKeepsDescriptors
<1>4. ASSUME NEW t \in Threads, SignalHandler(t) PROVE Descriptors'
  <2>1. OthersKeep(t) /\ ~Owing(t)' /\ fds' = fds /\ errors' = errors + 1
    BY <1>1, <1>4 DEF SignalHandler, GiveUp, Drops, OthersKeep, Owing, Owes
  <2> QED
    BY <1>1, <2>1, GivenUpIsLost
<1>5. CASE End
  BY <1>1, <1>5, NothingIsLostNext DEF NoneOpen, End, Gone
<1>6. ASSUME NEW t \in Threads, UNCHANGED <<fds, errors>>, OthersKeep(t), ~Owing(t), ~Owing(t)'
      PROVE  Descriptors'
  BY <1>1, <1>6, KeptIsOwned
<1>7. CASE Editor
  <2>1. "editor" \in Threads /\ UNCHANGED <<fds, errors>>
    BY <1>7 DEF Editor, Threads
  <2>2. OthersKeep("editor")
    BY <1>1, <1>7 DEF OthersKeep, Editor, EditorStep, Visit, RemoveTrailingWhitespace, Saved,
       CreateBuffer, CreateBufferForFile, Edit, Undo, DoSave, KillBuffer, Drops, Continue,
       OnlyEditor
  <2>3. CASE EditorStep
    <3>1. /\ job["editor"] # <<>> /\ job'["editor"] = Tail(job["editor"])
          /\ Head(job["editor"]).call \in {"visit", "trim", "saved"}
      BY <1>1, <2>1, <2>3
         DEF EditorStep, Visit, RemoveTrailingWhitespace, Saved, Next_, Continue
    <3>2. ~Owing("editor") /\ ~Owing("editor")'
      BY <2>1, <3>1, AfterCall DEF Owing, Owes, HoldingCalls, OpeningCalls
    <3> QED
      BY <1>6, <2>1, <2>2, <3>2
  <2>4. CASE ~EditorStep
    <3>1. /\ job["editor"] = <<>>
          /\ job'["editor"] \in {<<>>, SaveCalls, FileContents("file") \o <<Do("visit", "file")>>}
      BY <1>1, <1>7, <2>1, <2>4 DEF Editor, CreateBuffer, CreateBufferForFile, Edit, Undo, DoSave,
         KillBuffer, AtRest, At, Idle, OnlyEditor
    <3>2. ~Owing("editor") /\ ~Owing("editor")'
      BY <3>1, JobsOweNothing DEF Owing
    <3> QED
      BY <1>6, <2>1, <2>2, <3>2
  <2> QED
    BY <2>3, <2>4
<1>8. CASE Repl
  <2>1. "repl" \in Threads /\ UNCHANGED <<fds, errors>>
    BY <1>8 DEF Repl, Threads
  <2>2. OthersKeep("repl")
    BY <1>1, <1>8 DEF OthersKeep, Repl, ReplStep, MaybeLoadGlossary, Lines, OsFileWriteTime,
       Drops, Continue
  <2>3. CASE ReplStep
    <3>1. /\ job["repl"] # <<>> /\ job'["repl"] = Tail(job["repl"])
          /\ Head(job["repl"]).call \in {"lines", "time"}
      BY <1>1, <2>1, <2>3 DEF ReplStep, Lines, OsFileWriteTime, Next_, Continue
    <3>2. ~Owing("repl") /\ ~Owing("repl")'
      BY <2>1, <3>1, AfterCall DEF Owing, Owes, HoldingCalls, OpeningCalls
    <3> QED
      BY <1>6, <2>1, <2>2, <3>2
  <2>4. CASE MaybeLoadGlossary
    <3>1. /\ job["repl"] = <<>>
          /\ job'["repl"] = FileContents("file") \o <<Do("lines", "file"), Do("time", "file")>>
      BY <1>1, <2>1, <2>4 DEF MaybeLoadGlossary, At, Idle
    <3>2. ~Owing("repl") /\ ~Owing("repl")'
      BY <3>1, JobsOweNothing DEF Owing
    <3> QED
      BY <1>6, <2>1, <2>2, <3>2
  <2> QED
    BY <1>8, <2>3, <2>4 DEF Repl
<1> QED
  BY <1>2, <1>3, <1>4, <1>5, <1>7, <1>8 DEF Next, vars, savingVars, Tick

----------------------------------------------------------------------------
(* The results.                                                            *)
LEMMA HostInvariance == Spec => [](AllTypes /\ Descriptors)
<1>1. Init => AllTypes /\ Descriptors
  <2>1. Init => AllTypes
    BY InitTypes
  <2> QED
    BY <2>1, NothingIsLost DEF NoneOpen, Init, InitSaving
<1>2. (Types /\ Safe) /\ (AllTypes /\ Descriptors) /\ [Next]_vars => (AllTypes /\ Descriptors)'
  BY NextAllTypes, NextDescriptors
<1> QED
  BY <1>1, <1>2, Invariance, PTL DEF Spec

\* Everything that Host keeps is of its kind, on every plan: the stages of main(), the texts
\* in files, buffers and glossary, the times and counts, the descriptors.
THEOREM Typing == Spec => []TypeOK
<1>1. AllTypes => TypeOK
  <2> SUFFICES ASSUME AllTypes PROVE TypeOK
    OBVIOUS
  <2>1. /\ ProcessTypeOK /\ DiskTypes /\ FdTypes /\ BufTypes /\ ReadTypes
        /\ plan.texts \in Nat /\ plan.ticks \in Nat
    BY PlanIs DEF AllTypes
  <2>2. buf.saved \in 0..plan.texts /\ buf.mod \in 0..plan.texts
    BY <2>1 DEF BufTypes, DiskTypes
  <2> QED
    BY <2>1, <2>2 DEF TypeOK, DiskTypes, FdTypes, BufTypes, ReadTypes
<1> QED
  BY <1>1, HostInvariance, PTL

\* Where no thread has a call to do, as many descriptors are open as calls have failed or
\* threads have faulted in this process, or fewer (file-contents, set-file-contents).
THEOREM DescriptorsAreClosed == Spec => []DescriptorsReturn
<1>1. AllTypes /\ Descriptors => DescriptorsReturn
  <2> SUFFICES ASSUME AllTypes, Descriptors, \A t \in Threads : job[t] = <<>>
               PROVE  plan.fds - Cardinality(Free) <= errors
    BY DEF DescriptorsReturn
  <2>1. plan.fds \in Nat /\ errors \in Nat
    BY PlanIs DEF AllTypes, FdTypes
  <2>2. Lost = (1..plan.fds) \ Free
    BY DEF Lost, Free, Owing, Owes
  <2>3. IsFiniteSet(1..plan.fds) /\ Cardinality(1..plan.fds) = plan.fds
    BY <2>1, FS_Interval
  <2>4. /\ IsFiniteSet(Free) /\ IsFiniteSet(Lost)
        /\ Cardinality(Free) \in Nat /\ Cardinality(Lost) \in Nat
    BY <2>3, FS_Subset, FS_CardinalityType DEF Free, Lost
  <2>5. Cardinality(Free \cup Lost) = Cardinality(Free) + Cardinality(Lost)
    <3>1. Cardinality(Free \cup Lost)
             = Cardinality(Free) + Cardinality(Lost) - Cardinality(Free \cap Lost)
      BY <2>4, FS_Union
    <3>2. Free \cap Lost = {}
      BY <2>2
    <3>3. Cardinality(Free \cap Lost) = 0
      BY <3>2, FS_EmptySet
    <3> QED
      BY <2>4, <3>1, <3>3
  <2>6. Free \cup Lost = 1..plan.fds
    BY <2>2 DEF Free
  <2>7. Cardinality(Lost) <= errors
    BY DEF Descriptors
  <2>8. plan.fds = Cardinality(Free) + Cardinality(Lost)
    BY <2>3, <2>5, <2>6
  <2> QED
    BY <2>1, <2>4, <2>7, <2>8
<1> QED
  BY <1>1, HostInvariance, PTL
=============================================================================
