------------------------------- MODULE Saving -------------------------------
(***************************************************************************)
(* A text file of the editor, the system calls that Feline reads and       *)
(* writes it with (src/os.c, files.asm, file-output-stream.asm), and the   *)
(* two threads that do: the editor, which visits, edits, undoes and saves  *)
(* (feral/buffer.feline, undo.feline, save.feline), and the REPL, which    *)
(* keeps the lines of a file together with its write time (help.feline).   *)
(*                                                                         *)
(* A thread does one call a step.  A call that fails throws, and what was  *)
(* to follow is not done; the descriptor stays open.                       *)
(***************************************************************************)
EXTENDS Process, Sequences, FiniteSets, FiniteSetsExt

\* Of a plan, "texts" bounds what the user types and what a save trims, "errors" the calls
\* that fail and the faults in one process, "ticks" the seconds the clock counts; "fds" is
\* how many descriptors a process can have open.
Names == {"file", "backup"}
Threads == {"editor", "repl"}
\* What a file holds of the text that was written to it.
Content == [of : 0..plan.texts, part : {"absent", "none", "some", "whole"}]
Empty == [of |-> 0, part |-> "none"]
Whole(t) == [of |-> t, part |-> "whole"]
NoFile == [of |-> 0, part |-> "absent"]
NoBuffer == [text |-> Empty, mod |-> 0, saved |-> 0, undo |-> <<>>,
             named |-> FALSE, open |-> FALSE]
Hand == [fd |-> 0, size |-> Empty, got |-> Empty]

VARIABLES
    disk, stamp,   \* what the names hold; the write time of "file"
    clock, texts,  \* the time in seconds; how many texts have been typed
    fds,           \* for each descriptor the name it is open for, or "free"
    job, hand,     \* the calls that a thread has yet to do; what it has in hand
    errors,        \* how many calls of this process have failed
    buf,           \* the buffer, its undo-stack, and whether it has a filename
    glossary, glossary_file_write_time,
    held,          \* history: what the last save found in the file that the buffer was
                   \*   read from, or NoFile
    failed,        \* no save has succeeded since one failed
    branched,      \* the text was edited after an undo past the last save
    overtaken      \* the REPL's file was written while it read it, or in that second

diskVars == <<disk, stamp>>
readVars == <<glossary, glossary_file_write_time, overtaken>>
editVars == <<buf, held, failed, branched>>

InitSaving ==
    /\ disk \in [Names -> {NoFile, Whole(0)}] /\ disk["backup"] = NoFile
    /\ stamp = 1 /\ clock = 1 /\ texts = 0
    /\ fds = [d \in 1..plan.fds |-> "free"]
    /\ job = [t \in Threads |-> <<>>] /\ hand = [t \in Threads |-> Hand]
    /\ errors = 0 /\ buf = NoBuffer
    /\ glossary = Empty /\ glossary_file_write_time = 0
    /\ held = NoFile /\ failed = FALSE /\ branched = FALSE /\ overtaken = FALSE

FileExists(f) == disk[f] # NoFile
FileWriteTime == IF FileExists("file") THEN stamp ELSE 0

\* The calls of the words of files.asm.
Do(call, f) == [call |-> call, file |-> f]
FileContents_Unclosed(f) == <<Do("open", f), Do("size", f), Do("read", f)>>
FileContents(f) == <<Do("open", f), Do("size", f), Do("read", f), Do("close", f)>>
SetFileContents(f) == <<Do("create", f), Do("write", f), Do("close", f)>>
CopyFile(f, g) == FileContents(f) \o SetFileContents(g)

----------------------------------------------------------------------------
(* One call of a thread.                                                   *)
Next_(t, call) == stage = "up" /\ job[t] # <<>> /\ Head(job[t]).call = call
File(t) == Head(job[t]).file
Continue(t) == job' = [job EXCEPT ![t] = Tail(@)]

Drops(t) == hand' = [hand EXCEPT ![t] = Hand]

Free == {d \in 1..plan.fds : fds[d] = "free"}
Saves(t) == job[t] # <<>> /\ job[t][Len(job[t])].call = "saved"
\* The thread is back where it waits for a command.
GiveUp(t) ==
    /\ errors < plan.errors /\ errors' = errors + 1
    /\ job' = [job EXCEPT ![t] = <<>>]
    /\ failed' = (failed \/ Saves(t))
    /\ held' = held
    /\ Drops(t)
Error(t) == GiveUp(t) /\ UNCHANGED <<buf, branched>>
Fine == UNCHANGED <<errors, editVars>>

\* What is written while the REPL reads, or in the second in which it has read, it may
\* never see.
Written(f) ==
    /\ stamp' = IF f = "file" THEN clock ELSE stamp
    /\ overtaken' = (overtaken \/
          (f = "file" /\ (job["repl"] # <<>> \/ glossary_file_write_time = clock)))
    /\ UNCHANGED <<glossary, glossary_file_write_time>>

\* The lowest descriptor that is free, when there is one.
Opened(t) ==
    /\ Free # {}
    /\ fds' = [fds EXCEPT ![Min(Free)] = File(t)]
    /\ hand' = [hand EXCEPT ![t].fd = Min(Free)]
    /\ Continue(t) /\ Fine

OsFileOpenRead(t) ==
    /\ Next_(t, "open")
    /\ \/ FileExists(File(t)) /\ Opened(t)
       \/ Error(t) /\ UNCHANGED fds
    /\ UNCHANGED <<diskVars, readVars>>

OsFileSize(t) ==
    /\ Next_(t, "size")
    /\ \/ hand' = [hand EXCEPT ![t].size = disk[File(t)]] /\ Continue(t) /\ Fine
       \/ Error(t)
    /\ UNCHANGED <<diskVars, readVars, fds>>

\* At most as much as there was when the size was asked for.
OsReadFile(t) ==
    /\ Next_(t, "read")
    /\ \/ \E part \in {"none", "some", "whole"} :
             LET now == disk[File(t)] IN
             /\ hand[t].size = now => part = now.part
             /\ now.part # "whole" => part = now.part
             /\ hand[t].size.part = "none" => part = "none"
             /\ hand' = [hand EXCEPT ![t].got =
                            IF part = "none" THEN Empty ELSE [now EXCEPT !.part = part]]
             /\ Continue(t) /\ Fine
       \/ Error(t)
    /\ UNCHANGED <<diskVars, readVars, fds>>

\* Linux has freed the descriptor when close() reports an error.
OsCloseFile(t) ==
    /\ Next_(t, "close")
    /\ fds' = [fds EXCEPT ![hand[t].fd] = "free"]
    /\ \/ Continue(t) /\ Fine /\ UNCHANGED hand
       \/ Error(t)
    /\ UNCHANGED <<diskVars, readVars>>

OsFileCreateWrite(t) ==
    /\ Next_(t, "create")
    /\ \/ Opened(t) /\ disk' = [disk EXCEPT ![File(t)] = Empty] /\ Written(File(t))
       \/ Error(t) /\ UNCHANGED <<diskVars, readVars, fds>>

\* write() may take less than it is given when the disk is full, which the stream takes
\* for an error.
OsWriteFile(t) ==
    /\ Next_(t, "write")
    /\ \/ /\ disk' = [disk EXCEPT ![File(t)] = hand[t].got]
          /\ Written(File(t)) /\ Continue(t) /\ Fine /\ UNCHANGED hand
       \/ /\ disk' = [disk EXCEPT ![File(t)] = [hand[t].got EXCEPT !.part = "some"]]
          /\ Written(File(t)) /\ Error(t)
       \/ Error(t) /\ UNCHANGED <<diskVars, readVars>>
    /\ UNCHANGED fds

Call(t) ==
    /\ \/ OsFileOpenRead(t) \/ OsFileSize(t) \/ OsReadFile(t)
       \/ OsCloseFile(t) \/ OsFileCreateWrite(t) \/ OsWriteFile(t)
    /\ UNCHANGED <<clock, texts, procVars>>

----------------------------------------------------------------------------
(* What the editor's user does.                                            *)
Idle(t) == stage = "up" /\ job[t] = <<>>
At(t) == Idle(t) /\ t \in plan.users
AtRest == At("editor")
OnlyEditor(calls) == job' = [job EXCEPT !["editor"] = calls]

Modified(b) == b.mod # b.saved      \* buffer-modified?
Bumped_Twice(b) == [b EXCEPT !.mod = @ + 2]
Bumped(b) == [b EXCEPT !.mod = @ + 1]

\* create-buffer, and create-buffer-for-file, which reads the file first.
CreateBuffer ==
    /\ AtRest /\ ~buf.open
    /\ buf' = [NoBuffer EXCEPT !.open = TRUE]
    /\ failed' = FALSE /\ branched' = FALSE
    /\ UNCHANGED <<job, hand, held, texts>>

CreateBufferForFile ==
    /\ AtRest /\ ~buf.open
    /\ OnlyEditor(FileContents("file") \o <<Do("visit", "file")>>)
    /\ UNCHANGED <<hand, editVars, texts>>

Visit ==
    /\ Next_("editor", "visit")
    /\ buf' = [NoBuffer EXCEPT !.text = hand["editor"].got, !.open = TRUE, !.named = TRUE]
    /\ failed' = FALSE /\ branched' = FALSE
    /\ Continue("editor") /\ Drops("editor") /\ UNCHANGED <<held, texts>>

\* add-undo-..., the change, modified.
Edit ==
    /\ AtRest /\ buf.open /\ texts < plan.texts
    /\ texts' = texts + 1
    /\ buf' = [Bumped(buf) EXCEPT !.text = Whole(texts'),
                  !.undo = Append(@, [mod |-> buf.mod, text |-> buf.text])]
    /\ branched' = (branched \/ buf.mod < buf.saved)
    /\ UNCHANGED <<job, hand, held, failed>>

Undo_TextOnly ==
    /\ AtRest /\ buf.open /\ buf.undo # <<>>
    /\ LET rec == buf.undo[Len(buf.undo)] IN
       buf' = [buf EXCEPT !.text = rec.text, !.undo = SubSeq(@, 1, Len(@) - 1)]
    /\ UNCHANGED <<job, hand, held, failed, branched, texts>>

\* undo1: the text and the mod-count of the record.
Undo ==
    /\ AtRest /\ buf.open /\ buf.undo # <<>>
    /\ LET rec == buf.undo[Len(buf.undo)] IN
       buf' = [buf EXCEPT !.text = rec.text, !.mod = rec.mod,
                          !.undo = SubSeq(@, 1, Len(@) - 1)]
    /\ UNCHANGED <<job, hand, held, failed, branched, texts>>

\* buffer-make-backup and what do-save then does, but for what set-file-contents makes
\* of it.
BufferMakeBackup == IF buf.named /\ FileExists("file") THEN CopyFile("file", "backup") ELSE <<>>
SaveCalls_BackupLast == <<Do("trim", "file")>> \o SetFileContents("file") \o BufferMakeBackup
                            \o <<Do("saved", "file")>>
SaveCalls == BufferMakeBackup \o <<Do("trim", "file")>> \o SetFileContents("file")
                 \o <<Do("saved", "file")>>

\* A buffer without a filename asks for one, and for leave to overwrite the file.
DoSave ==
    /\ AtRest /\ buf.open /\ Modified(buf)
    /\ OnlyEditor(SaveCalls)
    /\ held' = IF buf.named THEN disk["file"] ELSE NoFile
    /\ UNCHANGED <<hand, buf, failed, branched, texts>>

\* buffer-remove-trailing-whitespace, without a record, and the lines in one string.
RemoveTrailingWhitespace ==
    /\ Next_("editor", "trim")
    /\ \/ UNCHANGED <<buf, texts>>
       \/ /\ texts < plan.texts /\ texts' = texts + 1
          /\ buf' = [Bumped(buf) EXCEPT !.text = Whole(texts')]
    /\ hand' = [hand EXCEPT !["editor"].got = buf'.text]
    /\ Continue("editor") /\ UNCHANGED <<held, failed, branched>>

\* set-file-contents has not thrown.
Saved ==
    /\ Next_("editor", "saved")
    /\ buf' = [buf EXCEPT !.saved = buf.mod, !.named = TRUE]
    /\ failed' = FALSE /\ branched' = FALSE
    /\ Continue("editor") /\ Drops("editor") /\ UNCHANGED <<held, texts>>

\* kill-buffer, when nothing is modified or the user abandons the changes.
KillBuffer ==
    /\ AtRest /\ buf.open
    /\ buf' = NoBuffer
    /\ UNCHANGED <<job, hand, held, failed, branched, texts>>

EditorStep == Visit \/ RemoveTrailingWhitespace \/ Saved
Editor ==
    /\ EditorStep \/ CreateBuffer \/ CreateBufferForFile \/ Edit \/ Undo \/ DoSave \/ KillBuffer
    /\ UNCHANGED <<diskVars, readVars, clock, fds, errors, procVars>>

----------------------------------------------------------------------------
(* What the REPL's user does: the help for a word needs the glossary.      *)
MaybeLoadGlossary_Once ==
    /\ At("repl") /\ FileWriteTime # glossary_file_write_time
    /\ job' = [job EXCEPT !["repl"] =
          (IF glossary = Empty THEN FileContents("file") \o <<Do("lines", "file")>> ELSE <<>>)
              \o <<Do("time", "file")>>]
    /\ overtaken' = FALSE
    /\ UNCHANGED <<hand, glossary, glossary_file_write_time>>

MaybeLoadGlossary ==
    /\ At("repl") /\ FileWriteTime # glossary_file_write_time
    /\ job' = [job EXCEPT !["repl"] =
          FileContents("file") \o <<Do("lines", "file"), Do("time", "file")>>]
    /\ overtaken' = FALSE
    /\ UNCHANGED <<hand, glossary, glossary_file_write_time>>

Lines ==
    /\ Next_("repl", "lines")
    /\ glossary' = hand["repl"].got
    /\ Continue("repl") /\ UNCHANGED <<hand, glossary_file_write_time, overtaken>>

\* The time is taken after the lines.  Until the second is over the file may change again.
OsFileWriteTime ==
    /\ Next_("repl", "time")
    /\ glossary_file_write_time' = FileWriteTime
    /\ Continue("repl") /\ Drops("repl") /\ UNCHANGED <<glossary, overtaken>>

ReplStep == Lines \/ OsFileWriteTime
Repl ==
    /\ MaybeLoadGlossary \/ ReplStep
    /\ UNCHANGED <<diskVars, clock, texts, fds, errors, editVars, procVars>>

----------------------------------------------------------------------------
(* What comes from outside.                                                *)
Tick ==
    /\ clock < plan.ticks /\ clock' = clock + 1
    /\ UNCHANGED <<diskVars, texts, fds, job, hand, errors, readVars, editVars, procVars>>

\* signal_handler, handle_signal and reset: the primordial thread, the REPL's, goes back
\* to its prompt; any other thread ends, and the editor's buffer is gone with it.
SignalHandler(t) ==
    /\ stage = "up" /\ t \in plan.users
    /\ GiveUp(t) /\ UNCHANGED branched
    /\ buf' = IF t = "editor" THEN NoBuffer ELSE buf
    /\ UNCHANGED <<diskVars, clock, texts, fds, readVars, procVars>>

\* With the process go the descriptors and everything that was not written.
Gone ==
    /\ fds' = [d \in 1..plan.fds |-> "free"]
    /\ job' = [t \in Threads |-> <<>>] /\ hand' = [t \in Threads |-> Hand]
    /\ errors' = 0 /\ buf' = NoBuffer
    /\ glossary' = Empty /\ glossary_file_write_time' = 0
    /\ failed' = FALSE /\ branched' = FALSE /\ overtaken' = FALSE
    /\ UNCHANGED <<diskVars, clock, texts, held>>
=============================================================================
