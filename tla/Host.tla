-------------------------------- MODULE Host --------------------------------
(***************************************************************************)
(* Feline in its process: what of a file, of a terminal and of the         *)
(* descriptors is left when calls fail, threads fault, and the process     *)
(* ends at any point and is started again.                                 *)
(***************************************************************************)
EXTENDS Saving

savingVars == <<diskVars, clock, texts, fds, job, hand, errors, editVars, readVars>>
vars == <<procVars, savingVars>>

Init == InitProcess /\ InitSaving

\* bye, which any thread may call at any time, and signals from outside.
End == (OsBye \/ Killed) /\ Gone

Next ==
    \/ (Start \/ Boot \/ OsAcceptString) /\ UNCHANGED savingVars
    \/ \E t \in Threads : Call(t) \/ SignalHandler(t)
    \/ Editor \/ Repl \/ Tick \/ End

Spec == Init /\ [][Next]_vars

----------------------------------------------------------------------------
TypeOK ==
    /\ ProcessTypeOK
    /\ disk \in [Names -> Content]
    /\ stamp \in 1..clock /\ clock \in 1..plan.ticks /\ texts \in 0..plan.texts
    /\ fds \in [1..plan.fds -> Names \cup {"free"}]
    /\ hand \in [Threads -> [fd : 0..plan.fds, size : Content, got : Content]]
    /\ errors \in 0..plan.errors
    /\ buf.text \in Content /\ buf.saved \in 0..plan.texts /\ buf.mod \in 0..plan.texts
    /\ glossary \in Content /\ glossary_file_write_time \in 0..plan.ticks
    /\ held \in Content

\* Whatever fails, wherever the thread faults, and wherever the process ends, once a buffer
\* is saved to the file it was read from: until the next save one of the two names holds
\* what the file held before (do-save, copy-file).
SaveKeepsAVersion == held # NoFile => \E f \in Names : disk[f] = held

\* A buffer that is shown as not modified has been saved as it is, unless a save has
\* failed since, or it was edited after an undo past the last save (mod-count).
NotModifiedMeansSaved ==
    AtRest /\ buf.named /\ ~Modified(buf) /\ ~failed /\ ~branched => disk["file"] = buf.text

\* Only a call that failed, or a fault, leaves a descriptor open.
DescriptorsReturn ==
    stage = "up" /\ (\A t \in Threads : job[t] = <<>>) => plan.fds - Cardinality(Free) <= errors

\* The glossary is the file, when its time is the file's and nothing was written while it
\* was read, or in the second of its write time (maybe-load-glossary).
GlossaryIsFresh ==
    Idle("repl") /\ glossary_file_write_time = FileWriteTime /\ FileWriteTime # 0 /\ ~overtaken
        => glossary = disk["file"]
=============================================================================
