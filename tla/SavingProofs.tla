---------------------------- MODULE SavingProofs -----------------------------
(***************************************************************************)
(* Proofs about the file, the editor and the REPL of Host, for all plans.  *)
(***************************************************************************)
EXTENDS Host, TLAPS

----------------------------------------------------------------------------
(* The three jobs, call by call.                                           *)
Words == {"open", "size", "read", "close", "create", "write",
          "visit", "trim", "saved", "lines", "time"}
Calls == [call : Words, file : Names]

SaveJob == <<
    Do("open", "file"), Do("size", "file"), Do("read", "file"), Do("close", "file"),
    Do("create", "backup"), Do("write", "backup"), Do("close", "backup"),
    Do("trim", "file"),
    Do("create", "file"), Do("write", "file"), Do("close", "file"),
    Do("saved", "file")>>
VisitJob == <<
    Do("open", "file"), Do("size", "file"), Do("read", "file"), Do("close", "file"),
    Do("visit", "file")>>
ReplJob == <<
    Do("open", "file"), Do("size", "file"), Do("read", "file"), Do("close", "file"),
    Do("lines", "file"), Do("time", "file")>>

\* Of job j the calls behind the first k are left.
Rest(s, j, k) ==
    /\ Len(s) = Len(j) - k
    /\ \A i \in 1..Len(s) : s[i] = j[k + i]

\* One call done: one more is behind.
LEMMA RestStep ==
    ASSUME NEW S, NEW s \in Seq(S), NEW j \in Seq(S), NEW k \in Nat, k < Len(j),
           Rest(s, j, k)
    PROVE  /\ s # <<>>
           /\ Head(s) = j[k + 1]
           /\ Tail(s) \in Seq(S)
           /\ k + 1 = Len(j) => Tail(s) = <<>>
           /\ Rest(Tail(s), j, k + 1)
           /\ s[Len(s)] = j[Len(j)]
<1>1. Len(s) > 0 /\ Len(s) \in Nat /\ Len(j) \in Nat /\ Len(s) = Len(j) - k
  BY DEF Rest
<1>2. s # <<>>
  BY <1>1
<1>3. Head(s) = s[1]
  BY <1>2
<1>4. s[1] = j[k + 1] /\ s[Len(s)] = j[Len(j)]
  BY <1>1 DEF Rest
<1>5. Tail(s) \in Seq(S) /\ Len(Tail(s)) = Len(s) - 1
  BY <1>2
<1>6. \A i \in 1..Len(Tail(s)) : Tail(s)[i] = s[i + 1]
  BY <1>2
<1>7. Rest(Tail(s), j, k + 1)
  BY <1>1, <1>5, <1>6 DEF Rest
<1>8. k + 1 = Len(j) => Tail(s) = <<>>
  BY <1>1, <1>5
<1> QED
  BY <1>2, <1>3, <1>4, <1>5, <1>7, <1>8

\* The jobs, and that do-save, create-buffer-for-file and maybe-load-glossary set out to do
\* them; a save without a backup begins where the backup is made.
LEMMA Jobs ==
    /\ SaveJob \in Seq(Calls) /\ Len(SaveJob) = 12
    /\ VisitJob \in Seq(Calls) /\ Len(VisitJob) = 5
    /\ ReplJob \in Seq(Calls) /\ Len(ReplJob) = 6
    /\ SaveCalls \in Seq(Calls)
    /\ buf.named /\ FileExists("file") => Rest(SaveCalls, SaveJob, 0)
    /\ ~(buf.named /\ FileExists("file")) => Rest(SaveCalls, SaveJob, 7)
    /\ LET s == FileContents("file") \o <<Do("visit", "file")>> IN
       s \in Seq(Calls) /\ Rest(s, VisitJob, 0)
    /\ LET s == FileContents("file") \o <<Do("lines", "file"), Do("time", "file")>> IN
       s \in Seq(Calls) /\ Rest(s, ReplJob, 0)
<1> DEFINE a == Do("open", "file")    b == Do("size", "file")
           c == Do("read", "file")    d == Do("close", "file")
           e == Do("create", "backup") f == Do("write", "backup")
           g == Do("close", "backup") h == Do("trim", "file")
           i == Do("create", "file")  j == Do("write", "file")
           l == Do("saved", "file")   v == Do("visit", "file")
           n == Do("lines", "file")   w == Do("time", "file")
<1>1. /\ a \in Calls /\ b \in Calls /\ c \in Calls /\ d \in Calls /\ e \in Calls
      /\ f \in Calls /\ g \in Calls /\ h \in Calls /\ i \in Calls /\ j \in Calls
      /\ l \in Calls /\ v \in Calls /\ n \in Calls /\ w \in Calls
  BY DEF Do, Calls, Words, Names
<1>2. /\ SaveJob = <<a, b, c, d, e, f, g, h, i, j, d, l>>
      /\ VisitJob = <<a, b, c, d, v>>
      /\ ReplJob = <<a, b, c, d, n, w>>
  BY DEF SaveJob, VisitJob, ReplJob
<1>3. SaveCalls = IF buf.named /\ FileExists("file")
        THEN (((<<a, b, c, d>> \o <<e, f, g>>) \o <<h>>) \o <<i, j, d>>) \o <<l>>
        ELSE ((<<>> \o <<h>>) \o <<i, j, d>>) \o <<l>>
  BY DEF SaveCalls, BufferMakeBackup, CopyFile, FileContents, SetFileContents
<1>4. /\ FileContents("file") \o <<Do("visit", "file")>> = <<a, b, c, d>> \o <<v>>
      /\ FileContents("file") \o <<Do("lines", "file"), Do("time", "file")>>
            = <<a, b, c, d>> \o <<n, w>>
  BY DEF FileContents
<1> HIDE DEF a, b, c, d, e, f, g, h, i, j, l, v, n, w
<1>5. /\ <<a, b, c, d, e, f, g, h, i, j, d, l>> \in Seq(Calls)
      /\ <<a, b, c, d, v>> \in Seq(Calls) /\ <<a, b, c, d, n, w>> \in Seq(Calls)
  BY <1>1
<1>6. LET s == (((<<a, b, c, d>> \o <<e, f, g>>) \o <<h>>) \o <<i, j, d>>) \o <<l>> IN
      s \in Seq(Calls) /\ Rest(s, <<a, b, c, d, e, f, g, h, i, j, d, l>>, 0)
  BY <1>1 DEF Rest
<1>7. LET s == ((<<>> \o <<h>>) \o <<i, j, d>>) \o <<l>> IN
      s \in Seq(Calls) /\ Rest(s, <<a, b, c, d, e, f, g, h, i, j, d, l>>, 7)
  BY <1>1 DEF Rest
<1>8. /\ <<a, b, c, d>> \o <<v>> \in Seq(Calls)
      /\ Rest(<<a, b, c, d>> \o <<v>>, <<a, b, c, d, v>>, 0)
  BY <1>1 DEF Rest
<1>9. /\ <<a, b, c, d>> \o <<n, w>> \in Seq(Calls)
      /\ Rest(<<a, b, c, d>> \o <<n, w>>, <<a, b, c, d, n, w>>, 0)
  BY <1>1 DEF Rest
<1>10. buf.named /\ FileExists("file") => SaveCalls \in Seq(Calls) /\ Rest(SaveCalls, SaveJob, 0)
  BY <1>2, <1>3, <1>6
<1>11. ~(buf.named /\ FileExists("file"))
          => SaveCalls \in Seq(Calls) /\ Rest(SaveCalls, SaveJob, 7)
  BY <1>2, <1>3, <1>7
<1> QED
  BY <1>2, <1>4, <1>5, <1>8, <1>9, <1>10, <1>11

\* Which call of a job is which.
LEMMA WhichVisit ==
    ASSUME NEW k \in 0..4, NEW c, c = VisitJob[k + 1]
    PROVE  /\ c.file = "file"
           /\ c.call \in {"open", "size", "read", "close", "visit"}
           /\ c.call = "open" => k = 0
           /\ c.call = "size" => k = 1
           /\ c.call = "read" => k = 2
           /\ c.call = "close" => k = 3
           /\ c.call = "visit" => k = 4
<1>1. k = 0 => c = Do("open", "file")
  BY DEF VisitJob
<1>2. k = 1 => c = Do("size", "file")
  BY DEF VisitJob
<1>3. k = 2 => c = Do("read", "file")
  BY DEF VisitJob
<1>4. k = 3 => c = Do("close", "file")
  BY DEF VisitJob
<1>5. k = 4 => c = Do("visit", "file")
  BY DEF VisitJob
<1> QED
  BY <1>1, <1>2, <1>3, <1>4, <1>5 DEF Do

LEMMA WhichRepl ==
    ASSUME NEW k \in 0..5, NEW c, c = ReplJob[k + 1]
    PROVE  /\ c.file = "file"
           /\ c.call \in {"open", "size", "read", "close", "lines", "time"}
           /\ c.call = "open" => k = 0
           /\ c.call = "size" => k = 1
           /\ c.call = "read" => k = 2
           /\ c.call = "close" => k = 3
           /\ c.call = "lines" => k = 4
           /\ c.call = "time" => k = 5
<1>1. k = 0 => c = Do("open", "file")
  BY DEF ReplJob
<1>2. k = 1 => c = Do("size", "file")
  BY DEF ReplJob
<1>3. k = 2 => c = Do("read", "file")
  BY DEF ReplJob
<1>4. k = 3 => c = Do("close", "file")
  BY DEF ReplJob
<1>5. k = 4 => c = Do("lines", "file")
  BY DEF ReplJob
<1>6. k = 5 => c = Do("time", "file")
  BY DEF ReplJob
<1> QED
  BY <1>1, <1>2, <1>3, <1>4, <1>5, <1>6 DEF Do

LEMMA WhichSave ==
    ASSUME NEW k \in 0..11, NEW c, c = SaveJob[k + 1]
    PROVE  /\ c.call \notin {"visit", "lines", "time"}
           /\ c.call = "open" => k = 0
           /\ c.call = "size" => k = 1 /\ c.file = "file"
           /\ c.call = "read" => k = 2 /\ c.file = "file"
           /\ c.call = "close" => k \in {3, 6, 10}
           /\ c.call = "create" => (k = 4 /\ c.file = "backup") \/ (k = 8 /\ c.file = "file")
           /\ c.call = "write" => (k = 5 /\ c.file = "backup") \/ (k = 9 /\ c.file = "file")
           /\ c.call = "trim" => k = 7
           /\ c.call = "saved" => k = 11
<1>1. k = 0 => c = Do("open", "file")
  BY DEF SaveJob
<1>2. k = 1 => c = Do("size", "file")
  BY DEF SaveJob
<1>3. k = 2 => c = Do("read", "file")
  BY DEF SaveJob
<1>4. k = 3 => c = Do("close", "file")
  BY DEF SaveJob
<1>5. k = 4 => c = Do("create", "backup")
  BY DEF SaveJob
<1>6. k = 5 => c = Do("write", "backup")
  BY DEF SaveJob
<1>7. k = 6 => c = Do("close", "backup")
  BY DEF SaveJob
<1>8. k = 7 => c = Do("trim", "file")
  BY DEF SaveJob
<1>9. k = 8 => c = Do("create", "file")
  BY DEF SaveJob
<1>10. k = 9 => c = Do("write", "file")
  BY DEF SaveJob
<1>11. k = 10 => c = Do("close", "file")
  BY DEF SaveJob
<1>12. k = 11 => c = Do("saved", "file")
  BY DEF SaveJob
<1> QED
  BY <1>1, <1>2, <1>3, <1>4, <1>5, <1>6, <1>7, <1>8, <1>9, <1>10, <1>11, <1>12 DEF Do

----------------------------------------------------------------------------
(* The invariant.                                                          *)
Parts == {"absent", "none", "some", "whole"}
Contents == {c \in [of : Nat, part : Parts] : c.part = "none" => c = Empty}
Buffers == [text : Contents, mod : Nat, saved : Nat, undo : Seq([mod : Nat, text : Contents]),
            named : BOOLEAN, open : BOOLEAN]
Fields == {"fd", "size", "got"}

Types ==
    /\ texts \in Nat
    /\ disk \in [Names -> Contents]
    /\ job \in [Threads -> Seq(Calls)]
    /\ DOMAIN hand = Threads
    /\ \A t \in Threads :
          DOMAIN hand[t] = Fields /\ hand[t].size \in Contents /\ hand[t].got \in Contents
    /\ buf \in Buffers

\* The editor visits the file, or saves, and has done k calls.  Where the file is created
\* the backup is complete; where the backup is created the file is in hand.
VisitInv(k) ==
    /\ ~buf.open
    /\ k = 2 => hand["editor"].size = disk["file"]
    /\ k \in 3..4 => hand["editor"].got = disk["file"]
SaveInv(k) ==
    /\ held # NoFile =>
          /\ k <= 8 => disk["file"] = held
          /\ k = 2 => hand["editor"].size = held
          /\ k \in 3..5 => hand["editor"].got = held
          /\ k >= 6 => disk["backup"] = held
    /\ buf.open
    /\ k \in 8..9 => hand["editor"].got = buf.text
    /\ k >= 10 => disk["file"] = buf.text
EditorInv ==
    \/ job["editor"] = <<>>
    \/ \E k \in 0..4 : Rest(job["editor"], VisitJob, k) /\ VisitInv(k)
    \/ \E k \in 0..11 : Rest(job["editor"], SaveJob, k) /\ SaveInv(k)

\* The mod-counts of the records increase up to the buffer's; where one is that of the
\* last save the text is that of the file.
MatchesFile(text, mod) == mod = buf.saved => text = disk["file"]
UndoInv ==
    /\ ~buf.open => ~buf.named
    /\ \A i \in 1..Len(buf.undo) : buf.undo[i].mod < buf.mod
    /\ \A i, j \in 1..Len(buf.undo) : i < j => buf.undo[i].mod < buf.undo[j].mod
    /\ job["editor"] = <<>> /\ buf.named /\ ~failed /\ ~branched =>
          /\ MatchesFile(buf.text, buf.mod)
          /\ \A i \in 1..Len(buf.undo) : MatchesFile(buf.undo[i].text, buf.undo[i].mod)

\* The REPL waits, or has done k calls; the time that it has is not the file's as long as
\* the file has not been written since it compared them.
ReadInv(k) ==
    ~overtaken =>
        /\ glossary_file_write_time # FileWriteTime
        /\ k = 2 => hand["repl"].size = disk["file"]
        /\ k \in 3..4 => hand["repl"].got = disk["file"]
        /\ k = 5 => glossary = disk["file"]
FreshInv ==
    glossary_file_write_time = FileWriteTime /\ FileWriteTime # 0 /\ ~overtaken
        => glossary = disk["file"]
ReplInv ==
    \/ job["repl"] = <<>> /\ FreshInv
    \/ \E k \in 0..5 : Rest(job["repl"], ReplJob, k) /\ ReadInv(k)

Safe == EditorInv /\ UndoInv /\ ReplInv /\ SaveKeepsAVersion

LEMMA InitIsSafe == Init => Types /\ Safe
<1> SUFFICES ASSUME Init PROVE Types /\ Safe
  OBVIOUS
<1> USE DEF Init, InitSaving
<1>1. Types
  BY DEF Types, NoFile, Whole, Contents, Parts, Names, Empty, Hand, Fields, NoBuffer, Buffers,
         Threads
<1>2. UndoInv
  BY DEF UndoInv, NoBuffer
<1>3. ReplInv /\ EditorInv /\ SaveKeepsAVersion
  BY DEF ReplInv, FreshInv, EditorInv, SaveKeepsAVersion, FileWriteTime, Threads
<1> QED
  BY <1>1, <1>2, <1>3 DEF Safe

\* Where a job at its k-th call stands after one more.
LEMMA JobStep ==
    ASSUME NEW s \in Seq(Calls), NEW k \in Nat, NEW j, j \in {VisitJob, SaveJob, ReplJob},
           k < Len(j), Rest(s, j, k)
    PROVE  /\ Head(s) = j[k + 1]
           /\ Tail(s) \in Seq(Calls)
           /\ k + 1 = Len(j) => Tail(s) = <<>>
           /\ Rest(Tail(s), j, k + 1)
           /\ s # <<>> /\ s[Len(s)] = j[Len(j)]
<1>1. j \in Seq(Calls)
  BY Jobs
<1> QED
  BY <1>1, RestStep

LEMMA Lengths == Len(VisitJob) = 5 /\ Len(SaveJob) = 12 /\ Len(ReplJob) = 6
BY Jobs

\* Where the editor is when it has a call to do.
LEMMA EditorAt ==
    ASSUME Types, EditorInv, job["editor"] # <<>>
    PROVE  /\ Tail(job["editor"]) \in Seq(Calls)
           /\ \/ \E k \in 0..4 :
                    /\ VisitInv(k) /\ Head(job["editor"]) = VisitJob[k + 1]
                    /\ Rest(Tail(job["editor"]), VisitJob, k + 1)
                    /\ k = 4 => Tail(job["editor"]) = <<>>
              \/ /\ Saves("editor")
                 /\ \E k \in 0..11 :
                    /\ SaveInv(k) /\ Head(job["editor"]) = SaveJob[k + 1]
                    /\ Rest(Tail(job["editor"]), SaveJob, k + 1)
                    /\ k = 11 => Tail(job["editor"]) = <<>>
<1>1. job["editor"] \in Seq(Calls)
  BY DEF Types, Threads
<1>2. CASE \E k \in 0..4 : Rest(job["editor"], VisitJob, k) /\ VisitInv(k)
  <2>1. PICK k \in 0..4 : Rest(job["editor"], VisitJob, k) /\ VisitInv(k)
    BY <1>2
  <2>2. k \in Nat /\ k < Len(VisitJob)
    BY Lengths
  <2>3. /\ Head(job["editor"]) = VisitJob[k + 1]
        /\ Tail(job["editor"]) \in Seq(Calls)
        /\ k + 1 = 5 => Tail(job["editor"]) = <<>>
        /\ Rest(Tail(job["editor"]), VisitJob, k + 1)
    <3> DEFINE s == job["editor"]
    <3>1. s \in Seq(Calls) /\ Rest(s, VisitJob, k)
      BY <1>1, <2>1
    <3> HIDE DEF s
    <3>2. /\ Head(s) = VisitJob[k + 1] /\ Tail(s) \in Seq(Calls)
          /\ k + 1 = Len(VisitJob) => Tail(s) = <<>>
          /\ Rest(Tail(s), VisitJob, k + 1)
      BY <2>2, <3>1, JobStep
    <3> QED
      BY <3>2, Lengths DEF s
  <2> QED
    BY <2>1, <2>3
<1>3. CASE \E k \in 0..11 : Rest(job["editor"], SaveJob, k) /\ SaveInv(k)
  <2>1. PICK k \in 0..11 : Rest(job["editor"], SaveJob, k) /\ SaveInv(k)
    BY <1>3
  <2>2. k \in Nat /\ k < Len(SaveJob)
    BY Lengths
  <2>3. /\ Head(job["editor"]) = SaveJob[k + 1]
        /\ Tail(job["editor"]) \in Seq(Calls)
        /\ k + 1 = 12 => Tail(job["editor"]) = <<>>
        /\ Rest(Tail(job["editor"]), SaveJob, k + 1)
        /\ job["editor"] # <<>> /\ job["editor"][Len(job["editor"])] = SaveJob[12]
    <3> DEFINE s == job["editor"]
    <3>1. s \in Seq(Calls) /\ Rest(s, SaveJob, k)
      BY <1>1, <2>1
    <3> HIDE DEF s
    <3>2. /\ Head(s) = SaveJob[k + 1] /\ Tail(s) \in Seq(Calls)
          /\ k + 1 = Len(SaveJob) => Tail(s) = <<>>
          /\ Rest(Tail(s), SaveJob, k + 1)
          /\ s # <<>> /\ s[Len(s)] = SaveJob[Len(SaveJob)]
      BY <2>2, <3>1, JobStep
    <3> QED
      BY <3>2, Lengths DEF s
  <2>4. SaveJob[12].call = "saved"
    BY DEF SaveJob, Do
  <2>5. Saves("editor")
    BY <2>3, <2>4 DEF Saves
  <2>6. k = 11 => Tail(job["editor"]) = <<>>
    BY <2>3
  <2> QED
    BY <2>1, <2>3, <2>5, <2>6
<1> QED
  BY <1>2, <1>3 DEF EditorInv

LEMMA ReplAt ==
    ASSUME Types, ReplInv, job["repl"] # <<>>
    PROVE  /\ Tail(job["repl"]) \in Seq(Calls)
           /\ \E k \in 0..5 :
                 /\ ReadInv(k) /\ Head(job["repl"]) = ReplJob[k + 1]
                 /\ Rest(Tail(job["repl"]), ReplJob, k + 1)
                 /\ k = 5 => Tail(job["repl"]) = <<>>
<1>1. job["repl"] \in Seq(Calls)
  BY DEF Types, Threads
<1>2. PICK k \in 0..5 : Rest(job["repl"], ReplJob, k) /\ ReadInv(k)
  BY DEF ReplInv
<1>3. k \in Nat /\ k < Len(ReplJob)
  BY Lengths
<1>4. /\ Head(job["repl"]) = ReplJob[k + 1]
      /\ Tail(job["repl"]) \in Seq(Calls)
      /\ k + 1 = 6 => Tail(job["repl"]) = <<>>
      /\ Rest(Tail(job["repl"]), ReplJob, k + 1)
  <2> DEFINE s == job["repl"]
  <2>1. s \in Seq(Calls) /\ Rest(s, ReplJob, k)
    BY <1>1, <1>2
  <2> HIDE DEF s
  <2>2. /\ Head(s) = ReplJob[k + 1] /\ Tail(s) \in Seq(Calls)
        /\ k + 1 = Len(ReplJob) => Tail(s) = <<>>
        /\ Rest(Tail(s), ReplJob, k + 1)
    BY <1>3, <2>1, JobStep
  <2> QED
    BY <2>2, Lengths DEF s
<1> QED
  BY <1>2, <1>4

----------------------------------------------------------------------------
(* What the steps have in common.                                          *)

\* The editor does a call that is not its last and leaves the buffer alone.
LEMMA EditorAdvances ==
    ASSUME Types, EditorInv, UndoInv, job["editor"] # <<>>,
           job'["editor"] = Tail(job["editor"]), UNCHANGED editVars,
           \A k \in 0..4 : VisitInv(k) /\ Head(job["editor"]) = VisitJob[k + 1]
                => k # 4 /\ VisitInv(k + 1)',
           \A k \in 0..11 : SaveInv(k) /\ Head(job["editor"]) = SaveJob[k + 1]
                => k # 11 /\ SaveInv(k + 1)'
    PROVE  EditorInv' /\ UndoInv'
<1>1. CASE \E k \in 0..4 :
             /\ VisitInv(k) /\ Head(job["editor"]) = VisitJob[k + 1]
             /\ Rest(Tail(job["editor"]), VisitJob, k + 1)
  <2>1. PICK k \in 0..4 :
             /\ VisitInv(k) /\ Head(job["editor"]) = VisitJob[k + 1]
             /\ Rest(Tail(job["editor"]), VisitJob, k + 1)
    BY <1>1
  <2>2. k + 1 \in 0..4 /\ VisitInv(k + 1)' /\ Rest(job["editor"]', VisitJob, k + 1)
    BY <2>1
  <2>3. Rest(job["editor"], VisitJob, k + 1)'
    BY <2>2 DEF Rest
  <2>4. job'["editor"] # <<>>
    <3>1. job'["editor"] \in Seq(Calls) /\ Rest(job'["editor"], VisitJob, k + 1)
      BY <2>2, EditorAt
    <3>2. k + 1 < Len(VisitJob) /\ k + 1 \in Nat
      BY <2>2, Lengths
    <3> QED
      BY <3>1, <3>2, JobStep
  <2> QED
    BY <2>2, <2>3, <2>4 DEF EditorInv, UndoInv, editVars
<1>2. CASE \E k \in 0..11 :
             /\ SaveInv(k) /\ Head(job["editor"]) = SaveJob[k + 1]
             /\ Rest(Tail(job["editor"]), SaveJob, k + 1)
  <2>1. PICK k \in 0..11 :
             /\ SaveInv(k) /\ Head(job["editor"]) = SaveJob[k + 1]
             /\ Rest(Tail(job["editor"]), SaveJob, k + 1)
    BY <1>2
  <2>2. k + 1 \in 0..11 /\ SaveInv(k + 1)' /\ Rest(job["editor"]', SaveJob, k + 1)
    BY <2>1
  <2>3. Rest(job["editor"], SaveJob, k + 1)'
    BY <2>2 DEF Rest
  <2>4. job'["editor"] # <<>>
    <3>1. job'["editor"] \in Seq(Calls) /\ Rest(job'["editor"], SaveJob, k + 1)
      BY <2>2, EditorAt
    <3>2. k + 1 < Len(SaveJob) /\ k + 1 \in Nat
      BY <2>2, Lengths
    <3> QED
      BY <3>1, <3>2, JobStep
  <2> QED
    BY <2>2, <2>3, <2>4 DEF EditorInv, UndoInv, editVars
<1> QED
  BY <1>1, <1>2, EditorAt

\* A call of the editor fails.
LEMMA EditorGivesUp ==
    ASSUME Types, EditorInv, UndoInv, job["editor"] # <<>>, Error("editor")
    PROVE  EditorInv' /\ UndoInv'
<1>1. job'["editor"] = <<>>
  BY DEF Error, GiveUp, Types, Threads
<1>2. ~buf.open \/ Saves("editor")
  BY EditorAt DEF VisitInv
<1>3. ~buf.named' \/ failed'
  BY <1>2 DEF Error, GiveUp, UndoInv
<1> QED
  BY <1>1, <1>3 DEF EditorInv, UndoInv, Error

\* The REPL does something, and the editor's part stays.
LEMMA EditorKept ==
    ASSUME EditorInv, UndoInv, SaveKeepsAVersion,
           UNCHANGED <<disk, buf, held, branched>>, failed => failed',
           job'["editor"] = job["editor"], hand'["editor"] = hand["editor"]
    PROVE  EditorInv' /\ UndoInv' /\ SaveKeepsAVersion'
<1>1. SaveKeepsAVersion'
  BY DEF SaveKeepsAVersion
<1>2. UndoInv'
  BY DEF UndoInv, MatchesFile
<1>3. EditorInv'
  BY DEF EditorInv, Rest, VisitInv, SaveInv
<1> QED
  BY <1>1, <1>2, <1>3

\* The editor does something, and what the REPL has read is still the file, or the REPL's
\* time is not the file's, or the history tells of it.
LEMMA ReplKept ==
    ASSUME ReplInv, glossary' = glossary,
           glossary_file_write_time' = glossary_file_write_time,
           job'["repl"] = job["repl"], hand'["repl"] = hand["repl"],
           \/ UNCHANGED <<disk["file"], stamp>> /\ (overtaken => overtaken')
           \/ Written("file")
    PROVE  ReplInv'
<1>1. CASE UNCHANGED <<disk["file"], stamp>> /\ (overtaken => overtaken')
  <2>1. FileWriteTime' = FileWriteTime
    BY <1>1 DEF FileWriteTime, FileExists
  <2> QED
    BY <1>1, <2>1 DEF ReplInv, Rest, FreshInv, ReadInv
<1>2. CASE Written("file")
  <2>1. FileWriteTime' \in {0, clock}
    BY <1>2 DEF Written, FileWriteTime
  <2>2. CASE job["repl"] = <<>>
    BY <1>2, <2>1, <2>2 DEF ReplInv, FreshInv, Written
  <2>3. CASE job["repl"] # <<>>
    <3>1. overtaken'
      BY <1>2, <2>3 DEF Written
    <3> QED
      BY <2>3, <3>1 DEF ReplInv, Rest, ReadInv
  <2> QED
    BY <2>2, <2>3
<1> QED
  BY <1>1, <1>2

----------------------------------------------------------------------------
(* The calls of the editor.                                                *)
LEMMA ErrorIsSafe ==
    ASSUME Types, Safe, job["editor"] # <<>>, Error("editor"), UNCHANGED <<diskVars, readVars>>
    PROVE  Safe'
<1>1. EditorInv' /\ UndoInv'
  BY EditorGivesUp DEF Safe
<1>2. ReplInv'
  BY ReplKept DEF Safe, diskVars, readVars, Error, GiveUp, Drops, Types, Threads
<1>3. SaveKeepsAVersion'
  BY DEF Safe, SaveKeepsAVersion, diskVars, Error, GiveUp
<1> QED
  BY <1>1, <1>2, <1>3 DEF Safe

\* Calls that change nothing but what the editor has in hand.
LEMMA HandIsSafe ==
    ASSUME Types, Safe, job["editor"] # <<>>, Continue("editor"), Fine,
           UNCHANGED <<diskVars, readVars>>, hand'["repl"] = hand["repl"],
           \A k \in 0..4 : VisitInv(k) /\ Head(job["editor"]) = VisitJob[k + 1]
                => k # 4 /\ VisitInv(k + 1)',
           \A k \in 0..11 : SaveInv(k) /\ Head(job["editor"]) = SaveJob[k + 1]
                => k # 11 /\ SaveInv(k + 1)'
    PROVE  Safe'
<1>1. job'["editor"] = Tail(job["editor"]) /\ job'["repl"] = job["repl"]
  BY DEF Continue, Types, Threads
<1>2. EditorInv' /\ UndoInv'
  BY <1>1, EditorAdvances DEF Safe, Fine
<1>3. ReplInv'
  BY <1>1, ReplKept DEF Safe, diskVars, readVars
<1>4. SaveKeepsAVersion'
  BY DEF Safe, SaveKeepsAVersion, diskVars, Fine, editVars
<1> QED
  BY <1>2, <1>3, <1>4 DEF Safe

LEMMA EditorOpens == Types /\ Safe /\ OsFileOpenRead("editor") => Safe'
<1> SUFFICES ASSUME Types, Safe, OsFileOpenRead("editor") PROVE Safe'
  OBVIOUS
<1>1. job["editor"] # <<>> /\ Head(job["editor"]).call = "open"
  BY DEF OsFileOpenRead, Next_
<1>2. CASE Error("editor")
  BY <1>1, <1>2, ErrorIsSafe DEF OsFileOpenRead
<1>3. CASE Opened("editor")
  <2>1. ASSUME NEW k \in 0..4, VisitInv(k), Head(job["editor"]) = VisitJob[k + 1]
        PROVE  k # 4 /\ VisitInv(k + 1)'
    BY <1>1, <1>3, <2>1, WhichVisit DEF VisitInv, Opened, Fine, editVars
  <2>2. ASSUME NEW k \in 0..11, SaveInv(k), Head(job["editor"]) = SaveJob[k + 1]
        PROVE  k # 11 /\ SaveInv(k + 1)'
    <3>1. k = 0
      BY <1>1, <2>2, WhichSave
    <3> QED
      BY <1>3, <2>2, <3>1 DEF SaveInv, OsFileOpenRead, Opened, Fine, editVars, diskVars
  <2>3. hand'["repl"] = hand["repl"]
    BY <1>3 DEF Opened, Types, Threads
  <2> QED
    BY <1>1, <1>3, <2>1, <2>2, <2>3, HandIsSafe DEF OsFileOpenRead, Opened
<1> QED
  BY <1>2, <1>3 DEF OsFileOpenRead

LEMMA EditorSizes == Types /\ Safe /\ OsFileSize("editor") => Safe'
<1> SUFFICES ASSUME Types, Safe, OsFileSize("editor") PROVE Safe'
  OBVIOUS
<1>1. job["editor"] # <<>> /\ Head(job["editor"]).call = "size"
  BY DEF OsFileSize, Next_
<1>2. CASE Error("editor")
  BY <1>1, <1>2, ErrorIsSafe DEF OsFileSize
<1>3. CASE /\ hand' = [hand EXCEPT !["editor"].size = disk[File("editor")]]
           /\ Continue("editor") /\ Fine
  <2>1. hand'["repl"] = hand["repl"] /\ hand'["editor"].size = disk[File("editor")]
    BY <1>3 DEF Types, Threads, Fields
  <2>2. ASSUME NEW k \in 0..4, VisitInv(k), Head(job["editor"]) = VisitJob[k + 1]
        PROVE  k # 4 /\ VisitInv(k + 1)'
    BY <1>1, <1>3, <2>1, <2>2, WhichVisit
       DEF VisitInv, OsFileSize, File, Fine, editVars, diskVars
  <2>3. ASSUME NEW k \in 0..11, SaveInv(k), Head(job["editor"]) = SaveJob[k + 1]
        PROVE  k # 11 /\ SaveInv(k + 1)'
    <3>1. k = 1 /\ File("editor") = "file"
      BY <1>1, <2>3, WhichSave DEF File
    <3> QED
      BY <1>3, <2>1, <2>3, <3>1 DEF SaveInv, OsFileSize, Fine, editVars, diskVars
  <2> QED
    BY <1>1, <1>3, <2>1, <2>2, <2>3, HandIsSafe DEF OsFileSize
<1> QED
  BY <1>2, <1>3 DEF OsFileSize

\* What is read is the whole file, when nobody has written it since its size was taken.
LEMMA ReadsIt ==
    ASSUME NEW now \in Contents, NEW size, size = now, NEW part \in Parts,
           size = now => part = now.part
    PROVE  (IF part = "none" THEN Empty ELSE [now EXCEPT !.part = part]) = now
BY DEF Contents

LEMMA EditorReads == Types /\ Safe /\ OsReadFile("editor") => Safe'
<1> SUFFICES ASSUME Types, Safe, OsReadFile("editor") PROVE Safe'
  OBVIOUS
<1>1. job["editor"] # <<>> /\ Head(job["editor"]).call = "read"
  BY DEF OsReadFile, Next_
<1>2. CASE Error("editor")
  BY <1>1, <1>2, ErrorIsSafe DEF OsReadFile
<1>3. ASSUME NEW part \in {"none", "some", "whole"},
             hand["editor"].size = disk[File("editor")] => part = disk[File("editor")].part,
             hand' = [hand EXCEPT !["editor"].got = IF part = "none" THEN Empty
                        ELSE [disk[File("editor")] EXCEPT !.part = part]],
             Continue("editor"), Fine
      PROVE  Safe'
  <2>1. hand'["repl"] = hand["repl"]
    BY <1>3 DEF Types, Threads
  <2>2. hand'["editor"].got = IF part = "none" THEN Empty
                                 ELSE [disk[File("editor")] EXCEPT !.part = part]
    BY <1>3 DEF Types, Threads, Fields
  <2>3. hand["editor"].size = disk["file"] /\ File("editor") = "file"
           => hand'["editor"].got = disk["file"]
    <3>1. disk["file"] \in Contents
      BY DEF Types, Names
    <3> QED
      BY <1>3, <2>2, <3>1, ReadsIt DEF Parts
  <2>4. ASSUME NEW k \in 0..4, VisitInv(k), Head(job["editor"]) = VisitJob[k + 1]
        PROVE  k # 4 /\ VisitInv(k + 1)'
    <3>1. k = 2 /\ File("editor") = "file"
      BY <1>1, <2>4, WhichVisit DEF File
    <3>2. UNCHANGED <<disk, buf, held>>
      BY <1>3 DEF OsReadFile, Fine, editVars, diskVars
    <3> QED
      BY <2>3, <2>4, <3>1, <3>2 DEF VisitInv
  <2>5. ASSUME NEW k \in 0..11, SaveInv(k), Head(job["editor"]) = SaveJob[k + 1]
        PROVE  k # 11 /\ SaveInv(k + 1)'
    <3>1. k = 2 /\ File("editor") = "file"
      BY <1>1, <2>5, WhichSave DEF File
    <3>2. UNCHANGED <<disk, buf, held>>
      BY <1>3 DEF OsReadFile, Fine, editVars, diskVars
    <3> QED
      BY <2>3, <2>5, <3>1, <3>2 DEF SaveInv
  <2> QED
    BY <1>1, <1>3, <2>1, <2>4, <2>5, HandIsSafe DEF OsReadFile
<1> QED
  BY <1>2, <1>3 DEF OsReadFile

LEMMA EditorCloses == Types /\ Safe /\ OsCloseFile("editor") => Safe'
<1> SUFFICES ASSUME Types, Safe, OsCloseFile("editor") PROVE Safe'
  OBVIOUS
<1>1. job["editor"] # <<>> /\ Head(job["editor"]).call = "close"
  BY DEF OsCloseFile, Next_
<1>2. CASE Error("editor")
  BY <1>1, <1>2, ErrorIsSafe DEF OsCloseFile
<1>3. CASE Continue("editor") /\ Fine /\ UNCHANGED hand
  <2>1. ASSUME NEW k \in 0..4, VisitInv(k), Head(job["editor"]) = VisitJob[k + 1]
        PROVE  k # 4 /\ VisitInv(k + 1)'
    BY <1>1, <1>3, <2>1, WhichVisit DEF VisitInv, OsCloseFile, Fine, editVars, diskVars
  <2>2. ASSUME NEW k \in 0..11, SaveInv(k), Head(job["editor"]) = SaveJob[k + 1]
        PROVE  k # 11 /\ SaveInv(k + 1)'
    <3>1. k \in {3, 6, 10}
      BY <1>1, <2>2, WhichSave
    <3> QED
      BY <1>3, <2>2, <3>1 DEF SaveInv, OsCloseFile, Fine, editVars, diskVars
  <2> QED
    BY <1>1, <1>3, <2>1, <2>2, HandIsSafe DEF OsCloseFile
<1> QED
  BY <1>2, <1>3 DEF OsCloseFile

\* Where one of the names is written, the other holds what a save has found.
LEMMA TheOtherHolds ==
    ASSUME Types, Safe, job["editor"] # <<>>, Head(job["editor"]).call \in {"create", "write"},
           NEW x, disk' = [disk EXCEPT ![File("editor")] = x], held' = held
    PROVE  /\ SaveKeepsAVersion'
           /\ File("editor") \in Names
<1>1. PICK k \in 0..11 : SaveInv(k) /\ Head(job["editor"]) = SaveJob[k + 1]
  BY EditorAt, WhichVisit DEF Safe
<1>2. \/ k \in {4, 5} /\ File("editor") = "backup"
      \/ k \in {8, 9} /\ File("editor") = "file"
  BY <1>1, WhichSave DEF File
<1> QED
  BY <1>1, <1>2 DEF SaveInv, SaveKeepsAVersion, Types, Names

\* What the REPL makes of a file that is created or written.
LEMMA ReplSeesIt ==
    ASSUME Types, Safe, File("editor") \in Names, Written(File("editor")),
           NEW x, disk' = [disk EXCEPT ![File("editor")] = x],
           job'["repl"] = job["repl"], hand'["repl"] = hand["repl"]
    PROVE  ReplInv'
<1>1. CASE File("editor") = "file"
  BY <1>1, ReplKept DEF Safe, Written
<1>2. CASE File("editor") = "backup"
  BY <1>2, ReplKept DEF Safe, Written, Types, Names
<1> QED
  BY <1>1, <1>2 DEF Names

LEMMA EditorCreates == Types /\ Safe /\ OsFileCreateWrite("editor") => Safe'
<1> SUFFICES ASSUME Types, Safe, OsFileCreateWrite("editor") PROVE Safe'
  OBVIOUS
<1>1. job["editor"] # <<>> /\ Head(job["editor"]).call = "create"
  BY DEF OsFileCreateWrite, Next_
<1>2. CASE Error("editor") /\ UNCHANGED <<diskVars, readVars, fds>>
  BY <1>1, <1>2, ErrorIsSafe
<1>3. CASE /\ Opened("editor") /\ disk' = [disk EXCEPT ![File("editor")] = Empty]
           /\ Written(File("editor"))
  <2>1. /\ job'["editor"] = Tail(job["editor"]) /\ job'["repl"] = job["repl"]
        /\ hand'["repl"] = hand["repl"] /\ hand'["editor"].got = hand["editor"].got
    BY <1>3 DEF Opened, Continue, Types, Threads, Fields
  <2>2. UNCHANGED editVars
    BY <1>3 DEF Opened, Fine
  <2>3. SaveKeepsAVersion' /\ File("editor") \in Names
    BY <1>1, <1>3, <2>2, TheOtherHolds DEF editVars
  <2>4. ReplInv'
    BY <1>3, <2>1, <2>3, ReplSeesIt
  <2>5. ASSUME NEW k \in 0..4, VisitInv(k), Head(job["editor"]) = VisitJob[k + 1]
        PROVE  k # 4 /\ VisitInv(k + 1)'
    BY <1>1, <2>5, WhichVisit
  <2>6. ASSUME NEW k \in 0..11, SaveInv(k), Head(job["editor"]) = SaveJob[k + 1]
        PROVE  k # 11 /\ SaveInv(k + 1)'
    <3>1. \/ k = 4 /\ File("editor") = "backup"
          \/ k = 8 /\ File("editor") = "file"
      BY <1>1, <2>6, WhichSave DEF File
    <3> QED
      BY <1>3, <2>1, <2>2, <2>6, <3>1 DEF SaveInv, editVars, Types, Names
  <2>7. EditorInv' /\ UndoInv'
    BY <1>1, <2>1, <2>2, <2>5, <2>6, EditorAdvances DEF Safe
  <2> QED
    BY <2>3, <2>4, <2>7 DEF Safe
<1> QED
  BY <1>2, <1>3 DEF OsFileCreateWrite

LEMMA EditorWrites == Types /\ Safe /\ OsWriteFile("editor") => Safe'
<1> SUFFICES ASSUME Types, Safe, OsWriteFile("editor") PROVE Safe'
  OBVIOUS
<1>1. job["editor"] # <<>> /\ Head(job["editor"]).call = "write"
  BY DEF OsWriteFile, Next_
<1>2. CASE Error("editor") /\ UNCHANGED <<diskVars, readVars>>
  BY <1>1, <1>2, ErrorIsSafe
<1>3. CASE /\ disk' = [disk EXCEPT ![File("editor")] = [hand["editor"].got EXCEPT !.part = "some"]]
           /\ Written(File("editor")) /\ Error("editor")
  <2>1. job'["repl"] = job["repl"] /\ hand'["repl"] = hand["repl"] /\ held' = held
    BY <1>3 DEF Error, GiveUp, Drops, Types, Threads
  <2>2. SaveKeepsAVersion' /\ File("editor") \in Names
    BY <1>1, <1>3, <2>1, TheOtherHolds
  <2>3. ReplInv'
    BY <1>3, <2>1, <2>2, ReplSeesIt
  <2>4. EditorInv' /\ UndoInv'
    BY <1>1, <1>3, EditorGivesUp DEF Safe
  <2> QED
    BY <2>2, <2>3, <2>4 DEF Safe
<1>4. CASE /\ disk' = [disk EXCEPT ![File("editor")] = hand["editor"].got]
           /\ Written(File("editor")) /\ Continue("editor") /\ Fine /\ UNCHANGED hand
  <2>1. job'["editor"] = Tail(job["editor"]) /\ job'["repl"] = job["repl"]
    BY <1>4 DEF Continue, Types, Threads
  <2>2. UNCHANGED editVars
    BY <1>4 DEF Fine
  <2>3. SaveKeepsAVersion' /\ File("editor") \in Names
    BY <1>1, <1>4, <2>2, TheOtherHolds DEF editVars
  <2>4. ReplInv'
    BY <1>4, <2>1, <2>3, ReplSeesIt
  <2>5. ASSUME NEW k \in 0..4, VisitInv(k), Head(job["editor"]) = VisitJob[k + 1]
        PROVE  k # 4 /\ VisitInv(k + 1)'
    BY <1>1, <2>5, WhichVisit
  <2>6. ASSUME NEW k \in 0..11, SaveInv(k), Head(job["editor"]) = SaveJob[k + 1]
        PROVE  k # 11 /\ SaveInv(k + 1)'
    <3>1. \/ k = 5 /\ File("editor") = "backup"
          \/ k = 9 /\ File("editor") = "file"
      BY <1>1, <2>6, WhichSave DEF File
    <3> QED
      BY <1>4, <2>2, <2>6, <3>1 DEF SaveInv, editVars, Types, Names
  <2>7. EditorInv' /\ UndoInv'
    BY <1>1, <2>1, <2>2, <2>5, <2>6, EditorAdvances DEF Safe
  <2> QED
    BY <2>3, <2>4, <2>7 DEF Safe
<1> QED
  BY <1>2, <1>3, <1>4 DEF OsWriteFile

----------------------------------------------------------------------------
(* What the editor's user does.                                            *)

\* Steps of the editor that read and write no file.
LEMMA EditorAlone ==
    ASSUME Safe, UNCHANGED <<diskVars, readVars>>,
           job'["repl"] = job["repl"], hand'["repl"] = hand["repl"],
           EditorInv' /\ UndoInv', held' \in {held, NoFile, disk["file"]}
    PROVE  Safe'
<1>1. ReplInv'
  BY ReplKept DEF Safe, diskVars, readVars
<1>2. SaveKeepsAVersion'
  BY DEF Safe, SaveKeepsAVersion, diskVars, Names
<1> QED
  BY <1>1, <1>2 DEF Safe

LEMMA EditorTakesCommand ==
    ASSUME Types, Safe, CreateBuffer \/ CreateBufferForFile \/ DoSave \/ KillBuffer,
           UNCHANGED <<diskVars, readVars>>
    PROVE  Safe'
<1>0. job["editor"] = <<>>
  BY DEF CreateBuffer, CreateBufferForFile, DoSave, KillBuffer, AtRest, At, Idle
<1>1. CASE CreateBuffer \/ KillBuffer
  <2>1. EditorInv' /\ UndoInv'
    BY <1>0, <1>1 DEF CreateBuffer, KillBuffer, EditorInv, UndoInv, NoBuffer
  <2> QED
    BY <1>1, <2>1, EditorAlone DEF CreateBuffer, KillBuffer
<1>2. CASE CreateBufferForFile
  <2>1. job'["repl"] = job["repl"] /\ Rest(job["editor"], VisitJob, 0)' /\ job'["editor"] # <<>>
    <3>1. LET s == FileContents("file") \o <<Do("visit", "file")>> IN
          s \in Seq(Calls) /\ Rest(s, VisitJob, 0)
      BY Jobs
    <3>2. job'["editor"] \in Seq(Calls) /\ Rest(job'["editor"], VisitJob, 0)
      BY <1>2, <3>1 DEF CreateBufferForFile, OnlyEditor, Types, Threads
    <3>3. job'["editor"] # <<>>
      BY <3>2, JobStep, Lengths
    <3> QED
      BY <1>2, <3>2, <3>3 DEF CreateBufferForFile, OnlyEditor, Types, Threads, Rest
  <2>2. EditorInv' /\ UndoInv'
    BY <1>2, <2>1 DEF Safe, CreateBufferForFile, EditorInv, VisitInv, UndoInv, editVars
  <2> QED
    BY <1>2, <2>1, <2>2, EditorAlone DEF CreateBufferForFile, editVars
<1>3. CASE DoSave
  <2>1. job'["repl"] = job["repl"] /\ job'["editor"] = SaveCalls
    BY <1>3 DEF DoSave, OnlyEditor, Types, Threads
  <2>2. SaveCalls \in Seq(Calls)
    BY Jobs
  <2>3. ASSUME buf.named /\ FileExists("file") PROVE EditorInv' /\ UndoInv'
    <3>1. Rest(SaveCalls, SaveJob, 0) /\ 0 \in Nat /\ 0 < Len(SaveJob)
      BY <2>3, Jobs, Lengths
    <3>2. SaveCalls # <<>>
      BY <2>2, <3>1, JobStep
    <3>3. Rest(job["editor"], SaveJob, 0)' /\ SaveInv(0)'
      BY <1>3, <2>1, <2>3, <3>1 DEF Rest, SaveInv, DoSave, diskVars, FileExists
    <3> QED
      BY <2>1, <3>2, <3>3, <1>3 DEF EditorInv, UndoInv, Safe, DoSave
  <2>4. ASSUME ~(buf.named /\ FileExists("file")) PROVE EditorInv' /\ UndoInv'
    <3>1. Rest(SaveCalls, SaveJob, 7) /\ 7 \in Nat /\ 7 < Len(SaveJob)
      BY <2>4, Jobs, Lengths
    <3>2. SaveCalls # <<>>
      BY <2>2, <3>1, JobStep
    <3>3. Rest(job["editor"], SaveJob, 7)' /\ SaveInv(7)'
      BY <1>3, <2>1, <2>4, <3>1 DEF Rest, SaveInv, DoSave, diskVars, FileExists
    <3> QED
      BY <2>1, <3>2, <3>3, <1>3 DEF EditorInv, UndoInv, Safe, DoSave
  <2>5. EditorInv' /\ UndoInv'
    BY <2>3, <2>4
  <2> QED
    BY <1>3, <2>1, <2>5, EditorAlone DEF DoSave
<1> QED
  BY <1>1, <1>2, <1>3

LEMMA RecordMods ==
    ASSUME NEW S, NEW s \in Seq([mod : Nat, text : S])
    PROVE  Len(s) \in Nat /\ \A i \in 1..Len(s) : s[i].mod \in Nat
<1> DEFINE R == [mod : Nat, text : S]
<1>1. s \in Seq(R)
  OBVIOUS
<1> HIDE DEF R
<1>2. Len(s) \in Nat /\ \A i \in 1..Len(s) : s[i] \in R
  BY <1>1
<1> QED
  BY <1>2 DEF R

\* A record has the mod-count of before the change, and undoing goes back to it.
LEMMA EditorEdits ==
    ASSUME Types, Safe, Edit \/ Undo, UNCHANGED <<diskVars, readVars>>
    PROVE  Safe'
<1> DEFINE Rec == [mod : Nat, text : Contents]
<1>0. /\ job["editor"] = <<>> /\ UNCHANGED <<job, hand, held, failed>> /\ buf.open
      /\ buf.undo \in Seq(Rec) /\ Len(buf.undo) \in Nat
      /\ buf.mod \in Nat /\ buf.saved \in Nat
  BY DEF Edit, Undo, AtRest, At, Idle, Types, Buffers
<1>r. \A i \in 1..Len(buf.undo) : buf.undo[i].mod \in Nat
  BY <1>0, RecordMods
<1>1. CASE Edit
  <2>1. /\ buf'.mod = buf.mod + 1 /\ buf'.open /\ buf'.named = buf.named
        /\ buf'.saved = buf.saved
        /\ buf'.undo = Append(buf.undo, [mod |-> buf.mod, text |-> buf.text])
    BY <1>1 DEF Edit, Bumped, Types, Buffers
  <2>2. /\ Len(buf'.undo) = Len(buf.undo) + 1
        /\ \A i \in 1..Len(buf.undo) : buf'.undo[i] = buf.undo[i]
        /\ buf'.undo[Len(buf.undo) + 1] = [mod |-> buf.mod, text |-> buf.text]
    BY <1>0, <2>1 DEF Types, Buffers
  <2>3. \A i \in 1..Len(buf'.undo) : buf'.undo[i].mod < buf'.mod
    BY <1>0, <1>r, <2>1, <2>2 DEF Safe, UndoInv
  <2>4. \A i, j \in 1..Len(buf'.undo) : i < j => buf'.undo[i].mod < buf'.undo[j].mod
    <3> SUFFICES ASSUME NEW i \in 1..Len(buf'.undo), NEW j \in 1..Len(buf'.undo), i < j
                 PROVE  buf'.undo[i].mod < buf'.undo[j].mod
      OBVIOUS
    <3>1. i \in 1..Len(buf.undo) /\ buf'.undo[i] = buf.undo[i]
      BY <1>0, <2>2
    <3>2. CASE j = Len(buf.undo) + 1
      BY <2>2, <3>1, <3>2 DEF Safe, UndoInv
    <3>3. CASE j \in 1..Len(buf.undo)
      BY <2>2, <3>1, <3>3 DEF Safe, UndoInv
    <3> QED
      BY <1>0, <2>2, <3>2, <3>3
  <2>5. ASSUME buf.named, ~failed, ~branched'
        PROVE  /\ buf'.mod # buf.saved
               /\ \A i \in 1..Len(buf'.undo) :
                     buf'.undo[i].mod = buf.saved => buf'.undo[i].text = disk["file"]
    <3>1. ~branched /\ ~(buf.mod < buf.saved)
      BY <1>1, <2>5 DEF Edit
    <3>2. buf'.mod # buf.saved
      BY <1>0, <2>1, <3>1
    <3>3. /\ buf.mod = buf.saved => buf.text = disk["file"]
          /\ \A i \in 1..Len(buf.undo) :
                buf.undo[i].mod = buf.saved => buf.undo[i].text = disk["file"]
      BY <1>0, <2>5, <3>1 DEF Safe, UndoInv, MatchesFile
    <3>4. ASSUME NEW i \in 1..Len(buf'.undo), buf'.undo[i].mod = buf.saved
          PROVE  buf'.undo[i].text = disk["file"]
      <4>1. CASE i = Len(buf.undo) + 1
        BY <2>2, <3>3, <3>4, <4>1
      <4>2. CASE i \in 1..Len(buf.undo)
        BY <2>2, <3>3, <3>4, <4>2
      <4> QED
        BY <1>0, <2>2, <4>1, <4>2
    <3> QED
      BY <3>2, <3>4
  <2>6. UndoInv'
    BY <1>0, <2>1, <2>3, <2>4, <2>5 DEF UndoInv, MatchesFile, diskVars
  <2> QED
    BY <1>0, <2>6, EditorAlone DEF EditorInv
<1>2. CASE Undo
  <2> DEFINE n == Len(buf.undo)
  <2>1. n > 0
    BY <1>0, <1>2 DEF Undo
  <2>2. /\ buf'.mod = buf.undo[n].mod /\ buf'.text = buf.undo[n].text
        /\ buf'.open /\ buf'.named = buf.named /\ buf'.saved = buf.saved
        /\ buf'.undo = SubSeq(buf.undo, 1, n - 1)
    BY <1>0, <1>2 DEF Undo, Types, Buffers
  <2>3. Len(buf'.undo) = n - 1 /\ \A i \in 1..(n - 1) : buf'.undo[i] = buf.undo[i]
    BY <1>0, <2>1, <2>2
  <2>n. /\ n \in 1..Len(buf.undo)
        /\ \A i \in 1..Len(buf'.undo) :
              i \in 1..Len(buf.undo) /\ i < n /\ buf'.undo[i] = buf.undo[i]
    BY <1>0, <2>1, <2>3
  <2> HIDE DEF n
  <2>4. /\ \A i \in 1..Len(buf'.undo) : buf'.undo[i].mod < buf'.mod
        /\ \A i, j \in 1..Len(buf'.undo) : i < j => buf'.undo[i].mod < buf'.undo[j].mod
    BY <2>2, <2>n DEF Safe, UndoInv
  <2>5. ASSUME buf.named, ~failed, ~branched
        PROVE  /\ buf'.mod = buf.saved => buf'.text = disk["file"]
               /\ \A i \in 1..Len(buf'.undo) :
                     buf'.undo[i].mod = buf.saved => buf'.undo[i].text = disk["file"]
    BY <1>0, <2>2, <2>n, <2>5 DEF Safe, UndoInv, MatchesFile
  <2>6. UndoInv'
    <3>1. branched' = branched /\ disk' = disk
      BY <1>2 DEF Undo, diskVars
    <3> QED
      BY <1>0, <2>2, <2>4, <2>5, <3>1 DEF UndoInv, MatchesFile
  <2> QED
    BY <1>0, <1>2, <2>6, EditorAlone DEF EditorInv, Undo
<1> QED
  BY <1>1, <1>2

LEMMA EditorGoesOn ==
    ASSUME Types, Safe, EditorStep, UNCHANGED <<diskVars, readVars>>
    PROVE  Safe'
<1>0. job["editor"] # <<>>
  BY DEF EditorStep, Visit, RemoveTrailingWhitespace, Saved, Next_
<1>1. /\ job'["editor"] = Tail(job["editor"]) /\ job'["repl"] = job["repl"]
      /\ hand'["repl"] = hand["repl"]
  BY DEF EditorStep, Visit, RemoveTrailingWhitespace, Saved, Continue, Drops, Types, Threads
<1>2. CASE Visit
  <2>1. VisitInv(4) /\ Tail(job["editor"]) = <<>>
    BY <1>0, <1>2, EditorAt, WhichVisit, WhichSave DEF Safe, Visit, Next_
  <2>2. EditorInv' /\ UndoInv'
    BY <1>1, <1>2, <2>1
       DEF Visit, EditorInv, UndoInv, VisitInv, MatchesFile, NoBuffer, diskVars
  <2> QED
    BY <1>1, <1>2, <2>2, EditorAlone DEF Visit
<1>3. CASE RemoveTrailingWhitespace
  <2>1. /\ SaveInv(7) /\ Rest(Tail(job["editor"]), SaveJob, 8)
        /\ Tail(job["editor"]) \in Seq(Calls)
    BY <1>0, <1>3, EditorAt, WhichVisit, WhichSave DEF Safe, RemoveTrailingWhitespace, Next_
  <2>2. job'["editor"] # <<>> /\ Rest(job["editor"], SaveJob, 8)'
    <3>1. 8 \in Nat /\ 8 < Len(SaveJob)
      BY Lengths
    <3>2. Tail(job["editor"]) # <<>>
      BY <2>1, <3>1, JobStep
    <3> QED
      BY <1>1, <2>1, <3>2 DEF Rest
  <2>3. hand'["editor"].got = buf'.text
    BY <1>3 DEF RemoveTrailingWhitespace, Types, Threads, Fields
  <2>4. /\ buf'.open = buf.open /\ buf'.named = buf.named /\ buf'.saved = buf.saved
        /\ buf'.undo = buf.undo /\ buf'.mod \in {buf.mod, buf.mod + 1}
    BY <1>3 DEF RemoveTrailingWhitespace, Bumped, Types, Buffers
  <2>5. SaveInv(8)'
    BY <1>3, <2>1, <2>3, <2>4 DEF SaveInv, RemoveTrailingWhitespace, diskVars
  <2>6. \A i \in 1..Len(buf'.undo) : buf'.undo[i].mod < buf'.mod
    <3>1. /\ buf.undo \in Seq([mod : Nat, text : Contents]) /\ buf.mod \in Nat
      BY DEF Types, Buffers
    <3>2. \A i \in 1..Len(buf.undo) : buf.undo[i].mod \in Nat
      BY <3>1, RecordMods
    <3> QED
      BY <2>4, <3>1, <3>2 DEF Safe, UndoInv
  <2>7. EditorInv' /\ UndoInv'
    BY <2>2, <2>4, <2>5, <2>6 DEF EditorInv, UndoInv, Safe
  <2> QED
    BY <1>1, <1>3, <2>7, EditorAlone DEF RemoveTrailingWhitespace
<1>4. CASE Saved
  <2>1. SaveInv(11) /\ Tail(job["editor"]) = <<>>
    BY <1>0, <1>4, EditorAt, WhichVisit, WhichSave DEF Safe, Saved, Next_
  <2>2. /\ buf'.saved = buf.mod /\ buf'.mod = buf.mod /\ buf'.text = buf.text
        /\ buf'.undo = buf.undo /\ buf'.open = buf.open
    BY <1>4 DEF Saved, Types, Buffers
  <2>3. EditorInv' /\ UndoInv'
    BY <1>1, <2>1, <2>2 DEF Safe, EditorInv, UndoInv, SaveInv, MatchesFile, diskVars, Types, Buffers
  <2> QED
    BY <1>1, <1>4, <2>3, EditorAlone DEF Saved
<1> QED
  BY <1>2, <1>3, <1>4 DEF EditorStep

----------------------------------------------------------------------------
(* The REPL.                                                               *)

\* A call or a step of the REPL; what it leaves behind is said by ReplInv'.
LEMMA ReplAlone ==
    ASSUME Safe, ReplInv', UNCHANGED <<disk, buf, held, branched>>, failed => failed',
           job'["editor"] = job["editor"], hand'["editor"] = hand["editor"]
    PROVE  Safe'
BY EditorKept DEF Safe

LEMMA ReplErrs ==
    ASSUME Types, Safe, job["repl"] # <<>>, Error("repl"), UNCHANGED <<diskVars, readVars>>
    PROVE  Safe'
<1>1. /\ job'["repl"] = <<>> /\ job'["editor"] = job["editor"]
      /\ hand'["editor"] = hand["editor"]
  BY DEF Error, GiveUp, Drops, Types, Threads
<1>2. FreshInv
  BY DEF Safe, ReplInv, FreshInv, ReadInv
<1>3. ReplInv'
  BY <1>1, <1>2 DEF ReplInv, FreshInv, FileWriteTime, FileExists, readVars, diskVars
<1> QED
  BY <1>1, <1>3, ReplAlone DEF Error, GiveUp, diskVars

LEMMA ReplAdvances ==
    ASSUME Types, Safe, job["repl"] # <<>>, job' = [job EXCEPT !["repl"] = Tail(@)],
           UNCHANGED <<disk, buf, held, branched>>, failed => failed',
           hand'["editor"] = hand["editor"],
           \A k \in 0..5 : ReadInv(k) /\ Head(job["repl"]) = ReplJob[k + 1]
                => IF k = 5 THEN FreshInv' ELSE ReadInv(k + 1)'
    PROVE  Safe'
<1>1. job'["repl"] = Tail(job["repl"]) /\ job'["editor"] = job["editor"]
  BY DEF Types, Threads
<1>2. PICK k \in 0..5 :
             /\ ReadInv(k) /\ Head(job["repl"]) = ReplJob[k + 1]
             /\ Rest(Tail(job["repl"]), ReplJob, k + 1)
             /\ k = 5 => Tail(job["repl"]) = <<>>
  BY ReplAt DEF Safe
<1>3. CASE k = 5
  BY <1>1, <1>2, <1>3, ReplAlone DEF ReplInv
<1>4. CASE k # 5
  <2>1. k + 1 \in 0..5
    BY <1>4
  <2>2. ReadInv(k + 1)'
    BY <1>2, <1>4
  <2>3. Rest(job["repl"], ReplJob, k + 1)'
    BY <1>1, <1>2 DEF Rest
  <2>4. ReplInv'
    BY <2>1, <2>2, <2>3 DEF ReplInv
  <2> QED
    BY <1>1, <2>4, ReplAlone
<1> QED
  BY <1>3, <1>4

LEMMA ReplCalls ==
    ASSUME Types, Safe,
           OsFileOpenRead("repl") \/ OsFileSize("repl") \/ OsReadFile("repl") \/ OsCloseFile("repl")
    PROVE  Safe'
<1>1. job["repl"] # <<>> /\ UNCHANGED <<diskVars, readVars>>
  BY DEF OsFileOpenRead, OsFileSize, OsReadFile, OsCloseFile, Next_
<1>2. CASE Error("repl")
  BY <1>1, <1>2, ReplErrs
<1>3. CASE /\ Continue("repl") /\ Fine
           /\ hand'["editor"] = hand["editor"]
           /\ \A k \in 0..5 : ReadInv(k) /\ Head(job["repl"]) = ReplJob[k + 1]
                => IF k = 5 THEN FreshInv' ELSE ReadInv(k + 1)'
  BY <1>1, <1>3, ReplAdvances DEF Continue, Fine, editVars, diskVars
<1>4. UNCHANGED <<disk, glossary, glossary_file_write_time, overtaken, FileWriteTime>>
  BY <1>1 DEF diskVars, readVars, FileWriteTime, FileExists
<1>5. CASE OsFileOpenRead("repl") /\ Opened("repl")
  <2>1. Head(job["repl"]).call = "open" /\ hand'["editor"] = hand["editor"]
    BY <1>5 DEF OsFileOpenRead, Next_, Opened, Types, Threads
  <2>2. ASSUME NEW k \in 0..5, ReadInv(k), Head(job["repl"]) = ReplJob[k + 1]
        PROVE  IF k = 5 THEN FreshInv' ELSE ReadInv(k + 1)'
    BY <1>4, <2>1, <2>2, WhichRepl DEF ReadInv
  <2> QED
    BY <1>3, <1>5, <2>1, <2>2 DEF Opened
<1>6. CASE OsFileSize("repl") /\ ~Error("repl")
  <2>1. /\ Head(job["repl"]).call = "size" /\ hand'["editor"] = hand["editor"]
        /\ hand'["repl"].size = disk[File("repl")] /\ Continue("repl") /\ Fine
    BY <1>6 DEF OsFileSize, Next_, Types, Threads, Fields
  <2>2. ASSUME NEW k \in 0..5, ReadInv(k), Head(job["repl"]) = ReplJob[k + 1]
        PROVE  IF k = 5 THEN FreshInv' ELSE ReadInv(k + 1)'
    BY <1>4, <2>1, <2>2, WhichRepl DEF ReadInv, File
  <2> QED
    BY <1>3, <2>1, <2>2
<1>7. CASE OsReadFile("repl") /\ ~Error("repl")
  <2>1. PICK part \in {"none", "some", "whole"} :
             /\ hand["repl"].size = disk[File("repl")] => part = disk[File("repl")].part
             /\ hand' = [hand EXCEPT !["repl"].got = IF part = "none" THEN Empty
                           ELSE [disk[File("repl")] EXCEPT !.part = part]]
             /\ Continue("repl") /\ Fine
    BY <1>7 DEF OsReadFile
  <2>2. Head(job["repl"]).call = "read" /\ hand'["editor"] = hand["editor"]
    BY <1>7, <2>1 DEF OsReadFile, Next_, Types, Threads
  <2>3. hand'["repl"].got = IF part = "none" THEN Empty
                               ELSE [disk[File("repl")] EXCEPT !.part = part]
    BY <2>1 DEF Types, Threads, Fields
  <2>4. hand["repl"].size = disk["file"] /\ File("repl") = "file"
           => hand'["repl"].got = disk["file"]
    <3>1. disk["file"] \in Contents
      BY DEF Types, Names
    <3> QED
      BY <2>1, <2>3, <3>1, ReadsIt DEF Parts
  <2>5. ASSUME NEW k \in 0..5, ReadInv(k), Head(job["repl"]) = ReplJob[k + 1]
        PROVE  IF k = 5 THEN FreshInv' ELSE ReadInv(k + 1)'
    BY <1>4, <2>2, <2>4, <2>5, WhichRepl DEF ReadInv, File
  <2> QED
    BY <1>3, <2>1, <2>2, <2>5
<1>8. CASE OsCloseFile("repl") /\ ~Error("repl")
  <2>1. /\ Head(job["repl"]).call = "close" /\ UNCHANGED hand
        /\ Continue("repl") /\ Fine
    BY <1>8 DEF OsCloseFile, Next_
  <2>2. ASSUME NEW k \in 0..5, ReadInv(k), Head(job["repl"]) = ReplJob[k + 1]
        PROVE  IF k = 5 THEN FreshInv' ELSE ReadInv(k + 1)'
    BY <1>4, <2>1, <2>2, WhichRepl DEF ReadInv
  <2> QED
    BY <1>3, <2>1, <2>2
<1> QED
  BY <1>2, <1>5, <1>6, <1>7, <1>8 DEF OsFileOpenRead

\* The REPL creates and writes no file.
LEMMA ReplOnlyReads == Types /\ Safe => ~OsFileCreateWrite("repl") /\ ~OsWriteFile("repl")
<1> SUFFICES ASSUME Types, Safe, job["repl"] # <<>>,
                    Head(job["repl"]).call \in {"create", "write"}
             PROVE  FALSE
  BY DEF OsFileCreateWrite, OsWriteFile, Next_
<1>1. PICK k \in 0..5 : Head(job["repl"]) = ReplJob[k + 1]
  BY ReplAt DEF Safe
<1> QED
  BY <1>1, WhichRepl

LEMMA ReplIsSafe ==
    ASSUME Types, Safe, Repl
    PROVE  Safe'
<1>1. /\ UNCHANGED <<disk, stamp, buf, held, branched, failed>>
      /\ FileWriteTime' = FileWriteTime
  BY DEF Repl, diskVars, editVars, FileWriteTime, FileExists
<1>2. CASE MaybeLoadGlossary
  <2>1. LET s == FileContents("file") \o <<Do("lines", "file"), Do("time", "file")>> IN
        s \in Seq(Calls) /\ Rest(s, ReplJob, 0)
    BY Jobs
  <2>2. /\ Rest(job["repl"], ReplJob, 0)' /\ job'["editor"] = job["editor"]
        /\ UNCHANGED hand
    BY <1>2, <2>1 DEF MaybeLoadGlossary, Types, Threads, Rest
  <2>3. ReadInv(0)'
    BY <1>1, <1>2 DEF MaybeLoadGlossary, ReadInv
  <2> QED
    BY <1>1, <2>2, <2>3, ReplAlone DEF ReplInv
<1>3. CASE Lines
  <2>1. /\ job["repl"] # <<>> /\ Head(job["repl"]).call = "lines"
        /\ job' = [job EXCEPT !["repl"] = Tail(@)]
        /\ glossary' = hand["repl"].got
        /\ UNCHANGED <<hand, glossary_file_write_time, overtaken>>
    BY <1>3 DEF Lines, Next_, Continue
  <2>2. ASSUME NEW k \in 0..5, ReadInv(k), Head(job["repl"]) = ReplJob[k + 1]
        PROVE  IF k = 5 THEN FreshInv' ELSE ReadInv(k + 1)'
    BY <1>1, <2>1, <2>2, WhichRepl DEF ReadInv
  <2> QED
    BY <1>1, <2>1, <2>2, ReplAdvances
<1>4. CASE OsFileWriteTime
  <2>1. /\ job["repl"] # <<>> /\ Head(job["repl"]).call = "time"
        /\ job' = [job EXCEPT !["repl"] = Tail(@)]
        /\ UNCHANGED <<glossary, overtaken>> /\ hand'["editor"] = hand["editor"]
    BY <1>4 DEF OsFileWriteTime, Next_, Continue, Drops, Types, Threads
  <2>2. ASSUME NEW k \in 0..5, ReadInv(k), Head(job["repl"]) = ReplJob[k + 1]
        PROVE  IF k = 5 THEN FreshInv' ELSE ReadInv(k + 1)'
    BY <1>1, <2>1, <2>2, WhichRepl DEF ReadInv, FreshInv
  <2> QED
    BY <1>1, <2>1, <2>2, ReplAdvances
<1> QED
  BY <1>2, <1>3, <1>4 DEF Repl, ReplStep

----------------------------------------------------------------------------
(* Faults and ends.                                                        *)
LEMMA SignalIsSafe ==
    ASSUME Types, Safe, NEW t \in Threads, SignalHandler(t)
    PROVE  Safe'
<1>1. /\ UNCHANGED <<disk, held, branched, glossary, glossary_file_write_time, overtaken>>
      /\ UNCHANGED stamp /\ FileWriteTime' = FileWriteTime
  BY DEF SignalHandler, GiveUp, diskVars, readVars, FileWriteTime, FileExists
<1>2. CASE t = "editor"
  <2>1. job'["editor"] = <<>> /\ buf' = NoBuffer /\ held' = held
    BY <1>2 DEF SignalHandler, GiveUp, Types, Threads
  <2>2. EditorInv' /\ UndoInv'
    BY <2>1 DEF EditorInv, UndoInv, NoBuffer
  <2>3. job'["repl"] = job["repl"] /\ hand'["repl"] = hand["repl"]
    BY <1>2 DEF SignalHandler, GiveUp, Drops, Types, Threads
  <2> QED
    BY <1>1, <2>1, <2>2, <2>3, EditorAlone DEF diskVars, readVars
<1>3. CASE t = "repl"
  <2>1. /\ job'["repl"] = <<>> /\ job'["editor"] = job["editor"]
        /\ hand'["editor"] = hand["editor"] /\ buf' = buf /\ (failed => failed')
    BY <1>3 DEF SignalHandler, GiveUp, Drops, Types, Threads
  <2>2. FreshInv
    BY DEF Safe, ReplInv, FreshInv, ReadInv
  <2>3. ReplInv'
    BY <1>1, <2>1, <2>2 DEF ReplInv, FreshInv
  <2> QED
    BY <1>1, <2>1, <2>3, ReplAlone
<1> QED
  BY <1>2, <1>3 DEF Threads

LEMMA GoneIsSafe == ASSUME Safe, Gone PROVE Safe'
<1>1. job' = [t \in Threads |-> <<>>] /\ buf' = NoBuffer /\ UNCHANGED <<diskVars, held>>
  BY DEF Gone
<1>2. EditorInv' /\ UndoInv'
  BY <1>1 DEF EditorInv, UndoInv, NoBuffer, Threads
<1>3. ReplInv'
  BY <1>1 DEF Gone, ReplInv, FreshInv, Threads
<1>4. SaveKeepsAVersion'
  BY <1>1 DEF Safe, SaveKeepsAVersion, diskVars
<1> QED
  BY <1>2, <1>3, <1>4 DEF Safe

\* What Safe speaks of.
safeVars == <<disk, stamp, job, hand, buf, glossary, glossary_file_write_time,
              held, failed, branched, overtaken>>
LEMMA NothingIsSafe == ASSUME Safe, UNCHANGED safeVars PROVE Safe'
BY DEF safeVars, Safe, EditorInv, UndoInv, ReplInv, SaveKeepsAVersion, Rest, VisitInv, SaveInv,
       MatchesFile, ReadInv, FreshInv, FileWriteTime, FileExists

LEMMA NextIsSafe == ASSUME Types, Safe, [Next]_vars PROVE Safe'
<1>1. CASE \/ (Start \/ Boot \/ OsAcceptString) /\ UNCHANGED savingVars
           \/ Tick \/ UNCHANGED vars
  <2>1. UNCHANGED safeVars
    BY <1>1 DEF safeVars, savingVars, vars, Tick, diskVars, editVars, readVars
  <2> QED
    BY <2>1, NothingIsSafe
<1>2. ASSUME NEW t \in Threads, Call(t) PROVE Safe'
  BY <1>2, EditorOpens, EditorSizes, EditorReads, EditorCloses, EditorCreates, EditorWrites,
     ReplCalls, ReplOnlyReads DEF Call, Threads
<1>3. ASSUME NEW t \in Threads, SignalHandler(t) PROVE Safe'
  BY <1>3, SignalIsSafe
<1>4. CASE Editor
  BY <1>4, EditorTakesCommand, EditorEdits, EditorGoesOn DEF Editor
<1>5. CASE Repl
  BY <1>5, ReplIsSafe
<1>6. CASE End
  BY <1>6, GoneIsSafe DEF End
<1> QED
  BY <1>1, <1>2, <1>3, <1>4, <1>5, <1>6 DEF Next

----------------------------------------------------------------------------
(* Types.                                                                  *)
LEMMA FileIsName ==
    ASSUME Types, NEW t \in Threads, job[t] # <<>>
    PROVE  File(t) \in Names /\ Tail(job[t]) \in Seq(Calls)
<1>1. job[t] \in Seq(Calls)
  BY DEF Types
<1>2. Head(job[t]) \in Calls /\ Tail(job[t]) \in Seq(Calls)
  BY <1>1
<1> QED
  BY <1>2 DEF File, Calls

LEMMA NoneIsTyped == Empty \in Contents /\ NoFile \in Contents /\ NoBuffer \in Buffers
BY DEF Empty, NoFile, NoBuffer, Contents, Parts, Buffers

\* The part of Types that says what a thread has in hand.
HandTypes ==
    /\ DOMAIN hand = Threads
    /\ \A t \in Threads :
          DOMAIN hand[t] = Fields /\ hand[t].size \in Contents /\ hand[t].got \in Contents

LEMMA HandSteps ==
    ASSUME HandTypes, NEW t \in Threads,
           \/ UNCHANGED hand
           \/ Drops(t)
           \/ \E d : hand' = [hand EXCEPT ![t].fd = d]
           \/ \E c \in Contents : hand' = [hand EXCEPT ![t].size = c]
           \/ \E c \in Contents : hand' = [hand EXCEPT ![t].got = c]
    PROVE  HandTypes'
<1>1. CASE UNCHANGED hand
  BY <1>1 DEF HandTypes
<1>2. CASE Drops(t)
  BY <1>2, NoneIsTyped DEF HandTypes, Drops, Hand, Fields
<1>3. CASE \E d : hand' = [hand EXCEPT ![t].fd = d]
  BY <1>3 DEF HandTypes, Fields
<1>4. CASE \E c \in Contents : hand' = [hand EXCEPT ![t].size = c]
  BY <1>4 DEF HandTypes, Fields
<1>5. CASE \E c \in Contents : hand' = [hand EXCEPT ![t].got = c]
  BY <1>5 DEF HandTypes, Fields
<1> QED
  BY <1>1, <1>2, <1>3, <1>4, <1>5

LEMMA CallTypes ==
    ASSUME Types, NEW t \in Threads, Call(t)
    PROVE  Types'
<1>1. job[t] # <<>>
  BY DEF Call, OsFileOpenRead, OsFileSize, OsReadFile, OsCloseFile, OsFileCreateWrite,
         OsWriteFile, Next_
<1>2. File(t) \in Names /\ Tail(job[t]) \in Seq(Calls) /\ HandTypes
  BY <1>1, FileIsName DEF Types, HandTypes
<1>3. /\ texts' = texts /\ buf' = buf
      /\ job' \in {[job EXCEPT ![t] = Tail(@)], [job EXCEPT ![t] = <<>>]}
  BY DEF Call, OsFileOpenRead, OsFileSize, OsReadFile, OsCloseFile, OsFileCreateWrite,
         OsWriteFile, Opened, Continue, Error, GiveUp, Fine, editVars
<1>4. job' \in [Threads -> Seq(Calls)]
  <2>1. <<>> \in Seq(Calls)
    OBVIOUS
  <2> QED
    BY <1>2, <1>3, <2>1 DEF Types
<1>5. hand[t].got \in Contents /\ [hand[t].got EXCEPT !.part = "some"] \in Contents
  BY <1>2 DEF HandTypes, Contents, Parts, Empty
<1>6. disk' \in [Names -> Contents]
  BY <1>2, <1>5, NoneIsTyped
     DEF Types, Call, OsFileOpenRead, OsFileSize, OsReadFile, OsCloseFile, OsFileCreateWrite,
         OsWriteFile, diskVars
<1>7. disk[File(t)] \in Contents
  BY <1>2 DEF Types
<1>8. ASSUME NEW part \in {"none", "some", "whole"}
      PROVE  (IF part = "none" THEN Empty ELSE [disk[File(t)] EXCEPT !.part = part]) \in Contents
  BY <1>7, NoneIsTyped DEF Contents, Parts
<1>9. HandTypes'
  <2>1. CASE OsFileOpenRead(t) \/ OsFileCreateWrite(t)
    BY <1>2, <2>1, HandSteps DEF OsFileOpenRead, OsFileCreateWrite, Opened, Error, GiveUp
  <2>2. CASE OsFileSize(t)
    BY <1>2, <1>7, <2>2, HandSteps DEF OsFileSize, Error, GiveUp
  <2>3. CASE OsReadFile(t)
    BY <1>2, <1>8, <2>3, HandSteps DEF OsReadFile, Error, GiveUp
  <2>4. CASE OsCloseFile(t) \/ OsWriteFile(t)
    BY <1>2, <2>4, HandSteps DEF OsCloseFile, OsWriteFile, Error, GiveUp
  <2> QED
    BY <2>1, <2>2, <2>3, <2>4 DEF Call
<1> QED
  BY <1>3, <1>4, <1>6, <1>9 DEF Types, HandTypes

\* What is put into a buffer.
LEMMA BufferWith ==
    ASSUME NEW b \in Buffers, NEW text \in Contents,
           NEW undo \in Seq([mod : Nat, text : Contents])
    PROVE  /\ [Bumped(b) EXCEPT !.text = text] \in Buffers
           /\ [Bumped(b) EXCEPT !.text = text, !.undo = undo] \in Buffers
<1> DEFINE U == Seq([mod : Nat, text : Contents])
           B == [text : Contents, mod : Nat, saved : Nat, undo : U, named : BOOLEAN, open : BOOLEAN]
<1>1. b \in B /\ undo \in U
  BY DEF Buffers
<1> HIDE DEF U
<1>2. Bumped(b) \in B
  <2>1. b.mod + 1 \in Nat
    BY <1>1
  <2> QED
    BY <1>1, <2>1 DEF Bumped
<1>3. [Bumped(b) EXCEPT !.text = text] \in B
  BY <1>2
<1>4. [Bumped(b) EXCEPT !.text = text, !.undo = undo] \in B
  BY <1>1, <1>2
<1>5. B = Buffers
  BY DEF U, Buffers
<1> QED
  BY <1>3, <1>4, <1>5

LEMMA EditorTypes ==
    ASSUME Types, Editor
    PROVE  Types'
<1> DEFINE R == [mod : Nat, text : Contents]
<1>1. HandTypes /\ disk' = disk /\ "editor" \in Threads
  BY DEF Types, HandTypes, Editor, diskVars, Threads
<1>2. /\ buf.text \in Contents /\ buf.mod \in Nat /\ buf.saved \in Nat /\ buf.undo \in Seq(R)
      /\ buf.named \in BOOLEAN /\ buf.open \in BOOLEAN
      /\ hand["editor"].got \in Contents /\ job["editor"] \in Seq(Calls)
  BY DEF Types, Buffers, Threads
<1>3. texts' \in Nat /\ Whole(texts') \in Contents
  BY DEF Types, Editor, EditorStep, Visit, RemoveTrailingWhitespace, Saved, CreateBuffer,
         CreateBufferForFile, Edit, Undo, DoSave, KillBuffer, Whole, Contents, Parts
<1>4. job' \in [Threads -> Seq(Calls)]
  <2>1. UNCHANGED job \/ Continue("editor") \/ CreateBufferForFile \/ DoSave
    BY DEF Editor, EditorStep, Visit, RemoveTrailingWhitespace, Saved, CreateBuffer, Edit,
           Undo, KillBuffer
  <2>2. FileContents("file") \o <<Do("visit", "file")>> \in Seq(Calls) /\ SaveCalls \in Seq(Calls)
    BY Jobs
  <2>3. job["editor"] # <<>> => Tail(job["editor"]) \in Seq(Calls)
    BY <1>1, FileIsName
  <2>4. Continue("editor") /\ ~CreateBufferForFile /\ ~DoSave /\ job' # job
           => job["editor"] # <<>>
    BY DEF Editor, EditorStep, Visit, RemoveTrailingWhitespace, Saved, Next_, CreateBuffer, Edit,
           Undo, KillBuffer
  <2> QED
    BY <2>1, <2>2, <2>3, <2>4 DEF Types, Continue, CreateBufferForFile, DoSave, OnlyEditor
<1>5. buf' \in Buffers
  <2>0. buf \in Buffers
    BY DEF Types
  <2>1. CASE CreateBuffer \/ CreateBufferForFile \/ DoSave \/ KillBuffer
    BY <2>1, NoneIsTyped
       DEF CreateBuffer, CreateBufferForFile, DoSave, KillBuffer, editVars, Types, Buffers
  <2>2. CASE Visit
    BY <1>2, <2>2, NoneIsTyped DEF Visit, Buffers
  <2>3. CASE RemoveTrailingWhitespace
    BY <1>2, <1>3, <2>0, <2>3, BufferWith DEF RemoveTrailingWhitespace
  <2>4. CASE Saved
    BY <1>2, <2>4 DEF Saved, Types, Buffers
  <2>5. CASE Edit
    <3>1. [mod |-> buf.mod, text |-> buf.text] \in R
      BY <1>2
    <3>2. Append(buf.undo, [mod |-> buf.mod, text |-> buf.text]) \in Seq(R)
      BY <1>2, <3>1
    <3>3. buf' = [Bumped(buf) EXCEPT !.text = Whole(texts'),
                    !.undo = Append(buf.undo, [mod |-> buf.mod, text |-> buf.text])]
      BY <2>0, <2>5 DEF Edit, Bumped, Buffers
    <3> QED
      BY <1>3, <2>0, <3>2, <3>3, BufferWith
  <2>6. CASE Undo
    <3> DEFINE rec == buf.undo[Len(buf.undo)]
    <3>1. buf.undo \in Seq(R) /\ buf.undo # <<>>
      BY <1>2, <2>6 DEF Undo
    <3> HIDE DEF R
    <3>2. rec \in R /\ SubSeq(buf.undo, 1, Len(buf.undo) - 1) \in Seq(R)
      BY <3>1
    <3> USE DEF R
    <3>3. rec.text \in Contents /\ rec.mod \in Nat
      BY <3>2
    <3> QED
      BY <1>2, <2>6, <3>2, <3>3 DEF Undo, Types, Buffers
  <2> QED
    BY <2>1, <2>2, <2>3, <2>4, <2>5, <2>6 DEF Editor, EditorStep
<1>6. HandTypes'
  <2>1. CASE UNCHANGED hand \/ Drops("editor")
    BY <1>1, <2>1, HandSteps
  <2>2. CASE RemoveTrailingWhitespace
    <3>1. buf'.text \in Contents
      BY <1>5 DEF Buffers
    <3> QED
      BY <1>1, <2>2, <3>1, HandSteps DEF RemoveTrailingWhitespace
  <2> QED
    BY <2>1, <2>2 DEF Editor, EditorStep, Visit, Saved, CreateBuffer, CreateBufferForFile, Edit,
                      Undo, DoSave, KillBuffer
<1> QED
  BY <1>1, <1>3, <1>4, <1>5, <1>6 DEF Types, HandTypes

LEMMA ReplTypes == ASSUME Types, Repl PROVE Types'
<1>1. HandTypes /\ "repl" \in Threads
  BY DEF Types, HandTypes, Threads
<1>2. UNCHANGED <<texts, disk, buf>>
  BY DEF Repl, diskVars, editVars
<1>3. job' \in [Threads -> Seq(Calls)]
  <2>1. FileContents("file") \o <<Do("lines", "file"), Do("time", "file")>> \in Seq(Calls)
    BY Jobs
  <2>2. CASE Lines \/ OsFileWriteTime
    BY <1>1, <2>2, FileIsName DEF Lines, OsFileWriteTime, Next_, Continue, Types
  <2>3. CASE MaybeLoadGlossary
    BY <2>1, <2>3 DEF MaybeLoadGlossary, Types
  <2> QED
    BY <2>2, <2>3 DEF Repl, ReplStep
<1>4. HandTypes'
  BY <1>1, HandSteps DEF Repl, ReplStep, MaybeLoadGlossary, Lines, OsFileWriteTime
<1> QED
  BY <1>2, <1>3, <1>4 DEF Types, HandTypes

LEMMA NextTypes == ASSUME Types, [Next]_vars PROVE Types'
<1>1. CASE \/ (Start \/ Boot \/ OsAcceptString) /\ UNCHANGED savingVars
           \/ Tick \/ UNCHANGED vars
  <2>1. UNCHANGED <<texts, disk, job, hand, buf>>
    BY <1>1 DEF savingVars, vars, Tick, diskVars, editVars
  <2> QED
    BY <2>1 DEF Types
<1>2. ASSUME NEW t \in Threads, SignalHandler(t) PROVE Types'
  <2>1. HandTypes'
    BY <1>2, HandSteps DEF SignalHandler, GiveUp, Types, HandTypes
  <2>2. UNCHANGED <<texts, disk>> /\ job' = [job EXCEPT ![t] = <<>>] /\ buf' \in {NoBuffer, buf}
    BY <1>2 DEF SignalHandler, GiveUp, diskVars
  <2>3. job' \in [Threads -> Seq(Calls)] /\ buf' \in Buffers
    BY <2>2, NoneIsTyped DEF Types
  <2> QED
    BY <2>1, <2>2, <2>3 DEF Types, HandTypes
<1>3. CASE End
  <2>1. /\ UNCHANGED <<texts, disk>> /\ job' = [t \in Threads |-> <<>>] /\ buf' = NoBuffer
        /\ hand' = [t \in Threads |-> Hand]
    BY <1>3 DEF End, Gone, diskVars
  <2>2. job' \in [Threads -> Seq(Calls)]
    BY <2>1
  <2> QED
    BY <2>1, <2>2, NoneIsTyped DEF Types, Hand, Fields
<1> QED
  BY <1>1, <1>2, <1>3, CallTypes, EditorTypes, ReplTypes DEF Next

----------------------------------------------------------------------------
(* The results.                                                            *)
LEMMA Invariance == Spec => [](Types /\ Safe)
<1>1. Init => Types /\ Safe
  BY InitIsSafe
<1>2. Types /\ Safe /\ [Next]_vars => (Types /\ Safe)'
  BY NextTypes, NextIsSafe
<1> QED
  BY <1>1, <1>2, PTL DEF Spec

\* A save of a buffer to the file it was read from never loses both versions: until the
\* next save, whatever call fails, wherever a thread faults or the process ends and is
\* started again, the file or its backup is what the file was (do-save, copy-file).
THEOREM SavesAreSafe == Spec => []SaveKeepsAVersion
<1>1. Types /\ Safe => SaveKeepsAVersion
  BY DEF Safe
<1> QED
  BY <1>1, Invariance, PTL

\* A named buffer that is shown as not modified has the text of its file, unless a save
\* has failed or an undo past the last save was edited away (mod-count, undo1, do-save).
THEOREM UnmodifiedIsOnDisk == Spec => []NotModifiedMeansSaved
<1>1. Types /\ Safe => NotModifiedMeansSaved
  BY DEF Safe, UndoInv, MatchesFile, NotModifiedMeansSaved, Modified, AtRest, At, Idle
<1> QED
  BY <1>1, Invariance, PTL

\* A glossary whose time is the file's is the file, unless the file was written while it was
\* read or in the second of its time (maybe-load-glossary).
THEOREM GlossaryIsTheFile == Spec => []GlossaryIsFresh
<1>1. Types /\ Safe => GlossaryIsFresh
  BY DEF Safe, ReplInv, FreshInv, ReadInv, GlossaryIsFresh, Idle
<1> QED
  BY <1>1, Invariance, PTL
=============================================================================
