----------------------------- MODULE AtomicFile -----------------------------
(***************************************************************************)
(* write_atomic of atomic_io.rs: a document is staged in a file beside its *)
(* target, synced, and renamed over the target.  The staging file has one  *)
(* name, so writers of one target share it: those of ui_state.json take    *)
(* turns (ui_io), those of config.json need not.                           *)
(*                                                                         *)
(* Names lead to files, and an open file stays the same file when it is    *)
(* renamed or removed; that, what a sync guarantees and what a power loss  *)
(* may undo is the operating system's part.                                *)
(***************************************************************************)
EXTENDS Naturals, SequencesExt

CONSTANTS
    Document,       \* what may be saved: sequences of blocks, each a file that
                    \* its loader accepts
    Hole,           \* a block of a file that nobody has written
    Writer,         \* callers of write_atomic for one target
    NoFile,         \* a name that leads nowhere
    TakeTurns,      \* whether writers hold a lock for the whole save
    DiskMayFail,    \* whether a system call may fail
    MaxSaves,       \* bound: saves begun
    MaxDeaths       \* bound: process deaths and power losses

ASSUME FileAssumption ==
    /\ Document # {} /\ \A d \in Document : d \in Seq(Range(d)) \ {<<>>}
    /\ TakeTurns \in BOOLEAN /\ DiskMayFail \in BOOLEAN
    /\ MaxSaves \in Nat /\ MaxDeaths \in Nat /\ NoFile \notin Nat

\* A file for the target at the start and one for each save.
File == 0..MaxSaves

VARIABLES
    file,           \* file[f]: its blocks, and whether they are on the disk
    target, tmp,    \* the files the two names lead to
    past,           \* the files a power loss may leave the target name with
    pc,             \* pc[w]: where writer w is in write_atomic
    doc,            \* doc[w]: the document it saves
    fd,             \* fd[w]: the file it has open
    at,             \* at[w]: the blocks of it written
    saves, deaths   \* how many so far

vars == <<file, target, tmp, past, pc, doc, fd, at, saves, deaths>>

Idle == \A w \in Writer : pc[w] = "idle"

Goto(w, label) == pc' = [pc EXCEPT ![w] = label]

\* The target's content, as a loader reads it.
Content == file[target].blocks

Init ==
    /\ \E d \in Document : file = [f \in File |-> [blocks |-> d, synced |-> TRUE]]
    /\ target = 0 /\ tmp = NoFile /\ past = {0}
    /\ pc = [w \in Writer |-> "idle"]
    /\ doc = [w \in Writer |-> file[0].blocks]
    /\ fd = [w \in Writer |-> 0] /\ at = [w \in Writer |-> 0]
    /\ saves = 0 /\ deaths = 0

\* The blocks of b with block i replaced: a write past the end leaves holes.
Overwritten(b, i, block) ==
    [j \in 1..(IF i > Len(b) THEN i ELSE Len(b)) |->
        IF j = i THEN block ELSE IF j <= Len(b) THEN b[j] ELSE Hole]
-----------------------------------------------------------------------------
(* write_atomic, one system call at a time.                                *)

Save(w) ==
    /\ pc[w] = "idle"
    /\ TakeTurns => Idle
    /\ saves < MaxSaves /\ saves' = saves + 1
    /\ \E d \in Document : doc' = [doc EXCEPT ![w] = d]
    /\ Goto(w, "create")
    /\ UNCHANGED <<file, target, tmp, past, fd, at, deaths>>

\* A file that no name leads to, nor did before a power loss, and nobody has
\* open.
Unused == File \ ({target, tmp} \cup past \cup
                  {fd[w] : w \in {v \in Writer : pc[v] \in {"write", "sync"}}})

\* Mutant: a staging file left behind is opened as it is.
CreateUntruncated(w) ==
    /\ pc[w] = "create"
    /\ \E f \in IF tmp = NoFile THEN Unused ELSE {tmp} :
         /\ file' = IF tmp = NoFile
                    THEN [file EXCEPT ![f] = [blocks |-> <<>>, synced |-> FALSE]]
                    ELSE file
         /\ tmp' = f
         /\ fd' = [fd EXCEPT ![w] = f]
    /\ at' = [at EXCEPT ![w] = 0]
    /\ Goto(w, "write")
    /\ UNCHANGED <<target, past, doc, saves, deaths>>

\* File::create: the staging file is made, or cut to nothing.
Create(w) ==
    /\ pc[w] = "create"
    /\ \E f \in IF tmp = NoFile THEN Unused ELSE {tmp} :
         /\ file' = [file EXCEPT ![f] = [blocks |-> <<>>, synced |-> FALSE]]
         /\ tmp' = f
         /\ fd' = [fd EXCEPT ![w] = f]
    /\ at' = [at EXCEPT ![w] = 0]
    /\ Goto(w, "write")
    /\ UNCHANGED <<target, past, doc, saves, deaths>>

\* write_all: one block after the other, to the file that is open.
WriteBlock(w) ==
    /\ pc[w] = "write"
    /\ LET i == at[w] + 1
       IN  /\ file' = [file EXCEPT ![fd[w]] =
                         [blocks |-> Overwritten(@.blocks, i, doc[w][i]),
                          synced |-> FALSE]]
           /\ at' = [at EXCEPT ![w] = i]
           /\ Goto(w, IF i = Len(doc[w]) THEN "sync" ELSE "write")
    /\ UNCHANGED <<target, tmp, past, doc, fd, saves, deaths>>

\* Mutant: nothing is flushed.
SyncNothing(w) ==
    /\ pc[w] = "sync"
    /\ Goto(w, "rename")
    /\ UNCHANGED <<file, target, tmp, past, doc, fd, at, saves, deaths>>

Sync(w) ==
    /\ pc[w] = "sync"
    /\ file' = [file EXCEPT ![fd[w]].synced = TRUE]
    /\ Goto(w, "rename")
    /\ UNCHANGED <<target, tmp, past, doc, fd, at, saves, deaths>>

\* Mutant: the target is linked to the staging file, whose name stays.
LinkOver(w) ==
    /\ pc[w] = "rename"
    /\ tmp # NoFile
    /\ target' = tmp /\ past' = past \cup {tmp}
    /\ Goto(w, "idle")
    /\ UNCHANGED <<file, tmp, doc, fd, at, saves, deaths>>

\* The staging file becomes the target, whoever staged it.  It is gone when
\* another writer has renamed or removed it.
Rename(w) ==
    /\ pc[w] = "rename"
    /\ IF tmp = NoFile
       THEN Goto(w, "remove") /\ UNCHANGED <<target, tmp, past>>
       ELSE /\ target' = tmp /\ past' = past \cup {tmp}
            /\ tmp' = NoFile
            /\ Goto(w, "idle")
    /\ UNCHANGED <<file, doc, fd, at, saves, deaths>>

\* Mutant: the error is not looked at.
FailUnnoticed(w) ==
    /\ DiskMayFail
    /\ pc[w] \in {"create", "write", "sync"}
    /\ Goto(w, "rename")
    /\ UNCHANGED <<file, target, tmp, past, doc, fd, at, saves, deaths>>

\* A system call fails.
Fail(w) ==
    /\ DiskMayFail
    /\ pc[w] \in {"create", "write", "sync", "rename"}
    /\ Goto(w, "remove")
    /\ UNCHANGED <<file, target, tmp, past, doc, fd, at, saves, deaths>>

\* The staging file is removed, but when that fails nobody looks.
RemoveStaged(w) ==
    /\ pc[w] = "remove"
    /\ tmp' \in IF DiskMayFail THEN {NoFile, tmp} ELSE {NoFile}
    /\ Goto(w, "idle")
    /\ UNCHANGED <<file, target, past, doc, fd, at, saves, deaths>>

\* The process dies: what it wrote stays, a staging file included.
Die ==
    /\ deaths < MaxDeaths /\ deaths' = deaths + 1
    /\ pc' = [w \in Writer |-> "idle"]
    /\ UNCHANGED <<file, target, tmp, past, doc, fd, at, saves>>

\* The power fails: of what was not synced only a first part may be left, and
\* the renames may be undone.
LosePower ==
    /\ deaths < MaxDeaths /\ deaths' = deaths + 1
    /\ pc' = [w \in Writer |-> "idle"]
    /\ \E kept \in 0..Max({Len(d) : d \in Document}) :
         file' = [f \in File |->
                    [blocks |-> IF file[f].synced \/ kept > Len(file[f].blocks)
                                THEN file[f].blocks
                                ELSE SubSeq(file[f].blocks, 1, kept),
                     synced |-> TRUE]]
    /\ target' \in past
    /\ past' = {target'}
    /\ tmp' \in {tmp, NoFile} \ {target'}
    /\ UNCHANGED <<doc, fd, at, saves>>

Quiet == saves = MaxSaves /\ Idle /\ UNCHANGED vars

Step(w) == \/ Create(w) \/ WriteBlock(w) \/ Sync(w) \/ Rename(w)
           \/ Fail(w) \/ RemoveStaged(w)

Next == \/ \E w \in Writer : Save(w) \/ Step(w)
        \/ Die \/ LosePower
        \/ Quiet

Spec == Init /\ [][Next]_vars
-----------------------------------------------------------------------------
TypeOK ==
    /\ \A f \in File :
         /\ Range(file[f].blocks) \subseteq {Hole} \cup UNION {Range(d) : d \in Document}
         /\ file[f].synced \in BOOLEAN
    /\ target \in past /\ past \subseteq File
    /\ tmp \in (File \cup {NoFile}) \ {target}
    /\ doc \in [Writer -> Document] /\ fd \in [Writer -> File]
    /\ \A w \in Writer : pc[w] \in {"write", "sync"} => at[w] \in 0..Len(doc[w])

\* "A reader always sees either the complete old file or the complete new one,
\* never a torn one", also after the process has died or the power has failed.
NeverTorn == Content \in Document

\* The target changes only to a document whose save is at its rename, or back
\* to what it held before.
OldOrNew ==
    [][Content' # Content =>
          \/ \E w \in Writer : pc[w] = "rename" /\ Content' = doc[w]
          \/ \E f \in past : Content' = file[f].blocks]_vars

\* A save that leaves the staging file to its rename, and is not cut short,
\* ends with its own document in the target: what is reported saved is.
SaveLasts ==
    [][\A w \in Writer :
          pc[w] = "rename" /\ pc'[w] = "idle" /\ deaths' = deaths
              => Content' = doc[w]]_vars
=============================================================================
