-------------------------- MODULE AtomicFileProofs --------------------------
(***************************************************************************)
(* What TLAPS proves of AtomicFile for writers that take turns: whatever   *)
(* the documents, the failing system calls, the deaths and the power       *)
(* losses, the target is never torn, changes only to a complete document,  *)
(* and holds what a save reported.                                         *)
(***************************************************************************)
EXTENDS AtomicFile, SequenceTheorems, TLAPS

\* The files that the target name leads to, or may lead to after a power loss,
\* are complete and on the disk, and the staging file is none of them.
PastComplete ==
    /\ target \in past /\ past \subseteq File
    /\ \A f \in past : file[f].blocks \in Document /\ file[f].synced
    /\ tmp \in (File \cup {NoFile}) \ past

\* The blocks are the first n of document d.
FirstBlocks(blocks, d, n) ==
    blocks \in [1..n -> Range(d)] /\ \A j \in 1..n : blocks[j] = d[j]

\* A writer has the staging file to itself, and what it has written is its
\* document so far; all of it, and on the disk, when the rename comes.
Staged(w) ==
    /\ pc[w] \in {"write", "sync"} => fd[w] = tmp /\ tmp # NoFile
    /\ pc[w] = "write" => /\ at[w] \in Nat /\ at[w] < Len(doc[w])
                          /\ FirstBlocks(file[tmp].blocks, doc[w], at[w])
    /\ pc[w] = "sync" => file[tmp].blocks = doc[w]
    /\ pc[w] = "rename" =>
         tmp # NoFile /\ file[tmp].blocks = doc[w] /\ file[tmp].synced

Shape ==
    /\ DOMAIN file = File
    /\ \A f \in File : DOMAIN file[f] = {"blocks", "synced"}
    /\ DOMAIN pc = Writer /\ DOMAIN fd = Writer /\ DOMAIN at = Writer
    /\ doc \in [Writer -> Document]
    /\ deaths \in Nat

OneSaves == \A v, w \in Writer : pc[v] # "idle" /\ pc[w] # "idle" => v = w

Inv == Shape /\ PastComplete /\ OneSaves /\ \A w \in Writer : Staged(w)
-----------------------------------------------------------------------------
(* Documents.                                                              *)

\* A document has blocks, and is the function that lists them.
LEMMA DocumentBlocks ==
    ASSUME NEW d \in Document
    PROVE  Len(d) \in Nat \ {0} /\ d \in [1..Len(d) -> Range(d)]
BY FileAssumption, LenProperties, EmptySeq

\* A function on 1..n is a sequence of n blocks.
LEMMA FunctionLength ==
    ASSUME NEW S, NEW n \in Nat, NEW s \in [1..n -> S] PROVE Len(s) = n
<1>1. s \in Seq(S)
  BY SeqDef
<1>2. Len(s) \in Nat /\ DOMAIN s = 1..Len(s)
  BY <1>1, LenProperties
<1> QED BY <1>2

\* One block more.
LEMMA BlockWritten ==
    ASSUME NEW d \in Document, NEW n \in Nat, n < Len(d), NEW b, FirstBlocks(b, d, n)
    PROVE  FirstBlocks(Overwritten(b, n + 1, d[n + 1]), d, n + 1)
<1>1. Len(b) = n
  BY FunctionLength DEF FirstBlocks
<1>2. Len(d) \in Nat /\ d \in [1..Len(d) -> Range(d)]
  BY DocumentBlocks
<1> HIDE DEF Range
<1>3. Overwritten(b, n + 1, d[n + 1]) =
        [j \in 1..(n + 1) |-> IF j = n + 1 THEN d[n + 1]
                              ELSE IF j <= n THEN b[j] ELSE Hole]
  BY <1>1 DEF Overwritten
<1>4. \A j \in 1..(n + 1) :
        (IF j = n + 1 THEN d[n + 1] ELSE IF j <= n THEN b[j] ELSE Hole) = d[j]
        /\ d[j] \in Range(d)
  BY <1>2 DEF FirstBlocks
<1> QED BY <1>3, <1>4 DEF FirstBlocks

\* The last block.
LEMMA AllWritten ==
    ASSUME NEW d \in Document, NEW b, FirstBlocks(b, d, Len(d)) PROVE b = d
BY DocumentBlocks DEF FirstBlocks
-----------------------------------------------------------------------------
(* Steps.                                                                  *)

\* No name leads to the file that is none.
LEMMA NoFileIsNone == NoFile \notin File
BY FileAssumption DEF File

\* The initial states.
LEMMA InitInv == Init => Inv
<1> SUFFICES ASSUME Init PROVE Inv
  OBVIOUS
<1>1. PICK d \in Document : file = [f \in File |-> [blocks |-> d, synced |-> TRUE]]
  BY DEF Init
<1>2. 0 \in File /\ NoFile \notin File
  BY FileAssumption DEF File
<1>3. PastComplete
  BY <1>1, <1>2 DEF Init, PastComplete
<1>4. Shape
  BY <1>1, <1>2 DEF Init, Shape
<1> QED BY <1>3, <1>4 DEF Init, Inv, OneSaves, Staged

\* While a writer saves, the others rest.
LEMMA OthersIdle ==
    ASSUME Inv, NEW w \in Writer, pc[w] # "idle"
    PROVE  \A v \in Writer : v # w => pc[v] = "idle"
BY DEF Inv, OneSaves

\* A step of writer w leaves the others where they are.
LEMMA GotoEffect ==
    ASSUME Inv, NEW w \in Writer, NEW label, Goto(w, label)
    PROVE  /\ DOMAIN pc' = Writer /\ pc'[w] = label
           /\ \A v \in Writer : v # w => pc'[v] = pc[v]
BY DEF Inv, Shape, Goto

\* What is left to show of a writer's step, when it ends in what `Staged` asks
\* of that writer: the others stay idle.
LEMMA WriterStep ==
    ASSUME Inv, NEW w \in Writer, NEW label, Goto(w, label),
           \A v \in Writer : v # w => pc[v] = "idle",
           Shape', PastComplete', Staged(w)'
    PROVE  Inv'
<1>1. /\ pc'[w] = label
      /\ \A v \in Writer : v # w => pc'[v] = "idle"
  BY GotoEffect
<1>2. OneSaves'
  BY <1>1 DEF OneSaves
<1>3. \A v \in Writer : Staged(v)'
  BY <1>1 DEF Staged
<1> QED BY <1>2, <1>3 DEF Inv

\* A sync changes nothing but the mark.
LEMMA SyncedRecord ==
    ASSUME NEW r, DOMAIN r = {"blocks", "synced"}
    PROVE  /\ [r EXCEPT !.synced = TRUE].blocks = r.blocks
           /\ [r EXCEPT !.synced = TRUE].synced = TRUE
           /\ DOMAIN [r EXCEPT !.synced = TRUE] = {"blocks", "synced"}
OBVIOUS

\* Every step preserves the invariant.
LEMMA NextInv == ASSUME TakeTurns = TRUE, Inv, [Next]_vars PROVE Inv'
<1>0. Shape /\ PastComplete /\ OneSaves /\ \A w \in Writer : Staged(w)
  BY DEF Inv
<1>1. ASSUME NEW w \in Writer, Save(w) PROVE Inv'
  <2>1. \A v \in Writer : pc[v] = "idle"
    BY <1>1 DEF Save, Idle
  <2>2. Goto(w, "create")
    BY <1>1 DEF Save
  <2>3. Shape'
    BY <1>0, <1>1, <2>2, GotoEffect DEF Save, Shape
  <2>4. PastComplete'
    BY <1>0, <1>1 DEF Save, PastComplete
  <2>5. Staged(w)'
    BY <2>2, GotoEffect DEF Staged
  <2> QED BY <2>1, <2>2, <2>3, <2>4, <2>5, WriterStep
<1>2. ASSUME NEW w \in Writer, Create(w) PROVE Inv'
  <2>1. pc[w] = "create" /\ Goto(w, "write") /\ at' = [at EXCEPT ![w] = 0]
        /\ UNCHANGED <<target, past, doc, saves, deaths>>
    BY <1>2 DEF Create
  <2>2. PICK f \in IF tmp = NoFile THEN Unused ELSE {tmp} :
          /\ file' = [file EXCEPT ![f] = [blocks |-> <<>>, synced |-> FALSE]]
          /\ tmp' = f /\ fd' = [fd EXCEPT ![w] = f]
    BY <1>2 DEF Create
  <2>3. f \in File \ past /\ f # NoFile
    BY <1>0, <2>2, FileAssumption DEF PastComplete, Unused, File
  <2>4. Shape'
    BY <1>0, <2>1, <2>2, <2>3, GotoEffect DEF Shape
  <2>5. PastComplete'
    BY <1>0, <2>1, <2>2, <2>3 DEF PastComplete, Shape
  <2>6. pc'[w] = "write" /\ at'[w] = 0 /\ fd'[w] = f /\ file'[f].blocks = <<>>
        /\ doc'[w] = doc[w] /\ doc[w] \in Document
    BY <1>0, <2>1, <2>2, <2>3, GotoEffect DEF Shape
  <2>7. FirstBlocks(<<>>, doc[w], 0)
    BY DEF FirstBlocks
  <2>8. Staged(w)'
    BY <2>2, <2>3, <2>6, <2>7, DocumentBlocks DEF Staged
  <2> QED BY <2>1, <2>4, <2>5, <2>8, OthersIdle, WriterStep
<1>3. ASSUME NEW w \in Writer, WriteBlock(w) PROVE Inv'
  <2> DEFINE i == at[w] + 1
             label == IF i = Len(doc[w]) THEN "sync" ELSE "write"
             blocks == Overwritten(file[tmp].blocks, i, doc[w][i])
  <2>1. /\ pc[w] = "write" /\ fd[w] = tmp /\ tmp \in File \ past /\ tmp # NoFile
        /\ at[w] \in Nat /\ at[w] < Len(doc[w])
        /\ FirstBlocks(file[tmp].blocks, doc[w], at[w])
        /\ doc[w] \in Document
    BY <1>0, <1>3 DEF WriteBlock, Staged, PastComplete, Shape
  <2>2. /\ file' = [file EXCEPT ![tmp] = [blocks |-> blocks, synced |-> FALSE]]
        /\ at' = [at EXCEPT ![w] = i] /\ Goto(w, label)
        /\ UNCHANGED <<target, tmp, past, doc, fd, saves, deaths>>
    BY <1>3, <2>1 DEF WriteBlock
  <2>3. FirstBlocks(blocks, doc[w], i)
    BY <2>1, BlockWritten
  <2>4. Len(doc[w]) \in Nat
    BY <2>1, DocumentBlocks
  <2>5. i = Len(doc[w]) => blocks = doc[w]
    BY <2>1, <2>3, AllWritten
  <2> HIDE DEF blocks
  <2>6. Shape'
    BY <1>0, <2>1, <2>2, GotoEffect DEF Shape
  <2>7. PastComplete'
    BY <1>0, <2>1, <2>2 DEF PastComplete, Shape
  <2>8. pc'[w] = label /\ at'[w] = i /\ file'[tmp].blocks = blocks
    BY <1>0, <2>1, <2>2, GotoEffect DEF Shape
  <2>9. i \in Nat /\ (i # Len(doc[w]) => i < Len(doc[w]))
    BY <2>1, <2>4
  <2>10. Staged(w)'
    BY <2>1, <2>2, <2>3, <2>5, <2>8, <2>9 DEF Staged
  <2> QED BY <2>1, <2>2, <2>6, <2>7, <2>10, OthersIdle, WriterStep
<1>4. ASSUME NEW w \in Writer, Sync(w) PROVE Inv'
  <2>1. /\ pc[w] = "sync" /\ fd[w] = tmp /\ tmp \in File \ past /\ tmp # NoFile
        /\ file[tmp].blocks = doc[w]
    BY <1>0, <1>4 DEF Sync, Staged, PastComplete
  <2>2. /\ file' = [file EXCEPT ![tmp].synced = TRUE] /\ Goto(w, "rename")
        /\ UNCHANGED <<target, tmp, past, doc, fd, at, saves, deaths>>
    BY <1>4, <2>1 DEF Sync
  <2>3. /\ \A f \in File : f # tmp => file'[f] = file[f]
        /\ file'[tmp].blocks = file[tmp].blocks /\ file'[tmp].synced
        /\ DOMAIN file'[tmp] = {"blocks", "synced"}
    <3>1. file'[tmp] = [file[tmp] EXCEPT !.synced = TRUE]
      BY <1>0, <2>1, <2>2 DEF Shape
    <3>2. DOMAIN file[tmp] = {"blocks", "synced"}
      BY <1>0, <2>1 DEF Shape
    <3> QED BY <1>0, <2>1, <2>2, <3>1, <3>2, SyncedRecord DEF Shape
  <2>4. Shape'
    BY <1>0, <2>1, <2>2, <2>3, GotoEffect DEF Shape
  <2>5. PastComplete'
    BY <1>0, <2>1, <2>2, <2>3 DEF PastComplete, Shape
  <2>6. Staged(w)'
    BY <1>0, <2>1, <2>2, <2>3, GotoEffect DEF Staged, Shape
  <2> QED BY <2>1, <2>2, <2>4, <2>5, <2>6, OthersIdle, WriterStep
<1>5. ASSUME NEW w \in Writer, Rename(w) PROVE Inv'
  <2>1. /\ pc[w] = "rename" /\ tmp # NoFile /\ tmp \in File \ past
        /\ file[tmp].blocks = doc[w] /\ file[tmp].synced /\ doc[w] \in Document
    BY <1>0, <1>5 DEF Rename, Staged, PastComplete, Shape
  <2>2. /\ target' = tmp /\ past' = past \cup {tmp} /\ tmp' = NoFile
        /\ Goto(w, "idle") /\ UNCHANGED <<file, doc, fd, at, saves, deaths>>
    BY <1>5, <2>1 DEF Rename
  <2>3. Shape'
    BY <1>0, <2>2, GotoEffect DEF Shape
  <2>4. PastComplete'
    BY <1>0, <2>1, <2>2, NoFileIsNone DEF PastComplete
  <2>5. Staged(w)'
    BY <2>2, GotoEffect DEF Staged
  <2> QED BY <2>1, <2>2, <2>3, <2>4, <2>5, OthersIdle, WriterStep
<1>6. ASSUME NEW w \in Writer, Fail(w) \/ RemoveStaged(w) PROVE Inv'
  <2>1. /\ pc[w] # "idle" /\ (Goto(w, "remove") \/ Goto(w, "idle"))
        /\ tmp' \in {tmp, NoFile}
        /\ UNCHANGED <<file, target, past, doc, fd, at, saves, deaths>>
    BY <1>6 DEF Fail, RemoveStaged
  <2>2. Shape'
    BY <1>0, <2>1, GotoEffect DEF Shape
  <2>3. PastComplete'
    BY <1>0, <2>1, NoFileIsNone DEF PastComplete
  <2>4. Staged(w)'
    BY <2>1, GotoEffect DEF Staged
  <2> QED BY <2>1, <2>2, <2>3, <2>4, OthersIdle, WriterStep
<1>7. ASSUME pc' = [w \in Writer |-> "idle"], Shape', PastComplete' PROVE Inv'
  BY <1>7 DEF Inv, OneSaves, Staged
<1>8. CASE Die
  <2>1. Shape' /\ PastComplete'
    BY <1>0, <1>8 DEF Die, Shape, PastComplete
  <2> QED BY <1>7, <1>8, <2>1 DEF Die
<1>9. CASE LosePower
  <2>1. PICK kept : file' = [f \in File |->
                    [blocks |-> IF file[f].synced \/ kept > Len(file[f].blocks)
                                THEN file[f].blocks
                                ELSE SubSeq(file[f].blocks, 1, kept),
                     synced |-> TRUE]]
    BY <1>9 DEF LosePower
  <2>2. \A f \in past : file'[f].blocks = file[f].blocks /\ file'[f].synced
    BY <1>0, <2>1 DEF PastComplete
  <2>3. PastComplete'
    BY <1>0, <1>9, <2>2 DEF LosePower, PastComplete
  <2>4. Shape'
    BY <1>0, <1>9, <2>1 DEF LosePower, Shape
  <2> QED BY <1>7, <1>9, <2>3, <2>4 DEF LosePower
<1>10. CASE UNCHANGED vars
  BY <1>10 DEF vars, Inv, Shape, PastComplete, OneSaves, Staged
<1> QED BY <1>1, <1>2, <1>3, <1>4, <1>5, <1>6, <1>8, <1>9, <1>10 DEF Next, Step, Quiet

\* The invariant holds in every state, for writers that take turns.
THEOREM InvHolds == ASSUME TakeTurns = TRUE PROVE Spec => []Inv
<1>1. Inv /\ [Next]_vars => Inv'
  BY NextInv
<1> QED BY InitInv, <1>1, PTL DEF Spec

\* The target is always a complete document, also after a death or power loss.
THEOREM TurnsNeverTear == ASSUME TakeTurns = TRUE PROVE Spec => []NeverTorn
<1>1. Inv => NeverTorn
  BY DEF Inv, PastComplete, NeverTorn, Content
<1> QED BY InvHolds, <1>1, PTL

\* What the target holds changes only by a rename, to the document saved, or
\* back by a power loss.
THEOREM TurnsAreOldOrNew == ASSUME TakeTurns = TRUE PROVE Spec => OldOrNew
<1> DEFINE A == Content' # Content =>
                  \/ \E w \in Writer : pc[w] = "rename" /\ Content' = doc[w]
                  \/ \E f \in past : Content' = file[f].blocks
<1>1. ASSUME Inv, [Next]_vars PROVE A
  <2>0. Shape /\ PastComplete /\ \A w \in Writer : Staged(w)
    BY <1>1 DEF Inv
  <2>1. ASSUME NEW w \in Writer, Create(w) PROVE A
    <3>1. PICK f \in IF tmp = NoFile THEN Unused ELSE {tmp} :
            file' = [file EXCEPT ![f] = [blocks |-> <<>>, synced |-> FALSE]]
      BY <2>1 DEF Create
    <3>2. f # target /\ target' = target
      BY <2>0, <2>1 DEF Create, PastComplete, Unused
    <3> QED BY <2>0, <3>1, <3>2 DEF Content, Shape, PastComplete
  <2>2. ASSUME NEW w \in Writer, WriteBlock(w) \/ Sync(w) PROVE A
    <3>1. fd[w] # target /\ target' = target
      BY <2>0, <2>2 DEF WriteBlock, Sync, Staged, PastComplete
    <3>2. file'[target] = file[target]
      BY <2>0, <2>2, <3>1 DEF WriteBlock, Sync, Shape, PastComplete
    <3> QED BY <3>1, <3>2 DEF Content
  <2>3. ASSUME NEW w \in Writer, Rename(w) PROVE A
    BY <2>0, <2>3 DEF Rename, Content, Staged
  <2>4. ASSUME NEW w \in Writer, Save(w) \/ Fail(w) \/ RemoveStaged(w) PROVE A
    BY <2>4 DEF Save, Fail, RemoveStaged, Content
  <2>5. CASE LosePower
    <3>1. target' \in past /\ target' \in File
      BY <2>0, <2>5 DEF LosePower, PastComplete
    <3>2. file'[target'].blocks = file[target'].blocks
      BY <2>0, <2>5, <3>1 DEF LosePower, PastComplete
    <3> QED BY <3>1, <3>2 DEF Content
  <2>6. CASE Die \/ UNCHANGED vars
    BY <2>6 DEF Die, vars, Content
  <2> QED BY <1>1, <2>1, <2>2, <2>3, <2>4, <2>5, <2>6 DEF Next, Step, Quiet
<1>2. Inv /\ [Next]_vars => [A]_vars
  BY <1>1
<1> QED BY InvHolds, <1>2, PTL DEF Spec, OldOrNew

\* What a save reports to have saved is in the target.
THEOREM TurnsLast == ASSUME TakeTurns = TRUE PROVE Spec => SaveLasts
<1> DEFINE A == \A w \in Writer :
                  pc[w] = "rename" /\ pc'[w] = "idle" /\ deaths' = deaths
                    => Content' = doc[w]
<1>1. ASSUME Inv, [Next]_vars, NEW w \in Writer,
             pc[w] = "rename", pc'[w] = "idle", deaths' = deaths
      PROVE  Content' = doc[w]
  <2>0. Shape /\ PastComplete /\ \A v \in Writer : Staged(v)
    BY <1>1 DEF Inv
  <2>1. \A v \in Writer : v # w => pc[v] = "idle"
    BY <1>1, OthersIdle
  <2>2. ~Die /\ ~LosePower
    BY <1>1, <2>0 DEF Die, LosePower, Shape
  <2>3. ASSUME NEW v \in Writer, Save(v) \/ Step(v) PROVE v = w
    <3>1. ~Save(v)
      BY <1>1 DEF Save, Idle
    <3>2. pc[v] # "idle"
      BY <2>3, <3>1 DEF Step, Create, WriteBlock, Sync, Rename, Fail, RemoveStaged
    <3> QED BY <2>1, <3>2
  <2>4. Rename(w)
    <3>1. \E v \in Writer : Save(v) \/ Step(v)
      BY <1>1, <2>2 DEF Next, Quiet, vars
    <3>2. Save(w) \/ Step(w)
      BY <2>3, <3>1
    <3> QED BY <1>1, <3>2, <2>0
         DEF Step, Save, Create, WriteBlock, Sync, Fail, RemoveStaged, Goto, Shape
  <2> QED BY <1>1, <2>0, <2>4 DEF Rename, Staged, Content
<1>2. Inv /\ [Next]_vars => [A]_vars
  BY <1>1
<1> QED BY InvHolds, <1>2, PTL DEF Spec, SaveLasts
-----------------------------------------------------------------------------
(* Type correctness, also of writers that share the staging file.          *)

Block == {Hole} \cup UNION {Range(d) : d \in Document}

\* Before its last block is written, a writer has not written all of them.
Types ==
    /\ file \in [File -> [blocks : Seq(Block), synced : BOOLEAN]]
    /\ target \in past /\ past \subseteq File
    /\ tmp \in (File \cup {NoFile}) \ {target}
    /\ doc \in [Writer -> Document] /\ fd \in [Writer -> File]
    /\ at \in [Writer -> Nat] /\ DOMAIN pc = Writer
    /\ \A w \in Writer : /\ pc[w] = "write" => at[w] < Len(doc[w])
                         /\ pc[w] = "sync" => at[w] <= Len(doc[w])

\* A document is a sequence of blocks.
LEMMA DocumentType == ASSUME NEW d \in Document PROVE d \in Seq(Block)
<1>1. d \in [1..Len(d) -> Range(d)] /\ Range(d) \subseteq Block /\ Len(d) \in Nat
  BY DocumentBlocks DEF Block
<1> HIDE DEF Range, Block
<1>2. d \in [1..Len(d) -> Block]
  BY <1>1
<1> QED BY <1>1, <1>2, SeqDef

\* The blocks of a file stay a sequence of blocks when one is written, wherever, and
\* what a loader reads of it is blocks.
LEMMA OverwrittenType ==
    ASSUME NEW b \in Seq(Block), NEW i \in Nat \ {0}, NEW x \in Block
    PROVE  Overwritten(b, i, x) \in Seq(Block)
<1> DEFINE n == IF i > Len(b) THEN i ELSE Len(b)
<1>1. n \in Nat /\ Len(b) \in Nat /\ b \in [1..Len(b) -> Block]
  BY LenProperties
<1>2. Hole \in Block
  BY DEF Block
<1> HIDE DEF n, Block
<1>3. Overwritten(b, i, x)
        = [j \in 1..n |-> IF j = i THEN x ELSE IF j <= Len(b) THEN b[j] ELSE Hole]
  BY DEF Overwritten, n
<1>4. \A j \in 1..n :
        (IF j = i THEN x ELSE IF j <= Len(b) THEN b[j] ELSE Hole) \in Block
  BY <1>1, <1>2
<1>5. Overwritten(b, i, x) \in [1..n -> Block]
  BY <1>3, <1>4
<1> QED BY <1>1, <1>5, SeqDef

\* What is left of a file after a power loss is a sequence of blocks.
LEMMA KeptType ==
    ASSUME NEW b \in Seq(Block), NEW m, NEW kept \in 0..m, ~(kept > Len(b))
    PROVE  SubSeq(b, 1, kept) \in Seq(Block)
<1>1. kept \in 0..Len(b) /\ Len(b) \in Nat
  BY LenProperties
<1> HIDE DEF Block
<1> QED BY <1>1, SubSeqProperties

\* Every step keeps the types.
LEMMA TypesStep == Types /\ [Next]_vars => Types'
<1> SUFFICES ASSUME Types, [Next]_vars PROVE Types'
  OBVIOUS
<1> HIDE DEF Block
<1>0. /\ 0 \in Nat /\ NoFile \notin File
      /\ <<>> \in Seq(Block)
      /\ \A d \in Document : Len(d) \in Nat \ {0}
  BY NoFileIsNone, DocumentBlocks
<1>1. ASSUME NEW w \in Writer, Save(w) PROVE Types'
  BY <1>1 DEF Save, Goto, Types
<1>2. ASSUME NEW w \in Writer, Create(w) PROVE Types'
  <2>1. PICK f \in IF tmp = NoFile THEN Unused ELSE {tmp} :
          /\ file' = [file EXCEPT ![f] = [blocks |-> <<>>, synced |-> FALSE]]
          /\ tmp' = f /\ fd' = [fd EXCEPT ![w] = f]
    BY <1>2 DEF Create
  <2>2. f \in File \ {target}
    BY <2>1 DEF Types, Unused
  <2>3. file' \in [File -> [blocks : Seq(Block), synced : BOOLEAN]]
    BY <1>0, <2>1, <2>2 DEF Types
  <2>4. /\ at' = [at EXCEPT ![w] = 0] /\ pc' = [pc EXCEPT ![w] = "write"]
        /\ UNCHANGED <<target, past, doc>>
    BY <1>2 DEF Create, Goto
  <2>5. 0 < Len(doc[w])
    BY <1>0 DEF Types
  <2> QED BY <1>0, <2>1, <2>2, <2>3, <2>4, <2>5 DEF Types
<1>3. ASSUME NEW w \in Writer, WriteBlock(w) PROVE Types'
  <2> DEFINE i == at[w] + 1
             b == Overwritten(file[fd[w]].blocks, i, doc[w][i])
  <2>1. pc[w] = "write" /\ at[w] \in Nat /\ at[w] < Len(doc[w]) /\ doc[w] \in Document
        /\ fd[w] \in File /\ file[fd[w]].blocks \in Seq(Block)
    BY <1>3 DEF WriteBlock, Types
  <2>2. doc[w] \in Seq(Block) /\ Len(doc[w]) \in Nat
    BY <1>0, <2>1, DocumentType
  <2>3. i \in Nat \ {0} /\ i <= Len(doc[w])
    BY <2>1, <2>2
  <2>4. doc[w][i] \in Block
    BY <2>2, <2>3, ElementOfSeq
  <2>5. b \in Seq(Block)
    BY <2>1, <2>3, <2>4, OverwrittenType
  <2>6. /\ file' = [file EXCEPT ![fd[w]] = [blocks |-> b, synced |-> FALSE]]
        /\ at' = [at EXCEPT ![w] = i]
        /\ pc' = [pc EXCEPT ![w] = IF i = Len(doc[w]) THEN "sync" ELSE "write"]
        /\ UNCHANGED <<target, tmp, past, doc, fd>>
    BY <1>3 DEF WriteBlock, Goto
  <2> HIDE DEF b
  <2>7. file' \in [File -> [blocks : Seq(Block), synced : BOOLEAN]]
    BY <2>1, <2>5, <2>6 DEF Types
  <2>8. /\ pc'[w] = "write" => i < Len(doc[w])
        /\ pc'[w] = "sync" => i <= Len(doc[w])
    BY <2>2, <2>3, <2>6 DEF Types
  <2> QED BY <2>3, <2>6, <2>7, <2>8 DEF Types
<1>4. ASSUME NEW w \in Writer, Sync(w) PROVE Types'
  BY <1>4 DEF Sync, Goto, Types
<1>5. ASSUME NEW w \in Writer, Rename(w) \/ Fail(w) \/ RemoveStaged(w) PROVE Types'
  BY <1>0, <1>5 DEF Rename, Fail, RemoveStaged, Goto, Types
<1>6. CASE Die
  BY <1>6 DEF Die, Types
<1>7. CASE LosePower
  <2>1. PICK kept \in 0..Max({Len(d) : d \in Document}) :
          file' = [f \in File |->
                    [blocks |-> IF file[f].synced \/ kept > Len(file[f].blocks)
                                THEN file[f].blocks
                                ELSE SubSeq(file[f].blocks, 1, kept),
                     synced |-> TRUE]]
    BY <1>7 DEF LosePower
  <2>2. ASSUME NEW f \in File
        PROVE  (IF file[f].synced \/ kept > Len(file[f].blocks) THEN file[f].blocks
                ELSE SubSeq(file[f].blocks, 1, kept)) \in Seq(Block)
    BY KeptType DEF Types
  <2>3. file' \in [File -> [blocks : Seq(Block), synced : BOOLEAN]]
    BY <2>1, <2>2
  <2> QED BY <1>0, <1>7, <2>3 DEF LosePower, Types
<1>8. CASE UNCHANGED vars
  BY <1>8 DEF vars, Types
<1> QED BY <1>1, <1>2, <1>3, <1>4, <1>5, <1>6, <1>7, <1>8 DEF Next, Step, Quiet

\* However many writers share the staging file and wherever they are interrupted, the
\* two names lead to different files, whose blocks were written by some save or are
\* holes, and no writer goes past the end of its document.
THEOREM FilesTyped == Spec => []TypeOK
<1>1. Init => Types
  <2> SUFFICES ASSUME Init PROVE Types
    OBVIOUS
  <2>1. PICK d \in Document : file = [f \in File |-> [blocks |-> d, synced |-> TRUE]]
    BY DEF Init
  <2>2. 0 \in File /\ NoFile \notin File /\ d \in Seq(Block)
    BY FileAssumption, NoFileIsNone, DocumentType DEF File
  <2> QED BY <2>1, <2>2 DEF Init, Types
<1>2. Types /\ [Next]_vars => Types'
  BY TypesStep
<1>3. Types => TypeOK
  <2> SUFFICES ASSUME Types PROVE TypeOK
    OBVIOUS
  <2>1. ASSUME NEW f \in File PROVE Range(file[f].blocks) \subseteq Block
    <3>1. file[f].blocks \in Seq(Block)
      BY DEF Types
    <3> HIDE DEF Block
    <3> QED BY <3>1, ElementOfSeq, LenProperties DEF Range
  <2>2. ASSUME NEW w \in Writer, pc[w] \in {"write", "sync"}
        PROVE  at[w] \in 0..Len(doc[w])
    <3>1. Len(doc[w]) \in Nat /\ at[w] \in Nat
      BY DocumentBlocks DEF Types
    <3> QED BY <2>2, <3>1 DEF Types
  <2> QED BY <2>1, <2>2 DEF Types, TypeOK, Block
<1> QED BY <1>1, <1>2, <1>3, PTL DEF Spec
=============================================================================
