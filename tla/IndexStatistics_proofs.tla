----------------------- MODULE IndexStatistics_proofs -----------------------
(* Proofs about IndexStatistics: that what the window counts in the file is true at every
   moment of an index process; for any names, entries, batch size and bound. *)
EXTENDS IndexStatistics, IndexerEngine_proofs

USE DEF memory, file

-----------------------------------------------------------------------------
(* The records of a list of blocks, joined. *)

StringsIn == [b \in Block |-> b.strings]
FoldersIn == [b \in Block |-> b.folders]
FilesIn == [b \in Block |-> b.files]

LEMMA BlockLists ==
    /\ StringsIn \in [Block -> Seq(StringRecord)]
    /\ FoldersIn \in [Block -> Seq(FolderRecord)]
    /\ FilesIn \in [Block -> Seq(FileRecord)]
<1>1. \A b \in Block : /\ b.strings \in Seq(StringRecord) /\ b.folders \in Seq(FolderRecord)
                       /\ b.files \in Seq(FileRecord)
  BY DEF Block
<1>2. QED
  BY <1>1 DEF StringsIn, FoldersIn, FilesIn

LEMMA AllAreJoined ==
    ASSUME NEW blks \in Seq(Block)
    PROVE  /\ AllStrings(blks) = JoinOfEach(StringsIn, blks)
           /\ AllFolders(blks) = JoinOfEach(FoldersIn, blks)
           /\ AllFiles(blks) = JoinOfEach(FilesIn, blks)
<1>1. \A k \in DOMAIN blks : blks[k] \in Block
  BY ElementOfSeq, LenProperties
<1>2. OnEach(StringsIn, blks) = [k \in DOMAIN blks |-> blks[k].strings]
  BY <1>1 DEF OnEach, StringsIn
<1>3. OnEach(FoldersIn, blks) = [k \in DOMAIN blks |-> blks[k].folders]
  BY <1>1 DEF OnEach, FoldersIn
<1>4. OnEach(FilesIn, blks) = [k \in DOMAIN blks |-> blks[k].files]
  BY <1>1 DEF OnEach, FilesIn
<1>5. QED
  BY <1>2, <1>3, <1>4 DEF AllStrings, AllFolders, AllFiles, JoinOfEach

LEMMA AllAppend ==
    ASSUME NEW blks \in Seq(Block), NEW b \in Block
    PROVE  /\ AllStrings(blks) \in Seq(StringRecord) /\ b.strings \in Seq(StringRecord)
           /\ AllFolders(blks) \in Seq(FolderRecord) /\ b.folders \in Seq(FolderRecord)
           /\ AllFiles(blks) \in Seq(FileRecord) /\ b.files \in Seq(FileRecord)
           /\ AllStrings(Append(blks, b)) = AllStrings(blks) \o b.strings
           /\ AllFolders(Append(blks, b)) = AllFolders(blks) \o b.folders
           /\ AllFiles(Append(blks, b)) = AllFiles(blks) \o b.files
<1>0. /\ JoinsOn(StringsIn, Block, StringRecord) /\ JoinsOn(FoldersIn, Block, FolderRecord)
      /\ JoinsOn(FilesIn, Block, FileRecord)
  BY BlockLists, JoinedAppend
<1>1. Append(blks, b) \in Seq(Block)
  BY AppendProperties
<1>2. StringsIn[b] = b.strings /\ FoldersIn[b] = b.folders /\ FilesIn[b] = b.files
  BY DEF StringsIn, FoldersIn, FilesIn
<1>3. /\ JoinOfEach(StringsIn, blks) \in Seq(StringRecord) /\ StringsIn[b] \in Seq(StringRecord)
      /\ JoinOfEach(StringsIn, Append(blks, b)) = JoinOfEach(StringsIn, blks) \o StringsIn[b]
  BY <1>0 DEF JoinsOn
<1>4. /\ JoinOfEach(FoldersIn, blks) \in Seq(FolderRecord) /\ FoldersIn[b] \in Seq(FolderRecord)
      /\ JoinOfEach(FoldersIn, Append(blks, b)) = JoinOfEach(FoldersIn, blks) \o FoldersIn[b]
  BY <1>0 DEF JoinsOn
<1>5. /\ JoinOfEach(FilesIn, blks) \in Seq(FileRecord) /\ FilesIn[b] \in Seq(FileRecord)
      /\ JoinOfEach(FilesIn, Append(blks, b)) = JoinOfEach(FilesIn, blks) \o FilesIn[b]
  BY <1>0 DEF JoinsOn
<1>6. QED
  BY <1>1, <1>2, <1>3, <1>4, <1>5, AllAreJoined

LEMMA NothingInNoBlocks ==
    AllStrings(<<>>) = <<>> /\ AllFolders(<<>>) = <<>> /\ AllFiles(<<>>) = <<>>
<1>1. <<>> \in Seq(Block)
  BY EmptySeq
<1>2. \A F : OnEach(F, <<>>) = <<>>
  BY DEF OnEach
<1>3. QED
  BY <1>1, <1>2, AllAreJoined, FlattenEmpty DEF JoinOfEach

(* Lengths only, with one block more. *)
LEMMA AllLengths ==
    ASSUME NEW blks \in Seq(Block), NEW b \in Block
    PROVE  /\ Len(AllStrings(blks)) \in Nat /\ Len(b.strings) \in Nat
           /\ Len(AllFolders(blks)) \in Nat /\ Len(b.folders) \in Nat
           /\ Len(AllStrings(Append(blks, b))) = Len(AllStrings(blks)) + Len(b.strings)
           /\ Len(AllFolders(Append(blks, b))) = Len(AllFolders(blks)) + Len(b.folders)
<1>1. \A S : \A s, t \in Seq(S) : Len(s) \in Nat /\ Len(s \o t) = Len(s) + Len(t)
  BY ConcatProperties, LenProperties
<1>2. /\ AllStrings(blks) \in Seq(StringRecord) /\ b.strings \in Seq(StringRecord)
      /\ AllFolders(blks) \in Seq(FolderRecord) /\ b.folders \in Seq(FolderRecord)
      /\ AllStrings(Append(blks, b)) = AllStrings(blks) \o b.strings
      /\ AllFolders(Append(blks, b)) = AllFolders(blks) \o b.folders
  BY AllAppend
<1>3. QED
  BY <1>1, <1>2

-----------------------------------------------------------------------------
(* Each id that is given out has one record: tables and records grow together. *)

InSession == pc \notin {"absent", "constructed", "starting", "opening"}

LEMMA InternCounts ==
    ASSUME NEW table \in Seq(Names), NEW v \in Names, NEW records \in Seq(StringRecord)
    PROVE  /\ Interned(table, v) \in Seq(Names)
           /\ Len(table) \in Nat /\ Len(records) \in Nat /\ Len(NewStrings(table, v)) \in Nat
           /\ records \o NewStrings(table, v) \in Seq(StringRecord)
           /\ Len(records \o NewStrings(table, v)) = Len(records) + Len(NewStrings(table, v))
           /\ Len(Interned(table, v)) = Len(table) + Len(NewStrings(table, v))
<1>1. Len(table) \in Nat /\ Len(records) \in Nat
  BY LenProperties
<1>2. CASE v \in Range(table)
  <2>1. Interned(table, v) = table /\ NewStrings(table, v) = <<>>
    BY <1>2 DEF Interned, NewStrings
  <2>2. records \o <<>> = records /\ Len(<<>>) = 0
    BY ConcatEmptySeq, EmptySeq
  <2>3. QED
    BY <1>1, <2>1, <2>2
<1>3. CASE v \notin Range(table)
  <2> DEFINE r == [id |-> Len(table) + 1, value |-> v]
  <2>1. Interned(table, v) = Append(table, v) /\ NewStrings(table, v) = <<r>>
    BY <1>3 DEF Interned, NewStrings
  <2>2. r \in StringRecord
    BY <1>1 DEF StringRecord
  <2> HIDE DEF r
  <2>3. /\ Append(table, v) \in Seq(Names) /\ Len(Append(table, v)) = Len(table) + 1
        /\ Append(records, r) \in Seq(StringRecord) /\ Len(Append(records, r)) = Len(records) + 1
    BY <2>2, AppendProperties
  <2>4. records \o <<r>> = Append(records, r)
    BY <2>2, AppendOne
  <2>5. Len(<<r>>) = 1
    OBVIOUS
  <2>6. QED
    BY <1>1, <2>1, <2>3, <2>4, <2>5
<1>4. QED
  BY <1>2, <1>3

(* What the batch lacks of the tables: the same before and after, and no table shrinks. *)
Even(v, r, v2, r2) == v <= v2 /\ v2 + r = v + r2

LEMMA EvenSame == \A v, r \in Nat : Even(v, r, v, r)
BY DEF Even

LEMMA EvenMore ==
    ASSUME NEW v \in Nat, NEW r \in Nat, NEW k \in Nat, NEW v2, NEW r2,
           v2 = v + k, r2 = r + k
    PROVE  Even(v, r, v2, r2) /\ v2 \in Nat /\ r2 \in Nat
BY DEF Even

LEMMA TypesHere ==
    ASSUME Typed
    PROVE  /\ values \in Seq(Names) /\ folders \in Seq([parentId : Nat, nameId : Nat])
           /\ batch.strings \in Seq(StringRecord) /\ batch.folders \in Seq(FolderRecord)
           /\ Len(values) \in Nat /\ Len(folders) \in Nat
           /\ Len(batch.strings) \in Nat /\ Len(batch.folders) \in Nat
<1>1. /\ values \in Seq(Names) /\ folders \in Seq([parentId : Nat, nameId : Nat])
      /\ batch \in Batch
  BY DEF Typed, TypeOK
<1>2. batch.strings \in Seq(StringRecord) /\ batch.folders \in Seq(FolderRecord)
  BY <1>1 DEF Batch
<1>3. QED
  BY <1>1, <1>2, LenProperties

(* One step of the tables and the batch, while the session goes on. *)
TablesEven ==
    /\ Even(Len(values), Len(batch.strings), Len(values'), Len(batch'.strings))
    /\ Even(Len(folders), Len(batch.folders), Len(folders'), Len(batch'.folders))

LEMMA QuietTables ==
    ASSUME Typed, values' = values, folders' = folders,
           batch'.strings = batch.strings, batch'.folders = batch.folders
    PROVE  TablesEven
BY TypesHere, EvenSame DEF TablesEven

LEMMA KnownFolderEven ==
    ASSUME Typed, KnownFolder
    PROVE  TablesEven
<1> DEFINE v == Head(todo)
           ns == NewStrings(values, v)
<1>1. /\ todo # <<>> /\ values' = Interned(values, v) /\ folders' = folders
      /\ batch' = [batch EXCEPT !.strings = @ \o ns]
  BY DEF KnownFolder
<1>2. v \in Names
  BY <1>1 DEF Typed, TypeOK
<1>3. batch \in Batch
  BY DEF Typed, TypeOK
<1>4. batch'.strings = batch.strings \o ns /\ batch'.folders = batch.folders
  BY <1>1, <1>3 DEF Batch
<1>5. /\ Len(batch.strings \o ns) = Len(batch.strings) + Len(ns)
      /\ Len(Interned(values, v)) = Len(values) + Len(ns)
      /\ Len(ns) \in Nat
  BY <1>2, TypesHere, InternCounts
<1> HIDE DEF v, ns
<1>6. Even(Len(values), Len(batch.strings), Len(values'), Len(batch'.strings))
  BY <1>1, <1>4, <1>5, TypesHere, EvenMore
<1>7. Even(Len(folders), Len(batch.folders), Len(folders'), Len(batch'.folders))
  BY <1>1, <1>4, TypesHere, EvenSame
<1>8. QED
  BY <1>6, <1>7 DEF TablesEven

LEMMA NewFolderEven ==
    ASSUME Typed, Typed', NewFolder
    PROVE  TablesEven
<1> DEFINE v == Head(todo)
           ns == NewStrings(values, v)
           r == [id |-> Len(folders'), parentId |-> parent, nameId |-> IdOf(values', Head(todo))]
<1>1. /\ todo # <<>> /\ values' = Interned(values, v)
      /\ folders' = Append(folders, FolderKey(values'))
      /\ batch' = [batch EXCEPT !.strings = @ \o ns, !.folders = Append(@, r)]
  BY DEF NewFolder
<1>2. v \in Names
  BY <1>1 DEF Typed, TypeOK
<1>3. batch \in Batch /\ batch' \in Batch
  BY DEF Typed, TypeOK
<1> HIDE DEF r
<1>4. batch'.strings = batch.strings \o ns /\ batch'.folders = Append(batch.folders, r)
  BY <1>1, <1>3 DEF Batch
<1>5. /\ Len(batch.strings \o ns) = Len(batch.strings) + Len(ns)
      /\ Len(Interned(values, v)) = Len(values) + Len(ns)
      /\ Len(ns) \in Nat
  BY <1>2, TypesHere, InternCounts
<1> HIDE DEF v, ns
<1>6. Even(Len(values), Len(batch.strings), Len(values'), Len(batch'.strings))
  BY <1>1, <1>4, <1>5, TypesHere, EvenMore
<1>7. \A S : \A s \in Seq(S) : \A x : Len(Append(s, x)) = Len(s) + 1
  OBVIOUS
<1>8. Len(folders') = Len(folders) + 1 /\ Len(batch'.folders) = Len(batch.folders) + 1
  BY <1>1, <1>4, <1>7, TypesHere
<1>9. Even(Len(folders), Len(batch.folders), Len(folders'), Len(batch'.folders))
  <2>1. 1 \in Nat
    OBVIOUS
  <2>2. QED
    BY <1>8, <2>1, TypesHere, EvenMore
<1>10. QED
  BY <1>6, <1>9 DEF TablesEven

LEMMA FileDoneEven ==
    ASSUME Typed, FileDone
    PROVE  TablesEven
<1> DEFINE named == Interned(values, entry.name)
           ns == NewStrings(values, entry.name)
           es == NewStrings(named, entry.extension)
<1>1. /\ pc = "path" /\ values' = Interned(named, entry.extension) /\ folders' = folders
      /\ batch'.strings = batch.strings \o ns \o es /\ batch'.folders = batch.folders
  <2>1. batch \in Batch
    BY DEF Typed, TypeOK
  <2>2. QED
    BY <2>1 DEF FileDone, Batch
<1>2. entry.name \in Names /\ entry.extension \in Names
  BY <1>1, EngineAssumption DEF Typed, InHand
<1>3. /\ named \in Seq(Names) /\ Len(named) = Len(values) + Len(ns) /\ Len(ns) \in Nat
      /\ batch.strings \o ns \in Seq(StringRecord)
      /\ Len(batch.strings \o ns) = Len(batch.strings) + Len(ns)
  BY <1>2, TypesHere, InternCounts
<1> HIDE DEF named, ns
<1>4. /\ Len(Interned(named, entry.extension)) = Len(named) + Len(es) /\ Len(es) \in Nat
      /\ Len(batch.strings \o ns \o es) = Len(batch.strings \o ns) + Len(es)
  BY <1>2, <1>3, InternCounts
<1> HIDE DEF es
<1>5. Even(Len(values), Len(batch.strings), Len(values'), Len(batch'.strings))
  <2>1. Even(Len(values), Len(batch.strings), Len(named), Len(batch.strings \o ns))
        /\ Len(named) \in Nat /\ Len(batch.strings \o ns) \in Nat
    BY <1>3, TypesHere, EvenMore
  <2>2. Even(Len(named), Len(batch.strings \o ns), Len(values'), Len(batch'.strings))
        /\ Len(values') \in Nat /\ Len(batch'.strings) \in Nat
    BY <1>1, <1>4, <2>1, EvenMore
  <2>3. Len(values) \in Nat /\ Len(batch.strings) \in Nat
    BY TypesHere
  <2> DEFINE v == Len(values)
             r == Len(batch.strings)
             v2 == Len(named)
             r2 == Len(batch.strings \o ns)
             v3 == Len(values')
             r3 == Len(batch'.strings)
  <2>4. /\ v \in Nat /\ r \in Nat /\ v2 \in Nat /\ r2 \in Nat /\ v3 \in Nat /\ r3 \in Nat
        /\ Even(v, r, v2, r2) /\ Even(v2, r2, v3, r3)
    BY <2>1, <2>2, <2>3
  <2> HIDE DEF v, r, v2, r2, v3, r3
  <2>5. Even(v, r, v3, r3)
    BY <2>4 DEF Even
  <2>6. QED
    BY <2>5 DEF v, r, v3, r3
<1>6. Even(Len(folders), Len(batch.folders), Len(folders'), Len(batch'.folders))
  BY <1>1, TypesHere, EvenSame
<1>7. QED
  BY <1>5, <1>6 DEF TablesEven

(* A session goes on: the tables and the batch grow together, or the batch is handed over. *)
LEMMA SessionMoves ==
    ASSUME Whole, [Next]_vars, InSession', ~ Truncate
    PROVE  /\ InSession
           /\ stream' = "good" => stream = "good"
           /\ \/ TablesEven
              \/ BlockWritten
              \/ BlockNotWritten /\ values' = values /\ folders' = folders /\ stream' = "bad"
<1>1. Typed /\ Typed'
  BY TypedStep DEF Whole
<1>2. CASE Construct \/ ResetCommand \/ Starting \/ Throw \/ Kill \/ Finish
  BY <1>2 DEF InSession, Construct, ResetCommand, Starting, Throw, Kill, Finish
<1>3. CASE \/ Running \/ (\E e \in Entries : EntryFound(e)) \/ FolderDone \/ ScanError
           \/ ScanEnds \/ NothingToCommit \/ StartBlock \/ Spill
  <2>1. /\ values' = values /\ folders' = folders /\ batch' = batch /\ stream' = stream
        /\ InSession
    BY <1>3 DEF InSession, Running, EntryFound, FolderDone, ScanError, ScanEnds,
                NothingToCommit, StartBlock, Spill
  <2>2. QED
    BY <1>1, <2>1, QuietTables
<1>4. CASE WriteHeader
  <2>1. /\ values' = values /\ folders' = folders /\ batch' = batch
        /\ stream' = "good" => stream = "good"
        /\ InSession
    BY <1>4 DEF InSession, WriteHeader
  <2>2. QED
    BY <1>1, <2>1, QuietTables
<1>5. CASE \/ Report \/ StopSeen \/ PauseSeen \/ ResumeSeen \/ GoOn
           \/ (\E c \in {"Continue", "Pause", "StopGraceful"} : WriteCommand(c))
           \/ UNCHANGED vars
  <2>1. /\ values' = values /\ folders' = folders /\ batch' = batch /\ stream' = stream
        /\ InSession
    BY <1>5 DEF InSession, Report, StopSeen, PauseSeen, ResumeSeen, GoOn, WriteCommand, vars
  <2>2. QED
    BY <1>1, <2>1, QuietTables
<1>6. CASE KnownFolder
  <2>1. stream' = stream /\ InSession
    BY <1>6 DEF InSession, KnownFolder
  <2>2. QED
    BY <1>1, <1>6, <2>1, KnownFolderEven
<1>7. CASE NewFolder
  <2>1. stream' = stream /\ InSession
    BY <1>7 DEF InSession, NewFolder
  <2>2. QED
    BY <1>1, <1>7, <2>1, NewFolderEven
<1>8. CASE FileDone
  <2>1. stream' = stream /\ InSession
    BY <1>8 DEF InSession, FileDone
  <2>2. QED
    BY <1>1, <1>8, <2>1, FileDoneEven
<1>9. CASE BlockWritten
  BY <1>9 DEF BlockWritten, InSession
<1>10. CASE BlockNotWritten
  BY <1>10 DEF BlockNotWritten, Committed, InSession
<1>11. QED
  BY <1>2, <1>3, <1>4, <1>5, <1>6, <1>7, <1>8, <1>9, <1>10 DEF Next, Step

CountedAt(blks, b, v, f) ==
    /\ Len(AllStrings(blks)) + Len(b.strings) = Len(v)
    /\ Len(AllFolders(blks)) + Len(b.folders) = Len(f)
SeenAt(blks, v, f) == Len(AllStrings(blks)) <= Len(v) /\ Len(AllFolders(blks)) <= Len(f)

LEMMA StatisticsParts ==
    /\ StatisticsInv <=> (InSession => /\ stream = "good" => CountedAt(blocks, batch, values, folders)
                                       /\ SeenAt(Visible, values, folders))
    /\ StatisticsInv' <=>
         (InSession' => /\ stream' = "good" => CountedAt(blocks', batch', values', folders')
                        /\ SeenAt(Visible', values', folders'))
BY DEF StatisticsInv, RecordsCounted, VisibleCounted, InSession, CountedAt, SeenAt, AllStrings,
       AllFolders

LEMMA CountedMoves ==
    ASSUME NEW blks \in Seq(Block), Typed, Typed', TablesEven
    PROVE  /\ CountedAt(blks, batch, values, folders)
                => CountedAt(blks, batch', values', folders')
           /\ SeenAt(blks, values, folders) => SeenAt(blks, values', folders')
<1>1. /\ Len(AllStrings(blks)) \in Nat /\ Len(AllFolders(blks)) \in Nat
      /\ BlockOf(batch, 0) \in Block
  <2>1. BlockOf(batch, 0) \in Block
    BY DEF Typed, TypeOK, Batch, Block, BlockOf
  <2>2. QED
    BY <2>1, AllLengths
<1>2. /\ Len(values) \in Nat /\ Len(folders) \in Nat
      /\ Len(batch.strings) \in Nat /\ Len(batch.folders) \in Nat
  BY TypesHere
<1>3. /\ Len(values') \in Nat /\ Len(folders') \in Nat
      /\ Len(batch'.strings) \in Nat /\ Len(batch'.folders) \in Nat
  <2>1. /\ values' \in Seq(Names) /\ folders' \in Seq([parentId : Nat, nameId : Nat])
        /\ batch' \in Batch
    BY DEF Typed, TypeOK
  <2>2. QED
    BY <2>1, LenProperties DEF Batch
<1>4. \A s, v, r, v2, r2 \in Nat :
         Even(v, r, v2, r2) => (s + r = v => s + r2 = v2) /\ (s <= v => s <= v2)
  BY DEF Even
<1>5. /\ Even(Len(values), Len(batch.strings), Len(values'), Len(batch'.strings))
      /\ Even(Len(folders), Len(batch.folders), Len(folders'), Len(batch'.folders))
  BY DEF TablesEven
<1> DEFINE s == Len(AllStrings(blks))
           f == Len(AllFolders(blks))
<1>6. /\ s + Len(batch.strings) = Len(values) => s + Len(batch'.strings) = Len(values')
      /\ s <= Len(values) => s <= Len(values')
  <2>1. s \in Nat
    BY <1>1
  <2> HIDE DEF s
  <2>2. QED
    BY <1>2, <1>3, <1>4, <1>5, <2>1
<1>7. /\ f + Len(batch.folders) = Len(folders) => f + Len(batch'.folders) = Len(folders')
      /\ f <= Len(folders) => f <= Len(folders')
  <2>1. f \in Nat
    BY <1>1
  <2> HIDE DEF f
  <2>2. QED
    BY <1>2, <1>3, <1>4, <1>5, <2>1
<1>8. QED
  BY <1>6, <1>7 DEF CountedAt, SeenAt

(* The block of a batch counts as the batch did. *)
LEMMA CountedJoins ==
    ASSUME Typed, CountedAt(blocks, batch, values, folders), NEW n \in Nat
    PROVE  /\ SeenAt(Append(blocks, BlockOf(batch, n)), values, folders)
           /\ CountedAt(Append(blocks, BlockOf(batch, n)), EmptyBatch, values, folders)
<1> DEFINE b == BlockOf(batch, n)
           more == Append(blocks, b)
<1>1. /\ b \in Block /\ b.strings = batch.strings /\ b.folders = batch.folders
      /\ blocks \in Seq(Block)
  BY DEF Typed, TypeOK, Batch, Block, BlockOf
<1> HIDE DEF b
<1>2. /\ Len(AllStrings(more)) = Len(AllStrings(blocks)) + Len(batch.strings)
      /\ Len(AllFolders(more)) = Len(AllFolders(blocks)) + Len(batch.folders)
  BY <1>1, AllLengths
<1>3. Len(AllStrings(more)) = Len(values) /\ Len(AllFolders(more)) = Len(folders)
  BY <1>2 DEF CountedAt
<1> HIDE DEF more
<1>4. EmptyBatch.strings = <<>> /\ EmptyBatch.folders = <<>> /\ Len(<<>>) = 0
  BY EmptySeq DEF EmptyBatch
<1>5. \A i \in Nat : i + 0 = i /\ i <= i
  OBVIOUS
<1>6. Len(values) \in Nat /\ Len(folders) \in Nat
  BY TypesHere
<1>7. SeenAt(more, values, folders) /\ CountedAt(more, EmptyBatch, values, folders)
  BY <1>3, <1>4, <1>5, <1>6 DEF SeenAt, CountedAt
<1>8. QED
  BY <1>7 DEF more, b

LEMMA StatisticsInvInit == Init => StatisticsInv
BY DEF Init, StatisticsInv

LEMMA StatisticsInvStep ==
    ASSUME Whole, StatisticsInv, [Next]_vars
    PROVE  StatisticsInv'
<1> SUFFICES ASSUME InSession'
             PROVE  /\ stream' = "good" => CountedAt(blocks', batch', values', folders')
                    /\ SeenAt(Visible', values', folders')
  BY StatisticsParts
<1>1. Typed /\ Typed' /\ Whole'
  BY TypedStep, WholeStep DEF Whole
<1>2. CASE Truncate
  <2>1. /\ values' = <<>> /\ folders' = <<>> /\ batch' = EmptyBatch
        /\ blocks' = <<>> /\ Visible' = <<>>
    BY <1>2 DEF Truncate, Visible, Whole, RefInv, NoIdsYet
  <2>2. AllStrings(<<>>) = <<>> /\ AllFolders(<<>>) = <<>> /\ Len(<<>>) = 0
    BY NothingInNoBlocks, EmptySeq
  <2>3. EmptyBatch.strings = <<>> /\ EmptyBatch.folders = <<>> /\ 0 + 0 = 0 /\ 0 <= 0
    BY DEF EmptyBatch
  <2>4. QED
    BY <2>1, <2>2, <2>3 DEF CountedAt, SeenAt
<1>3. CASE ~ Truncate
  <2>1. /\ InSession /\ (stream' = "good" => stream = "good")
        /\ \/ TablesEven
           \/ BlockWritten
           \/ BlockNotWritten /\ values' = values /\ folders' = folders /\ stream' = "bad"
    BY <1>3, SessionMoves
  <2>2. /\ stream = "good" => CountedAt(blocks, batch, values, folders)
        /\ SeenAt(Visible, values, folders)
    BY <2>1, StatisticsParts
  <2>3. Visible \in Seq(Block) /\ blocks \in Seq(Block)
    BY <1>1, VisibleParts
  <2>4. CASE BlockWritten
    <3>1. /\ pc = "writing" /\ stream = "good" /\ blocks' = Append(blocks, torn[1].block)
          /\ Visible' = blocks' /\ values' = values /\ folders' = folders /\ batch' = EmptyBatch
      BY <2>4 DEF BlockWritten, Committed, Visible
    <3>2. torn[1].block = BlockOf(batch, stats.commitId) /\ stats.commitId \in Nat
      BY <1>1, <3>1 DEF Typed, InHand, TypeOK, Counters
    <3>3. QED
      BY <1>1, <2>2, <3>1, <3>2, CountedJoins
  <2>5. CASE BlockAdded
    <3>1. /\ stream = "good" /\ blocks' = blocks /\ batch' = batch /\ values' = values
          /\ folders' = folders /\ Visible' = Append(blocks, BlockOf(batch, stats.commitId + 1))
      BY <2>5 DEF BlockAdded, StartBlock
    <3>2. stats.commitId + 1 \in Nat
      <4>1. stats.commitId \in Nat
        BY <1>1 DEF Typed, TypeOK, Counters
      <4>2. QED
        BY <4>1
    <3>3. QED
      BY <1>1, <2>2, <3>1, <3>2, CountedJoins
  <2>6. CASE Visible' = Visible /\ blocks' = blocks /\ TablesEven
    BY <1>1, <2>1, <2>2, <2>3, <2>6, CountedMoves
  <2>7. CASE /\ Visible' = Visible /\ blocks' = blocks
             /\ BlockNotWritten /\ values' = values /\ folders' = folders /\ stream' = "bad"
    BY <2>2, <2>7
  <2>8. QED
    BY <1>3, <2>1, <2>4, <2>5, <2>6, <2>7, VisibleMoves
<1>4. QED
  BY <1>2, <1>3

-----------------------------------------------------------------------------
(* What the window reads: the complete blocks, and of a torn one the records that are out. *)

OutIs(S, list, before, n) ==
    /\ Out(list, before, n) \in Seq(S) /\ Begins(Out(list, before, n), list)
    /\ before + Len(list) <= n => Out(list, before, n) = list
    /\ Out(list, before, n) # <<>> => before < n

LEMMA OutBegins ==
    ASSUME NEW S, NEW list \in Seq(S), NEW before \in Nat, NEW n \in Nat
    PROVE  OutIs(S, list, before, n)
<1> DEFINE l == Len(list)
           m == IF n <= before THEN 0 ELSE IF n - before < l THEN n - before ELSE l
           o == Out(list, before, n)
           f == [i \in 1..m |-> list[i]]
<1>1. l \in Nat /\ DOMAIN list = 1..l
  BY LenProperties
<1> HIDE DEF l
<1>2. m \in 0..l /\ (before + l <= n => m = l) /\ (m # 0 => before < n)
  BY <1>1
<1>3. {j \in 1..l : before + j <= n} = 1..m
  BY <1>1
<1> HIDE DEF m
<1>4. \A i \in 1..m : i \in 1..l
  BY <1>1, <1>2
<1>5. \A i \in 1..l : list[i] \in S
  BY ElementOfSeq DEF l
<1>6. f \in [1..m -> S] /\ \A i \in 1..m : f[i] = list[i]
  BY <1>4, <1>5
<1>7. o = f
  BY <1>1, <1>3 DEF Out
<1> HIDE DEF o, f
<1>8. o \in Seq(S) /\ Len(o) = m
  BY <1>2, <1>6, <1>7, FunctionIsSeq
<1>9. Begins(o, list)
  <2>1. m <= l
    BY <1>1, <1>2
  <2>2. Len(o) <= Len(list)
    BY <1>8, <2>1 DEF l
  <2>3. \A i \in 1..Len(o) : o[i] = list[i]
    BY <1>6, <1>7, <1>8
  <2>4. QED
    BY <2>2, <2>3 DEF Begins
<1>10. before + l <= n => o = list
  <2>1. before + l <= n => Len(list) <= Len(o)
    BY <1>1, <1>2, <1>8 DEF l
  <2>2. QED
    BY <1>8, <1>9, <2>1, BeginsEqual
<1>11. o # <<>> => before < n
  <2>1. m = 0 => o = <<>>
    BY <1>8, EmptySeq
  <2>2. QED
    BY <1>2, <2>1
<1>12. QED
  BY <1>8, <1>9, <1>10, <1>11 DEF o, l, OutIs

LEMMA PartOfBlock ==
    ASSUME NEW b \in Block, NEW n \in Nat
    PROVE  /\ Part(b, n) \in Block
           /\ Begins(Part(b, n).folders, b.folders) /\ Begins(Part(b, n).files, b.files)
           /\ Part(b, n).files # <<>> => Part(b, n).strings = b.strings
<1> DEFINE s == Len(b.strings)
           f == Len(b.folders)
           so == Out(b.strings, 0, n)
           fo == Out(b.folders, s, n)
           io == Out(b.files, s + f, n)
<1>1. /\ b.strings \in Seq(StringRecord) /\ b.folders \in Seq(FolderRecord)
      /\ b.files \in Seq(FileRecord)
  BY DEF Block
<1>2. s \in Nat /\ f \in Nat
  BY <1>1, LenProperties
<1>3. s + f \in Nat /\ 0 \in Nat
  <2> HIDE DEF s, f
  <2>1. QED
    BY <1>2
<1>4. so \in Seq(StringRecord) /\ (0 + s <= n => so = b.strings)
  <2>1. OutIs(StringRecord, b.strings, 0, n)
    BY <1>1, <1>3, OutBegins
  <2>2. QED
    BY <2>1 DEF OutIs
<1>5. fo \in Seq(FolderRecord) /\ Begins(fo, b.folders)
  <2>1. OutIs(FolderRecord, b.folders, s, n)
    BY <1>1, <1>2, OutBegins
  <2>2. QED
    BY <2>1 DEF OutIs
<1>6. io \in Seq(FileRecord) /\ Begins(io, b.files) /\ (io # <<>> => s + f < n)
  <2> DEFINE d == s + f
  <2>1. d \in Nat
    BY <1>3
  <2> HIDE DEF d
  <2>2. OutIs(FileRecord, b.files, d, n)
    BY <1>1, <2>1, OutBegins
  <2>3. QED
    BY <2>2 DEF d, OutIs
<1>7. s + f < n => 0 + s <= n
  <2> HIDE DEF s, f
  <2>1. QED
    BY <1>2
<1>8. Part(b, n) = [b EXCEPT !.strings = so, !.folders = fo, !.files = io]
  BY DEF Part
<1> HIDE DEF so, fo, io, s, f
<1>9. /\ Part(b, n) \in Block /\ Part(b, n).strings = so /\ Part(b, n).folders = fo
      /\ Part(b, n).files = io
  BY <1>4, <1>5, <1>6, <1>8 DEF Block
<1>10. QED
  BY <1>4, <1>5, <1>6, <1>7, <1>9

(* What is read is a beginning of what can be seen, list by list. *)
ReadFacts ==
    /\ Read \in Seq(Block) /\ Len(Read) <= Len(Visible)
    /\ Begins(AllFiles(blocks), AllFiles(Read)) /\ Begins(AllFiles(Read), AllFiles(Visible))
    /\ Begins(AllFolders(Read), AllFolders(Visible))
    /\ Begins(AllStrings(Announced), AllStrings(Visible))
    /\ AllFiles(Visible) \in Seq(FileRecord)
    /\ \A k \in 1..Len(Read) :
         /\ Begins(Read[k].files, Visible[k].files)
         /\ Read[k].files # <<>> => \A j \in 1..k : Read[j].strings = Visible[j].strings

LEMMA WhatIsRead ==
    ASSUME Typed
    PROVE  ReadFacts
<1>1. /\ blocks \in Seq(Block) /\ Visible \in Seq(Block)
      /\ Len(blocks) \in Nat /\ Len(Visible) \in Nat
      /\ Begins(blocks, Visible)
      /\ torn = <<>> => Visible = blocks
      /\ torn # <<>> => /\ torn[1].block \in Block /\ torn[1].seen \in Nat
                        /\ Visible = Append(blocks, torn[1].block)
                        /\ Len(Visible) = Len(blocks) + 1
                        /\ Visible[Len(blocks) + 1] = torn[1].block
  BY VisibleParts
<1>2. \A blks \in Seq(Block) : /\ AllStrings(blks) \in Seq(StringRecord)
                               /\ AllFolders(blks) \in Seq(FolderRecord)
                               /\ AllFiles(blks) \in Seq(FileRecord)
  <2>1. BlockOf(batch, 0) \in Block
    BY DEF Typed, TypeOK, Batch, Block, BlockOf
  <2>2. QED
    BY <2>1, AllAppend
<1>3. \A k \in 1..Len(blocks) : blocks[k] \in Block /\ Visible[k] = blocks[k]
  BY <1>1, ElementOfSeq DEF Begins
<1>4. \A b \in Block : /\ b.strings \in Seq(StringRecord) /\ b.folders \in Seq(FolderRecord)
                       /\ b.files \in Seq(FileRecord)
  BY DEF Block
<1>5. \A k \in 1..Len(blocks) : Begins(blocks[k].files, Visible[k].files)
  BY <1>3, <1>4, BeginsItself
<1>6. CASE torn = <<>>
  <2>1. Read = blocks /\ Announced = blocks /\ Visible = blocks
    BY <1>1, <1>6 DEF Read, Announced, Begun
  <2>2. QED
    BY <1>1, <1>2, <1>5, <2>1, BeginsItself DEF ReadFacts
<1>7. CASE torn # <<>>
  <2> DEFINE b == torn[1].block
             p == Part(b, torn[1].seen - 1)
  <2>1. b \in Block /\ Visible = Append(blocks, b)
    BY <1>1, <1>7
  <2>2. /\ AllStrings(Visible) = AllStrings(blocks) \o b.strings
        /\ AllFolders(Visible) = AllFolders(blocks) \o b.folders
        /\ AllFiles(Visible) = AllFiles(blocks) \o b.files
    BY <1>1, <2>1, AllAppend
  <2>3. /\ b.strings \in Seq(StringRecord) /\ b.folders \in Seq(FolderRecord)
        /\ b.files \in Seq(FileRecord)
    BY <1>4, <2>1
  <2>4. /\ Begins(AllStrings(blocks), AllStrings(Visible))
        /\ Begins(AllFolders(blocks), AllFolders(Visible))
        /\ Begins(AllFiles(blocks), AllFiles(Visible))
    BY <1>1, <1>2, <2>2, <2>3, BeginsConcat
  <2>5. CASE ~ Begun
    <3>1. Read = blocks /\ Announced = blocks /\ Len(blocks) <= Len(Visible)
      BY <1>1, <2>5 DEF Read, Announced, Begins
    <3>2. Begins(AllFiles(blocks), AllFiles(blocks))
      BY <1>1, <1>2, BeginsItself
    <3>3. \A k \in 1..Len(blocks) : \A j \in 1..k : Visible[j] = blocks[j]
      BY <1>1, <1>3
    <3>4. QED
      BY <1>1, <1>2, <1>5, <2>4, <3>1, <3>2, <3>3 DEF ReadFacts
  <2>6. CASE Begun
    <3>1. torn[1].seen - 1 \in Nat
      <4>1. torn[1].seen \in Nat /\ torn[1].seen > 0
        BY <1>1, <1>7, <2>6 DEF Begun
      <4>2. QED
        BY <4>1
    <3>2. /\ p \in Block /\ Begins(p.folders, b.folders) /\ Begins(p.files, b.files)
          /\ p.files # <<>> => p.strings = b.strings
      BY <2>1, <3>1, PartOfBlock
    <3>3. Read = Append(blocks, p) /\ Announced = Append(blocks, b)
      BY <2>6 DEF Read, Announced
    <3> HIDE DEF p, b
    <3>4. Read \in Seq(Block) /\ Len(Read) = Len(blocks) + 1 /\ Read[Len(blocks) + 1] = p
          /\ \A k \in 1..Len(blocks) : Read[k] = blocks[k]
      BY <1>1, <3>2, <3>3, AppendProperties
    <3>5. /\ AllFiles(Read) = AllFiles(blocks) \o p.files
          /\ AllFolders(Read) = AllFolders(blocks) \o p.folders
      BY <1>1, <3>2, <3>3, AllAppend
    <3>6. p.files \in Seq(FileRecord) /\ p.folders \in Seq(FolderRecord)
      BY <1>4, <3>2
    <3>7. /\ Begins(AllFiles(blocks), AllFiles(Read))
          /\ Begins(AllFiles(Read), AllFiles(Visible))
          /\ Begins(AllFolders(Read), AllFolders(Visible))
      <4>1. AllFiles(blocks) \in Seq(FileRecord) /\ AllFolders(blocks) \in Seq(FolderRecord)
        BY <1>1, <1>2
      <4>2. Begins(AllFiles(blocks), AllFiles(Read))
        BY <3>5, <3>6, <4>1, BeginsConcat
      <4>3. Begins(AllFiles(Read), AllFiles(Visible))
        BY <2>2, <2>3, <3>2, <3>5, <3>6, <4>1, BeginsAfter
      <4>4. Begins(AllFolders(Read), AllFolders(Visible))
        BY <2>2, <2>3, <3>2, <3>5, <3>6, <4>1, BeginsAfter
      <4>5. QED
        BY <4>2, <4>3, <4>4
    <3>8. Begins(AllStrings(Announced), AllStrings(Visible))
      BY <1>1, <1>2, <2>1, <3>3, BeginsItself
    <3>9. Len(Read) <= Len(Visible) /\ Len(Visible) = Len(blocks) + 1
      BY <1>1, <1>7, <3>4
    <3>10. Visible[Len(blocks) + 1] = b
      BY <1>1, <1>7 DEF b
    <3>11. ASSUME NEW k \in 1..Len(Read)
           PROVE  /\ Begins(Read[k].files, Visible[k].files)
                  /\ Read[k].files # <<>> =>
                       \A j \in 1..k : Read[j].strings = Visible[j].strings
      <4>1. k \in Nat /\ \A j \in 1..k : j \in 1..Len(blocks) \/ j = Len(blocks) + 1
        BY <1>1, <3>4
      <4>2. k \in 1..Len(blocks) => \A j \in 1..k : j \in 1..Len(blocks)
        BY <1>1
      <4>3. k \in 1..Len(blocks) \/ k = Len(blocks) + 1
        BY <1>1, <3>4
      <4>4. CASE k \in 1..Len(blocks)
        BY <1>3, <1>5, <3>4, <4>2, <4>4
      <4>5. CASE k = Len(blocks) + 1
        BY <1>3, <3>2, <3>4, <3>10, <4>1, <4>5
      <4>6. QED
        BY <4>3, <4>4, <4>5
    <3>12. QED
      BY <1>1, <1>2, <3>4, <3>7, <3>8, <3>9, <3>11 DEF ReadFacts
  <2>7. QED
    BY <2>5, <2>6
<1>8. QED
  BY <1>6, <1>7

-----------------------------------------------------------------------------
(* What that means: the files read are files reported, and so are their types. *)

LEMMA BeginningMeans ==
    ASSUME NEW strs, NEW folds, NEW more \in Seq(Block), NEW blks \in Seq(Block),
           Begins(blks, more), Means(strs, folds, more)
    PROVE  Means(strs, folds, blks)
<1>1. /\ DOMAIN blks = 1..Len(blks) /\ DOMAIN more = 1..Len(more)
      /\ Len(blks) \in Nat /\ Len(more) \in Nat
  BY LenProperties
<1>2. \A k \in 1..Len(blks) : /\ k \in 1..Len(more) /\ blks[k] = more[k] /\ k \in Nat
                              /\ \A j \in 1..k : j \in 1..Len(blks)
  BY <1>1 DEF Begins
<1>3. BlocksTrue(strs, folds, blks)
  BY <1>1, <1>2 DEF Means, BlocksTrue
<1>4. ASSUME NEW k \in 1..Len(blks) PROVE Resolves(blks, k)
  <2>1. Resolves(more, k) /\ blks[k] = more[k] /\ \A j \in 1..k : blks[j] = more[j]
    BY <1>1, <1>2 DEF Means, AllResolve
  <2>2. \A id : /\ StringIn(more, id, k) => StringIn(blks, id, k)
                /\ FolderIn(more, id, k) => FolderIn(blks, id, k)
    BY <2>1 DEF StringIn, FolderIn
  <2>3. QED
    BY <2>1, <2>2 DEF Resolves
<1>5. QED
  BY <1>1, <1>3, <1>4 DEF Means, AllResolve

FileLists(blks) == [k \in DOMAIN blks |-> blks[k].files]

LEMMA FileListsType ==
    ASSUME NEW blks \in Seq(Block)
    PROVE  /\ FileLists(blks) \in Seq(Seq(FileRecord)) /\ AllFiles(blks) \in Seq(FileRecord)
           /\ AllFiles(blks) = FlattenSeq(FileLists(blks))
           /\ DOMAIN FileLists(blks) = 1..Len(blks) /\ DOMAIN blks = 1..Len(blks)
           /\ \A k \in 1..Len(blks) : /\ FileLists(blks)[k] = blks[k].files
                                      /\ blks[k].files \in Seq(FileRecord)
<1>1. /\ DOMAIN blks = 1..Len(blks) /\ Len(blks) \in Nat
      /\ \A k \in 1..Len(blks) : blks[k].files \in Seq(FileRecord)
  BY LenProperties, RecordsOfBlocks
<1>2. /\ DOMAIN FileLists(blks) = 1..Len(blks)
      /\ \A k \in 1..Len(blks) : FileLists(blks)[k] = blks[k].files
  BY <1>1 DEF FileLists
<1>3. FileLists(blks) \in [1..Len(blks) -> Seq(FileRecord)]
  BY <1>1 DEF FileLists
<1>4. FileLists(blks) \in Seq(Seq(FileRecord))
  BY <1>1, <1>3, FunctionIsSeq
<1>5. AllFiles(blks) = FlattenSeq(FileLists(blks))
  BY DEF AllFiles, FileLists
<1>6. QED
  BY <1>1, <1>2, <1>4, <1>5, FlattenType

MeaningOf(strs, folds) == [f \in FileRecord |-> Meaning(strs, folds, f)]
TypeOf(strs) == [f \in FileRecord |-> strs[f.extensionId]]

(* The files decoded are the records of all the blocks, decoded one by one. *)
LEMMA FilesAreMeant ==
    ASSUME NEW strs \in Strings, NEW folds \in Tree, NEW blks \in Seq(Block),
           Means(strs, folds, blks)
    PROVE  FilesOf(blks) = OnEach(MeaningOf(strs, folds), AllFiles(blks))
<1> DEFINE G == MeaningOf(strs, folds)
           l == FileLists(blks)
<1>1. /\ l \in Seq(Seq(FileRecord)) /\ AllFiles(blks) = FlattenSeq(l)
      /\ DOMAIN l = DOMAIN blks /\ DOMAIN blks = 1..Len(blks)
      /\ \A k \in DOMAIN blks : l[k] = blks[k].files /\ blks[k].files \in Seq(FileRecord)
  BY FileListsType
<1>2. G \in [FileRecord -> {Meaning(strs, folds, f) : f \in FileRecord}]
  BY DEF MeaningOf
<1>3. FlattenSeq(EachOf(G, l)) = OnEach(G, FlattenSeq(l))
  <2> HIDE DEF G, l
  <2>1. QED
    BY <1>1, <1>2, EachFlatten
<1>4. ASSUME NEW k \in DOMAIN blks PROVE OnEach(G, l[k]) = Meanings(strs, folds, blks[k].files)
  <2> DEFINE s == blks[k].files
  <2>1. s \in Seq(FileRecord) /\ l[k] = s
    BY <1>1
  <2> HIDE DEF s, l
  <2>2. \A i \in DOMAIN s : s[i] \in FileRecord
    BY <2>1, ElementOfSeq, LenProperties
  <2>3. OnEach(G, s) = Meanings(strs, folds, s)
    BY <2>2 DEF OnEach, Meanings, MeaningOf
  <2>4. QED
    BY <2>1, <2>3 DEF s
<1>5. EachOf(G, l) = FilesMeant(strs, folds, blks)
  <2> HIDE DEF G, l
  <2>1. QED
    BY <1>1, <1>4 DEF EachOf, FilesMeant
<1>6. FilesOf(blks) = FlattenSeq(FilesMeant(strs, folds, blks))
  BY FilesDecoded DEF Means
<1>7. QED
  BY <1>1, <1>3, <1>5, <1>6

(* The type counted for a file that is read is the one its record means: the strings
   it refers to have been read before it. *)
LEMMA ExtensionRead ==
    ASSUME NEW strs, NEW folds, Visible \in Seq(Block), Means(strs, folds, Visible), ReadFacts,
           NEW k \in 1..Len(Read), NEW i \in DOMAIN Read[k].files
    PROVE  ExtensionOf(Read[k].files[i], k) = strs[Read[k].files[i].extensionId]
<1> DEFINE f == Read[k].files[i]
           b == SubSeq(Read, 1, k)
<1>1. /\ Read \in Seq(Block) /\ Len(Read) \in Nat /\ Len(Visible) \in Nat
      /\ Len(Read) <= Len(Visible) /\ DOMAIN Visible = 1..Len(Visible)
  BY LenProperties DEF ReadFacts
<1>2. k \in Nat /\ k \in 1..Len(Visible) /\ \A j \in 1..k : j \in 1..Len(Read) /\ j \in 1..Len(Visible)
  BY <1>1
<1>3. DOMAIN b = 1..k /\ \A j \in 1..k : b[j] = Read[j]
  <2>1. k \in 0..Len(Read)
    BY <1>1
  <2>2. b \in Seq(Block) /\ Len(b) = k /\ Begins(b, Read)
    BY <1>1, <2>1, BeginsSubSeq
  <2> HIDE DEF b
  <2>3. QED
    BY <2>2, LenProperties DEF Begins
<1> HIDE DEF b
<1>4. /\ Read[k].files \in Seq(FileRecord) /\ Visible[k].files \in Seq(FileRecord)
      /\ Begins(Read[k].files, Visible[k].files)
  BY <1>1, <1>2, FileListsType DEF ReadFacts
<1>5. Read[k].files # <<>> /\ i \in 1..Len(Visible[k].files) /\ f = Visible[k].files[i]
  <2>1. /\ DOMAIN Read[k].files = 1..Len(Read[k].files)
        /\ Len(Read[k].files) \in Nat /\ Len(Visible[k].files) \in Nat
    BY <1>4, LenProperties
  <2>2. Read[k].files # <<>>
    BY <2>1, EmptySeq
  <2>3. QED
    BY <1>4, <2>1, <2>2 DEF Begins
<1>6. \A j \in 1..k : Read[j].strings = Visible[j].strings
  BY <1>5 DEF ReadFacts
<1>7. f \in Range(Visible[k].files)
  BY <1>4, <1>5, MemberInRange
<1>8. StringIn(Visible, f.extensionId, k)
  BY <1>1, <1>2, <1>7 DEF Means, AllResolve, Resolves
<1>9. StringsOf(b) = UNION {Range(Visible[j].strings) : j \in 1..k}
  BY <1>3, <1>6 DEF StringsOf
<1>10. \A r \in StringsOf(b) : r.value = strs[r.id]
  BY <1>1, <1>2, <1>9 DEF Means, BlocksTrue, StringsTrue
<1>11. \E r \in StringsOf(b) : r.id = f.extensionId
  BY <1>8, <1>9 DEF StringIn
<1> DEFINE known == {r \in StringsOf(b) : r.id = f.extensionId}
<1>12. known # {} /\ \A r \in known : r.value = strs[f.extensionId]
  BY <1>10, <1>11
<1>13. ExtensionOf(f, k) = IF known = {} THEN "" ELSE (CHOOSE r \in known : TRUE).value
  BY DEF ExtensionOf, b
<1> HIDE DEF known
<1>14. QED
  BY <1>12, <1>13

LEMMA ExtensionsRead ==
    ASSUME NEW strs, NEW folds, Visible \in Seq(Block), Means(strs, folds, Visible), ReadFacts
    PROVE  Extensions = OnEach(TypeOf(strs), AllFiles(Read))
<1> DEFINE F == TypeOf(strs)
           l == FileLists(Read)
<1>1. /\ l \in Seq(Seq(FileRecord)) /\ AllFiles(Read) = FlattenSeq(l)
      /\ DOMAIN l = DOMAIN Read /\ DOMAIN Read = 1..Len(Read)
      /\ \A k \in DOMAIN Read : l[k] = Read[k].files /\ Read[k].files \in Seq(FileRecord)
  BY FileListsType DEF ReadFacts
<1>2. F \in [FileRecord -> {strs[f.extensionId] : f \in FileRecord}]
  BY DEF TypeOf
<1>3. FlattenSeq(EachOf(F, l)) = OnEach(F, FlattenSeq(l))
  <2> HIDE DEF F, l
  <2>1. QED
    BY <1>1, <1>2, EachFlatten
<1>4. ASSUME NEW k \in DOMAIN Read
      PROVE  OnEach(F, l[k]) = [i \in DOMAIN Read[k].files |-> ExtensionOf(Read[k].files[i], k)]
  <2> DEFINE s == Read[k].files
  <2>1. s \in Seq(FileRecord) /\ l[k] = s
    BY <1>1
  <2>2. \A i \in DOMAIN s : ExtensionOf(s[i], k) = strs[s[i].extensionId]
    BY <1>1, ExtensionRead
  <2> HIDE DEF s, l
  <2>3. \A i \in DOMAIN s : s[i] \in FileRecord
    BY <2>1, ElementOfSeq, LenProperties
  <2>4. \A i \in DOMAIN s : F[s[i]] = ExtensionOf(s[i], k)
    BY <2>2, <2>3 DEF TypeOf
  <2> HIDE DEF F
  <2>5. OnEach(F, s) = [i \in DOMAIN s |-> ExtensionOf(s[i], k)]
    BY <2>4 DEF OnEach
  <2>6. QED
    BY <2>1, <2>5 DEF s
<1>5. EachOf(F, l) = [k \in DOMAIN Read |->
                        [i \in DOMAIN Read[k].files |-> ExtensionOf(Read[k].files[i], k)]]
  <2> HIDE DEF F, l
  <2>1. QED
    BY <1>1, <1>4 DEF EachOf
<1>6. QED
  BY <1>1, <1>3, <1>5 DEF Extensions

(* How many files are counted, and of which type each is. *)
LEMMA CountedFiles ==
    ASSUME Whole, FileInv
    PROVE  LET n == Len(AllFiles(Read))
           IN  /\ Len(FilesOf(blocks)) <= n /\ n <= Len(FilesReported) /\ n \in Nat
               /\ Extensions = [i \in 1..n |-> FilesReported[i].extension]
<1>1. PICK strs \in Strings, folds \in Tree : Means(strs, folds, Visible)
  BY DEF FileInv, Readable
<1>2. /\ Visible \in Seq(Block) /\ blocks \in Seq(Block) /\ Begins(blocks, Visible)
      /\ Begins(FilesOf(Visible), FilesReported)
  BY VisibleParts DEF FileInv, Readable, Whole
<1>3. /\ ReadFacts /\ Read \in Seq(Block)
      /\ Begins(AllFiles(blocks), AllFiles(Read)) /\ Begins(AllFiles(Read), AllFiles(Visible))
  BY WhatIsRead DEF ReadFacts, Whole
<1> DEFINE G == MeaningOf(strs, folds)
           a == AllFiles(blocks)
           r == AllFiles(Read)
           v == AllFiles(Visible)
           rep == FilesReported
<1>4. a \in Seq(FileRecord) /\ r \in Seq(FileRecord) /\ v \in Seq(FileRecord)
  BY <1>2, <1>3, FileListsType
<1>5. FilesOf(Visible) = OnEach(G, v)
  BY <1>1, <1>2, FilesAreMeant
<1>6. FilesOf(blocks) = OnEach(G, a)
  <2>1. Means(strs, folds, blocks)
    BY <1>1, <1>2, BeginningMeans
  <2>2. QED
    BY <1>1, <1>2, <2>1, FilesAreMeant
<1>7. Extensions = OnEach(TypeOf(strs), r)
  BY <1>1, <1>2, <1>3, ExtensionsRead
<1>8. /\ Len(OnEach(G, a)) = Len(a) /\ Len(OnEach(G, v)) = Len(v)
      /\ \A i \in 1..Len(v) : OnEach(G, v)[i] = G[v[i]]
  <2>1. G \in [FileRecord -> {Meaning(strs, folds, f) : f \in FileRecord}]
    BY DEF MeaningOf
  <2> HIDE DEF G
  <2>2. EachMaps(G, FileRecord, {Meaning(strs, folds, f) : f \in FileRecord})
    BY <2>1, EachType
  <2>3. QED
    BY <1>4, <2>2 DEF EachMaps
<1> HIDE DEF a, r, v, rep
<1>9. /\ Len(a) \in Nat /\ Len(r) \in Nat /\ Len(v) \in Nat /\ DOMAIN r = 1..Len(r)
      /\ Len(a) <= Len(r) /\ Len(r) <= Len(v)
      /\ \A i \in 1..Len(r) : i \in 1..Len(v) /\ r[i] = v[i] /\ r[i] \in FileRecord
  <2>1. Len(a) \in Nat /\ Len(r) \in Nat /\ Len(v) \in Nat /\ DOMAIN r = 1..Len(r)
    BY <1>4, LenProperties
  <2>2. /\ Len(a) <= Len(r) /\ Len(r) <= Len(v) /\ \A i \in 1..Len(r) : r[i] = v[i]
    BY <1>3 DEF Begins, a, r, v
  <2>3. \A i \in 1..Len(r) : r[i] \in FileRecord
    BY <1>4, ElementOfSeq
  <2>4. \A i \in 1..Len(r) : i \in 1..Len(v)
    BY <2>1, <2>2
  <2>5. QED
    BY <2>1, <2>2, <2>3, <2>4
<1>10. Len(v) <= Len(rep) /\ \A i \in 1..Len(v) : rep[i] = G[v[i]]
  BY <1>2, <1>5, <1>8 DEF Begins, rep
<1>11. Len(r) <= Len(rep)
  <2>1. Len(rep) \in Int
    BY FilesReportedType, LenProperties DEF rep
  <2>2. QED
    BY <1>9, <1>10, <2>1
<1>12. ASSUME NEW i \in 1..Len(r) PROVE TypeOf(strs)[r[i]] = rep[i].extension
  <2>1. rep[i] = Meaning(strs, folds, r[i])
    BY <1>9, <1>10 DEF MeaningOf
  <2>2. TypeOf(strs)[r[i]] = strs[r[i].extensionId]
    BY <1>9 DEF TypeOf
  <2>3. QED
    BY <2>1, <2>2 DEF Meaning
<1>13. OnEach(TypeOf(strs), r) = [i \in 1..Len(r) |-> rep[i].extension]
  BY <1>9, <1>12 DEF OnEach
<1>14. Len(OnEach(G, a)) <= Len(r)
  BY <1>8, <1>9
<1>15. QED
  BY <1>6, <1>7, <1>9, <1>11, <1>13, <1>14 DEF a, r, rep

LEMMA StatisticsMatch ==
    ASSUME Whole, FileInv, StatisticsInv
    PROVE  StatisticsTrue
<1> DEFINE n == Len(AllFiles(Read))
           first == [i \in 1..n |-> FilesReported[i].extension]
<1>1. /\ Len(FilesOf(blocks)) <= n /\ n <= Len(FilesReported)
      /\ Extensions = first
  BY CountedFiles
<1>2. /\ Statistics.filesCount = n /\ Statistics.stringsCount = Len(AllStrings(Announced))
      /\ Statistics.foldersCount = Len(AllFolders(Read))
      /\ \A ext \in Names : Statistics.extCounts[ext] = HowMany(Extensions, ext)
  BY DEF Statistics
<1>3. ASSUME InSession
      PROVE  /\ Len(AllStrings(Announced)) <= Len(values)
             /\ Len(AllFolders(Read)) <= Len(folders)
  <2>1. Len(AllStrings(Visible)) <= Len(values) /\ Len(AllFolders(Visible)) <= Len(folders)
    BY <1>3 DEF StatisticsInv, VisibleCounted, InSession
  <2>2. /\ Len(AllStrings(Announced)) <= Len(AllStrings(Visible))
        /\ Len(AllFolders(Read)) <= Len(AllFolders(Visible))
    BY WhatIsRead DEF Whole, ReadFacts, Begins
  <2>3. /\ Len(AllStrings(Announced)) \in Nat /\ Len(AllFolders(Read)) \in Nat
        /\ Len(AllStrings(Visible)) \in Nat /\ Len(AllFolders(Visible)) \in Nat
        /\ Len(values) \in Nat /\ Len(folders) \in Nat
    <3>1. Announced \in Seq(Block) /\ Read \in Seq(Block) /\ Visible \in Seq(Block)
      BY WhatIsRead, VisibleParts, AppendProperties DEF Whole, ReadFacts, Announced, Begun
    <3>2. \A blks \in Seq(Block) : AllStrings(blks) \in Seq(StringRecord)
                                   /\ AllFolders(blks) \in Seq(FolderRecord)
      <4>1. BlockOf(batch, 0) \in Block
        BY DEF Whole, Typed, TypeOK, Batch, Block, BlockOf
      <4>2. QED
        BY <4>1, AllAppend
    <3>3. QED
      BY <3>1, <3>2, LenProperties, TypesHere DEF Whole
  <2>4. \A i, j, k \in Nat : i <= j /\ j <= k => i <= k
    OBVIOUS
  <2>5. QED
    BY <2>1, <2>2, <2>3, <2>4
<1> HIDE DEF n
<1>4. QED
  BY <1>1, <1>2, <1>3 DEF StatisticsTrue, InSession

-----------------------------------------------------------------------------
(* Each string and each folder in the tables of the process has exactly one record, in the file
   or in the batch, as long as the file can be written (IndexBatch, intern, getOrCreateFolder,
   commitBatch): what the file holds never exceeds the tables. *)
THEOREM StatisticsInvariant == Spec => []StatisticsInv
<1>1. Init => Whole /\ StatisticsInv
  BY WholeInit, StatisticsInvInit
<1>2. Whole /\ StatisticsInv /\ [Next]_vars => Whole' /\ StatisticsInv'
  BY WholeStep, StatisticsInvStep
<1>3. QED
  BY <1>1, <1>2, PTL DEF Spec

(* What the window counts in the index file (buildIndexStatisticsText) is true at every moment
   of an index process, whatever was killed or refused and wherever a write has got to: the
   files counted, type by type, are the first files of the scan, no fewer than the complete
   blocks hold and no more than were reported. *)
THEOREM StatisticsAreTrue == Spec => []StatisticsTrue
<1>1. Init => Whole /\ FileInv /\ StatisticsInv
  BY WholeInit, FileInvInit, StatisticsInvInit
<1>2. Whole /\ FileInv /\ StatisticsInv /\ [Next]_vars => (Whole /\ FileInv /\ StatisticsInv)'
  BY WholeStep, FileInvStep, StatisticsInvStep
<1>3. Whole /\ FileInv /\ StatisticsInv => StatisticsTrue
  BY StatisticsMatch
<1>4. QED
  BY <1>1, <1>2, <1>3, PTL DEF Spec
=============================================================================
