----------------------- MODULE IndexerEngine_proofs ------------------------
(* Proofs about IndexerEngine, for any names, any entries, any batch size and any bound: the
   types; that the complete blocks of the file refer to nothing outside them; that the file
   only grows, and that run() does not take a stop back; then what a reader decodes from the
   file: that records, batch and reported entries say the same, that at most one batch is
   missing, that the status is true, and that the process implements PublishedIndex. *)
EXTENDS IndexerEngine, SequenceFacts

USE DEF memory, file

-----------------------------------------------------------------------------
(* Sequences. *)

LEMMA RangeMember ==
    ASSUME NEW S, NEW s \in Seq(S), NEW x \in Range(s)
    PROVE  \E i \in 1..Len(s) : s[i] = x
BY RangeEquality

LEMMA MemberInRange ==
    ASSUME NEW S, NEW s \in Seq(S), NEW i \in 1..Len(s)
    PROVE  s[i] \in Range(s)
BY RangeEquality

LEMMA RangeAppend ==
    ASSUME NEW S, NEW s \in Seq(S), NEW x \in S
    PROVE  Range(Append(s, x)) = Range(s) \cup {x}
<1> DEFINE t == Append(s, x)
<1>1. /\ t \in Seq(S) /\ Len(t) = Len(s) + 1 /\ Len(s) \in Nat
      /\ \A i \in 1..Len(s) : t[i] = s[i]
      /\ t[Len(s) + 1] = x
  BY AppendProperties, LenProperties
<1>2. Range(t) = {t[i] : i \in 1..Len(t)} /\ Range(s) = {s[i] : i \in 1..Len(s)}
  BY <1>1, RangeEquality
<1> HIDE DEF t
<1>3. Range(t) = Range(s) \cup {x}
  BY <1>1, <1>2
<1>4. QED
  BY <1>3 DEF t

LEMMA EmptyRange == Range(<<>>) = {}
BY DEF Range

-----------------------------------------------------------------------------
(* The string table: interning keeps the ids given out, and what it adds to the batch
   defines exactly the ids it adds. *)

LEMMA IdOfMember ==
    ASSUME NEW S, NEW s \in Seq(S), NEW x \in Range(s)
    PROVE  IdOf(s, x) \in 1..Len(s) /\ s[IdOf(s, x)] = x
<1>1. \E i \in DOMAIN s : s[i] = x
  BY RangeMember, LenProperties
<1>2. IdOf(s, x) \in DOMAIN s /\ s[IdOf(s, x)] = x
  BY <1>1 DEF IdOf
<1>3. QED
  BY <1>2, LenProperties

LEMMA Intern ==
    ASSUME NEW table \in Seq(Names), NEW v \in Names
    PROVE  /\ Interned(table, v) \in Seq(Names)
           /\ Len(table) <= Len(Interned(table, v))
           /\ IdOf(Interned(table, v), v) \in 1..Len(Interned(table, v))
           /\ NewStrings(table, v) \in Seq(StringRecord)
           /\ \A id \in 1..Len(Interned(table, v)) :
                id \in 1..Len(table) \/ \E r \in Range(NewStrings(table, v)) : r.id = id
<1>0. Len(table) \in Nat
  BY LenProperties
<1>1. CASE v \in Range(table)
  <2>1. Interned(table, v) = table /\ NewStrings(table, v) = <<>>
    BY <1>1 DEF Interned, NewStrings
  <2>2. IdOf(table, v) \in 1..Len(table)
    BY <1>1, IdOfMember
  <2>3. QED
    BY <1>0, <2>1, <2>2, EmptySeq
<1>2. CASE v \notin Range(table)
  <2> DEFINE rec == [id |-> Len(table) + 1, value |-> v]
  <2>1. Interned(table, v) = Append(table, v) /\ NewStrings(table, v) = <<rec>>
    BY <1>2 DEF Interned, NewStrings
  <2>2. /\ Append(table, v) \in Seq(Names) /\ Len(Append(table, v)) = Len(table) + 1
        /\ v \in Range(Append(table, v))
    BY AppendProperties, RangeAppend
  <2>3. rec \in StringRecord /\ rec \in Range(<<rec>>) /\ rec.id = Len(table) + 1
    BY <1>0 DEF StringRecord, Range
  <2>4. <<rec>> \in Seq(StringRecord)
    BY <2>3
  <2>5. IdOf(Append(table, v), v) \in 1..Len(Append(table, v))
    BY <2>2, IdOfMember
  <2>6. ASSUME NEW id \in 1..(Len(table) + 1)
        PROVE  id \in 1..Len(table) \/ \E r \in Range(<<rec>>) : r.id = id
    BY <1>0, <2>3
  <2>7. QED
    BY <1>0, <2>1, <2>2, <2>4, <2>5, <2>6
<1>3. QED
  BY <1>1, <1>2

-----------------------------------------------------------------------------
(* Types. *)

Typed == TypeOK /\ InHand

LEMMA Constants ==
    /\ EmptyBatch \in Batch
    /\ NoStats \in Counters
    /\ NoStatus \in [state : {"none", "starting", "running", "paused", "stopping", "stopped",
                              "completed", "error"}, stats : Counters]
    /\ \A e \in Entries : e.path \in Seq(Names) /\ e.name \in Names /\ e.extension \in Names
BY EngineAssumption, EmptySeq
   DEF EngineAssumption, EmptyBatch, Batch, NoStats, Counters, NoStatus

(* Counters count: a field that grows by a number stays one. *)
LEMMA CountersGrow ==
    ASSUME NEW s \in Counters, NEW m \in Nat, NEW n \in Nat
    PROVE  /\ [s EXCEPT !.objectsIndexed = @ + n] \in Counters
           /\ [s EXCEPT !.filesIndexed = @ + n] \in Counters
           /\ [s EXCEPT !.foldersIndexed = @ + n] \in Counters
           /\ [s EXCEPT !.errors = @ + n] \in Counters
           /\ [s EXCEPT !.commitId = @ + n] \in Counters
           /\ [s EXCEPT !.committedFiles = @ + m, !.committedFolders = @ + n] \in Counters
<1>1. /\ s.objectsIndexed + n \in Nat /\ s.filesIndexed + n \in Nat
      /\ s.foldersIndexed + n \in Nat /\ s.errors + n \in Nat /\ s.commitId + n \in Nat
      /\ s.committedFiles + m \in Nat /\ s.committedFolders + n \in Nat
  BY DEF Counters
<1>2. \A k \in Nat : /\ [s EXCEPT !.objectsIndexed = k] \in Counters
                     /\ [s EXCEPT !.filesIndexed = k] \in Counters
                     /\ [s EXCEPT !.foldersIndexed = k] \in Counters
                     /\ [s EXCEPT !.errors = k] \in Counters
                     /\ [s EXCEPT !.commitId = k] \in Counters
  BY DEF Counters
<1>3. \A j, k \in Nat :
         [s EXCEPT !.committedFiles = j, !.committedFolders = k] \in Counters
  BY DEF Counters
<1>4. QED
  BY <1>1, <1>2, <1>3

LEMMA BlockType ==
    ASSUME NEW b \in Batch, NEW n \in Nat
    PROVE  BlockOf(b, n) \in Block
BY DEF BlockOf, Batch, Block

(* The loop turn that finds a folder, or makes one. *)
LEMMA WalkType ==
    ASSUME TypeOK, pc = "path", todo # <<>>
    PROVE  /\ Head(todo) \in Names /\ Tail(todo) \in Seq(Names)
           /\ Interned(values, Head(todo)) \in Seq(Names)
           /\ NewStrings(values, Head(todo)) \in Seq(StringRecord)
           /\ IdOf(Interned(values, Head(todo)), Head(todo)) \in Nat
           /\ FolderKey(Interned(values, Head(todo))) \in [parentId : Nat, nameId : Nat]
<1>1. Head(todo) \in Names /\ Tail(todo) \in Seq(Names) /\ values \in Seq(Names) /\ parent \in Nat
  BY DEF TypeOK
<1> HIDE DEF TypeOK
<1>2. /\ Interned(values, Head(todo)) \in Seq(Names)
      /\ IdOf(Interned(values, Head(todo)), Head(todo)) \in 1..Len(Interned(values, Head(todo)))
      /\ NewStrings(values, Head(todo)) \in Seq(StringRecord)
  BY <1>1, Intern
<1>3. IdOf(Interned(values, Head(todo)), Head(todo)) \in Nat
  BY <1>2
<1>4. QED
  BY <1>1, <1>2, <1>3 DEF FolderKey

LEMMA KnownFolderType == Typed /\ KnownFolder => Typed'
<1> SUFFICES ASSUME Typed, KnownFolder PROVE Typed'
  OBVIOUS
<1>1. TypeOK /\ pc = "path" /\ todo # <<>>
  BY DEF Typed, KnownFolder
<1>2. Tail(todo) \in Seq(Names) /\ values' \in Seq(Names)
  BY <1>1, WalkType DEF KnownFolder
<1>3. parent' \in Nat
  <2>1. folders \in Seq([parentId : Nat, nameId : Nat]) /\ FolderKey(values') \in Range(folders)
    BY <1>1 DEF TypeOK, KnownFolder
  <2>2. IdOf(folders, FolderKey(values')) \in 1..Len(folders)
    BY <2>1, IdOfMember
  <2>3. QED
    BY <2>2 DEF KnownFolder
<1>4. batch' \in Batch
  <2>1. batch.strings \o NewStrings(values, Head(todo)) \in Seq(StringRecord)
    BY <1>1, WalkType DEF TypeOK, Batch
  <2>2. QED
    BY <1>1, <2>1 DEF KnownFolder, TypeOK, Batch
<1>5. QED
  BY <1>1, <1>2, <1>3, <1>4 DEF Typed, TypeOK, InHand, KnownFolder

LEMMA NewFolderType == Typed /\ NewFolder => Typed'
<1> SUFFICES ASSUME Typed, NewFolder PROVE Typed'
  OBVIOUS
<1>1. TypeOK /\ pc = "path" /\ todo # <<>>
  BY DEF Typed, NewFolder
<1>2. /\ Tail(todo) \in Seq(Names) /\ values' \in Seq(Names)
      /\ IdOf(values', Head(todo)) \in Nat
      /\ FolderKey(values') \in [parentId : Nat, nameId : Nat]
  BY <1>1, WalkType DEF NewFolder
<1>3. folders' \in Seq([parentId : Nat, nameId : Nat]) /\ Len(folders') \in Nat
  BY <1>1, <1>2, AppendProperties, LenProperties DEF TypeOK, NewFolder
<1>4. batch' \in Batch
  <2>1. batch.strings \o NewStrings(values, Head(todo)) \in Seq(StringRecord)
    BY <1>1, WalkType DEF TypeOK, Batch
  <2> DEFINE rec == [id |-> Len(folders'), parentId |-> parent,
                     nameId |-> IdOf(values', Head(todo))]
  <2>2. rec \in FolderRecord
    BY <1>1, <1>2, <1>3 DEF TypeOK, FolderRecord
  <2>3. Append(batch.folders, rec) \in Seq(FolderRecord)
    BY <1>1, <2>2 DEF TypeOK, Batch
  <2>4. batch' = [batch EXCEPT !.strings = @ \o NewStrings(values, Head(todo)),
                               !.folders = Append(@, rec)]
    BY DEF NewFolder
  <2> HIDE DEF rec
  <2>5. QED
    BY <1>1, <2>1, <2>3, <2>4 DEF TypeOK, Batch
<1>5. parent' \in Nat
  BY <1>3 DEF NewFolder
<1>6. QED
  BY <1>1, <1>2, <1>3, <1>4, <1>5 DEF Typed, TypeOK, InHand, NewFolder

(* Naming a file: two strings, the second over the table the first left. *)
LEMMA NamingType ==
    ASSUME TypeOK, entry \in Entries
    PROVE  LET named == Interned(values, entry.name)
               table == Interned(named, entry.extension)
           IN  /\ named \in Seq(Names) /\ table \in Seq(Names)
               /\ NewStrings(values, entry.name) \in Seq(StringRecord)
               /\ NewStrings(named, entry.extension) \in Seq(StringRecord)
<1>1. values \in Seq(Names) /\ entry.name \in Names /\ entry.extension \in Names
  BY Constants DEF TypeOK
<1>2. /\ Interned(values, entry.name) \in Seq(Names)
      /\ NewStrings(values, entry.name) \in Seq(StringRecord)
  BY <1>1, Intern
<1>3. QED
  BY <1>1, <1>2, Intern

(* Interning never takes an id away: the first of two names is still known. *)
LEMMA InternKeeps ==
    ASSUME NEW table \in Seq(Names), NEW v \in Names, NEW u \in Names
    PROVE  LET more == Interned(Interned(table, v), u)
           IN  IdOf(more, v) \in 1..Len(more) /\ IdOf(more, u) \in 1..Len(more)
<1> DEFINE one == Interned(table, v)
<1> DEFINE two == Interned(one, u)
<1>1. one \in Seq(Names) /\ IdOf(one, v) \in 1..Len(one)
  BY Intern
<1>2. v \in Range(one)
  BY RangeAppend DEF Interned
<1> HIDE DEF one
<1>3. two \in Seq(Names) /\ IdOf(two, u) \in 1..Len(two)
  BY <1>1, Intern
<1>4. v \in Range(two)
  BY <1>1, <1>2, RangeAppend DEF Interned
<1> HIDE DEF two
<1>5. IdOf(two, v) \in 1..Len(two)
  BY <1>3, <1>4, IdOfMember
<1>6. QED
  BY <1>3, <1>5 DEF one, two

LEMMA FileDoneType == Typed /\ FileDone => Typed'
<1> SUFFICES ASSUME Typed, FileDone PROVE Typed'
  OBVIOUS
<1>1. TypeOK /\ pc = "path" /\ entry \in Entries
  BY DEF Typed, FileDone, InHand
<1> DEFINE named == Interned(values, entry.name)
           strings == batch.strings \o NewStrings(values, entry.name)
                        \o NewStrings(named, entry.extension)
           rec == [folderId |-> parent, nameId |-> IdOf(values', entry.name),
                   extensionId |-> IdOf(values', entry.extension)]
<1>2. values' \in Seq(Names)
  BY <1>1, NamingType DEF FileDone
<1>3. strings \in Seq(StringRecord)
  BY <1>1, NamingType DEF TypeOK, Batch
<1>4. rec \in FileRecord
  <2>1. values \in Seq(Names) /\ entry.name \in Names /\ entry.extension \in Names
    BY <1>1, Constants DEF TypeOK
  <2>2. values' = Interned(Interned(values, entry.name), entry.extension)
    BY DEF FileDone
  <2>3. /\ IdOf(values', entry.name) \in 1..Len(values')
        /\ IdOf(values', entry.extension) \in 1..Len(values')
    BY <2>1, <2>2, InternKeeps
  <2>4. parent \in Nat
    BY <1>1 DEF TypeOK
  <2>5. QED
    BY <2>3, <2>4 DEF FileRecord
<1>5. batch' = [batch EXCEPT !.strings = strings, !.files = Append(@, rec)]
  BY DEF FileDone
<1> HIDE DEF strings, rec
<1>6. batch' \in Batch
  BY <1>1, <1>3, <1>4, <1>5, AppendProperties DEF TypeOK, Batch
<1>7. reported' \in Seq(Entries)
  BY <1>1, AppendProperties DEF TypeOK, FileDone, MaintenanceOrNot
<1>8. stats' \in Counters
  BY <1>1, CountersGrow DEF TypeOK, FileDone
<1>9. QED
  BY <1>1, <1>2, <1>6, <1>7, <1>8 DEF Typed, TypeOK, InHand, FileDone, MaintenanceOrNot

LEMMA FolderDoneType == Typed /\ FolderDone => Typed'
<1> SUFFICES ASSUME Typed, FolderDone PROVE Typed'
  OBVIOUS
<1>1. TypeOK /\ pc = "path" /\ entry \in Entries
  BY DEF Typed, FolderDone, InHand
<1>2. reported' \in Seq(Entries)
  BY <1>1, AppendProperties DEF TypeOK, FolderDone, MaintenanceOrNot
<1>3. stats' \in Counters
  BY <1>1, CountersGrow DEF TypeOK, FolderDone
<1>4. QED
  BY <1>1, <1>2, <1>3 DEF Typed, TypeOK, InHand, FolderDone, MaintenanceOrNot

LEMMA CommittedCounts ==
    ASSUME TypeOK, Committed
    PROVE  stats' \in Counters
<1>1. Len(batch.files) \in Nat /\ Len(batch.folders) \in Nat
  BY LenProperties DEF TypeOK, Batch
<1>2. stats \in Counters
  BY DEF TypeOK
<1>3. QED
  BY <1>1, <1>2, CountersGrow DEF Committed

LEMMA CommitType ==
    ASSUME Typed, NothingToCommit \/ StartBlock \/ Spill \/ BlockWritten \/ BlockNotWritten
    PROVE  Typed'
<1>1. CASE NothingToCommit
  BY <1>1 DEF NothingToCommit, Typed, TypeOK, InHand
<1>2. CASE StartBlock
  <2>1. stats' \in Counters /\ stats'.commitId = stats.commitId + 1
    <3>1. stats' = [stats EXCEPT !.commitId = @ + 1] /\ stats \in Counters
      BY <1>2 DEF StartBlock, Typed, TypeOK
    <3>2. stats'.commitId = stats.commitId + 1
      BY <3>1 DEF Counters
    <3>3. QED
      BY <3>1, <3>2, CountersGrow
  <2>2. BlockOf(batch, stats.commitId + 1) \in Block
    BY BlockType DEF Typed, TypeOK, Counters
  <2>3. CASE stream = "good"
    <3>1. torn' = <<[block |-> BlockOf(batch, stats.commitId + 1), seen |-> 0]>>
      BY <1>2, <2>3 DEF StartBlock
    <3>2. torn' \in Seq([block : Block, seen : Nat])
      BY <2>2, <3>1
    <3>3. torn' # <<>> /\ torn'[1].block = BlockOf(batch', stats'.commitId)
      BY <1>2, <2>1, <3>1 DEF StartBlock
    <3>4. QED
      BY <1>2, <2>1, <3>2, <3>3 DEF StartBlock, Typed, TypeOK, InHand
  <2>4. CASE stream # "good"
    BY <1>2, <2>1, <2>4 DEF StartBlock, Typed, TypeOK, InHand
  <2>5. QED
    BY <2>3, <2>4
<1>3. CASE Spill
  <2>1. 1 \in 1..Len(torn) /\ torn \in Seq([block : Block, seen : Nat])
    BY <1>3, EmptySeq DEF Spill, Typed, TypeOK, InHand
  <2>2. torn[1] \in [block : Block, seen : Nat]
    BY <2>1, ElementOfSeq
  <2> DEFINE more == [torn[1] EXCEPT !.seen = @ + 1]
  <2>3. more \in [block : Block, seen : Nat] /\ more.block = torn[1].block
    BY <2>2
  <2>4. torn' = [torn EXCEPT ![1] = more]
    BY <1>3 DEF Spill
  <2> HIDE DEF more
  <2>5. /\ torn' \in Seq([block : Block, seen : Nat])
        /\ Len(torn') = Len(torn) /\ torn'[1].block = torn[1].block
    BY <2>1, <2>3, <2>4, ExceptSeq
  <2>6. torn' # <<>>
    BY <2>1, <2>5, EmptySeq
  <2>7. QED
    BY <1>3, <2>5, <2>6 DEF Spill, Typed, TypeOK, InHand
<1>4. CASE BlockWritten
  <2>1. torn[1].block \in Block
    <3>1. torn[1].block = BlockOf(batch, stats.commitId)
      BY <1>4 DEF BlockWritten, Typed, InHand
    <3>2. QED
      BY <3>1, BlockType DEF Typed, TypeOK, Counters
  <2>2. blocks' \in Seq(Block) /\ torn' \in Seq([block : Block, seen : Nat])
    BY <1>4, <2>1, AppendProperties, EmptySeq DEF BlockWritten, Typed, TypeOK
  <2>3. stats' \in Counters
    BY <1>4, CommittedCounts DEF BlockWritten, Typed
  <2>4. QED
    BY <1>4, <2>2, <2>3, Constants DEF BlockWritten, Committed, Typed, TypeOK, InHand
<1>5. CASE BlockNotWritten
  <2>1. stats' \in Counters
    BY <1>5, CommittedCounts DEF BlockNotWritten, Typed
  <2>2. QED
    BY <1>5, <2>1, Constants DEF BlockNotWritten, Committed, Typed, TypeOK, InHand
<1>6. QED
  BY <1>1, <1>2, <1>3, <1>4, <1>5

(* The steps that only move on, talk to the other processes, or start and end. *)
LEMMA OtherType ==
    ASSUME Typed,
           \/ Construct \/ ResetCommand \/ Starting \/ Truncate \/ WriteHeader \/ Running
           \/ \E e \in Entries : EntryFound(e)
           \/ ScanError \/ ScanEnds
           \/ Report \/ StopSeen \/ PauseSeen \/ ResumeSeen \/ GoOn \/ Finish \/ Throw \/ Kill
           \/ \E c \in {"Continue", "Pause", "StopGraceful"} : WriteCommand(c)
    PROVE  Typed'
<1> USE DEF Typed, TypeOK, InHand, writeStatus
<1>1. CASE Construct
  BY <1>1, Constants, EmptySeq DEF Construct, FreshMemory
<1>2. CASE ResetCommand
  BY <1>2 DEF ResetCommand
<1>3. CASE Starting
  BY <1>3 DEF Starting
<1>4. CASE Truncate
  BY <1>4, EmptySeq DEF Truncate
<1>5. CASE WriteHeader
  BY <1>5 DEF WriteHeader
<1>6. CASE Running
  BY <1>6 DEF Running
<1>7. ASSUME NEW e \in Entries, EntryFound(e) PROVE Typed'
  <2>1. stats' \in Counters
    BY <1>7, CountersGrow DEF EntryFound
  <2>2. e.path \in Seq(Names)
    BY Constants
  <2>3. QED
    BY <1>7, <2>1, <2>2 DEF EntryFound
<1>8. CASE ScanError
  <2>1. stats' \in Counters
    BY <1>8, CountersGrow DEF ScanError
  <2>2. QED
    BY <1>8, <2>1 DEF ScanError
<1>9. CASE ScanEnds
  BY <1>9 DEF ScanEnds
<1>10. CASE Report
  BY <1>10 DEF Report
<1>11. CASE StopSeen
  BY <1>11 DEF StopSeen
<1>12. CASE PauseSeen
  BY <1>12 DEF PauseSeen
<1>13. CASE ResumeSeen
  BY <1>13 DEF ResumeSeen
<1>14. CASE GoOn
  BY <1>14 DEF GoOn
<1>15. CASE Finish
  BY <1>15 DEF Finish
<1>16. CASE Throw
  BY <1>16 DEF Throw
<1>17. CASE Kill
  BY <1>17 DEF Kill
<1>18. ASSUME NEW c \in {"Continue", "Pause", "StopGraceful"}, WriteCommand(c) PROVE Typed'
  BY <1>18 DEF WriteCommand
<1>19. QED
  BY <1>1, <1>2, <1>3, <1>4, <1>5, <1>6, <1>7, <1>8, <1>9, <1>10, <1>11, <1>12, <1>13,
     <1>14, <1>15, <1>16, <1>17, <1>18

LEMMA TypedStep == Typed /\ [Next]_vars => Typed'
<1>1. ASSUME Typed, UNCHANGED vars PROVE Typed'
  BY <1>1 DEF vars, Typed, TypeOK, InHand
<1>2. QED
  BY <1>1, OtherType, KnownFolderType, NewFolderType, FolderDoneType, FileDoneType, CommitType
     DEF Next, Step

LEMMA TypedHolds == Spec => []Typed
<1>1. Init => Typed
  BY Constants, EmptySeq DEF Init, Typed, TypeOK, InHand
<1>2. QED
  BY <1>1, TypedStep, PTL DEF Spec

(* The variables keep the types of the members of the engine, whatever it scans. *)
THEOREM TypeCorrect == Spec => []TypeOK
<1>1. Typed => TypeOK
  BY DEF Typed
<1>2. QED
  BY <1>1, TypedHolds, PTL

-----------------------------------------------------------------------------
(* References. *)

StringsPlaced(n, strings, blks) ==
    \A id \in 1..n : (\E r \in Range(strings) : r.id = id) \/ StringIn(blks, id, Len(blks))
FoldersPlaced(n, fs, blks) ==
    \A id \in 1..n : (\E r \in Range(fs) : r.id = id) \/ FolderIn(blks, id, Len(blks))

LEMMA PlacedParts ==
    Placed <=> (stream = "good" => /\ StringsPlaced(Len(values), batch.strings, blocks)
                                   /\ FoldersPlaced(Len(folders), batch.folders, blocks))
BY DEF Placed, StringsPlaced, FoldersPlaced

(* A name that is interned is placed with the names before it. *)
LEMMA InternPlaces ==
    ASSUME NEW table \in Seq(Names), NEW v \in Names, NEW strings \in Seq(StringRecord),
           NEW blks, StringsPlaced(Len(table), strings, blks)
    PROVE  StringsPlaced(Len(Interned(table, v)), strings \o NewStrings(table, v), blks)
<1>1. Range(strings \o NewStrings(table, v)) = Range(strings) \cup Range(NewStrings(table, v))
  BY Intern, RangeConcatenation
<1>2. ASSUME NEW id \in 1..Len(Interned(table, v))
      PROVE  \/ \E r \in Range(strings \o NewStrings(table, v)) : r.id = id
             \/ StringIn(blks, id, Len(blks))
  <2>1. id \in 1..Len(table) \/ \E r \in Range(NewStrings(table, v)) : r.id = id
    BY Intern
  <2>2. QED
    BY <1>1, <2>1 DEF StringsPlaced
<1>3. QED
  BY <1>2 DEF StringsPlaced

RefInv == NoIdsYet /\ BatchRefers /\ Placed /\ ReferencesResolve

(* The records of the batch stay within ids that only grow. *)
RefersTo(fs, files, n, m) ==
    /\ \A f \in Range(fs) : f.id <= m /\ f.parentId < f.id /\ f.nameId \in 1..n
    /\ \A f \in Range(files) :
         f.folderId <= m /\ f.nameId \in 1..n /\ f.extensionId \in 1..n

LEMMA BatchParts ==
    BatchRefers <=> /\ parent <= Len(folders)
                    /\ RefersTo(batch.folders, batch.files, Len(values), Len(folders))
BY DEF BatchRefers, RefersTo

LEMMA GrowthRefers ==
    ASSUME NEW fs \in Seq(FolderRecord), NEW files \in Seq(FileRecord),
           NEW n \in Nat, NEW n2 \in Nat, n <= n2, NEW m \in Nat, NEW m2 \in Nat, m <= m2,
           RefersTo(fs, files, n, m)
    PROVE  RefersTo(fs, files, n2, m2)
<1>1. Range(fs) \subseteq FolderRecord /\ Range(files) \subseteq FileRecord
  BY RangeOfSeq
<1>2. \A f \in Range(fs) : f.id \in Nat
  BY <1>1 DEF FolderRecord
<1>3. \A f \in Range(files) : f.folderId \in Nat
  BY <1>1 DEF FileRecord
<1>4. QED
  BY <1>2, <1>3 DEF RefersTo

LEMMA KnownFolderRefers ==
    ASSUME Typed, RefInv, KnownFolder
    PROVE  RefInv'
<1>1. /\ pc = "path" /\ pc' = "path" /\ todo # <<>>
      /\ UNCHANGED <<folders, blocks, stream>>
  BY DEF KnownFolder
<1>2. /\ values \in Seq(Names) /\ Head(todo) \in Names
      /\ folders \in Seq([parentId : Nat, nameId : Nat])
      /\ batch.strings \in Seq(StringRecord) /\ batch.folders \in Seq(FolderRecord)
      /\ batch.files \in Seq(FileRecord)
      /\ values' = Interned(values, Head(todo))
  BY <1>1, WalkType DEF Typed, TypeOK, Batch, KnownFolder
<1>3. /\ batch'.strings = batch.strings \o NewStrings(values, Head(todo))
      /\ batch'.folders = batch.folders /\ batch'.files = batch.files
  BY DEF KnownFolder, Typed, TypeOK, Batch
<1>4. Len(values) \in Nat /\ Len(values') \in Nat /\ Len(values) <= Len(values')
      /\ Len(folders) \in Nat
  BY <1>2, Intern, LenProperties
<1>5. parent' <= Len(folders')
  <2>1. parent' \in 1..Len(folders)
    BY <1>2, IdOfMember DEF KnownFolder
  <2>2. QED
    BY <1>1, <1>4, <2>1
<1>6. BatchRefers'
  <2>1. RefersTo(batch.folders, batch.files, Len(values), Len(folders))
    BY BatchParts DEF RefInv
  <2>2. RefersTo(batch.folders, batch.files, Len(values'), Len(folders))
    BY <1>2, <1>4, <2>1, GrowthRefers
  <2>3. QED
    BY <1>1, <1>3, <1>5, <2>2 DEF BatchRefers, RefersTo
<1>7. Placed'
  <2>1. CASE stream = "good"
    <3>1. StringsPlaced(Len(values), batch.strings, blocks)
          /\ FoldersPlaced(Len(folders), batch.folders, blocks)
      BY <2>1, PlacedParts DEF RefInv
    <3>2. StringsPlaced(Len(values'), batch'.strings, blocks)
      BY <1>2, <1>3, <3>1, InternPlaces
    <3>3. QED
      BY <1>1, <1>3, <3>1, <3>2 DEF Placed, StringsPlaced, FoldersPlaced
  <2>2. QED
    BY <1>1, <2>1 DEF Placed
<1>8. QED
  BY <1>1, <1>6, <1>7 DEF RefInv, NoIdsYet, ReferencesResolve

LEMMA NewFolderRefers ==
    ASSUME Typed, RefInv, NewFolder
    PROVE  RefInv'
<1> DEFINE key == FolderKey(values')
           rec == [id |-> Len(folders'), parentId |-> parent,
                   nameId |-> IdOf(values', Head(todo))]
<1>1. /\ pc = "path" /\ pc' = "path" /\ todo # <<>>
      /\ UNCHANGED <<blocks, stream>>
      /\ parent' = Len(folders') /\ folders' = Append(folders, key)
  BY DEF NewFolder
<1>2. /\ values \in Seq(Names) /\ Head(todo) \in Names
      /\ folders \in Seq([parentId : Nat, nameId : Nat])
      /\ batch.strings \in Seq(StringRecord) /\ batch.folders \in Seq(FolderRecord)
      /\ batch.files \in Seq(FileRecord)
      /\ parent \in Nat
      /\ values' = Interned(values, Head(todo))
      /\ key \in [parentId : Nat, nameId : Nat]
  BY <1>1, WalkType DEF Typed, TypeOK, Batch, NewFolder
<1>3. /\ batch'.strings = batch.strings \o NewStrings(values, Head(todo))
      /\ batch'.folders = Append(batch.folders, rec) /\ batch'.files = batch.files
  BY DEF NewFolder, Typed, TypeOK, Batch
<1>4. /\ Len(values) \in Nat /\ Len(values') \in Nat /\ Len(values) <= Len(values')
      /\ Len(folders) \in Nat /\ Len(folders') = Len(folders) + 1
      /\ IdOf(values', Head(todo)) \in 1..Len(values')
  <2>1. Len(values) \in Nat /\ Len(values') \in Nat /\ Len(folders) \in Nat
    BY <1>2, Intern, LenProperties
  <2>2. Len(values) <= Len(values') /\ IdOf(values', Head(todo)) \in 1..Len(values')
    BY <1>2, Intern
  <2> HIDE DEF key
  <2>3. Len(folders') = Len(folders) + 1
    BY <1>1, <1>2, AppendProperties
  <2>4. QED
    BY <2>1, <2>2, <2>3
<1>5. /\ rec \in FolderRecord
      /\ rec.id = Len(folders') /\ rec.parentId < rec.id /\ rec.nameId \in 1..Len(values')
  BY <1>2, <1>4 DEF FolderRecord, RefInv, BatchRefers
<1> HIDE DEF key, rec
<1>6. Range(batch'.folders) = Range(batch.folders) \cup {rec}
  BY <1>2, <1>3, <1>5, RangeAppend
<1>7. BatchRefers'
  <2>1. RefersTo(batch.folders, batch.files, Len(values'), Len(folders'))
    <3>1. Len(folders') \in Nat /\ Len(folders) <= Len(folders')
      BY <1>4
    <3>2. RefersTo(batch.folders, batch.files, Len(values), Len(folders))
      BY BatchParts DEF RefInv
    <3>3. QED
      BY <1>2, <1>4, <3>1, <3>2, GrowthRefers
  <2>2. parent' <= Len(folders') /\ rec.id <= Len(folders')
    BY <1>1, <1>4, <1>5
  <2>3. QED
    BY <1>3, <1>5, <1>6, <2>1, <2>2 DEF BatchRefers, RefersTo
<1>8. Placed'
  <2>1. CASE stream = "good"
    <3>1. StringsPlaced(Len(values), batch.strings, blocks)
          /\ FoldersPlaced(Len(folders), batch.folders, blocks)
      BY <2>1, PlacedParts DEF RefInv
    <3>2. StringsPlaced(Len(values'), batch'.strings, blocks)
      BY <1>2, <1>3, <3>1, InternPlaces
    <3>3. FoldersPlaced(Len(folders'), batch'.folders, blocks)
      <4>1. ASSUME NEW id \in 1..Len(folders')
            PROVE  (\E r \in Range(batch'.folders) : r.id = id) \/ FolderIn(blocks, id, Len(blocks))
        <5>1. CASE id = Len(folders')
          BY <1>5, <1>6, <5>1
        <5>2. CASE id # Len(folders')
          <6>1. id \in 1..Len(folders)
            BY <1>4, <5>2
          <6>2. QED
            BY <1>6, <3>1, <6>1 DEF FoldersPlaced
        <5>3. QED
          BY <5>1, <5>2
      <4>2. QED
        BY <4>1 DEF FoldersPlaced
    <3>4. QED
      BY <1>1, <3>2, <3>3 DEF Placed, StringsPlaced, FoldersPlaced
  <2>2. QED
    BY <1>1, <2>1 DEF Placed
<1>9. QED
  BY <1>1, <1>7, <1>8 DEF RefInv, NoIdsYet, ReferencesResolve

LEMMA FileDoneRefers ==
    ASSUME Typed, RefInv, FileDone
    PROVE  RefInv'
<1> DEFINE named == Interned(values, entry.name)
           first == batch.strings \o NewStrings(values, entry.name)
           rec == [folderId |-> parent, nameId |-> IdOf(values', entry.name),
                   extensionId |-> IdOf(values', entry.extension)]
<1>1. /\ pc = "path" /\ pc' \in {"scanning", "committing"}
      /\ UNCHANGED <<blocks, stream, folders, parent>>
      /\ values' = Interned(named, entry.extension)
  BY DEF FileDone, MaintenanceOrNot
<1>2. /\ values \in Seq(Names) /\ entry.name \in Names /\ entry.extension \in Names
      /\ folders \in Seq([parentId : Nat, nameId : Nat])
      /\ batch.strings \in Seq(StringRecord) /\ batch.folders \in Seq(FolderRecord)
      /\ batch.files \in Seq(FileRecord)
      /\ parent \in Nat /\ parent <= Len(folders)
  BY <1>1, Constants DEF Typed, TypeOK, InHand, Batch, RefInv, BatchRefers
<1>3. /\ batch'.strings = first \o NewStrings(named, entry.extension)
      /\ batch'.folders = batch.folders /\ batch'.files = Append(batch.files, rec)
  BY DEF FileDone, Typed, TypeOK, Batch
<1>4. /\ named \in Seq(Names) /\ values' \in Seq(Names)
      /\ Len(values) <= Len(named) /\ Len(named) <= Len(values')
      /\ first \in Seq(StringRecord)
  BY <1>1, <1>2, Intern, ConcatProperties
<1>5. /\ Len(values) \in Nat /\ Len(values') \in Nat /\ Len(values) <= Len(values')
      /\ Len(folders) \in Nat
  BY <1>2, <1>4, LenProperties
<1>6. /\ IdOf(values', entry.name) \in 1..Len(values')
      /\ IdOf(values', entry.extension) \in 1..Len(values')
  BY <1>1, <1>2, InternKeeps
<1>7. rec \in FileRecord
  BY <1>2, <1>5, <1>6 DEF FileRecord
<1>8. rec.folderId = parent /\ rec.nameId \in 1..Len(values') /\ rec.extensionId \in 1..Len(values')
  BY <1>6
<1> HIDE DEF named, first, rec
<1>9. BatchRefers'
  <2>1. RefersTo(batch.folders, batch.files, Len(values), Len(folders))
    BY BatchParts DEF RefInv
  <2>2. RefersTo(batch.folders, batch.files, Len(values'), Len(folders))
    BY <1>2, <1>5, <2>1, GrowthRefers
  <2>3. Range(batch'.files) = Range(batch.files) \cup {rec}
    BY <1>2, <1>3, <1>7, RangeAppend
  <2>4. QED
    BY <1>1, <1>2, <1>3, <1>8, <2>2, <2>3 DEF BatchRefers, RefersTo
<1>10. Placed'
  <2>1. CASE stream = "good"
    <3>1. StringsPlaced(Len(values), batch.strings, blocks)
          /\ FoldersPlaced(Len(folders), batch.folders, blocks)
      BY <2>1, PlacedParts DEF RefInv
    <3>2. StringsPlaced(Len(named), first, blocks)
      BY <1>2, <3>1, InternPlaces DEF named, first
    <3>3. StringsPlaced(Len(values'), batch'.strings, blocks)
      BY <1>1, <1>2, <1>3, <1>4, <3>2, InternPlaces
    <3>4. QED
      BY <1>1, <1>3, <3>1, <3>3 DEF Placed, StringsPlaced, FoldersPlaced
  <2>2. QED
    BY <1>1, <2>1 DEF Placed
<1>11. QED
  BY <1>1, <1>9, <1>10 DEF RefInv, NoIdsYet, ReferencesResolve

(* A block that joins the file takes nothing from the ones before it. *)
LEMMA AppendKeeps ==
    ASSUME NEW blks \in Seq(Block), NEW b \in Block, NEW id
    PROVE  LET more == Append(blks, b) IN
           /\ Len(more) = Len(blks) + 1 /\ Len(blks) \in Nat
           /\ more[Len(more)] = b
           /\ \A k \in 1..Len(blks) :
                /\ more[k] = blks[k]
                /\ StringIn(blks, id, k) => StringIn(more, id, k)
                /\ FolderIn(blks, id, k) => FolderIn(more, id, k)
           /\ StringIn(blks, id, Len(blks)) => StringIn(more, id, Len(more))
           /\ FolderIn(blks, id, Len(blks)) => FolderIn(more, id, Len(more))
           /\ (\E r \in Range(b.strings) : r.id = id) => StringIn(more, id, Len(more))
           /\ (\E r \in Range(b.folders) : r.id = id) => FolderIn(more, id, Len(more))
<1> DEFINE more == Append(blks, b)
<1>1. /\ Len(more) = Len(blks) + 1 /\ Len(blks) \in Nat
      /\ \A k \in 1..Len(blks) : more[k] = blks[k]
      /\ more[Len(blks) + 1] = b
  BY AppendProperties, LenProperties
<1> HIDE DEF more
<1>2. ASSUME NEW k \in 1..Len(blks)
      PROVE  /\ StringIn(blks, id, k) => StringIn(more, id, k)
             /\ FolderIn(blks, id, k) => FolderIn(more, id, k)
  BY <1>1 DEF StringIn, FolderIn
<1>3. /\ StringIn(blks, id, Len(blks)) => StringIn(more, id, Len(more))
      /\ FolderIn(blks, id, Len(blks)) => FolderIn(more, id, Len(more))
  BY <1>1 DEF StringIn, FolderIn
<1>4. /\ (\E r \in Range(b.strings) : r.id = id) => StringIn(more, id, Len(more))
      /\ (\E r \in Range(b.folders) : r.id = id) => FolderIn(more, id, Len(more))
  <2>1. Len(more) \in 1..Len(more) /\ more[Len(more)] = b
    BY <1>1
  <2>2. QED
    BY <2>1 DEF StringIn, FolderIn
<1>5. QED
  BY <1>1, <1>2, <1>3, <1>4 DEF more

(* The batch, once it is the last block, refers to nothing outside the file. *)
LEMMA BlockRefers ==
    ASSUME Typed, RefInv, stream = "good", NEW n \in Nat,
           NEW more, more = Append(blocks, BlockOf(batch, n))
    PROVE  /\ more \in Seq(Block) /\ \A k \in DOMAIN more : Resolves(more, k)
           /\ \A id \in 1..Len(values) : StringIn(more, id, Len(more))
           /\ \A id \in 1..Len(folders) : FolderIn(more, id, Len(more))
<1> DEFINE b == BlockOf(batch, n)
<1>1. more = Append(blocks, b)
  OBVIOUS
<1>2. /\ b.strings = batch.strings /\ b.folders = batch.folders /\ b.files = batch.files
      /\ b \in Block /\ blocks \in Seq(Block)
      /\ batch.folders \in Seq(FolderRecord) /\ batch.files \in Seq(FileRecord)
      /\ values \in Seq(Names) /\ folders \in Seq([parentId : Nat, nameId : Nat])
  BY BlockType DEF Typed, TypeOK, BlockOf, Batch
<1>3. /\ Range(batch.folders) \subseteq FolderRecord /\ Range(batch.files) \subseteq FileRecord
      /\ Len(values) \in Nat /\ Len(folders) \in Nat
  BY <1>2, RangeOfSeq, LenProperties
<1> HIDE DEF b
<1>4. /\ \A id \in 1..Len(values) : StringIn(more, id, Len(more))
      /\ \A id \in 1..Len(folders) : FolderIn(more, id, Len(more))
  <2>1. StringsPlaced(Len(values), batch.strings, blocks)
        /\ FoldersPlaced(Len(folders), batch.folders, blocks)
    BY PlacedParts DEF RefInv
  <2>2. \A id : /\ StringIn(blocks, id, Len(blocks)) => StringIn(more, id, Len(more))
                /\ FolderIn(blocks, id, Len(blocks)) => FolderIn(more, id, Len(more))
                /\ (\E r \in Range(b.strings) : r.id = id) => StringIn(more, id, Len(more))
                /\ (\E r \in Range(b.folders) : r.id = id) => FolderIn(more, id, Len(more))
    BY <1>1, <1>2, AppendKeeps
  <2>3. QED
    BY <1>2, <2>1, <2>2 DEF StringsPlaced, FoldersPlaced
<1>5. Len(more) = Len(blocks) + 1 /\ Len(blocks) \in Nat /\ more[Len(more)] = b
      /\ more \in Seq(Block)
  BY <1>1, <1>2, AppendKeeps, AppendProperties
<1>6. Resolves(more, Len(more))
  <2>1. RefersTo(batch.folders, batch.files, Len(values), Len(folders))
    BY BatchParts DEF RefInv
  <2>2. ASSUME NEW f \in Range(batch.folders)
        PROVE  /\ f.parentId < f.id
               /\ FolderIn(more, f.parentId, Len(more))
               /\ StringIn(more, f.nameId, Len(more))
    <3>1. /\ f.id <= Len(folders) /\ f.parentId < f.id /\ f.nameId \in 1..Len(values)
          /\ f.id \in Nat /\ f.parentId \in Nat
      BY <1>3, <2>1 DEF RefersTo, FolderRecord
    <3>2. f.parentId = 0 \/ f.parentId \in 1..Len(folders)
      BY <1>3, <3>1
    <3>3. QED
      BY <1>4, <3>1, <3>2 DEF FolderIn
  <2>3. ASSUME NEW f \in Range(batch.files)
        PROVE  /\ FolderIn(more, f.folderId, Len(more))
               /\ StringIn(more, f.nameId, Len(more))
               /\ StringIn(more, f.extensionId, Len(more))
    <3>1. /\ f.folderId <= Len(folders) /\ f.folderId \in Nat
          /\ f.nameId \in 1..Len(values) /\ f.extensionId \in 1..Len(values)
      BY <1>3, <2>1 DEF RefersTo, FileRecord
    <3>2. f.folderId = 0 \/ f.folderId \in 1..Len(folders)
      BY <1>3, <3>1
    <3>3. QED
      BY <1>4, <3>1, <3>2 DEF FolderIn
  <2>4. QED
    BY <1>2, <1>5, <2>2, <2>3 DEF Resolves
<1>7. ASSUME NEW k \in 1..Len(blocks)
      PROVE  Resolves(more, k)
  <2>1. Resolves(blocks, k)
    BY <1>2, LenProperties DEF RefInv, ReferencesResolve
  <2>2. more[k] = blocks[k]
    BY <1>1, <1>2, AppendKeeps
  <2>3. \A id : /\ StringIn(blocks, id, k) => StringIn(more, id, k)
                /\ FolderIn(blocks, id, k) => FolderIn(more, id, k)
    BY <1>1, <1>2, AppendKeeps
  <2>4. QED
    BY <2>1, <2>2, <2>3 DEF Resolves
<1>8. DOMAIN more = 1..(Len(blocks) + 1)
  BY <1>5, LenProperties
<1>9. QED
  BY <1>4, <1>5, <1>6, <1>7, <1>8

LEMMA BlockWrittenRefers ==
    ASSUME Typed, RefInv, BlockWritten
    PROVE  RefInv'
<1>1. /\ stream = "good" /\ stream' = "good" /\ pc = "writing" /\ pc' \in {"report", "finish"}
      /\ UNCHANGED <<values, folders, parent>>
      /\ batch' = EmptyBatch
      /\ blocks' = Append(blocks, BlockOf(batch, stats.commitId)) /\ stats.commitId \in Nat
  BY DEF BlockWritten, Committed, Typed, TypeOK, InHand, Counters
<1>2. /\ \A k \in DOMAIN blocks' : Resolves(blocks', k)
      /\ \A id \in 1..Len(values) : StringIn(blocks', id, Len(blocks'))
      /\ \A id \in 1..Len(folders) : FolderIn(blocks', id, Len(blocks'))
  BY <1>1, BlockRefers
<1>3. ReferencesResolve'
  BY <1>2 DEF ReferencesResolve
<1>4. BatchRefers'
  BY <1>1, EmptyRange DEF RefInv, BatchRefers, EmptyBatch
<1>5. Placed'
  BY <1>1, <1>2 DEF Placed
<1>6. QED
  BY <1>1, <1>3, <1>4, <1>5 DEF RefInv, NoIdsYet

(* Steps that leave the ids and the file alone, start over, or lose the stream. *)
LEMMA OtherRefers ==
    ASSUME Typed, RefInv,
           \/ Construct \/ ResetCommand \/ Starting \/ Truncate \/ WriteHeader \/ Running
           \/ \E e \in Entries : EntryFound(e)
           \/ FolderDone \/ ScanError \/ ScanEnds
           \/ NothingToCommit \/ StartBlock \/ Spill \/ BlockNotWritten
           \/ Report \/ StopSeen \/ PauseSeen \/ ResumeSeen \/ GoOn \/ Finish \/ Throw \/ Kill
           \/ \E c \in {"Continue", "Pause", "StopGraceful"} : WriteCommand(c)
           \/ UNCHANGED vars
    PROVE  RefInv'
<1>1. CASE Construct
  <2>1. /\ values' = <<>> /\ folders' = <<>> /\ batch' = EmptyBatch /\ parent' = 0
        /\ stream' = "closed" /\ blocks' = blocks
    BY <1>1 DEF Construct, FreshMemory
  <2>2. Len(<<>>) = 0
    BY EmptySeq
  <2>3. QED
    BY <2>1, <2>2, EmptyRange
       DEF RefInv, NoIdsYet, BatchRefers, EmptyBatch, Placed, ReferencesResolve
<1>2. CASE Truncate
  <2>1. /\ values' = <<>> /\ folders' = <<>> /\ batch' = EmptyBatch /\ parent' = parent
        /\ folders = <<>> /\ blocks' = <<>> /\ pc' = "heading"
    BY <1>2 DEF Truncate, RefInv, NoIdsYet
  <2>2. Len(<<>>) = 0 /\ DOMAIN <<>> = {}
    BY EmptySeq
  <2>3. BatchRefers'
    BY <2>1, EmptyRange DEF RefInv, BatchRefers, EmptyBatch
  <2>4. QED
    BY <2>1, <2>2, <2>3 DEF RefInv, NoIdsYet, Placed, ReferencesResolve
<1>3. ASSUME NEW e \in Entries, EntryFound(e) PROVE RefInv'
  <2>1. /\ UNCHANGED <<values, folders, batch, blocks, stream>> /\ parent' = 0 /\ pc' = "path"
    BY <1>3 DEF EntryFound
  <2>2. Len(folders) \in Nat
    BY LenProperties DEF Typed, TypeOK
  <2>3. QED
    BY <2>1, <2>2 DEF RefInv, NoIdsYet, BatchRefers, Placed, ReferencesResolve
<1>4. CASE BlockNotWritten
  <2>1. /\ batch' = EmptyBatch /\ stream' = "bad" /\ pc' \in {"report", "finish"}
        /\ UNCHANGED <<values, folders, blocks, parent>>
    BY <1>4 DEF BlockNotWritten, Committed, Typed, TypeOK
  <2>2. QED
    BY <2>1, EmptyRange
       DEF RefInv, NoIdsYet, BatchRefers, EmptyBatch, Placed, ReferencesResolve
<1>5. ASSUME UNCHANGED <<values, folders, batch, parent, blocks>>,
             stream' = stream \/ stream' = "bad",
             pc' \in {"constructed", "starting", "opening"} =>
                 pc \in {"constructed", "starting", "opening"}
      PROVE  RefInv'
  BY <1>5 DEF RefInv, NoIdsYet, BatchRefers, Placed, ReferencesResolve
<1>6. CASE ResetCommand \/ Starting \/ WriteHeader \/ Running
  BY <1>5, <1>6 DEF ResetCommand, Starting, WriteHeader, Running
<1>7. CASE FolderDone \/ ScanError \/ ScanEnds
  BY <1>5, <1>7 DEF FolderDone, MaintenanceOrNot, ScanError, ScanEnds
<1>8. CASE NothingToCommit \/ StartBlock \/ Spill
  BY <1>5, <1>8 DEF NothingToCommit, StartBlock, Spill, Typed, TypeOK
<1>9. CASE Report \/ StopSeen \/ PauseSeen \/ ResumeSeen \/ GoOn \/ Finish
  BY <1>5, <1>9 DEF Report, StopSeen, PauseSeen, ResumeSeen, GoOn, Finish
<1>10. CASE Throw \/ Kill
  BY <1>5, <1>10 DEF Throw, Kill
<1>11. ASSUME NEW c \in {"Continue", "Pause", "StopGraceful"}, WriteCommand(c) PROVE RefInv'
  BY <1>5, <1>11 DEF WriteCommand
<1>12. CASE UNCHANGED vars
  BY <1>5, <1>12 DEF vars
<1>13. QED
  BY <1>1, <1>2, <1>3, <1>4, <1>6, <1>7, <1>8, <1>9, <1>10, <1>11, <1>12

LEMMA RefInvStep == Typed /\ RefInv /\ [Next]_vars => RefInv'
BY OtherRefers, KnownFolderRefers, NewFolderRefers, FileDoneRefers, BlockWrittenRefers
   DEF Next, Step

LEMMA RefInvInit == Init => RefInv
<1>1. Len(<<>>) = 0 /\ DOMAIN <<>> = {}
  BY EmptySeq
<1>2. QED
  BY <1>1, EmptyRange
     DEF Init, RefInv, NoIdsYet, BatchRefers, EmptyBatch, Placed, ReferencesResolve

(* Whatever is scanned, killed, thrown or refused by the disk, no complete block uses a
   string or a folder that it and the blocks before it do not define, and a folder's
   parent has a smaller id: the folder paths a search builds always end at the root. *)
THEOREM BlocksStandAlone == Spec => []ReferencesResolve
<1>1. RefInv => ReferencesResolve
  BY DEF RefInv
<1>2. QED
  BY <1>1, RefInvInit, RefInvStep, TypedHolds, PTL DEF Spec

(* The whole inductive invariant that the runs check too. *)
THEOREM InductiveInvariant == Spec => []IInv
<1>1. Typed /\ RefInv => IInv
  BY DEF Typed, RefInv, IInv
<1>2. QED
  BY <1>1, RefInvInit, RefInvStep, TypedHolds, PTL DEF Spec

-----------------------------------------------------------------------------
(* What a step may never do. *)

LEMMA SubSeqOfAppend ==
    ASSUME NEW S, NEW s \in Seq(S), NEW x \in S
    PROVE  s = SubSeq(Append(s, x), 1, Len(s))
<1> DEFINE t == Append(s, x)
<1>1. /\ t \in Seq(S) /\ Len(s) \in Nat /\ Len(t) = Len(s) + 1
      /\ \A i \in 1..Len(s) : t[i] = s[i] /\ t[i] \in S
  BY AppendProperties, ElementOfSeq, LenProperties
<1> HIDE DEF t
<1>2. /\ SubSeq(t, 1, Len(s)) \in Seq(S)
      /\ Len(SubSeq(t, 1, Len(s))) = Len(s)
      /\ \A i \in 1..Len(s) : SubSeq(t, 1, Len(s))[i] = t[i]
  <2>1. Len(s) \in Int /\ 1 \in Int /\ Len(s) - 1 + 1 = Len(s)
    BY <1>1
  <2>2. /\ SubSeq(t, 1, Len(s)) \in Seq(S)
        /\ Len(SubSeq(t, 1, Len(s))) = IF 1 <= Len(s) THEN Len(s) - 1 + 1 ELSE 0
        /\ \A i \in 1..(Len(s) - 1 + 1) : SubSeq(t, 1, Len(s))[i] = t[1 + i - 1]
    BY <1>1, <2>1, SubSeqProperties
  <2>3. QED
    BY <1>1, <2>1, <2>2
<1>3. s = SubSeq(t, 1, Len(s))
  BY <1>1, <1>2, SeqEqual
<1>4. QED
  BY <1>3 DEF t

(* Only the opening of the file and the end of a block touch the blocks. *)
LEMMA BlocksChange ==
    ASSUME Next, ~ BlockWritten, pc # "opening"
    PROVE  blocks' = blocks
<1>1. ASSUME NEW c \in {"Continue", "Pause", "StopGraceful"}, WriteCommand(c)
      PROVE  blocks' = blocks
  BY <1>1 DEF WriteCommand
<1>2. ASSUME NEW e \in Entries, EntryFound(e) PROVE blocks' = blocks
  BY <1>2 DEF EntryFound
<1>3. CASE Construct \/ ResetCommand \/ Starting \/ Truncate \/ WriteHeader \/ Running
  BY <1>3 DEF Construct, ResetCommand, Starting, Truncate, WriteHeader, Running
<1>4. CASE KnownFolder \/ NewFolder \/ FolderDone \/ FileDone \/ ScanError \/ ScanEnds
  BY <1>4 DEF KnownFolder, NewFolder, FolderDone, FileDone, ScanError, ScanEnds
<1>5. CASE NothingToCommit \/ StartBlock \/ Spill \/ BlockNotWritten
  BY <1>5 DEF NothingToCommit, StartBlock, Spill, BlockNotWritten
<1>6. CASE Report \/ StopSeen \/ PauseSeen \/ ResumeSeen \/ GoOn \/ Finish
  BY <1>6 DEF Report, StopSeen, PauseSeen, ResumeSeen, GoOn, Finish
<1>7. CASE Throw \/ Kill
  BY <1>7 DEF Throw, Kill
<1>8. QED
  BY <1>1, <1>2, <1>3, <1>4, <1>5, <1>6, <1>7 DEF Next, Step

(* Between two openings the file only grows: no commit, no failed write, no kill and no
   exception changes a block that a reader may have read. *)
THEOREM FileGrows == Spec => AppendOnly
<1> DEFINE Grown == pc # "opening" => blocks = SubSeq(blocks', 1, Len(blocks))
<1>1. Typed /\ [Next]_vars => [Grown]_vars
  <2> SUFFICES ASSUME Typed, Next, pc # "opening"
               PROVE  blocks = SubSeq(blocks', 1, Len(blocks))
    OBVIOUS
  <2>1. blocks \in Seq(Block)
    BY DEF Typed, TypeOK
  <2>2. CASE BlockWritten
    <3> DEFINE b == BlockOf(batch, stats.commitId)
    <3>1. blocks' = Append(blocks, b)
      BY <2>2 DEF BlockWritten, Typed, TypeOK, InHand
    <3>2. b \in Block
      BY BlockType DEF Typed, TypeOK, Counters
    <3> HIDE DEF b
    <3>3. QED
      BY <2>1, <3>1, <3>2, SubSeqOfAppend
  <2>3. CASE ~ BlockWritten
    BY <2>1, <2>3, BlocksChange, SubSeqFull
  <2>4. QED
    BY <2>2, <2>3
<1>2. QED
  BY <1>1, TypedHolds, PTL DEF Spec, AppendOnly

(* A step of run() goes on from the start of the session, and writes the command slot in
   the reset only. *)
LEMMA StepLeaves ==
    ASSUME Typed, Step
    PROVE  pc' # "constructed" /\ (~ ResetCommand => command' = command)
<1>1. ASSUME NEW e \in Entries, EntryFound(e)
      PROVE  pc' # "constructed" /\ command' = command
  BY <1>1 DEF EntryFound
<1>2. CASE ResetCommand
  BY <1>2 DEF ResetCommand
<1>3. CASE Starting \/ Truncate \/ WriteHeader \/ Running
  BY <1>3 DEF Starting, Truncate, WriteHeader, Running
<1>4. CASE KnownFolder \/ NewFolder \/ FolderDone \/ FileDone \/ ScanError \/ ScanEnds
  BY <1>4 DEF KnownFolder, NewFolder, FolderDone, FileDone, MaintenanceOrNot, ScanError, ScanEnds
<1>5. CASE StartBlock \/ Spill
  BY <1>5 DEF StartBlock, Spill
<1>6. CASE NothingToCommit \/ BlockWritten \/ BlockNotWritten
  BY <1>6 DEF NothingToCommit, BlockWritten, BlockNotWritten, Committed, Typed, TypeOK
<1>7. CASE Report \/ StopSeen \/ PauseSeen \/ ResumeSeen \/ GoOn \/ Finish
  BY <1>7 DEF Report, StopSeen, PauseSeen, ResumeSeen, GoOn, Finish
<1>8. QED
  BY <1>1, <1>2, <1>3, <1>4, <1>5, <1>6, <1>7 DEF Step

(* The command is reset before the first status of the session. *)
NoStatusYet == pc = "constructed" => status.state = "none"

LEMMA NoStatusYetHolds == Spec => []NoStatusYet
<1>1. Init => NoStatusYet
  BY DEF Init, NoStatusYet
<1>2. Typed /\ NoStatusYet /\ [Next]_vars => NoStatusYet'
  <2> SUFFICES ASSUME Typed, NoStatusYet, [Next]_vars, pc' = "constructed"
               PROVE  status'.state = "none"
    BY DEF NoStatusYet
  <2>1. CASE Construct
    BY <2>1 DEF Construct, NoStatus
  <2>2. ASSUME NEW c \in {"Continue", "Pause", "StopGraceful"}, WriteCommand(c)
        PROVE  status'.state = "none"
    BY <2>2 DEF WriteCommand, NoStatusYet
  <2>3. CASE UNCHANGED vars
    BY <2>3 DEF vars, NoStatusYet
  <2>4. CASE Step \/ Throw \/ Kill
    <3>1. pc' # "constructed"
      BY <2>4, StepLeaves DEF Throw, Kill
    <3>2. QED
      BY <3>1
  <2>5. QED
    BY <2>1, <2>2, <2>3, <2>4 DEF Next
<1>3. QED
  BY <1>1, <1>2, TypedHolds, PTL DEF Spec

(* From the first status on, run() never writes the command slot: a stop is taken back by
   another command or not at all. *)
THEOREM StopIsKept == Spec => StopKept
<1> DEFINE Kept == /\ pc # "absent" /\ status.state # "none"
                   /\ command \in Stops /\ command' \notin Stops
                   => pc' = pc
<1>1. Typed /\ NoStatusYet /\ [Next]_vars => [Kept]_vars
  <2> SUFFICES ASSUME Typed, NoStatusYet, Next, pc # "absent", status.state # "none",
                      command' # command
               PROVE  pc' = pc
    OBVIOUS
  <2>1. ~ Construct /\ ~ ResetCommand
    BY DEF Construct, ResetCommand, NoStatusYet
  <2>2. ~ (Step \/ Throw \/ Kill)
    BY <2>1, StepLeaves DEF Throw, Kill
  <2>3. PICK c \in {"Continue", "Pause", "StopGraceful"} : WriteCommand(c)
    BY <2>1, <2>2 DEF Next
  <2>4. QED
    BY <2>3 DEF WriteCommand
<1>2. QED
  BY <1>1, NoStatusYetHolds, TypedHolds, PTL DEF Spec, StopKept

-----------------------------------------------------------------------------
(* The folder tree in memory: its paths are well defined, and stay when it grows. *)

Strings == Seq(Names)
Tree == Seq([parentId : Nat, nameId : Nat])

(* The recursion of FolderPaths, followed to the n-th folder. *)
ClimbsTo(strs, tree, n, up) ==
    \A id \in 0..n :
        up[id] = IF id = 0 THEN <<>>
                 ELSE Append(up[tree[id].parentId], strs[tree[id].nameId])

LEMMA RootedParts ==
    ASSUME NEW strs \in Strings, NEW tree \in Tree, Rooted(strs, tree),
           NEW id \in 1..Len(tree)
    PROVE  /\ tree[id].parentId \in 0..(id - 1) /\ tree[id].parentId \in 0..Len(tree)
           /\ tree[id].parentId < id /\ id \in Nat
           /\ tree[id].nameId \in 1..Len(strs)
           /\ strs[tree[id].nameId] \in Names
<1>1. DOMAIN tree = 1..Len(tree) /\ DOMAIN strs = 1..Len(strs) /\ Len(tree) \in Nat
  BY LenProperties DEF Tree, Strings
<1>2. tree[id] \in [parentId : Nat, nameId : Nat]
  BY ElementOfSeq DEF Tree
<1>3. tree[id].parentId \in Nat /\ tree[id].parentId < id /\ tree[id].nameId \in 1..Len(strs)
  BY <1>1, <1>2 DEF Rooted
<1>4. strs[tree[id].nameId] \in Names
  BY <1>3, ElementOfSeq DEF Strings
<1>5. \A p \in Nat : p < id => p \in 0..(id - 1) /\ p \in 0..Len(tree)
  BY <1>1
<1>6. QED
  BY <1>1, <1>3, <1>4, <1>5

LEMMA ClimbOneMore ==
    ASSUME NEW strs \in Strings, NEW tree \in Tree, Rooted(strs, tree),
           NEW n \in Nat, n < Len(tree),
           NEW up \in [0..n -> Strings], ClimbsTo(strs, tree, n, up)
    PROVE  \E more \in [0..(n + 1) -> Strings] : ClimbsTo(strs, tree, n + 1, more)
<1> DEFINE next_ == Append(up[tree[n + 1].parentId], strs[tree[n + 1].nameId])
           more == [id \in 0..(n + 1) |-> IF id = n + 1 THEN next_ ELSE up[id]]
<1>1. Len(tree) \in Nat /\ n + 1 \in 1..Len(tree)
  BY LenProperties DEF Tree
<1>2. tree[n + 1].parentId \in 0..n /\ strs[tree[n + 1].nameId] \in Names
  <2>1. tree[n + 1].parentId \in 0..(n + 1 - 1) /\ n + 1 - 1 = n
    BY <1>1, RootedParts
  <2>2. QED
    BY <1>1, <2>1, RootedParts
<1>3. next_ \in Strings
  BY <1>2, AppendProperties DEF Strings
<1> HIDE DEF next_
<1>4. more \in [0..(n + 1) -> Strings]
  BY <1>3
<1>5. more[n + 1] = next_ /\ \A id \in 0..n : more[id] = up[id]
  OBVIOUS
<1> HIDE DEF more
<1>6. ASSUME NEW id \in 0..(n + 1)
      PROVE  more[id] = IF id = 0 THEN <<>>
                        ELSE Append(more[tree[id].parentId], strs[tree[id].nameId])
  <2>1. CASE id = n + 1
    <3>1. id # 0
      BY <2>1
    <3>2. QED
      BY <1>2, <1>5, <2>1, <3>1 DEF next_
  <2>2. CASE id = 0
    <3>1. 0 \in 0..n
      OBVIOUS
    <3>2. QED
      BY <1>5, <2>2, <3>1 DEF ClimbsTo
  <2>3. CASE id # n + 1 /\ id # 0
    <3>1. id \in 0..n /\ id \in 1..Len(tree)
      BY <1>1, <2>3
    <3>2. tree[id].parentId \in 0..(id - 1)
      BY <3>1, RootedParts
    <3>3. tree[id].parentId \in 0..n
      BY <3>1, <3>2
    <3>4. QED
      BY <1>5, <2>3, <3>1, <3>3 DEF ClimbsTo
  <2>4. QED
    BY <2>1, <2>2, <2>3
<1>7. QED
  BY <1>4, <1>6 DEF ClimbsTo

LEMMA ClimbExists ==
    ASSUME NEW strs \in Strings, NEW tree \in Tree, Rooted(strs, tree)
    PROVE  \E up \in [0..Len(tree) -> Strings] : ClimbsTo(strs, tree, Len(tree), up)
<1> DEFINE Some(n) == \E up \in [0..n -> Strings] : ClimbsTo(strs, tree, n, up)
           T == {n \in Nat : n <= Len(tree) => Some(n)}
<1>0. Len(tree) \in Nat
  BY LenProperties DEF Tree
<1>1. Some(0)
  <2> DEFINE up == [id \in 0..0 |-> <<>>]
  <2>1. up \in [0..0 -> Strings] /\ up[0] = <<>> /\ \A id \in 0..0 : id = 0
    BY EmptySeq DEF Strings
  <2> HIDE DEF up
  <2>2. QED
    BY <2>1 DEF ClimbsTo
<1> HIDE DEF Some
<1>2. ASSUME NEW n \in T PROVE n + 1 \in T
  <2>1. n \in Nat /\ n + 1 \in Nat /\ (n + 1 <= Len(tree) => n < Len(tree) /\ n <= Len(tree))
    BY <1>0
  <2>2. n + 1 <= Len(tree) => Some(n + 1)
    BY <2>1, ClimbOneMore DEF Some
  <2>3. QED
    BY <2>1, <2>2
<1>3. T \in SUBSET Nat /\ 0 \in T
  BY <1>1
<1>4. T = Nat
  <2> HIDE DEF T
  <2>1. QED
    BY <1>2, <1>3, SetInduction
<1>5. QED
  BY <1>0, <1>4 DEF Some

(* What FolderPaths is: the one function that climbs the whole tree. *)
LEMMA PathsClimb ==
    ASSUME NEW strs \in Strings, NEW tree \in Tree, Rooted(strs, tree)
    PROVE  /\ FolderPaths(strs, tree)[0] = <<>>
           /\ \A id \in 1..Len(tree) :
                FolderPaths(strs, tree)[id] =
                    Append(FolderPaths(strs, tree)[tree[id].parentId], strs[tree[id].nameId])
<1> DEFINE Is(g) == g = [id \in 0..Len(tree) |->
                           IF id = 0 THEN <<>>
                           ELSE Append(g[tree[id].parentId], strs[tree[id].nameId])]
           h == CHOOSE g : Is(g)
<1>0. Len(tree) \in Nat
  BY LenProperties DEF Tree
<1>1. PICK up \in [0..Len(tree) -> Strings] : ClimbsTo(strs, tree, Len(tree), up)
  BY ClimbExists
<1>2. Is(up)
  BY <1>1 DEF ClimbsTo
<1>3. Is(h)
  BY <1>2
<1>4. FolderPaths(strs, tree) = h
  BY DEF FolderPaths
<1> HIDE DEF h
<1>5. 0 \in 0..Len(tree) /\ \A id \in 1..Len(tree) : id \in 0..Len(tree) /\ id # 0
  BY <1>0
<1>6. QED
  BY <1>3, <1>4, <1>5

(* A table extends another when it keeps every id. *)
Extends(old, new) == \A i \in DOMAIN old : i \in DOMAIN new /\ new[i] = old[i]

LEMMA PathsKept ==
    ASSUME NEW strs \in Strings, NEW tree \in Tree, Rooted(strs, tree),
           NEW strs2 \in Strings, NEW tree2 \in Tree, Rooted(strs2, tree2),
           Extends(strs, strs2), Extends(tree, tree2)
    PROVE  \A id \in 0..Len(tree) : FolderPaths(strs2, tree2)[id] = FolderPaths(strs, tree)[id]
<1> DEFINE p == FolderPaths(strs, tree)
           q == FolderPaths(strs2, tree2)
           Bad == {id \in 0..Len(tree) : q[id] # p[id]}
<1>1. /\ Len(tree) \in Nat /\ DOMAIN tree = 1..Len(tree) /\ DOMAIN tree2 = 1..Len(tree2)
      /\ DOMAIN strs = 1..Len(strs)
  BY LenProperties DEF Tree, Strings
<1>2. ASSUME Bad # {} PROVE FALSE
  <2>1. Bad \in SUBSET Nat
    OBVIOUS
  <2>2. PICK m \in Bad : \A n \in Bad : m <= n
    BY <1>2, <2>1, LeastMember
  <2>3. m \in 0..Len(tree) /\ q[m] # p[m]
    BY <2>2
  <2>4. m # 0
    BY <2>3, PathsClimb
  <2>5. m \in 1..Len(tree) /\ m \in 1..Len(tree2) /\ tree2[m] = tree[m]
    BY <1>1, <2>3, <2>4 DEF Extends
  <2>6. /\ tree[m].parentId \in 0..Len(tree) /\ tree[m].parentId < m
        /\ tree[m].nameId \in 1..Len(strs)
    BY <2>5, RootedParts
  <2>7. p[tree[m].parentId] = q[tree[m].parentId]
    <3>1. ~ (m <= tree[m].parentId)
      BY <2>3, <2>6
    <3>2. QED
      BY <2>2, <2>6, <3>1
  <2>8. strs2[tree[m].nameId] = strs[tree[m].nameId]
    BY <1>1, <2>6 DEF Extends
  <2>9. /\ p[m] = Append(p[tree[m].parentId], strs[tree[m].nameId])
        /\ q[m] = Append(q[tree2[m].parentId], strs2[tree2[m].nameId])
    BY <2>5, PathsClimb
  <2>10. QED
    BY <2>3, <2>5, <2>7, <2>8, <2>9
<1>3. QED
  BY <1>2

LEMMA PathsType ==
    ASSUME NEW strs \in Strings, NEW tree \in Tree, Rooted(strs, tree), NEW id \in 0..Len(tree)
    PROVE  FolderPaths(strs, tree)[id] \in Strings
<1> DEFINE p == FolderPaths(strs, tree)
           Bad == {i \in 0..Len(tree) : p[i] \notin Strings}
<1>1. ASSUME Bad # {} PROVE FALSE
  <2>1. Bad \in SUBSET Nat
    OBVIOUS
  <2>2. PICK m \in Bad : \A n \in Bad : m <= n
    BY <1>1, <2>1, LeastMember
  <2>3. m \in 0..Len(tree) /\ p[m] \notin Strings
    BY <2>2
  <2>4. m # 0
    BY <2>3, PathsClimb, EmptySeq DEF Strings
  <2>5. m \in 1..Len(tree)
    BY <2>3, <2>4
  <2>6. /\ tree[m].parentId \in 0..Len(tree) /\ tree[m].parentId < m
        /\ strs[tree[m].nameId] \in Names
    BY <2>5, RootedParts
  <2>7. ~ (m <= tree[m].parentId)
    BY <2>3, <2>6
  <2>8. p[tree[m].parentId] \in Strings
    BY <2>2, <2>6, <2>7
  <2>9. p[m] = Append(p[tree[m].parentId], strs[tree[m].nameId])
    BY <2>5, PathsClimb
  <2>10. QED
    BY <2>3, <2>6, <2>8, <2>9, AppendProperties DEF Strings
<1>2. QED
  BY <1>1

-----------------------------------------------------------------------------
(* A reader decodes what the tables mean. *)

BlocksTrue(strs, tree, blks) ==
    \A k \in DOMAIN blks :
        StringsTrue(strs, blks[k].strings) /\ FoldersTrue(tree, blks[k].folders)
AllResolve(blks) == \A k \in DOMAIN blks : Resolves(blks, k)

(* The records of a list of blocks are those of its blocks. *)
LEMMA RecordsOfBlocks ==
    ASSUME NEW blks \in Seq(Block), NEW k \in DOMAIN blks
    PROVE  /\ DOMAIN blks = 1..Len(blks) /\ Len(blks) \in Nat /\ k \in 1..Len(blks)
           /\ blks[k].strings \in Seq(StringRecord) /\ blks[k].folders \in Seq(FolderRecord)
           /\ blks[k].files \in Seq(FileRecord)
           /\ Range(blks[k].strings) \subseteq StringRecord
           /\ Range(blks[k].folders) \subseteq FolderRecord
           /\ Range(blks[k].files) \subseteq FileRecord
<1>1. DOMAIN blks = 1..Len(blks) /\ Len(blks) \in Nat
  BY LenProperties
<1>2. blks[k] \in Block
  BY <1>1, ElementOfSeq
<1>3. /\ blks[k].strings \in Seq(StringRecord) /\ blks[k].folders \in Seq(FolderRecord)
      /\ blks[k].files \in Seq(FileRecord)
  BY <1>2 DEF Block
<1>4. QED
  BY <1>1, <1>3, RangeOfSeq

LEMMA StringDecoded ==
    ASSUME NEW strs, NEW tree, NEW blks \in Seq(Block), BlocksTrue(strs, tree, blks),
           NEW k \in DOMAIN blks, NEW id, StringIn(blks, id, k)
    PROVE  StringAt(blks, id) = strs[id] /\ id \in DOMAIN strs
<1>1. PICK j \in 1..k : \E r \in Range(blks[j].strings) : r.id = id
  BY DEF StringIn
<1>2. j \in DOMAIN blks
  BY RecordsOfBlocks
<1>3. \E r \in StringsOf(blks) : r.id = id
  BY <1>1, <1>2 DEF StringsOf
<1>4. \A r \in StringsOf(blks) : r.id \in DOMAIN strs /\ r.value = strs[r.id]
  BY DEF StringsOf, BlocksTrue, StringsTrue
<1>5. QED
  BY <1>3, <1>4 DEF StringAt

LEMMA FolderRecordTrue ==
    ASSUME NEW strs, NEW tree \in Tree, NEW blks \in Seq(Block), BlocksTrue(strs, tree, blks),
           NEW r \in FoldersOf(blks)
    PROVE  /\ r.id \in 1..Len(tree)
           /\ r.parentId = tree[r.id].parentId /\ r.nameId = tree[r.id].nameId
<1>1. r.id \in DOMAIN tree /\ [parentId |-> r.parentId, nameId |-> r.nameId] = tree[r.id]
  BY DEF FoldersOf, BlocksTrue, FoldersTrue
<1>2. DOMAIN tree = 1..Len(tree)
  BY LenProperties DEF Tree
<1>3. QED
  BY <1>1, <1>2

(* The ids that PathOf ranges over. *)
FolderIds(blks) == {0} \cup {r.id : r \in FoldersOf(blks)}

(* The record a reader finds for a folder. *)
FolderRec(blks, id) == CHOOSE r \in FoldersOf(blks) : r.id = id

LEMMA FolderInIds ==
    ASSUME NEW blks \in Seq(Block), NEW k \in DOMAIN blks, NEW id, FolderIn(blks, id, k)
    PROVE  id \in FolderIds(blks)
<1>1. CASE id = 0
  BY <1>1 DEF FolderIds
<1>2. CASE id # 0
  <2>1. PICK j \in 1..k : \E r \in Range(blks[j].folders) : r.id = id
    BY <1>2 DEF FolderIn
  <2>2. j \in DOMAIN blks
    BY RecordsOfBlocks
  <2>3. QED
    BY <2>1, <2>2 DEF FolderIds, FoldersOf
<1>3. QED
  BY <1>1, <1>2

(* What that record refers to. *)
LEMMA FolderDecoded ==
    ASSUME NEW strs \in Strings, NEW tree \in Tree, NEW blks \in Seq(Block),
           Rooted(strs, tree), BlocksTrue(strs, tree, blks), AllResolve(blks),
           NEW id \in FolderIds(blks), id # 0
    PROVE  /\ id \in 1..Len(tree)
           /\ FolderRec(blks, id).parentId \in FolderIds(blks)
           /\ FolderRec(blks, id).parentId = tree[id].parentId
           /\ StringAt(blks, FolderRec(blks, id).nameId) = strs[tree[id].nameId]
<1> DEFINE r == FolderRec(blks, id)
<1>1. r \in FoldersOf(blks) /\ r.id = id
  BY DEF FolderIds, FolderRec
<1> HIDE DEF r
<1>2. PICK k \in DOMAIN blks : r \in Range(blks[k].folders)
  BY <1>1 DEF FoldersOf
<1>3. FolderIn(blks, r.parentId, k) /\ StringIn(blks, r.nameId, k)
  BY <1>2 DEF AllResolve, Resolves
<1>4. /\ r.parentId \in FolderIds(blks)
      /\ StringAt(blks, r.nameId) = strs[r.nameId]
  BY <1>3, FolderInIds, StringDecoded
<1>5. id \in 1..Len(tree) /\ r.parentId = tree[id].parentId /\ r.nameId = tree[id].nameId
  BY <1>1, FolderRecordTrue
<1>6. QED
  BY <1>4, <1>5 DEF r

LEMMA PathIsClimb ==
    ASSUME NEW blks, NEW id
    PROVE  PathOf(blks, id) =
             (CHOOSE up : up = [f \in FolderIds(blks) |->
                                  IF f = 0 THEN <<>>
                                  ELSE Append(up[FolderRec(blks, f).parentId],
                                              StringAt(blks, FolderRec(blks, f).nameId))])[id]
BY DEF PathOf, FolderIds, FolderRec

LEMMA PathDecoded ==
    ASSUME NEW strs \in Strings, NEW tree \in Tree, NEW blks \in Seq(Block),
           Rooted(strs, tree), BlocksTrue(strs, tree, blks), AllResolve(blks),
           NEW id \in FolderIds(blks)
    PROVE  PathOf(blks, id) = FolderPaths(strs, tree)[id] /\ id \in 0..Len(tree)
<1> DEFINE p == FolderPaths(strs, tree)
           Is(g) == g = [f \in FolderIds(blks) |->
                           IF f = 0 THEN <<>>
                           ELSE Append(g[FolderRec(blks, f).parentId],
                                       StringAt(blks, FolderRec(blks, f).nameId))]
           h == CHOOSE g : Is(g)
           g0 == [f \in FolderIds(blks) |-> p[f]]
<1>0. Len(tree) \in Nat /\ 0 \in FolderIds(blks) /\ 0 \in 0..Len(tree)
  BY LenProperties DEF Tree, FolderIds
<1>1. ASSUME NEW f \in FolderIds(blks), f # 0
      PROVE  /\ f \in 1..Len(tree)
             /\ FolderRec(blks, f).parentId \in FolderIds(blks)
             /\ FolderRec(blks, f).parentId = tree[f].parentId
             /\ StringAt(blks, FolderRec(blks, f).nameId) = strs[tree[f].nameId]
  BY <1>1, FolderDecoded
<1>2. ASSUME NEW f \in FolderIds(blks)
      PROVE  p[f] = IF f = 0 THEN <<>>
                    ELSE Append(p[FolderRec(blks, f).parentId],
                                StringAt(blks, FolderRec(blks, f).nameId))
  <2>1. CASE f = 0
    BY <2>1, PathsClimb
  <2>2. CASE f # 0
    <3>1. p[f] = Append(p[tree[f].parentId], strs[tree[f].nameId])
      BY <1>1, <2>2, PathsClimb
    <3>2. QED
      BY <1>1, <2>2, <3>1
  <2>3. QED
    BY <2>1, <2>2
<1>3. Is(g0)
  <2>1. \A f \in FolderIds(blks) : f # 0 => g0[FolderRec(blks, f).parentId] = p[FolderRec(blks, f).parentId]
    BY <1>1
  <2>2. QED
    BY <1>2, <2>1
<1>4. Is(h)
  BY <1>3
<1>5. PathOf(blks, id) = h[id]
  BY PathIsClimb
<1> HIDE DEF h
<1>6. \A f \in FolderIds(blks) :
        h[f] = IF f = 0 THEN <<>>
               ELSE Append(h[FolderRec(blks, f).parentId],
                           StringAt(blks, FolderRec(blks, f).nameId))
  BY <1>4
<1> DEFINE Bad == {f \in FolderIds(blks) : h[f] # p[f]}
<1>7. \A f \in FolderIds(blks) : f \in 0..Len(tree)
  BY <1>0, <1>1
<1>8. ASSUME Bad # {} PROVE FALSE
  <2>1. Bad \in SUBSET Nat
    BY <1>7
  <2>2. PICK m \in Bad : \A n \in Bad : m <= n
    BY <1>8, <2>1, LeastMember
  <2>3. m \in FolderIds(blks) /\ h[m] # p[m]
    BY <2>2
  <2>4. m # 0
    BY <1>2, <1>6, <2>3
  <2>5. m \in 1..Len(tree) /\ FolderRec(blks, m).parentId \in FolderIds(blks)
        /\ FolderRec(blks, m).parentId = tree[m].parentId
    BY <1>1, <2>3, <2>4
  <2>6. tree[m].parentId < m /\ tree[m].parentId \in Nat /\ m \in Nat
    BY <2>5, RootedParts
  <2>7. ~ (m <= FolderRec(blks, m).parentId)
    BY <2>5, <2>6
  <2>8. h[FolderRec(blks, m).parentId] = p[FolderRec(blks, m).parentId]
    BY <2>2, <2>5, <2>7
  <2>9. QED
    BY <1>2, <1>6, <2>3, <2>4, <2>8
<1>9. h[id] = p[id]
  BY <1>8
<1>10. QED
  BY <1>5, <1>7, <1>9

(* A file of the file, decoded, is what its record means in memory. *)
LEMMA FileDecoded ==
    ASSUME NEW strs \in Strings, NEW tree \in Tree, NEW blks \in Seq(Block),
           Rooted(strs, tree), BlocksTrue(strs, tree, blks), AllResolve(blks),
           NEW k \in DOMAIN blks, NEW f \in Range(blks[k].files)
    PROVE  /\ FileAt(blks, f) = Meaning(strs, tree, f)
           /\ f.folderId \in 0..Len(tree)
           /\ f.nameId \in DOMAIN strs /\ f.extensionId \in DOMAIN strs
<1>1. /\ FolderIn(blks, f.folderId, k)
      /\ StringIn(blks, f.nameId, k) /\ StringIn(blks, f.extensionId, k)
  BY DEF AllResolve, Resolves
<1>2. /\ StringAt(blks, f.nameId) = strs[f.nameId] /\ f.nameId \in DOMAIN strs
      /\ StringAt(blks, f.extensionId) = strs[f.extensionId] /\ f.extensionId \in DOMAIN strs
  BY <1>1, StringDecoded
<1>3. f.folderId \in FolderIds(blks)
  BY <1>1, FolderInIds
<1>4. /\ PathOf(blks, f.folderId) = FolderPaths(strs, tree)[f.folderId]
      /\ f.folderId \in 0..Len(tree)
  BY <1>3, PathDecoded
<1>5. QED
  BY <1>2, <1>4 DEF FileAt, Meaning

-----------------------------------------------------------------------------
(* What is decoded from a whole file, and what was reported. *)

(* An entry as a reader sees it. *)
Decoded == [kind : {"file"}, path : Strings, name : Names, extension : Names]

Within(strs, tree, f) ==
    f.folderId \in 0..Len(tree) /\ f.nameId \in DOMAIN strs /\ f.extensionId \in DOMAIN strs
AllWithin(strs, tree, files) == \A f \in Range(files) : Within(strs, tree, f)

LEMMA MeaningType ==
    ASSUME NEW strs \in Strings, NEW tree \in Tree, Rooted(strs, tree),
           NEW f, Within(strs, tree, f)
    PROVE  Meaning(strs, tree, f) \in Decoded
<1>1. FolderPaths(strs, tree)[f.folderId] \in Strings
  BY PathsType DEF Within
<1>2. strs[f.nameId] \in Names /\ strs[f.extensionId] \in Names
  BY ElementOfSeq, LenProperties DEF Within, Strings
<1>3. QED
  BY <1>1, <1>2 DEF Meaning, Decoded

LEMMA MeaningsType ==
    ASSUME NEW strs \in Strings, NEW tree \in Tree, Rooted(strs, tree),
           NEW files \in Seq(FileRecord), AllWithin(strs, tree, files)
    PROVE  /\ Meanings(strs, tree, files) \in Seq(Decoded)
           /\ Len(Meanings(strs, tree, files)) = Len(files)
<1>1. DOMAIN files = 1..Len(files) /\ Len(files) \in Nat
  BY LenProperties
<1>2. \A i \in 1..Len(files) : Meaning(strs, tree, files[i]) \in Decoded
  BY MemberInRange, MeaningType DEF AllWithin
<1> DEFINE m == [i \in 1..Len(files) |-> Meaning(strs, tree, files[i])]
<1>3. m \in [1..Len(files) -> Decoded]
  BY <1>2
<1>4. Meanings(strs, tree, files) = m
  BY <1>1 DEF Meanings
<1> HIDE DEF m
<1>5. QED
  BY <1>1, <1>3, <1>4, FunctionIsSeq

(* Tables that grow do not change what a record means. *)
LEMMA MeaningsKept ==
    ASSUME NEW strs \in Strings, NEW tree \in Tree, Rooted(strs, tree),
           NEW strs2 \in Strings, NEW tree2 \in Tree, Rooted(strs2, tree2),
           Extends(strs, strs2), Extends(tree, tree2),
           NEW files \in Seq(FileRecord), AllWithin(strs, tree, files)
    PROVE  Meanings(strs2, tree2, files) = Meanings(strs, tree, files)
<1>1. DOMAIN files = 1..Len(files)
  BY LenProperties
<1>2. ASSUME NEW f, Within(strs, tree, f)
      PROVE  Meaning(strs2, tree2, f) = Meaning(strs, tree, f)
  <2>1. FolderPaths(strs2, tree2)[f.folderId] = FolderPaths(strs, tree)[f.folderId]
    BY <1>2, PathsKept DEF Within
  <2>2. strs2[f.nameId] = strs[f.nameId] /\ strs2[f.extensionId] = strs[f.extensionId]
    BY <1>2 DEF Within, Extends
  <2>3. QED
    BY <2>1, <2>2 DEF Meaning
<1>3. \A i \in DOMAIN files :
         Meaning(strs2, tree2, files[i]) = Meaning(strs, tree, files[i])
  BY <1>1, <1>2, MemberInRange DEF AllWithin
<1>4. QED
  BY <1>3 DEF Meanings

LEMMA MeaningsAppend ==
    ASSUME NEW strs \in Strings, NEW tree \in Tree, Rooted(strs, tree),
           NEW files \in Seq(FileRecord), AllWithin(strs, tree, files),
           NEW f \in FileRecord, Within(strs, tree, f)
    PROVE  Meanings(strs, tree, Append(files, f)) =
             Append(Meanings(strs, tree, files), Meaning(strs, tree, f))
<1> DEFINE more == Append(files, f)
           m == Meanings(strs, tree, files)
           v == Meaning(strs, tree, f)
           n == Len(files)
<1>1. /\ more \in Seq(FileRecord) /\ Len(more) = n + 1 /\ n \in Nat
      /\ \A i \in 1..n : more[i] = files[i]
      /\ more[n + 1] = f
      /\ DOMAIN files = 1..n
  BY AppendProperties, LenProperties
<1>2. DOMAIN more = 1..(n + 1)
  BY <1>1, LenProperties
<1>3. m \in Seq(Decoded) /\ Len(m) = n /\ v \in Decoded
  BY MeaningType, MeaningsType
<1>4. \A i \in 1..n : m[i] = Meaning(strs, tree, files[i])
  BY <1>1 DEF Meanings
<1> HIDE DEF more, m, v
<1>5. /\ Append(m, v) \in Seq(Decoded) /\ Len(Append(m, v)) = n + 1
      /\ \A i \in 1..n : Append(m, v)[i] = m[i]
      /\ Append(m, v)[n + 1] = v
  BY <1>3, AppendProperties
<1> DEFINE w == [i \in 1..(n + 1) |-> Meaning(strs, tree, more[i])]
<1>6. ASSUME NEW i \in 1..(n + 1) PROVE Append(m, v)[i] = Meaning(strs, tree, more[i])
  <2>1. CASE i = n + 1
    BY <1>1, <1>5, <2>1 DEF v
  <2>2. CASE i # n + 1
    <3>1. i \in 1..n
      BY <1>1, <2>2
    <3>2. QED
      BY <1>1, <1>4, <1>5, <3>1
  <2>3. QED
    BY <2>1, <2>2
<1>7. DOMAIN Append(m, v) = 1..(n + 1) /\ Append(m, v) = [i \in 1..(n + 1) |-> Append(m, v)[i]]
  BY <1>5, LenProperties
<1>8. Append(m, v) = w
  BY <1>6, <1>7
<1>9. Meanings(strs, tree, more) = w
  BY <1>2 DEF Meanings
<1>10. QED
  BY <1>8, <1>9 DEF more, m, v

(* The file as a reader decodes it, in terms of the tables. *)
FilesMeant(strs, tree, blks) == [k \in DOMAIN blks |-> Meanings(strs, tree, blks[k].files)]

LEMMA FilesDecoded ==
    ASSUME NEW strs \in Strings, NEW tree \in Tree, NEW blks \in Seq(Block),
           Rooted(strs, tree), BlocksTrue(strs, tree, blks), AllResolve(blks)
    PROVE  /\ FilesOf(blks) = FlattenSeq(FilesMeant(strs, tree, blks))
           /\ FilesMeant(strs, tree, blks) \in Seq(Seq(Decoded))
           /\ Len(FilesMeant(strs, tree, blks)) = Len(blks)
           /\ FilesOf(blks) \in Seq(Decoded)
<1>1. DOMAIN blks = 1..Len(blks) /\ Len(blks) \in Nat
  BY LenProperties
<1>2. ASSUME NEW k \in DOMAIN blks
      PROVE  /\ [i \in DOMAIN blks[k].files |-> FileAt(blks, blks[k].files[i])]
                  = Meanings(strs, tree, blks[k].files)
             /\ Meanings(strs, tree, blks[k].files) \in Seq(Decoded)
  <2> DEFINE files == blks[k].files
  <2>1. files \in Seq(FileRecord) /\ DOMAIN files = 1..Len(files)
    BY RecordsOfBlocks, LenProperties
  <2>2. ASSUME NEW f \in Range(files)
        PROVE  FileAt(blks, f) = Meaning(strs, tree, f) /\ Within(strs, tree, f)
    BY FileDecoded DEF Within
  <2> HIDE DEF files
  <2>3. \A i \in DOMAIN files : FileAt(blks, files[i]) = Meaning(strs, tree, files[i])
    BY <2>1, <2>2, MemberInRange
  <2>4. Meanings(strs, tree, files) \in Seq(Decoded)
    BY <2>1, <2>2, MeaningsType DEF AllWithin
  <2>5. QED
    BY <2>3, <2>4 DEF files, Meanings
<1>3. [k \in DOMAIN blks |-> [i \in DOMAIN blks[k].files |-> FileAt(blks, blks[k].files[i])]]
        = FilesMeant(strs, tree, blks)
  BY <1>2 DEF FilesMeant
<1>4. FilesMeant(strs, tree, blks) \in [1..Len(blks) -> Seq(Decoded)]
  BY <1>1, <1>2 DEF FilesMeant
<1>5. FilesMeant(strs, tree, blks) \in Seq(Seq(Decoded))
      /\ Len(FilesMeant(strs, tree, blks)) = Len(blks)
  BY <1>1, <1>4, FunctionIsSeq
<1>6. FilesOf(blks) = FlattenSeq(FilesMeant(strs, tree, blks))
  BY <1>3 DEF FilesOf
<1>7. QED
  BY <1>5, <1>6, FlattenType

LEMMA NoFiles == FilesOf(<<>>) = <<>>
<1> DEFINE g == [k \in DOMAIN <<>> |->
                   [i \in DOMAIN <<>>[k].files |-> FileAt(<<>>, <<>>[k].files[i])]]
<1>1. g = <<>>
  OBVIOUS
<1> HIDE DEF g
<1>2. FilesOf(<<>>) = FlattenSeq(g)
  BY DEF FilesOf, g
<1>3. QED
  BY <1>1, <1>2, FlattenEmpty

(* A block that joins the file adds its own files, and changes none before it. *)
LEMMA FilesOfAppend ==
    ASSUME NEW strs \in Strings, NEW tree \in Tree, Rooted(strs, tree),
           NEW blks \in Seq(Block), NEW b \in Block,
           BlocksTrue(strs, tree, blks), AllResolve(blks),
           BlocksTrue(strs, tree, Append(blks, b)), AllResolve(Append(blks, b))
    PROVE  FilesOf(Append(blks, b)) = FilesOf(blks) \o Meanings(strs, tree, b.files)
<1> DEFINE more == Append(blks, b)
           n == Len(blks)
           m == FilesMeant(strs, tree, blks)
           v == Meanings(strs, tree, b.files)
<1>1. /\ more \in Seq(Block) /\ Len(more) = n + 1 /\ n \in Nat
      /\ \A i \in 1..n : more[i] = blks[i]
      /\ more[n + 1] = b
      /\ DOMAIN blks = 1..n
  BY AppendProperties, LenProperties
<1>2. DOMAIN more = 1..(n + 1)
  BY <1>1, LenProperties
<1>3. /\ FilesOf(blks) = FlattenSeq(m) /\ m \in Seq(Seq(Decoded)) /\ Len(m) = n
      /\ FilesOf(more) = FlattenSeq(FilesMeant(strs, tree, more))
      /\ FilesMeant(strs, tree, more) \in Seq(Seq(Decoded))
  BY FilesDecoded, <1>1
<1>4. \A i \in 1..n : m[i] = Meanings(strs, tree, blks[i].files)
  BY <1>1 DEF FilesMeant
<1> HIDE DEF more, m
<1> DEFINE w == FilesMeant(strs, tree, more)
<1>5. /\ \A i \in 1..(n + 1) : w[i] = Meanings(strs, tree, more[i].files)
      /\ w = [i \in 1..(n + 1) |-> w[i]]
  BY <1>2 DEF FilesMeant
<1>6. v \in Seq(Decoded)
  <2>1. w[n + 1] = v
    BY <1>1, <1>5
  <2>2. Len(w) = n + 1
    BY <1>1, <1>3, FilesDecoded DEF more
  <2>3. n + 1 \in 1..Len(w)
    BY <1>1, <2>2
  <2>4. QED
    BY <1>3, <2>1, <2>3, ElementOfSeq
<1>7. /\ Append(m, v) \in Seq(Seq(Decoded)) /\ Len(Append(m, v)) = n + 1
      /\ \A i \in 1..n : Append(m, v)[i] = m[i]
      /\ Append(m, v)[n + 1] = v
  BY <1>3, <1>6, AppendProperties
<1>8. Len(w) = n + 1
  BY <1>1, FilesDecoded DEF more
<1>9. ASSUME NEW i \in 1..(n + 1) PROVE w[i] = Append(m, v)[i]
  <2>1. CASE i = n + 1
    BY <1>1, <1>5, <1>7, <2>1
  <2>2. CASE i # n + 1
    <3>1. i \in 1..n
      BY <1>1, <2>2
    <3>2. QED
      BY <1>1, <1>4, <1>5, <1>7, <3>1
  <2>3. QED
    BY <2>1, <2>2
<1>10. w = Append(m, v)
  BY <1>3, <1>7, <1>8, <1>9, SeqEqual
<1>11. FlattenSeq(w) = FlattenSeq(m) \o v
  BY <1>3, <1>6, <1>10, FlattenAppend
<1>12. QED
  BY <1>3, <1>11 DEF more

(* The files among the entries reported. *)
FilesAmong(s) == FlattenSeq([i \in DOMAIN s |-> IF IsFile(s[i]) THEN <<s[i]>> ELSE <<>>])
FileEntries == {e \in Entries : IsFile(e)}

LEMMA ReportedFiles == FilesReported = FilesAmong(reported)
BY DEF FilesReported, FilesAmong

LEMMA FilesAmongAppend ==
    ASSUME NEW s \in Seq(Entries), NEW e \in Entries
    PROVE  /\ FilesAmong(s) \in Seq(FileEntries)
           /\ FilesAmong(Append(s, e)) = IF IsFile(e) THEN Append(FilesAmong(s), e)
                                                      ELSE FilesAmong(s)
<1> DEFINE One(x) == IF IsFile(x) THEN <<x>> ELSE <<>>
           Each(q) == [i \in DOMAIN q |-> One(q[i])]
           more == Append(s, e)
           n == Len(s)
<1>1. /\ more \in Seq(Entries) /\ Len(more) = n + 1 /\ n \in Nat
      /\ \A i \in 1..n : more[i] = s[i]
      /\ more[n + 1] = e
      /\ DOMAIN s = 1..n
      /\ \A i \in 1..n : s[i] \in Entries
  BY AppendProperties, LenProperties, ElementOfSeq
<1>2. DOMAIN more = 1..(n + 1)
  BY <1>1, LenProperties
<1>3. ASSUME NEW x \in Entries PROVE One(x) \in Seq(FileEntries)
  <2>1. CASE IsFile(x)
    <3>1. x \in FileEntries
      BY <2>1 DEF FileEntries
    <3>2. <<x>> \in Seq(FileEntries)
      BY <3>1
    <3>3. QED
      BY <2>1, <3>2
  <2>2. CASE ~ IsFile(x)
    BY <2>2, EmptySeq
  <2>3. QED
    BY <2>1, <2>2
<1>4. FilesAmong(s) = FlattenSeq(Each(s)) /\ FilesAmong(more) = FlattenSeq(Each(more))
  BY DEF FilesAmong
<1>5. /\ Each(s) = [i \in 1..n |-> One(s[i])]
      /\ Each(more) = [i \in 1..(n + 1) |-> One(more[i])]
  BY <1>1, <1>2
<1> HIDE DEF One, more, Each
<1> DEFINE m == Each(s)
           w == Each(more)
<1>6. /\ m \in [1..n -> Seq(FileEntries)] /\ \A i \in 1..n : m[i] = One(s[i])
      /\ \A i \in 1..(n + 1) : w[i] = One(more[i])
      /\ w = [i \in 1..(n + 1) |-> w[i]]
  BY <1>1, <1>3, <1>5
<1> HIDE DEF m, w
<1>7. m \in Seq(Seq(FileEntries)) /\ Len(m) = n
  BY <1>1, <1>6, FunctionIsSeq
<1>8. One(e) \in Seq(FileEntries)
  BY <1>3
<1>9. /\ Append(m, One(e)) \in Seq(Seq(FileEntries)) /\ Len(Append(m, One(e))) = n + 1
      /\ \A i \in 1..n : Append(m, One(e))[i] = m[i]
      /\ Append(m, One(e))[n + 1] = One(e)
  BY <1>7, <1>8, AppendProperties
<1>10. ASSUME NEW i \in 1..(n + 1) PROVE w[i] = Append(m, One(e))[i]
  <2>1. CASE i = n + 1
    BY <1>1, <1>6, <1>9, <2>1
  <2>2. CASE i # n + 1
    <3>1. i \in 1..n
      BY <1>1, <2>2
    <3>2. QED
      BY <1>1, <1>6, <1>9, <3>1
  <2>3. QED
    BY <2>1, <2>2
<1>11. Append(m, One(e)) = [i \in 1..(n + 1) |-> Append(m, One(e))[i]]
  BY <1>9, LenProperties
<1>12. w = Append(m, One(e))
  BY <1>6, <1>10, <1>11
<1>13. FlattenSeq(m) \in Seq(FileEntries) /\ FlattenSeq(w) = FlattenSeq(m) \o One(e)
  BY <1>7, <1>8, <1>12, FlattenAppend, FlattenType
<1>14. CASE IsFile(e)
  <2>1. One(e) = <<e>> /\ e \in FileEntries
    BY <1>14 DEF One, FileEntries
  <2>2. FlattenSeq(m) \o <<e>> = Append(FlattenSeq(m), e)
    BY <1>13, <2>1, AppendOne
  <2>3. QED
    BY <1>4, <1>13, <1>14, <2>1, <2>2 DEF m, w, more
<1>15. CASE ~ IsFile(e)
  <2>1. One(e) = <<>>
    BY <1>15 DEF One
  <2>2. FlattenSeq(m) \o <<>> = FlattenSeq(m)
    BY <1>13, ConcatEmptySeq
  <2>3. QED
    BY <1>4, <1>13, <1>15, <2>1, <2>2 DEF m, w, more
<1>16. QED
  BY <1>14, <1>15

-----------------------------------------------------------------------------
(* The string table and the folder tree grow, and the batch with them. *)

LEMMA ExtendsAppend ==
    ASSUME NEW S, NEW s \in Seq(S), NEW x \in S
    PROVE  Extends(s, Append(s, x))
<1>1. /\ Append(s, x) \in Seq(S) /\ Len(Append(s, x)) = Len(s) + 1 /\ Len(s) \in Nat
      /\ \A i \in 1..Len(s) : Append(s, x)[i] = s[i]
      /\ DOMAIN s = 1..Len(s)
  BY AppendProperties, LenProperties
<1>2. DOMAIN Append(s, x) = 1..(Len(s) + 1)
  BY <1>1, LenProperties
<1>3. \A n \in Nat : \A i \in 1..n : i \in 1..(n + 1)
  OBVIOUS
<1>4. QED
  BY <1>1, <1>2, <1>3 DEF Extends

LEMMA ExtendsKeeps ==
    ASSUME NEW strs, NEW strs2, Extends(strs, strs2), NEW tree, NEW tree2, Extends(tree, tree2),
           NEW records
    PROVE  /\ StringsTrue(strs, records) => StringsTrue(strs2, records)
           /\ FoldersTrue(tree, records) => FoldersTrue(tree2, records)
BY DEF Extends, StringsTrue, FoldersTrue

(* A record with an id of its own. *)
LEMMA DifferentAppend ==
    ASSUME NEW S, NEW records \in Seq(S), NEW rec \in S, Different(records),
           \A r \in Range(records) : r.id # rec.id
    PROVE  Different(Append(records, rec))
<1> DEFINE longer == Append(records, rec)
           n == Len(records)
<1>1. /\ longer \in Seq(S) /\ Len(longer) = n + 1 /\ n \in Nat
      /\ \A i \in 1..n : longer[i] = records[i]
      /\ longer[n + 1] = rec
      /\ DOMAIN records = 1..n
  BY AppendProperties, LenProperties
<1>2. DOMAIN longer = 1..(n + 1)
  BY <1>1, LenProperties
<1>3. \A i \in 1..n : records[i] \in Range(records)
  BY MemberInRange
<1> HIDE DEF longer, n
<1>4. \A i \in 1..n : longer[i].id # longer[n + 1].id
  BY <1>1, <1>3
<1>5. \A i \in 1..(n + 1) : i = n + 1 \/ i \in 1..n
  BY <1>1
<1>6. ASSUME NEW a \in 1..(n + 1), NEW b \in 1..(n + 1), longer[a].id = longer[b].id
      PROVE  a = b
  <2>1. CASE a \in 1..n /\ b \in 1..n
    BY <1>1, <1>6, <2>1 DEF Different
  <2>2. CASE a = n + 1 \/ b = n + 1
    BY <1>4, <1>5, <1>6, <2>2
  <2>3. QED
    BY <1>5, <2>1, <2>2
<1>7. QED
  BY <1>2, <1>6 DEF Different, longer

(* One name more in the table, and its record in the batch. *)
LEMMA InternSound ==
    ASSUME NEW table \in Seq(Names), NEW v \in Names,
           NEW records \in Seq(StringRecord), NEW blks,
           StringsSound(table, records, blks)
    PROVE  StringsSound(Interned(table, v), records \o NewStrings(table, v), blks)
<1>0. Len(table) \in Nat /\ DOMAIN table = 1..Len(table) /\ Len(records) \in Nat
      /\ DOMAIN records = 1..Len(records)
  BY LenProperties
<1>1. CASE v \in Range(table)
  <2>1. Interned(table, v) = table /\ records \o NewStrings(table, v) = records
    BY <1>1, ConcatEmptySeq DEF Interned, NewStrings
  <2>2. QED
    BY <2>1
<1>2. CASE v \notin Range(table)
  <2> DEFINE rec == [id |-> Len(table) + 1, value |-> v]
             more == Append(table, v)
             longer == Append(records, rec)
  <2>1. rec \in StringRecord /\ rec.id = Len(table) + 1 /\ rec.value = v
    BY <1>0 DEF StringRecord
  <2>2. Interned(table, v) = more /\ NewStrings(table, v) = <<rec>>
    BY <1>2 DEF Interned, NewStrings
  <2> HIDE DEF rec
  <2>3. records \o <<rec>> = longer
    BY <2>1, AppendOne
  <2>4. /\ longer \in Seq(StringRecord) /\ Len(longer) = Len(records) + 1
        /\ \A i \in 1..Len(records) : longer[i] = records[i]
        /\ longer[Len(records) + 1] = rec
        /\ Range(longer) = Range(records) \cup {rec}
    BY <2>1, AppendProperties, RangeAppend
  <2>5. /\ more \in Seq(Names) /\ Len(more) = Len(table) + 1
        /\ more[Len(table) + 1] = v
        /\ Extends(table, more)
    BY AppendProperties, ExtendsAppend
  <2>6. DOMAIN more = 1..(Len(table) + 1) /\ DOMAIN longer = 1..(Len(records) + 1)
    BY <2>4, <2>5, LenProperties
  <2> HIDE DEF more, longer
  <2>7. \A r \in Range(records) : r.id \in 1..Len(table)
    BY <1>0 DEF StringsSound, StringsTrue
  <2>8. StringsTrue(more, longer)
    <3>1. StringsTrue(more, records)
      BY <2>5 DEF StringsSound, StringsTrue, Extends
    <3>2. rec.id \in DOMAIN more /\ rec.value = more[rec.id]
      BY <1>0, <2>1, <2>5, <2>6
    <3>3. QED
      BY <2>4, <3>1, <3>2 DEF StringsTrue
  <2>9. Different(longer)
    <3>1. \A r \in Range(records) : r.id # rec.id
      BY <1>0, <2>1, <2>7
    <3>2. Different(records)
      BY DEF StringsSound
    <3>3. QED
      BY <2>1, <3>1, <3>2, DifferentAppend DEF longer
  <2>10. ASSUME NEW k \in DOMAIN blks
         PROVE  StringsTrue(more, blks[k].strings) /\ Apart(longer, blks[k].strings)
    <3>1. StringsTrue(table, blks[k].strings) /\ Apart(records, blks[k].strings)
      BY DEF StringsSound
    <3>2. StringsTrue(more, blks[k].strings)
      BY <2>5, <3>1 DEF StringsTrue, Extends
    <3>3. \A o \in Range(blks[k].strings) : o.id # rec.id
      <4>1. \A o \in Range(blks[k].strings) : o.id \in 1..Len(table)
        BY <1>0, <3>1 DEF StringsTrue
      <4>2. \A n \in Nat : n + 1 \notin 1..n
        OBVIOUS
      <4>3. QED
        BY <1>0, <2>1, <4>1, <4>2
    <3>4. QED
      BY <2>4, <3>1, <3>2, <3>3 DEF Apart
  <2>11. StringsSound(more, longer, blks)
    BY <2>8, <2>9, <2>10 DEF StringsSound
  <2>12. QED
    BY <2>2, <2>3, <2>11
<1>3. QED
  BY <1>1, <1>2

LEMMA InternExtends ==
    ASSUME NEW table \in Seq(Names), NEW v \in Names
    PROVE  /\ Extends(table, Interned(table, v))
           /\ Interned(table, v) \in Seq(Names)
           /\ IdOf(Interned(table, v), v) \in DOMAIN Interned(table, v)
           /\ Interned(table, v)[IdOf(Interned(table, v), v)] = v
<1>1. CASE v \in Range(table)
  <2>1. Interned(table, v) = table
    BY <1>1 DEF Interned
  <2>2. QED
    BY <1>1, <2>1, IdOfMember, LenProperties DEF Extends
<1>2. CASE v \notin Range(table)
  <2>1. Interned(table, v) = Append(table, v)
    BY <1>2 DEF Interned
  <2>2. Append(table, v) \in Seq(Names) /\ v \in Range(Append(table, v))
    BY AppendProperties, RangeAppend
  <2> DEFINE more == Append(table, v)
  <2>3. Extends(table, more)
    BY ExtendsAppend
  <2> HIDE DEF more
  <2>4. IdOf(more, v) \in DOMAIN more /\ more[IdOf(more, v)] = v
    BY <2>2, IdOfMember, LenProperties DEF more
  <2>5. QED
    BY <2>1, <2>2, <2>3, <2>4 DEF more
<1>3. QED
  BY <1>1, <1>2

LEMMA RootedExtends ==
    ASSUME NEW strs, NEW strs2, Extends(strs, strs2), NEW tree, Rooted(strs, tree)
    PROVE  Rooted(strs2, tree)
BY DEF Rooted, Extends

(* One folder more in the tree, and its record in the batch. *)
LEMMA FolderSound ==
    ASSUME NEW tree \in Tree, NEW key \in [parentId : Nat, nameId : Nat],
           NEW records \in Seq(FolderRecord), NEW rec \in FolderRecord, NEW blks,
           rec.id = Len(tree) + 1, rec.parentId = key.parentId, rec.nameId = key.nameId,
           FoldersSound(tree, records, blks)
    PROVE  FoldersSound(Append(tree, key), Append(records, rec), blks)
<1> DEFINE more == Append(tree, key)
           longer == Append(records, rec)
<1>0. Len(tree) \in Nat /\ DOMAIN tree = 1..Len(tree) /\ Len(records) \in Nat
      /\ DOMAIN records = 1..Len(records)
  BY LenProperties DEF Tree
<1>1. /\ longer \in Seq(FolderRecord) /\ Len(longer) = Len(records) + 1
      /\ \A i \in 1..Len(records) : longer[i] = records[i]
      /\ longer[Len(records) + 1] = rec
      /\ Range(longer) = Range(records) \cup {rec}
  BY AppendProperties, RangeAppend
<1>2. /\ more \in Tree /\ Len(more) = Len(tree) + 1
      /\ more[Len(tree) + 1] = key
      /\ Extends(tree, more)
  <2>1. tree \in Seq([parentId : Nat, nameId : Nat])
    BY DEF Tree
  <2> HIDE DEF more
  <2>2. more = Append(tree, key)
    BY DEF more
  <2>3. Extends(tree, more)
    BY <2>1, <2>2, ExtendsAppend
  <2>4. more \in Seq([parentId : Nat, nameId : Nat]) /\ Len(more) = Len(tree) + 1
        /\ more[Len(tree) + 1] = key
    BY <2>1, <2>2, AppendProperties
  <2>5. QED
    BY <2>3, <2>4 DEF Tree
<1>3. DOMAIN more = 1..(Len(tree) + 1) /\ DOMAIN longer = 1..(Len(records) + 1)
  BY <1>1, <1>2, LenProperties DEF Tree
<1> HIDE DEF more, longer
<1>4. \A r \in Range(records) : r.id \in 1..Len(tree)
  BY <1>0 DEF FoldersSound, FoldersTrue
<1>5. FoldersTrue(more, longer)
  <2>1. FoldersTrue(more, records)
    BY <1>2 DEF FoldersSound, FoldersTrue, Extends
  <2>2. rec.id \in DOMAIN more /\ more[rec.id] = key
    BY <1>0, <1>2, <1>3
  <2>3. [parentId |-> rec.parentId, nameId |-> rec.nameId] = key
    OBVIOUS
  <2>4. QED
    BY <1>1, <2>1, <2>2, <2>3 DEF FoldersTrue
<1>6. Different(longer)
  <2>1. \A r \in Range(records) : r.id # rec.id
    BY <1>0, <1>4
  <2>2. Different(records)
    BY DEF FoldersSound
  <2>3. QED
    BY <2>1, <2>2, DifferentAppend DEF longer
<1>7. ASSUME NEW k \in DOMAIN blks
      PROVE  FoldersTrue(more, blks[k].folders) /\ Apart(longer, blks[k].folders)
  <2>1. FoldersTrue(tree, blks[k].folders) /\ Apart(records, blks[k].folders)
    BY DEF FoldersSound
  <2>2. FoldersTrue(more, blks[k].folders)
    BY <1>2, <2>1 DEF FoldersTrue, Extends
  <2>3. \A o \in Range(blks[k].folders) : o.id # rec.id
    <3>1. \A o \in Range(blks[k].folders) : o.id \in 1..Len(tree)
      BY <1>0, <2>1 DEF FoldersTrue
    <3>2. \A n \in Nat : n + 1 \notin 1..n
      OBVIOUS
    <3>3. QED
      BY <1>0, <3>1, <3>2
  <2>4. QED
    BY <1>1, <2>1, <2>2, <2>3 DEF Apart
<1>8. QED
  BY <1>5, <1>6, <1>7 DEF FoldersSound, more, longer

-----------------------------------------------------------------------------
(* The tables, the batch and the file say the same, step by step. *)

TablesInv == Walked /\ RecordsSound /\ Accounted

LEMMA SoundBlocks ==
    ASSUME NEW strs, NEW tree, NEW strings, NEW fs, NEW blks,
           StringsSound(strs, strings, blks), FoldersSound(tree, fs, blks)
    PROVE  BlocksTrue(strs, tree, blks)
BY DEF StringsSound, FoldersSound, BlocksTrue

LEMMA SessionFacts ==
    ASSUME Typed, RefInv
    PROVE  /\ values \in Strings /\ values \in Seq(Names) /\ folders \in Tree
           /\ Len(values) \in Nat /\ DOMAIN values = 1..Len(values)
           /\ Len(folders) \in Nat /\ DOMAIN folders = 1..Len(folders)
           /\ parent \in 0..Len(folders)
           /\ batch.strings \in Seq(StringRecord) /\ batch.folders \in Seq(FolderRecord)
           /\ batch.files \in Seq(FileRecord)
           /\ AllWithin(values, folders, batch.files)
           /\ blocks \in Seq(Block) /\ AllResolve(blocks)
           /\ reported \in Seq(Entries)
<1>1. /\ values \in Strings /\ values \in Seq(Names) /\ folders \in Tree
      /\ batch.strings \in Seq(StringRecord) /\ batch.folders \in Seq(FolderRecord)
      /\ batch.files \in Seq(FileRecord)
      /\ blocks \in Seq(Block) /\ reported \in Seq(Entries) /\ parent \in Nat
  BY DEF Typed, TypeOK, Batch, Strings, Tree
<1>2. /\ Len(values) \in Nat /\ DOMAIN values = 1..Len(values)
      /\ Len(folders) \in Nat /\ DOMAIN folders = 1..Len(folders)
  BY <1>1, LenProperties DEF Tree
<1>3. /\ parent <= Len(folders)
      /\ \A f \in Range(batch.files) :
           /\ f.folderId <= Len(folders)
           /\ f.nameId \in 1..Len(values) /\ f.extensionId \in 1..Len(values)
  BY DEF RefInv, BatchRefers
<1>4. \A f \in Range(batch.files) : f.folderId \in Nat
  <2>1. Range(batch.files) \subseteq FileRecord
    BY <1>1, RangeOfSeq
  <2>2. QED
    BY <2>1 DEF FileRecord
<1>5. \A n, m \in Nat : n <= m => n \in 0..m
  OBVIOUS
<1>6. AllWithin(values, folders, batch.files)
  BY <1>2, <1>3, <1>4, <1>5 DEF AllWithin, Within
<1>7. AllResolve(blocks)
  BY DEF RefInv, ReferencesResolve, AllResolve
<1>8. QED
  BY <1>1, <1>2, <1>3, <1>5, <1>6, <1>7

LEMMA KnownFolderTables ==
    ASSUME Typed, RefInv, TablesInv, KnownFolder
    PROVE  TablesInv'
<1> DEFINE h == Head(todo)
           key == FolderKey(values')
<1>1. /\ pc = "path" /\ todo # <<>> /\ todo' = Tail(todo)
      /\ values' = Interned(values, h) /\ key \in Range(folders)
      /\ parent' = IdOf(folders, key)
      /\ UNCHANGED <<folders, blocks, stream, entry, reported>>
  BY DEF KnownFolder
<1>2. /\ h \in Names /\ Tail(todo) \in Strings /\ todo \in Strings
  BY <1>1, WalkType DEF Typed, TypeOK, Strings
<1>3. /\ batch'.strings = batch.strings \o NewStrings(values, h)
      /\ batch'.folders = batch.folders /\ batch'.files = batch.files
  BY DEF KnownFolder, Typed, TypeOK, Batch
<1>4. /\ values \in Strings /\ folders \in Tree /\ values \in Seq(Names)
      /\ DOMAIN folders = 1..Len(folders)
      /\ parent \in 0..Len(folders) /\ batch.strings \in Seq(StringRecord)
      /\ batch.files \in Seq(FileRecord) /\ AllWithin(values, folders, batch.files)
  BY SessionFacts
<1>5. /\ Extends(values, values') /\ values' \in Strings
      /\ IdOf(values', h) \in DOMAIN values' /\ values'[IdOf(values', h)] = h
  BY <1>1, <1>2, <1>4, InternExtends DEF Strings
<1>6. Rooted(values, folders) /\ entry.path = FolderPaths(values, folders)[parent] \o todo
  BY <1>1 DEF TablesInv, Walked
<1>7. Rooted(values', folders) /\ Extends(folders, folders)
  BY <1>5, <1>6, RootedExtends DEF Extends
<1> HIDE DEF h
<1>8. /\ parent' \in 1..Len(folders) /\ folders[parent'] = key
      /\ key.parentId = parent /\ key.nameId = IdOf(values', h)
  <2>1. parent' \in 1..Len(folders) /\ folders[parent'] = key
    BY <1>1, <1>4, IdOfMember DEF Tree
  <2>2. QED
    BY <2>1 DEF FolderKey, h
<1> HIDE DEF key
<1>9. entry'.path = FolderPaths(values', folders)[parent'] \o todo'
  <2> DEFINE p == FolderPaths(values, folders)[parent]
  <2>1. FolderPaths(values', folders)[parent] = p /\ p \in Strings
    BY <1>4, <1>5, <1>6, <1>7, PathsKept, PathsType
  <2>2. FolderPaths(values', folders)[parent'] = Append(p, h)
    <3>1. FolderPaths(values', folders)[parent']
            = Append(FolderPaths(values', folders)[folders[parent'].parentId],
                     values'[folders[parent'].nameId])
      BY <1>4, <1>5, <1>7, <1>8, PathsClimb
    <3>2. QED
      BY <1>5, <1>8, <2>1, <3>1
  <2> HIDE DEF p
  <2>3. Append(p, h) \o Tail(todo) = p \o todo
    BY <1>1, <1>2, <2>1, HeadThenTail DEF Strings, h
  <2>4. QED
    BY <1>1, <1>6, <2>2, <2>3 DEF p
<1>10. Walked'
  BY <1>1, <1>7, <1>9 DEF Walked
<1>11. RecordsSound'
  <2>1. CASE stream = "good"
    <3>1. StringsSound(values, batch.strings, blocks) /\ FoldersSound(folders, batch.folders, blocks)
      BY <2>1 DEF TablesInv, RecordsSound
    <3>2. StringsSound(values', batch'.strings, blocks)
      BY <1>1, <1>2, <1>3, <1>4, <3>1, InternSound
    <3>3. QED
      BY <1>1, <1>3, <3>1, <3>2 DEF RecordsSound
  <2>2. QED
    BY <1>1, <2>1 DEF RecordsSound
<1>12. Accounted'
  <2>1. Meanings(values', folders, batch.files) = Meanings(values, folders, batch.files)
    BY <1>4, <1>5, <1>6, <1>7, MeaningsKept
  <2>2. FilesReported' = FilesReported
    BY <1>1 DEF FilesReported
  <2>3. FilesOf(blocks') = FilesOf(blocks)
    BY <1>1
  <2>4. QED
    BY <1>1, <1>3, <2>1, <2>2, <2>3 DEF TablesInv, Accounted
<1>13. QED
  BY <1>10, <1>11, <1>12 DEF TablesInv

LEMMA NewFolderTables ==
    ASSUME Typed, RefInv, TablesInv, NewFolder
    PROVE  TablesInv'
<1> DEFINE h == Head(todo)
           key == FolderKey(values')
           rec == [id |-> Len(folders'), parentId |-> parent, nameId |-> IdOf(values', h)]
<1>1. /\ pc = "path" /\ todo # <<>> /\ todo' = Tail(todo)
      /\ values' = Interned(values, h)
      /\ folders' = Append(folders, key) /\ parent' = Len(folders')
      /\ UNCHANGED <<blocks, stream, entry, reported>>
  BY DEF NewFolder
<1>2. /\ h \in Names /\ Tail(todo) \in Strings /\ todo \in Strings
      /\ key \in [parentId : Nat, nameId : Nat]
  BY <1>1, WalkType DEF Typed, TypeOK, Strings
<1>3. /\ batch'.strings = batch.strings \o NewStrings(values, h)
      /\ batch'.folders = Append(batch.folders, rec) /\ batch'.files = batch.files
  BY DEF NewFolder, Typed, TypeOK, Batch
<1>4. /\ values \in Strings /\ folders \in Tree /\ values \in Seq(Names)
      /\ DOMAIN folders = 1..Len(folders) /\ Len(folders) \in Nat
      /\ parent \in 0..Len(folders) /\ batch.strings \in Seq(StringRecord)
      /\ batch.folders \in Seq(FolderRecord)
      /\ batch.files \in Seq(FileRecord) /\ AllWithin(values, folders, batch.files)
  BY SessionFacts
<1>5. /\ Extends(values, values') /\ values' \in Strings
      /\ IdOf(values', h) \in DOMAIN values' /\ values'[IdOf(values', h)] = h
  BY <1>1, <1>2, <1>4, InternExtends DEF Strings
<1>6. Rooted(values, folders) /\ entry.path = FolderPaths(values, folders)[parent] \o todo
  BY <1>1 DEF TablesInv, Walked
<1> HIDE DEF h
<1>7. key.parentId = parent /\ key.nameId = IdOf(values', h)
  BY DEF FolderKey, h
<1> HIDE DEF key
<1>8. /\ folders' \in Tree /\ Len(folders') = Len(folders) + 1
      /\ folders'[Len(folders) + 1] = key /\ Extends(folders, folders')
      /\ \A i \in 1..Len(folders) : folders'[i] = folders[i]
      /\ DOMAIN folders' = 1..(Len(folders) + 1)
  <2>1. folders \in Seq([parentId : Nat, nameId : Nat])
    BY <1>4 DEF Tree
  <2>2. /\ folders' \in Seq([parentId : Nat, nameId : Nat]) /\ Len(folders') = Len(folders) + 1
        /\ folders'[Len(folders) + 1] = key
        /\ \A i \in 1..Len(folders) : folders'[i] = folders[i]
    BY <1>1, <1>2, <2>1, AppendProperties
  <2>3. Extends(folders, folders')
    BY <1>1, <1>2, <2>1, ExtendsAppend
  <2>4. DOMAIN folders' = 1..(Len(folders) + 1)
    BY <2>2, LenProperties
  <2>5. QED
    BY <2>2, <2>3, <2>4 DEF Tree
<1>9. Rooted(values', folders) /\ Rooted(values', folders')
  <2>1. Rooted(values', folders)
    BY <1>5, <1>6, RootedExtends
  <2>2. ASSUME NEW id \in 1..(Len(folders) + 1)
        PROVE  folders'[id].parentId < id /\ folders'[id].nameId \in DOMAIN values'
    <3>1. CASE id \in 1..Len(folders)
      BY <1>4, <1>8, <2>1, <3>1 DEF Rooted
    <3>2. CASE id = Len(folders) + 1
      <4>1. parent < Len(folders) + 1
        BY <1>4
      <4>2. QED
        BY <1>5, <1>7, <1>8, <3>2, <4>1
    <3>3. id \in 1..Len(folders) \/ id = Len(folders) + 1
      BY <1>4
    <3>4. QED
      BY <3>1, <3>2, <3>3
  <2>3. QED
    BY <1>8, <2>1, <2>2 DEF Rooted
<1>10. entry'.path = FolderPaths(values', folders')[parent'] \o todo'
  <2> DEFINE p == FolderPaths(values, folders)[parent]
  <2>1. FolderPaths(values', folders')[parent] = p /\ p \in Strings
    BY <1>4, <1>5, <1>6, <1>8, <1>9, PathsKept, PathsType
  <2>2. parent' \in 1..Len(folders') /\ folders'[parent'] = key
    BY <1>1, <1>4, <1>8
  <2>3. FolderPaths(values', folders')[parent'] = Append(p, h)
    <3>1. FolderPaths(values', folders')[parent']
            = Append(FolderPaths(values', folders')[folders'[parent'].parentId],
                     values'[folders'[parent'].nameId])
      BY <1>5, <1>8, <1>9, <2>2, PathsClimb
    <3>2. QED
      BY <1>5, <1>7, <2>1, <2>2, <3>1
  <2> HIDE DEF p
  <2>4. Append(p, h) \o Tail(todo) = p \o todo
    BY <1>1, <1>2, <2>1, HeadThenTail DEF Strings, h
  <2>5. QED
    BY <1>1, <1>6, <2>3, <2>4 DEF p
<1>11. Walked'
  BY <1>9, <1>10 DEF Walked
<1>12. RecordsSound'
  <2>1. CASE stream = "good"
    <3>1. StringsSound(values, batch.strings, blocks) /\ FoldersSound(folders, batch.folders, blocks)
      BY <2>1 DEF TablesInv, RecordsSound
    <3>2. StringsSound(values', batch'.strings, blocks)
      BY <1>1, <1>2, <1>3, <1>4, <3>1, InternSound
    <3>3. /\ rec \in FolderRecord /\ rec.id = Len(folders) + 1
          /\ rec.parentId = key.parentId /\ rec.nameId = key.nameId
      BY <1>2, <1>4, <1>7, <1>8 DEF FolderRecord
    <3> HIDE DEF rec
    <3>4. FoldersSound(folders', batch'.folders, blocks)
      BY <1>1, <1>2, <1>3, <1>4, <3>1, <3>3, FolderSound
    <3>5. QED
      BY <1>1, <3>2, <3>4 DEF RecordsSound
  <2>2. QED
    BY <1>1, <2>1 DEF RecordsSound
<1>13. Accounted'
  <2>1. Meanings(values', folders', batch.files) = Meanings(values, folders, batch.files)
    BY <1>4, <1>5, <1>6, <1>8, <1>9, MeaningsKept
  <2>2. FilesReported' = FilesReported
    BY <1>1 DEF FilesReported
  <2>3. FilesOf(blocks') = FilesOf(blocks)
    BY <1>1
  <2>4. QED
    BY <1>1, <1>3, <2>1, <2>2, <2>3 DEF TablesInv, Accounted
<1>14. QED
  BY <1>11, <1>12, <1>13 DEF TablesInv

LEMMA FileDoneTables ==
    ASSUME Typed, RefInv, TablesInv, FileDone
    PROVE  TablesInv'
<1> DEFINE named == Interned(values, entry.name)
           first == batch.strings \o NewStrings(values, entry.name)
           rec == [folderId |-> parent, nameId |-> IdOf(values', entry.name),
                   extensionId |-> IdOf(values', entry.extension)]
<1>1. /\ pc = "path" /\ pc' # "path" /\ todo = <<>> /\ entry.kind = "file"
      /\ UNCHANGED <<folders, blocks, stream, parent>>
      /\ values' = Interned(named, entry.extension)
      /\ reported' = Append(reported, entry)
  BY DEF FileDone, MaintenanceOrNot
<1>2. entry \in Entries /\ entry.name \in Names /\ entry.extension \in Names
  BY <1>1, Constants DEF Typed, InHand
<1>3. /\ batch'.strings = first \o NewStrings(named, entry.extension)
      /\ batch'.folders = batch.folders /\ batch'.files = Append(batch.files, rec)
  BY DEF FileDone, Typed, TypeOK, Batch
<1>4. /\ values \in Strings /\ folders \in Tree /\ values \in Seq(Names)
      /\ DOMAIN folders = 1..Len(folders) /\ Len(folders) \in Nat
      /\ parent \in 0..Len(folders) /\ batch.strings \in Seq(StringRecord)
      /\ batch.files \in Seq(FileRecord) /\ AllWithin(values, folders, batch.files)
      /\ blocks \in Seq(Block) /\ AllResolve(blocks) /\ reported \in Seq(Entries)
  BY SessionFacts
<1>5. /\ Extends(values, named) /\ named \in Seq(Names)
      /\ IdOf(named, entry.name) \in DOMAIN named
      /\ named[IdOf(named, entry.name)] = entry.name
      /\ Extends(named, values') /\ values' \in Strings
      /\ IdOf(values', entry.extension) \in DOMAIN values'
      /\ values'[IdOf(values', entry.extension)] = entry.extension
  BY <1>1, <1>2, <1>4, InternExtends DEF Strings
<1>6. /\ IdOf(values', entry.name) \in DOMAIN values'
      /\ values'[IdOf(values', entry.name)] = entry.name
  <2>1. \E i \in DOMAIN values' : values'[i] = entry.name
    BY <1>5 DEF Extends
  <2>2. QED
    BY <2>1 DEF IdOf
<1>7. Extends(values, values')
  BY <1>5 DEF Extends
<1>8. Rooted(values, folders) /\ entry.path = FolderPaths(values, folders)[parent] \o todo
  BY <1>1 DEF TablesInv, Walked
<1>9. Rooted(values', folders) /\ Extends(folders, folders)
  BY <1>7, <1>8, RootedExtends DEF Extends
<1>10. first \in Seq(StringRecord) /\ rec \in FileRecord
  <2>1. NewStrings(values, entry.name) \in Seq(StringRecord)
    BY <1>2, <1>4, Intern
  <2>2. first \in Seq(StringRecord)
    BY <1>4, <2>1, ConcatProperties
  <2>3. DOMAIN values' = 1..Len(values') /\ Len(values') \in Nat
    BY <1>5, LenProperties DEF Strings
  <2>4. QED
    BY <1>4, <1>5, <1>6, <2>2, <2>3 DEF FileRecord
<1>11. Within(values', folders, rec) /\ Meaning(values', folders, rec) = entry
  <2>1. Within(values', folders, rec)
    BY <1>4, <1>5, <1>6 DEF Within
  <2>2. FolderPaths(values', folders)[parent] = entry.path
    <3> DEFINE p == FolderPaths(values, folders)[parent]
    <3>1. FolderPaths(values', folders)[parent] = p /\ p \in Strings
      BY <1>4, <1>5, <1>7, <1>8, <1>9, PathsKept, PathsType
    <3>2. p \o <<>> = p
      BY <3>1, ConcatEmptySeq DEF Strings
    <3>3. QED
      BY <1>1, <1>8, <3>1, <3>2
  <2>3. Meaning(values', folders, rec)
          = [kind |-> "file", path |-> entry.path, name |-> entry.name,
             extension |-> entry.extension]
    BY <1>5, <1>6, <2>2 DEF Meaning
  <2>4. entry = [kind |-> entry.kind, path |-> entry.path, name |-> entry.name,
                 extension |-> entry.extension]
    BY <1>2, EngineAssumption DEF EngineAssumption
  <2>5. QED
    BY <1>1, <2>1, <2>3, <2>4
<1> HIDE DEF named, first, rec
<1>12. Walked'
  BY <1>1, <1>9 DEF Walked
<1>13. RecordsSound'
  <2>1. CASE stream = "good"
    <3>1. StringsSound(values, batch.strings, blocks) /\ FoldersSound(folders, batch.folders, blocks)
      BY <2>1 DEF TablesInv, RecordsSound
    <3>2. StringsSound(named, first, blocks)
      BY <1>2, <1>4, <3>1, InternSound DEF named, first
    <3>3. StringsSound(values', batch'.strings, blocks)
      BY <1>1, <1>2, <1>3, <1>5, <1>10, <3>2, InternSound
    <3>4. QED
      BY <1>1, <1>3, <3>1, <3>3 DEF RecordsSound
  <2>2. QED
    BY <1>1, <2>1 DEF RecordsSound
<1>14. Accounted'
  <2> SUFFICES ASSUME stream = "good"
               PROVE  FilesReported' = FilesOf(blocks) \o Meanings(values', folders, batch'.files)
    BY <1>1 DEF Accounted
  <2> DEFINE m == Meanings(values, folders, batch.files)
  <2>1. Meanings(values', folders, batch.files) = m
    BY <1>4, <1>5, <1>7, <1>8, <1>9, MeaningsKept
  <2>2. AllWithin(values', folders, batch.files)
    BY <1>4, <1>7 DEF AllWithin, Within, Extends
  <2>3. Meanings(values', folders, batch'.files) = Append(m, entry)
    BY <1>3, <1>4, <1>5, <1>9, <1>10, <1>11, <2>1, <2>2, MeaningsAppend
  <2>4. FilesReported = FilesOf(blocks) \o m
    BY DEF TablesInv, Accounted
  <2>5. FilesReported' = Append(FilesReported, entry)
    <3>1. FilesReported = FilesAmong(reported) /\ FilesReported' = FilesAmong(reported')
      BY DEF FilesReported, FilesAmong
    <3>2. IsFile(entry)
      BY <1>1 DEF IsFile
    <3>3. QED
      BY <1>1, <1>2, <1>4, <3>1, <3>2, FilesAmongAppend
  <2>6. m \in Seq(Decoded) /\ FilesOf(blocks) \in Seq(Decoded) /\ entry \in Decoded
    <3>1. m \in Seq(Decoded)
      BY <1>4, <1>8, MeaningsType
    <3>2. BlocksTrue(values, folders, blocks)
      BY SoundBlocks DEF TablesInv, RecordsSound
    <3>3. FilesOf(blocks) \in Seq(Decoded)
      BY <1>4, <1>8, <3>2, FilesDecoded
    <3>4. entry \in Decoded
      BY <1>4, <1>5, <1>9, <1>11, MeaningType
    <3>5. QED
      BY <3>1, <3>3, <3>4
  <2> HIDE DEF m
  <2>7. (FilesOf(blocks) \o m) \o <<entry>> = FilesOf(blocks) \o (m \o <<entry>>)
        /\ <<entry>> \in Seq(Decoded) /\ FilesOf(blocks) \o m \in Seq(Decoded)
    BY <2>6, ConcatAssociative, AppendOne, ConcatProperties
  <2>8. (FilesOf(blocks) \o m) \o <<entry>> = Append(FilesOf(blocks) \o m, entry)
        /\ m \o <<entry>> = Append(m, entry)
    BY <2>6, <2>7, AppendOne
  <2>9. QED
    BY <2>3, <2>4, <2>5, <2>7, <2>8
<1>15. QED
  BY <1>12, <1>13, <1>14 DEF TablesInv

(* The batch as one block more: the file then holds its files too. *)
LEMMA BlockJoins ==
    ASSUME Typed, RefInv, TablesInv, stream = "good", NEW i \in Nat,
           NEW more, more = Append(blocks, BlockOf(batch, i))
    PROVE  /\ more \in Seq(Block) /\ AllResolve(more) /\ Rooted(values, folders)
           /\ BlocksTrue(values, folders, blocks) /\ BlocksTrue(values, folders, more)
           /\ FilesOf(more) = FilesOf(blocks) \o Meanings(values, folders, batch.files)
           /\ FilesOf(blocks) \in Seq(Decoded)
           /\ Meanings(values, folders, batch.files) \in Seq(Decoded)
           /\ Len(Meanings(values, folders, batch.files)) = Len(batch.files)
<1> DEFINE b == BlockOf(batch, i)
           n == Len(blocks)
           m == Meanings(values, folders, batch.files)
<1>1. more = Append(blocks, b)
  OBVIOUS
<1>2. /\ b \in Block /\ b.strings = batch.strings /\ b.folders = batch.folders
      /\ b.files = batch.files
  <2>1. b \in Block
    BY BlockType DEF Typed, TypeOK
  <2>2. QED
    BY <2>1 DEF BlockOf
<1> HIDE DEF b
<1>3. /\ values \in Strings /\ folders \in Tree
      /\ batch.files \in Seq(FileRecord) /\ AllWithin(values, folders, batch.files)
      /\ blocks \in Seq(Block) /\ AllResolve(blocks) /\ AllResolve(more)
  <2>1. \A k \in DOMAIN more : Resolves(more, k)
    BY BlockRefers
  <2>2. QED
    BY <2>1, SessionFacts DEF AllResolve
<1>4. /\ Rooted(values, folders)
      /\ StringsSound(values, batch.strings, blocks)
      /\ FoldersSound(folders, batch.folders, blocks)
  BY DEF TablesInv, Walked, RecordsSound
<1>5. /\ \A k \in 1..n : more[k] = blocks[k]
      /\ more[n + 1] = b /\ n \in Nat /\ more \in Seq(Block)
      /\ DOMAIN blocks = 1..n /\ DOMAIN more = 1..(n + 1)
      /\ \A k \in 1..(n + 1) : k = n + 1 \/ k \in 1..n
  <2>1. /\ more \in Seq(Block) /\ Len(more) = n + 1 /\ n \in Nat
        /\ \A k \in 1..n : more[k] = blocks[k]
        /\ more[n + 1] = b
        /\ DOMAIN blocks = 1..n
    BY <1>1, <1>2, <1>3, AppendProperties, LenProperties
  <2>2. DOMAIN more = 1..(n + 1)
    BY <2>1, LenProperties
  <2>3. QED
    BY <2>1, <2>2
<1>6. BlocksTrue(values, folders, blocks) /\ BlocksTrue(values, folders, more)
  <2>1. BlocksTrue(values, folders, blocks)
    BY <1>4, SoundBlocks
  <2>2. StringsTrue(values, b.strings) /\ FoldersTrue(folders, b.folders)
    BY <1>2, <1>4 DEF StringsSound, FoldersSound
  <2>3. QED
    BY <1>5, <2>1, <2>2 DEF BlocksTrue
<1>7. FilesOf(more) = FilesOf(blocks) \o m
  BY <1>1, <1>2, <1>3, <1>4, <1>6, FilesOfAppend
<1>8. FilesOf(blocks) \in Seq(Decoded) /\ m \in Seq(Decoded) /\ Len(m) = Len(batch.files)
  BY <1>3, <1>4, <1>6, FilesDecoded, MeaningsType
<1>9. QED
  BY <1>3, <1>4, <1>5, <1>6, <1>7, <1>8

(* A block that is complete takes the batch over into the file. *)
LEMMA BlockWrittenTables ==
    ASSUME Typed, RefInv, TablesInv, BlockWritten
    PROVE  /\ TablesInv'
           /\ FilesOf(blocks') = FilesOf(blocks) \o Meanings(values, folders, batch.files)
           /\ FilesOf(blocks) \in Seq(Decoded)
           /\ Meanings(values, folders, batch.files) \in Seq(Decoded)
           /\ Len(Meanings(values, folders, batch.files)) = Len(batch.files)
<1> DEFINE m == Meanings(values, folders, batch.files)
<1>1. /\ pc = "writing" /\ stream = "good" /\ stream' = "good" /\ pc' # "path"
      /\ blocks' = Append(blocks, BlockOf(batch, stats.commitId)) /\ batch' = EmptyBatch
      /\ stats.commitId \in Nat
      /\ UNCHANGED <<values, folders, reported>>
  BY DEF BlockWritten, Committed, Typed, TypeOK, InHand, Counters
<1>2. /\ BlocksTrue(values, folders, blocks') /\ Rooted(values, folders)
      /\ FilesOf(blocks') = FilesOf(blocks) \o m
      /\ FilesOf(blocks) \in Seq(Decoded) /\ m \in Seq(Decoded) /\ Len(m) = Len(batch.files)
  BY <1>1, BlockJoins
<1>3. FilesReported = FilesOf(blocks) \o m
  BY <1>1 DEF TablesInv, Accounted
<1>4. FilesOf(blocks') \in Seq(Decoded)
  BY <1>2, ConcatProperties
<1>5. Walked'
  BY <1>1, <1>2 DEF Walked
<1>6. RecordsSound'
  <2>1. Range(<<>>) = {} /\ DOMAIN <<>> = {}
    BY EmptyRange
  <2>2. StringsSound(values, <<>>, blocks') /\ FoldersSound(folders, <<>>, blocks')
    BY <1>2, <2>1
       DEF StringsSound, FoldersSound, StringsTrue, FoldersTrue, Different, Apart, BlocksTrue
  <2>3. QED
    BY <1>1, <2>2 DEF RecordsSound, EmptyBatch
<1>7. Accounted'
  <2>1. Meanings(values, folders, <<>>) = <<>>
    BY DEF Meanings
  <2>2. FilesReported' = FilesReported
    BY <1>1 DEF FilesReported
  <2>3. FilesOf(blocks') \o <<>> = FilesOf(blocks')
    BY <1>4, ConcatEmptySeq
  <2>4. QED
    BY <1>1, <1>2, <1>3, <2>1, <2>2, <2>3 DEF Accounted, EmptyBatch
<1>8. QED
  BY <1>2, <1>5, <1>6, <1>7 DEF TablesInv

LEMMA EntryFoundTables ==
    ASSUME Typed, RefInv, TablesInv, NEW e \in Entries, EntryFound(e)
    PROVE  TablesInv'
<1>1. /\ pc' = "path" /\ entry' = e /\ todo' = e.path /\ parent' = 0
      /\ UNCHANGED <<values, folders, batch, blocks, stream, reported>>
  BY DEF EntryFound
<1>2. values \in Strings /\ folders \in Tree /\ e.path \in Strings
  BY SessionFacts, Constants DEF Strings
<1>3. Rooted(values, folders)
  BY DEF TablesInv, Walked
<1>4. FolderPaths(values, folders)[0] = <<>>
  BY <1>2, <1>3, PathsClimb
<1>5. <<>> \o e.path = e.path
  BY <1>2, ConcatEmptySeq DEF Strings
<1>6. Walked'
  BY <1>1, <1>3, <1>4, <1>5 DEF Walked
<1>7. FilesReported' = FilesReported
  BY <1>1 DEF FilesReported
<1>8. QED
  BY <1>1, <1>6, <1>7 DEF TablesInv, RecordsSound, Accounted

LEMMA FolderDoneTables ==
    ASSUME Typed, RefInv, TablesInv, FolderDone
    PROVE  TablesInv'
<1>1. /\ pc = "path" /\ pc' # "path" /\ entry.kind = "folder"
      /\ UNCHANGED <<values, folders, batch, blocks, stream>>
      /\ reported' = Append(reported, entry)
  BY DEF FolderDone, MaintenanceOrNot
<1>2. entry \in Entries /\ reported \in Seq(Entries)
  BY <1>1, SessionFacts DEF Typed, InHand
<1>3. ~ IsFile(entry)
  BY <1>1 DEF IsFile
<1>4. FilesReported' = FilesReported
  <2>1. FilesReported = FilesAmong(reported) /\ FilesReported' = FilesAmong(reported')
    BY DEF FilesReported, FilesAmong
  <2>2. QED
    BY <1>1, <1>2, <1>3, <2>1, FilesAmongAppend
<1>5. QED
  BY <1>1, <1>4 DEF TablesInv, Walked, RecordsSound, Accounted

(* An empty file, and empty tables. *)
LEMMA EmptyTables ==
    /\ Rooted(<<>>, <<>>)
    /\ StringsSound(<<>>, <<>>, <<>>) /\ FoldersSound(<<>>, <<>>, <<>>)
    /\ FilesAmong(<<>>) = <<>> /\ FilesOf(<<>>) = <<>>
    /\ Meanings(<<>>, <<>>, <<>>) = <<>>
<1>1. Range(<<>>) = {} /\ DOMAIN <<>> = {}
  BY EmptyRange
<1>2. /\ Rooted(<<>>, <<>>)
      /\ StringsSound(<<>>, <<>>, <<>>) /\ FoldersSound(<<>>, <<>>, <<>>)
  BY <1>1 DEF Rooted, StringsSound, FoldersSound, StringsTrue, FoldersTrue, Different
<1>3. FilesAmong(<<>>) = <<>>
  <2> DEFINE g == [i \in DOMAIN <<>> |-> IF IsFile(<<>>[i]) THEN <<(<<>>[i])>> ELSE <<>>]
  <2>1. g = <<>>
    OBVIOUS
  <2> HIDE DEF g
  <2>2. FilesAmong(<<>>) = FlattenSeq(g)
    BY DEF FilesAmong, g
  <2>3. QED
    BY <2>1, <2>2, FlattenEmpty
<1>4. Meanings(<<>>, <<>>, <<>>) = <<>>
  BY DEF Meanings
<1>5. QED
  BY <1>2, <1>3, <1>4, NoFiles

LEMMA OtherTables ==
    ASSUME Typed, RefInv, TablesInv,
           \/ Construct \/ ResetCommand \/ Starting \/ Truncate \/ WriteHeader \/ Running
           \/ ScanError \/ ScanEnds
           \/ NothingToCommit \/ StartBlock \/ Spill \/ BlockNotWritten
           \/ Report \/ StopSeen \/ PauseSeen \/ ResumeSeen \/ GoOn \/ Finish \/ Throw \/ Kill
           \/ \E c \in {"Continue", "Pause", "StopGraceful"} : WriteCommand(c)
           \/ UNCHANGED vars
    PROVE  TablesInv'
<1>1. CASE Construct
  <2>1. values' = <<>> /\ folders' = <<>> /\ pc' = "constructed" /\ stream' = "closed"
    BY <1>1 DEF Construct, FreshMemory
  <2>2. QED
    BY <2>1, EmptyTables DEF TablesInv, Walked, RecordsSound, Accounted
<1>2. CASE Truncate
  <2>1. /\ values' = <<>> /\ folders' = <<>> /\ batch' = EmptyBatch
        /\ blocks' = <<>> /\ reported' = <<>> /\ pc' = "heading"
    BY <1>2 DEF Truncate, RefInv, NoIdsYet
  <2>2. FilesReported' = <<>>
    <3>1. FilesReported' = FilesAmong(reported')
      BY DEF FilesReported, FilesAmong
    <3>2. QED
      BY <2>1, <3>1, EmptyTables
  <2>3. <<>> \o <<>> = <<>>
    BY EmptySeq, ConcatEmptySeq
  <2>4. QED
    BY <2>1, <2>2, <2>3, EmptyTables DEF TablesInv, Walked, RecordsSound, Accounted, EmptyBatch
<1>3. CASE BlockNotWritten
  <2>1. /\ UNCHANGED <<values, folders>> /\ stream' = "bad" /\ pc' # "path"
    BY <1>3 DEF BlockNotWritten, Committed, Typed, TypeOK
  <2>2. QED
    BY <2>1 DEF TablesInv, Walked, RecordsSound, Accounted
<1>4. ASSUME UNCHANGED <<values, folders, batch, blocks, reported>>,
             stream' = stream \/ stream' = "bad",
             pc' = "path" => pc = "path" /\ UNCHANGED <<entry, todo, parent>>
      PROVE  TablesInv'
  <2>1. FilesReported' = FilesReported
    BY <1>4 DEF FilesReported
  <2>2. QED
    BY <1>4, <2>1 DEF TablesInv, Walked, RecordsSound, Accounted
<1>5. CASE ResetCommand \/ Starting \/ WriteHeader \/ Running
  BY <1>4, <1>5 DEF ResetCommand, Starting, WriteHeader, Running
<1>6. CASE ScanError \/ ScanEnds
  BY <1>4, <1>6 DEF ScanError, ScanEnds
<1>7. CASE NothingToCommit \/ StartBlock \/ Spill
  BY <1>4, <1>7 DEF NothingToCommit, StartBlock, Spill, Typed, TypeOK
<1>8. CASE Report \/ StopSeen \/ PauseSeen \/ ResumeSeen \/ GoOn \/ Finish
  BY <1>4, <1>8 DEF Report, StopSeen, PauseSeen, ResumeSeen, GoOn, Finish
<1>9. CASE Throw \/ Kill
  BY <1>4, <1>9 DEF Throw, Kill
<1>10. ASSUME NEW c \in {"Continue", "Pause", "StopGraceful"}, WriteCommand(c) PROVE TablesInv'
  BY <1>4, <1>10 DEF WriteCommand
<1>11. CASE UNCHANGED vars
  BY <1>4, <1>11 DEF vars
<1>12. QED
  BY <1>1, <1>2, <1>3, <1>5, <1>6, <1>7, <1>8, <1>9, <1>10, <1>11

LEMMA TablesInvInit == Init => TablesInv
<1> SUFFICES ASSUME Init PROVE TablesInv
  OBVIOUS
<1>1. /\ values = <<>> /\ folders = <<>> /\ pc = "absent" /\ stream = "closed"
  BY DEF Init
<1>2. QED
  BY <1>1, EmptyTables DEF TablesInv, Walked, RecordsSound, Accounted

LEMMA TablesInvStep == Typed /\ RefInv /\ TablesInv /\ [Next]_vars => TablesInv'
BY KnownFolderTables, NewFolderTables, FileDoneTables, FolderDoneTables, EntryFoundTables,
   BlockWrittenTables, OtherTables
   DEF Next, Step

-----------------------------------------------------------------------------
(* Each id is defined once. *)

LEMMA BlocksOnly == [Next]_vars => blocks' = blocks \/ BlockWritten \/ Truncate
<1> SUFFICES ASSUME [Next]_vars PROVE blocks' = blocks \/ BlockWritten \/ Truncate
  OBVIOUS
<1>1. ASSUME NEW c \in {"Continue", "Pause", "StopGraceful"}, WriteCommand(c)
      PROVE  blocks' = blocks
  BY <1>1 DEF WriteCommand
<1>2. ASSUME NEW e \in Entries, EntryFound(e) PROVE blocks' = blocks
  BY <1>2 DEF EntryFound
<1>3. CASE Construct \/ ResetCommand \/ Starting \/ WriteHeader \/ Running
  BY <1>3 DEF Construct, ResetCommand, Starting, WriteHeader, Running
<1>4. CASE KnownFolder \/ NewFolder \/ FolderDone \/ FileDone \/ ScanError \/ ScanEnds
  BY <1>4 DEF KnownFolder, NewFolder, FolderDone, FileDone, ScanError, ScanEnds
<1>5. CASE NothingToCommit \/ StartBlock \/ Spill \/ BlockNotWritten
  BY <1>5 DEF NothingToCommit, StartBlock, Spill, BlockNotWritten
<1>6. CASE Report \/ StopSeen \/ PauseSeen \/ ResumeSeen \/ GoOn \/ Finish
  BY <1>6 DEF Report, StopSeen, PauseSeen, ResumeSeen, GoOn, Finish
<1>7. CASE Throw \/ Kill \/ UNCHANGED vars
  BY <1>7 DEF Throw, Kill, vars
<1>8. QED
  BY <1>1, <1>2, <1>3, <1>4, <1>5, <1>6, <1>7 DEF Next, Step

(* The first n lists of records define no id twice. *)
OnlyOnce(n, recs) ==
    \A j, k \in 1..n : \A a \in DOMAIN recs[j], b \in DOMAIN recs[k] :
        recs[j][a].id = recs[k][b].id => j = k /\ a = b

AllApart(n, last, recs) ==
    \A k \in 1..n : \A a \in DOMAIN last, b \in DOMAIN recs[k] : last[a].id # recs[k][b].id
SameLists(n, recs, more) == \A k \in 1..n : more[k] = recs[k]

(* Lists of records of ids that are different and apart: within the last, or across. *)
LEMMA UniqueAppend ==
    ASSUME NEW n \in Nat, NEW m \in Nat, m = n + 1, NEW recs, NEW more, NEW last,
           SameLists(n, recs, more), more[m] = last,
           OnlyOnce(n, recs), Different(last), AllApart(n, last, recs)
    PROVE  OnlyOnce(m, more)
<1> USE DEF OnlyOnce, AllApart, SameLists
<1>1. \A k \in 1..(n + 1) : k = n + 1 \/ k \in 1..n
  OBVIOUS
<1> SUFFICES ASSUME NEW j \in 1..(n + 1), NEW k \in 1..(n + 1),
                    NEW a \in DOMAIN more[j], NEW b \in DOMAIN more[k],
                    more[j][a].id = more[k][b].id
             PROVE  j = k /\ a = b
  OBVIOUS
<1>2. CASE j \in 1..n /\ k \in 1..n
  BY <1>2
<1>3. CASE j = n + 1 /\ k = n + 1
  BY <1>3 DEF Different
<1>4. CASE j = n + 1 /\ k \in 1..n
  BY <1>4
<1>5. CASE j \in 1..n /\ k = n + 1
  BY <1>5
<1>6. QED
  BY <1>1, <1>2, <1>3, <1>4, <1>5

LEMMA IdsUniqueStep ==
    ASSUME Typed, RefInv, TablesInv, IdsUnique, [Next]_vars
    PROVE  IdsUnique'
<1>1. CASE blocks' = blocks
  BY <1>1 DEF IdsUnique
<1>2. CASE Truncate
  <2>1. blocks' = <<>> /\ DOMAIN <<>> = {}
    BY <1>2, EmptySeq DEF Truncate
  <2>2. QED
    BY <2>1 DEF IdsUnique
<1>3. CASE BlockWritten
  <2> DEFINE b == BlockOf(batch, stats.commitId)
             n == Len(blocks)
             ss == [k \in 1..n |-> blocks[k].strings]
             ss2 == [k \in 1..(n + 1) |-> blocks'[k].strings]
             fs == [k \in 1..n |-> blocks[k].folders]
             fs2 == [k \in 1..(n + 1) |-> blocks'[k].folders]
  <2>1. stream = "good" /\ blocks' = Append(blocks, b)
    BY <1>3 DEF BlockWritten, Typed, TypeOK, InHand
  <2>2. /\ b \in Block /\ b.strings = batch.strings /\ b.folders = batch.folders
    <3>1. b \in Block
      BY BlockType DEF Typed, TypeOK, Counters
    <3>2. QED
      BY <3>1 DEF BlockOf
  <2> HIDE DEF b
  <2>3. /\ StringsSound(values, batch.strings, blocks)
        /\ FoldersSound(folders, batch.folders, blocks)
    BY <2>1 DEF TablesInv, RecordsSound
  <2>4. /\ \A k \in 1..n : blocks'[k] = blocks[k] /\ k \in 1..(n + 1)
        /\ blocks'[n + 1] = b /\ n \in Nat /\ n + 1 \in 1..(n + 1)
        /\ DOMAIN blocks = 1..n /\ DOMAIN blocks' = 1..(n + 1)
    <3>1. /\ blocks' \in Seq(Block) /\ Len(blocks') = n + 1 /\ n \in Nat
          /\ \A k \in 1..n : blocks'[k] = blocks[k]
          /\ blocks'[n + 1] = b
          /\ DOMAIN blocks = 1..n
      BY <2>1, <2>2, SessionFacts, AppendProperties, LenProperties
    <3>2. DOMAIN blocks' = 1..(n + 1)
      BY <3>1, LenProperties
    <3>3. QED
      BY <3>1, <3>2
  <2>5. /\ \A k \in 1..n : Apart(batch.strings, blocks[k].strings)
        /\ \A k \in 1..n : Apart(batch.folders, blocks[k].folders)
        /\ Different(batch.strings) /\ Different(batch.folders)
    BY <2>3, <2>4 DEF StringsSound, FoldersSound
  <2>6. ASSUME NEW k \in 1..n
        PROVE  /\ \A x \in DOMAIN batch.strings, y \in DOMAIN blocks[k].strings :
                    batch.strings[x].id # blocks[k].strings[y].id
               /\ \A x \in DOMAIN batch.folders, y \in DOMAIN blocks[k].folders :
                    batch.folders[x].id # blocks[k].folders[y].id
    <3>1. /\ blocks \in Seq(Block) /\ k \in DOMAIN blocks
          /\ batch.strings \in Seq(StringRecord) /\ batch.folders \in Seq(FolderRecord)
      BY <2>4, SessionFacts
    <3>2. blocks[k].strings \in Seq(StringRecord) /\ blocks[k].folders \in Seq(FolderRecord)
      BY <3>1, RecordsOfBlocks
    <3>3. /\ \A x \in DOMAIN batch.strings : batch.strings[x] \in Range(batch.strings)
          /\ \A x \in DOMAIN batch.folders : batch.folders[x] \in Range(batch.folders)
          /\ \A y \in DOMAIN blocks[k].strings : blocks[k].strings[y] \in Range(blocks[k].strings)
          /\ \A y \in DOMAIN blocks[k].folders : blocks[k].folders[y] \in Range(blocks[k].folders)
      BY DEF Range
    <3>4. QED
      BY <2>5, <3>3 DEF Apart
  <2>7. OnlyOnce(n + 1, ss2)
    <3>1. \A k \in 1..n : ss2[k] = ss[k] /\ ss[k] = blocks[k].strings
      BY <2>4
    <3>2. ss2[n + 1] = batch.strings
      BY <2>2, <2>4
    <3>3. OnlyOnce(n, ss)
      BY <2>4, <3>1 DEF IdsUnique, OnlyOnce
    <3>4. AllApart(n, batch.strings, ss)
      BY <2>6, <3>1 DEF AllApart
    <3>5. SameLists(n, ss, ss2)
      BY <3>1 DEF SameLists
    <3> HIDE DEF ss, ss2, fs, fs2, n
    <3> DEFINE m == n + 1
    <3>6. m \in Nat /\ m = n + 1 /\ ss2[m] = batch.strings
      BY <2>4, <3>2
    <3>7. Different(batch.strings) /\ n \in Nat
      BY <2>4, <2>5
    <3> HIDE DEF m
    <3>8. OnlyOnce(m, ss2)
      BY <3>3, <3>4, <3>5, <3>6, <3>7, UniqueAppend
    <3>9. QED
      BY <3>6, <3>8
  <2>8. OnlyOnce(n + 1, fs2)
    <3>1. \A k \in 1..n : fs2[k] = fs[k] /\ fs[k] = blocks[k].folders
      BY <2>4
    <3>2. fs2[n + 1] = batch.folders
      BY <2>2, <2>4
    <3>3. OnlyOnce(n, fs)
      BY <2>4, <3>1 DEF IdsUnique, OnlyOnce
    <3>4. AllApart(n, batch.folders, fs)
      BY <2>6, <3>1 DEF AllApart
    <3>5. SameLists(n, fs, fs2)
      BY <3>1 DEF SameLists
    <3> HIDE DEF ss, ss2, fs, fs2, n
    <3> DEFINE m == n + 1
    <3>6. m \in Nat /\ m = n + 1 /\ fs2[m] = batch.folders
      BY <2>4, <3>2
    <3>7. Different(batch.folders) /\ n \in Nat
      BY <2>4, <2>5
    <3> HIDE DEF m
    <3>8. OnlyOnce(m, fs2)
      BY <3>3, <3>4, <3>5, <3>6, <3>7, UniqueAppend
    <3>9. QED
      BY <3>6, <3>8
  <2>9. \A k \in 1..(n + 1) : ss2[k] = blocks'[k].strings /\ fs2[k] = blocks'[k].folders
    OBVIOUS
  <2> HIDE DEF ss2, fs2
  <2>10. QED
    BY <2>4, <2>7, <2>8, <2>9 DEF IdsUnique, OnlyOnce
<1>4. QED
  BY <1>1, <1>2, <1>3, BlocksOnly

-----------------------------------------------------------------------------
(* What is handed over, and how much can wait in the batch. *)

LEMMA HandedOverStep ==
    ASSUME Typed, HandedOver, [Next]_vars
    PROVE  HandedOver'
<1> USE DEF HandedOver
<1>1. CASE Construct
  BY <1>1 DEF Construct, FreshMemory, NoStatus
<1>2. CASE ResetCommand \/ Starting \/ WriteHeader \/ Running
  BY <1>2 DEF ResetCommand, Starting, WriteHeader, Running, writeStatus
<1>3. CASE Truncate
  BY <1>3 DEF Truncate
<1>4. ASSUME NEW e \in Entries, EntryFound(e) PROVE HandedOver'
  BY <1>4 DEF EntryFound
<1>5. CASE KnownFolder \/ NewFolder
  BY <1>5 DEF KnownFolder, NewFolder
<1>6. CASE FolderDone \/ FileDone
  BY <1>6 DEF FolderDone, FileDone, MaintenanceOrNot
<1>7. CASE ScanError \/ ScanEnds
  BY <1>7 DEF ScanError, ScanEnds
<1>8. CASE NothingToCommit
  BY <1>8 DEF NothingToCommit, Typed, TypeOK
<1>9. CASE StartBlock \/ Spill
  BY <1>9 DEF StartBlock, Spill
<1>10. CASE BlockWritten
  BY <1>10 DEF BlockWritten, Committed, Typed, TypeOK
<1>11. CASE BlockNotWritten
  BY <1>11 DEF BlockNotWritten, Committed, Typed, TypeOK
<1>12. CASE Report
  BY <1>12 DEF Report, writeStatus
<1>13. CASE StopSeen \/ PauseSeen \/ ResumeSeen \/ GoOn
  BY <1>13 DEF StopSeen, PauseSeen, ResumeSeen, GoOn, writeStatus
<1>14. CASE Finish
  BY <1>14 DEF Finish, writeStatus
<1>15. CASE Throw \/ Kill
  BY <1>15 DEF Throw, Kill, writeStatus
<1>16. ASSUME NEW c \in {"Continue", "Pause", "StopGraceful"}, WriteCommand(c)
       PROVE  HandedOver'
  BY <1>16 DEF WriteCommand
<1>17. CASE UNCHANGED vars
  BY <1>17 DEF vars
<1>18. QED
  BY <1>1, <1>2, <1>3, <1>4, <1>5, <1>6, <1>7, <1>8, <1>9, <1>10, <1>11, <1>12, <1>13,
     <1>14, <1>15, <1>16, <1>17 DEF Next, Step

(* RoomKept with n files in the batch and k entries since the last report. *)
RoomAt(at, n, k) ==
    /\ n + (IF at = "path" THEN 1 ELSE 0) <= k
    /\ k <= (IF BatchSize = 0 THEN 1 ELSE BatchSize)
    /\ at = "scanning" => k = 0 \/ k < BatchSize
    /\ at \in {"constructed", "starting", "opening", "heading", "opened", "polling", "paused"}
         => k = 0

LEMMA RoomParts ==
    /\ RoomKept <=> RoomAt(pc, Len(batch.files), since)
    /\ RoomKept' <=> RoomAt(pc', Len(batch'.files), since')
BY DEF RoomKept, RoomAt

LEMMA RoomKeptStep ==
    ASSUME Typed, HandedOver, RoomKept, [Next]_vars
    PROVE  RoomKept'
<1> DEFINE n == Len(batch.files)
           n2 == Len(batch'.files)
<1>0. /\ n \in Nat /\ since \in Nat /\ BatchSize \in Nat /\ RoomAt(pc, n, since)
      /\ batch \in Batch /\ Len(EmptyBatch.files) = 0
  <2>1. batch \in Batch /\ since \in Nat
    BY DEF Typed, TypeOK
  <2>2. n \in Nat
    BY <2>1, LenProperties DEF Batch
  <2>3. Len(EmptyBatch.files) = 0
    BY EmptySeq DEF EmptyBatch
  <2>4. QED
    BY <2>1, <2>2, <2>3, RoomParts, EngineAssumption DEF EngineAssumption
<1> SUFFICES RoomAt(pc', n2, since')
  BY RoomParts
<1>1. ASSUME batch' = batch \/ batch'.files = batch.files PROVE n2 = n
  BY <1>1
<1>2. ASSUME batch' = EmptyBatch PROVE n2 = 0
  BY <1>0, <1>2
<1> HIDE DEF n, n2
<1> USE DEF RoomAt
<1>3. CASE Construct
  BY <1>0, <1>2, <1>3 DEF Construct, FreshMemory
<1>4. CASE ResetCommand \/ Starting \/ Truncate \/ WriteHeader \/ Running
  <2>1. /\ n2 = n /\ since' = since
        /\ pc \in {"constructed", "starting", "opening", "heading", "opened"}
        /\ pc' \in {"starting", "opening", "heading", "opened", "scanning"}
    BY <1>1, <1>4 DEF ResetCommand, Starting, Truncate, WriteHeader, Running
  <2>2. QED
    BY <1>0, <2>1
<1>5. ASSUME NEW e \in Entries, EntryFound(e) PROVE RoomAt(pc', n2, since')
  <2>1. n2 = n /\ since' = since + 1 /\ pc = "scanning" /\ pc' = "path"
    BY <1>1, <1>5 DEF EntryFound
  <2>2. QED
    BY <1>0, <2>1
<1>6. CASE KnownFolder \/ NewFolder
  <2>1. batch'.files = batch.files /\ since' = since /\ pc' = pc
    BY <1>0, <1>6 DEF KnownFolder, NewFolder, Batch
  <2>2. QED
    BY <1>0, <1>1, <2>1
<1>7. CASE FolderDone
  <2>1. /\ n2 = n /\ since' = since /\ pc = "path"
        /\ pc' = "committing" \/ (pc' = "scanning" /\ since < BatchSize)
    BY <1>1, <1>7 DEF FolderDone, MaintenanceOrNot
  <2>2. QED
    BY <1>0, <2>1
<1>8. CASE FileDone
  <2> DEFINE rec == [folderId |-> parent, nameId |-> IdOf(values', entry.name),
                     extensionId |-> IdOf(values', entry.extension)]
  <2>1. /\ since' = since /\ pc = "path"
        /\ pc' = "committing" \/ (pc' = "scanning" /\ since < BatchSize)
        /\ batch'.files = Append(batch.files, rec)
    BY <1>0, <1>8 DEF FileDone, MaintenanceOrNot, Batch
  <2>2. rec \in FileRecord /\ batch.files \in Seq(FileRecord)
    <3>1. values \in Seq(Names) /\ entry.name \in Names /\ entry.extension \in Names
      BY <2>1, Constants DEF Typed, TypeOK, InHand
    <3>2. values' = Interned(Interned(values, entry.name), entry.extension)
      BY <1>8 DEF FileDone
    <3>3. /\ IdOf(values', entry.name) \in 1..Len(values')
          /\ IdOf(values', entry.extension) \in 1..Len(values')
      BY <3>1, <3>2, InternKeeps
    <3>4. parent \in Nat
      BY DEF Typed, TypeOK
    <3>5. QED
      BY <1>0, <3>3, <3>4 DEF FileRecord, Batch
  <2> HIDE DEF rec
  <2>3. n2 = n + 1
    BY <2>1, <2>2, AppendProperties DEF n, n2
  <2>4. QED
    BY <1>0, <2>1, <2>3
<1>9. CASE ScanError \/ ScanEnds
  <2>1. n2 = n /\ since' = since /\ pc = "scanning" /\ pc' \in {"scanning", "committing"}
    BY <1>1, <1>9 DEF ScanError, ScanEnds
  <2>2. QED
    BY <1>0, <2>1
<1>10. CASE NothingToCommit \/ StartBlock \/ Spill
  <2>1. /\ n2 = n /\ since' = since /\ pc \in {"committing", "writing"}
        /\ pc' \in {"report", "finish", "writing"}
    BY <1>1, <1>10 DEF NothingToCommit, StartBlock, Spill, Typed, TypeOK
  <2>2. QED
    BY <1>0, <2>1
<1>11. CASE BlockWritten \/ BlockNotWritten
  <2>1. /\ n2 = 0 /\ since' = since /\ pc' \in {"report", "finish"}
    BY <1>2, <1>11 DEF BlockWritten, BlockNotWritten, Committed, Typed, TypeOK
  <2>2. QED
    BY <1>0, <2>1
<1>12. CASE Report
  <2>1. batch = EmptyBatch /\ batch' = batch /\ since' = 0 /\ pc' = "polling"
    BY <1>12 DEF Report, HandedOver
  <2>2. QED
    BY <1>0, <1>2, <2>1
<1>13. CASE StopSeen \/ PauseSeen \/ ResumeSeen \/ GoOn
  <2>1. /\ n2 = n /\ since' = since /\ pc \in {"polling", "paused"}
        /\ pc' \in {"committing", "paused", "scanning"}
    BY <1>1, <1>13 DEF StopSeen, PauseSeen, ResumeSeen, GoOn
  <2>2. QED
    BY <1>0, <2>1
<1>14. CASE Finish \/ Throw \/ Kill
  <2>1. n2 = n /\ since' = since /\ pc' = "absent"
    BY <1>1, <1>14 DEF Finish, Throw, Kill
  <2>2. QED
    BY <1>0, <2>1
<1>15. ASSUME NEW c \in {"Continue", "Pause", "StopGraceful"}, WriteCommand(c)
       PROVE  RoomAt(pc', n2, since')
  <2>1. n2 = n /\ since' = since /\ pc' = pc
    BY <1>1, <1>15 DEF WriteCommand
  <2>2. QED
    BY <1>0, <2>1
<1>16. CASE UNCHANGED vars
  <2>1. n2 = n /\ since' = since /\ pc' = pc
    BY <1>1, <1>16 DEF vars
  <2>2. QED
    BY <1>0, <2>1
<1>17. QED
  BY <1>3, <1>4, <1>5, <1>6, <1>7, <1>8, <1>9, <1>10, <1>11, <1>12, <1>13, <1>14, <1>15,
     <1>16 DEF Next, Step

-----------------------------------------------------------------------------
(* The counters and the status. *)

ObjectsAt(at, s) ==
    s.objectsIndexed = s.filesIndexed + s.foldersIndexed + (IF at = "path" THEN 1 ELSE 0)

(* n blocks with m files are in the file. *)
CommitsAt(at, s, n, m) ==
    s.commitId = n + (IF at = "writing" THEN 1 ELSE 0) /\ s.committedFiles = m

TrueOf(s, n, m) ==
    /\ s.objectsIndexed = s.filesIndexed + s.foldersIndexed
    /\ s.committedFiles <= m /\ s.commitId <= n

StatusAt(st, at, n, m) == st.state # "error" /\ at = "good" => TrueOf(st.stats, n, m)

LEMMA CountedParts ==
    /\ Counted <=>
         /\ pc # "absent" => ObjectsAt(pc, stats)
         /\ pc # "absent" /\ stream = "good" =>
              CommitsAt(pc, stats, Len(blocks), Len(FilesOf(blocks)))
         /\ pc \in {"constructed", "starting", "opening"} =>
              stats = NoStats /\ status.stats = NoStats
    /\ Counted' <=>
         /\ pc' # "absent" => ObjectsAt(pc', stats')
         /\ pc' # "absent" /\ stream' = "good" =>
              CommitsAt(pc', stats', Len(blocks'), Len(FilesOf(blocks')))
         /\ pc' \in {"constructed", "starting", "opening"} =>
              stats' = NoStats /\ status'.stats = NoStats
    /\ StatusTrue <=> StatusAt(status, stream, Len(blocks), Len(FilesOf(blocks)))
    /\ StatusTrue' <=> StatusAt(status', stream', Len(blocks'), Len(FilesOf(blocks')))
BY DEF Counted, StatusTrue, ObjectsAt, CommitsAt, TrueOf, StatusAt

CountsInv == Counted /\ StatusTrue

(* A status written where no entry and no block is in hand. *)
LEMMA StatusWritten ==
    ASSUME NEW s \in Counters, NEW at, NEW n \in Nat, NEW m,
           at # "path", at # "writing", ObjectsAt(at, s), CommitsAt(at, s, n, m)
    PROVE  TrueOf(s, n, m)
BY DEF ObjectsAt, CommitsAt, TrueOf, Counters

LEMMA CountsInvStep ==
    ASSUME Typed, RefInv, TablesInv, HandedOver, CountsInv, [Next]_vars
    PROVE  CountsInv'
<1> DEFINE n == Len(blocks)
           n2 == Len(blocks')
           m == Len(FilesOf(blocks))
           m2 == Len(FilesOf(blocks'))
           C2 == /\ pc' # "absent" => ObjectsAt(pc', stats')
                 /\ pc' # "absent" /\ stream' = "good" => CommitsAt(pc', stats', n2, m2)
                 /\ pc' \in {"constructed", "starting", "opening"} =>
                      stats' = NoStats /\ status'.stats = NoStats
                 /\ StatusAt(status', stream', n2, m2)
<1>0. /\ stats \in Counters /\ n \in Nat
      /\ pc # "absent" => ObjectsAt(pc, stats)
      /\ pc # "absent" /\ stream = "good" => CommitsAt(pc, stats, n, m)
      /\ pc \in {"constructed", "starting", "opening"} =>
           stats = NoStats /\ status.stats = NoStats
      /\ StatusAt(status, stream, n, m)
  <2>1. stats \in Counters /\ blocks \in Seq(Block)
    BY DEF Typed, TypeOK
  <2>2. n \in Nat
    BY <2>1, LenProperties
  <2>3. QED
    BY <2>1, <2>2, CountedParts DEF CountsInv
<1> SUFFICES C2
  BY CountedParts DEF CountsInv
<1>1. ASSUME blocks' = blocks PROVE n2 = n /\ m2 = m
  BY <1>1
<1>2. /\ NoStats \in Counters /\ NoStats.objectsIndexed = 0 /\ NoStats.filesIndexed = 0
      /\ NoStats.foldersIndexed = 0 /\ NoStats.committedFiles = 0 /\ NoStats.commitId = 0
      /\ NoStatus.stats = NoStats /\ NoStatus.state = "none"
  BY Constants DEF NoStats, NoStatus
<1>3. ASSUME pc # "absent", pc # "path", pc # "writing", stream = "good"
      PROVE  TrueOf(stats, n, m)
  BY <1>0, <1>3, StatusWritten
<1> HIDE DEF n, n2, m, m2
(* Steps that leave the counters, the status and the blocks alone. *)
<1>4. ASSUME UNCHANGED <<stats, status, blocks>>, stream' = stream \/ stream' = "bad",
             \/ pc' = "absent"
             \/ /\ pc # "absent"
                /\ pc' = "path" <=> pc = "path"
                /\ pc' = "writing" <=> pc = "writing"
                /\ pc' \in {"constructed", "starting", "opening"} =>
                     pc \in {"constructed", "starting", "opening"}
      PROVE  C2
  BY <1>0, <1>1, <1>4 DEF ObjectsAt, CommitsAt, StatusAt
(* Steps that write the status and leave the counters and the blocks alone. *)
<1>5. ASSUME UNCHANGED <<stats, blocks, stream>>, NEW x, status' = [state |-> x, stats |-> stats],
             pc # "absent", x = "error" \/ (pc # "path" /\ pc # "writing"),
             \/ pc' = "absent"
             \/ /\ pc' = "path" <=> pc = "path"
                /\ pc' = "writing" <=> pc = "writing"
                /\ pc' \in {"constructed", "starting", "opening"} =>
                     pc \in {"constructed", "starting", "opening"}
      PROVE  C2
  <2>1. status'.stats = stats /\ status'.state = x
    BY <1>5
  <2>2. StatusAt(status', stream', n2, m2)
    BY <1>1, <1>3, <1>5, <2>1 DEF StatusAt
  <2>3. QED
    BY <1>0, <1>1, <1>5, <2>1, <2>2 DEF ObjectsAt, CommitsAt
<1>6. CASE Construct
  <2>1. stats' = NoStats /\ status' = NoStatus /\ stream' = "closed" /\ pc' = "constructed"
    BY <1>6 DEF Construct, FreshMemory
  <2>2. QED
    BY <1>2, <2>1 DEF ObjectsAt, StatusAt
<1>7. CASE Truncate
  <2>1. /\ pc' = "heading" /\ blocks' = <<>> /\ stats' = NoStats /\ status'.stats = NoStats
    BY <1>0, <1>7 DEF Truncate
  <2>2. n2 = 0 /\ m2 = 0
    <3>1. Len(<<>>) = 0
      BY EmptySeq
    <3>2. QED
      BY <2>1, <3>1, NoFiles DEF n2, m2
  <2>3. QED
    BY <1>2, <2>1, <2>2 DEF ObjectsAt, CommitsAt, StatusAt, TrueOf
<1>8. CASE ResetCommand \/ WriteHeader
  BY <1>4, <1>8 DEF ResetCommand, WriteHeader
<1>9. CASE Starting \/ Running
  BY <1>5, <1>9 DEF Starting, Running, writeStatus
<1>10. ASSUME NEW e \in Entries, EntryFound(e) PROVE C2
  <2>1. /\ pc = "scanning" /\ pc' = "path" /\ UNCHANGED <<blocks, stream, status>>
        /\ stats' = [stats EXCEPT !.objectsIndexed = @ + 1]
    BY <1>10 DEF EntryFound
  <2>2. /\ stats'.objectsIndexed = stats.objectsIndexed + 1
        /\ stats'.filesIndexed = stats.filesIndexed /\ stats.objectsIndexed \in Nat
        /\ stats'.foldersIndexed = stats.foldersIndexed /\ stats'.commitId = stats.commitId
        /\ stats'.committedFiles = stats.committedFiles
        /\ stats.filesIndexed \in Nat /\ stats.foldersIndexed \in Nat
    BY <1>0, <2>1 DEF Counters
  <2>3. QED
    BY <1>0, <1>1, <2>1, <2>2 DEF ObjectsAt, CommitsAt, StatusAt
<1>11. CASE KnownFolder \/ NewFolder
  BY <1>4, <1>11 DEF KnownFolder, NewFolder
<1>12. CASE FolderDone \/ FileDone
  <2>1. /\ pc = "path" /\ pc' \in {"scanning", "committing"}
        /\ UNCHANGED <<blocks, stream, status>>
        /\ \/ stats' = [stats EXCEPT !.foldersIndexed = @ + 1]
           \/ stats' = [stats EXCEPT !.filesIndexed = @ + 1]
    BY <1>12 DEF FolderDone, FileDone, MaintenanceOrNot
  <2>2. /\ stats'.objectsIndexed = stats.objectsIndexed /\ stats.objectsIndexed \in Nat
        /\ \/ /\ stats'.filesIndexed = stats.filesIndexed + 1
              /\ stats'.foldersIndexed = stats.foldersIndexed
           \/ /\ stats'.filesIndexed = stats.filesIndexed
              /\ stats'.foldersIndexed = stats.foldersIndexed + 1
        /\ stats'.commitId = stats.commitId
        /\ stats'.committedFiles = stats.committedFiles
        /\ stats.filesIndexed \in Nat /\ stats.foldersIndexed \in Nat
    BY <1>0, <2>1 DEF Counters
  <2>3. QED
    BY <1>0, <1>1, <2>1, <2>2 DEF ObjectsAt, CommitsAt, StatusAt
<1>13. CASE ScanError
  <2>1. /\ pc = "scanning" /\ pc' = pc /\ UNCHANGED <<blocks, stream, status>>
        /\ stats' = [stats EXCEPT !.errors = @ + 1]
    BY <1>13 DEF ScanError
  <2>2. /\ stats'.objectsIndexed = stats.objectsIndexed
        /\ stats'.filesIndexed = stats.filesIndexed
        /\ stats'.foldersIndexed = stats.foldersIndexed /\ stats'.commitId = stats.commitId
        /\ stats'.committedFiles = stats.committedFiles
    BY <1>0, <2>1 DEF Counters
  <2>3. QED
    BY <1>0, <1>1, <2>1, <2>2 DEF ObjectsAt, CommitsAt, StatusAt
<1>14. CASE ScanEnds \/ NothingToCommit
  BY <1>4, <1>14 DEF ScanEnds, NothingToCommit, Typed, TypeOK
<1>15. CASE StartBlock
  <2>1. /\ pc = "committing" /\ pc' = "writing" /\ UNCHANGED <<blocks, stream, status>>
        /\ stats' = [stats EXCEPT !.commitId = @ + 1]
    BY <1>15 DEF StartBlock
  <2>2. /\ stats'.objectsIndexed = stats.objectsIndexed
        /\ stats'.filesIndexed = stats.filesIndexed
        /\ stats'.foldersIndexed = stats.foldersIndexed
        /\ stats'.commitId = stats.commitId + 1 /\ stats.commitId \in Nat
        /\ stats'.committedFiles = stats.committedFiles
    BY <1>0, <2>1 DEF Counters
  <2>3. QED
    BY <1>0, <1>1, <2>1, <2>2 DEF ObjectsAt, CommitsAt, StatusAt
<1>16. CASE Spill
  BY <1>4, <1>16 DEF Spill
<1>17. CASE BlockWritten \/ BlockNotWritten
  <2> DEFINE added == Len(batch.files)
  <2>1. /\ pc = "writing" /\ pc' \in {"report", "finish"} /\ UNCHANGED status
        /\ stats' = [stats EXCEPT !.committedFiles = @ + added,
                                  !.committedFolders = @ + Len(batch.folders)]
    BY <1>17 DEF BlockWritten, BlockNotWritten, Committed, Typed, TypeOK
  <2>2. added \in Nat
    BY SessionFacts, LenProperties
  <2> HIDE DEF added
  <2>3. /\ stats'.objectsIndexed = stats.objectsIndexed
        /\ stats'.filesIndexed = stats.filesIndexed
        /\ stats'.foldersIndexed = stats.foldersIndexed
        /\ stats'.commitId = stats.commitId /\ stats.commitId \in Nat
        /\ stats'.committedFiles = stats.committedFiles + added
        /\ stats.committedFiles \in Nat
    BY <1>0, <2>1 DEF Counters
  <2>4. CASE BlockNotWritten
    <3>1. stream' = "bad"
      BY <2>4 DEF BlockNotWritten
    <3>2. QED
      BY <1>0, <2>1, <2>3, <3>1 DEF ObjectsAt, StatusAt
  <2>5. CASE BlockWritten
    <3>1. stream = "good" /\ stream' = "good"
      BY <2>5 DEF BlockWritten
    <3>2. n2 = n + 1
      <4> DEFINE b == BlockOf(batch, stats.commitId)
      <4>1. b \in Block
        BY BlockType DEF Typed, TypeOK, Counters
      <4>2. blocks' = Append(blocks, b)
        BY <2>5 DEF BlockWritten, Typed, TypeOK, InHand
      <4> HIDE DEF b
      <4>3. QED
        BY <4>1, <4>2, SessionFacts, AppendProperties DEF n, n2
    <3>3. m2 = m + added /\ m \in Nat
      <4> DEFINE s == FilesOf(blocks)
                 t == Meanings(values, folders, batch.files)
      <4>1. FilesOf(blocks') = s \o t /\ s \in Seq(Decoded) /\ t \in Seq(Decoded)
            /\ Len(t) = added
        BY <2>5, BlockWrittenTables DEF added
      <4>2. Len(s \o t) = Len(s) + Len(t) /\ Len(s) \in Nat
        BY <4>1, ConcatProperties, LenProperties
      <4>3. QED
        BY <4>1, <4>2 DEF m, m2
    <3>4. CommitsAt(pc', stats', n2, m2)
      <4>1. CommitsAt(pc, stats, n, m) /\ pc = "writing" /\ pc' # "writing"
        BY <1>0, <2>1, <3>1
      <4>2. stats.commitId = n + 1 /\ stats.committedFiles = m
        BY <4>1 DEF CommitsAt
      <4>3. stats'.commitId = n2 /\ stats'.committedFiles = m2 /\ n2 \in Nat
        BY <1>0, <2>3, <3>2, <3>3, <4>2
      <4>4. QED
        BY <4>1, <4>3 DEF CommitsAt
    <3>5. StatusAt(status', stream', n2, m2)
      <4> SUFFICES ASSUME status.state # "error" PROVE TrueOf(status.stats, n2, m2)
        BY <2>1 DEF StatusAt
      <4>1. TrueOf(status.stats, n, m) /\ status.stats \in Counters
        BY <1>0, <3>1 DEF StatusAt, Typed, TypeOK
      <4>2. n <= n2 /\ m <= m2 /\ n2 \in Nat /\ m2 \in Nat
        BY <1>0, <2>2, <3>2, <3>3
      <4>3. /\ status.stats.committedFiles \in Nat /\ status.stats.commitId \in Nat
        BY <4>1 DEF Counters
      <4>4. status.stats.committedFiles <= m2 /\ status.stats.commitId <= n2
        BY <1>0, <3>3, <4>1, <4>2, <4>3 DEF TrueOf
      <4>5. QED
        BY <4>1, <4>4 DEF TrueOf
    <3>6. ObjectsAt(pc', stats')
      BY <1>0, <2>1, <2>3 DEF ObjectsAt
    <3>7. QED
      BY <2>1, <3>4, <3>5, <3>6
  <2>6. QED
    BY <1>17, <2>4, <2>5
<1>18. CASE Report \/ StopSeen \/ PauseSeen \/ ResumeSeen \/ Finish
  BY <1>5, <1>18 DEF Report, StopSeen, PauseSeen, ResumeSeen, Finish, writeStatus
<1>19. CASE GoOn
  BY <1>4, <1>19 DEF GoOn
<1>20. CASE Throw
  <2>1. /\ pc # "absent" /\ pc' = "absent" /\ UNCHANGED <<stats, blocks, stream>>
        /\ status' = status \/ status' = [state |-> "error", stats |-> stats]
    BY <1>20 DEF Throw, writeStatus
  <2>2. QED
    BY <1>4, <1>5, <2>1
<1>21. CASE Kill
  BY <1>4, <1>21 DEF Kill
<1>22. ASSUME NEW c \in {"Continue", "Pause", "StopGraceful"}, WriteCommand(c) PROVE C2
  BY <1>4, <1>22 DEF WriteCommand
<1>23. CASE UNCHANGED vars
  <2>1. UNCHANGED <<stats, status, blocks, stream, pc>>
    BY <1>23 DEF vars
  <2>2. QED
    BY <1>4, <2>1
<1>24. QED
  BY <1>6, <1>7, <1>8, <1>9, <1>10, <1>11, <1>12, <1>13, <1>14, <1>15, <1>16, <1>17, <1>18,
     <1>19, <1>20, <1>21, <1>22, <1>23 DEF Next, Step

-----------------------------------------------------------------------------
(* All of it together. *)

Whole == Typed /\ RefInv /\ TablesInv /\ IdsUnique /\ HandedOver /\ RoomKept /\ CountsInv

LEMMA WholeInit == Init => Whole
<1> SUFFICES ASSUME Init PROVE Whole
  OBVIOUS
<1>1. Typed
  BY Constants, EmptySeq DEF Init, Typed, TypeOK, InHand
<1>2. RefInv /\ TablesInv
  BY RefInvInit, TablesInvInit
<1>3. IdsUnique
  <2>1. blocks = <<>> /\ DOMAIN <<>> = {}
    BY EmptySeq DEF Init
  <2>2. QED
    BY <2>1 DEF IdsUnique
<1>4. /\ pc = "absent" /\ stream = "closed" /\ status.state = "none"
      /\ batch.files = <<>> /\ Len(<<>>) = 0 /\ since = 0
  BY EmptySeq DEF Init, NoStatus, EmptyBatch
<1>5. HandedOver
  BY <1>4 DEF HandedOver
<1>6. RoomKept
  <2>1. RoomAt(pc, Len(batch.files), since)
    BY <1>4, EngineAssumption DEF RoomAt, EngineAssumption
  <2>2. QED
    BY <2>1, RoomParts
<1>7. CountsInv
  BY <1>4 DEF CountsInv, Counted, StatusTrue
<1>8. QED
  BY <1>1, <1>2, <1>3, <1>5, <1>6, <1>7 DEF Whole

LEMMA WholeStep == Whole /\ [Next]_vars => Whole'
<1> SUFFICES ASSUME Whole, [Next]_vars PROVE Whole'
  OBVIOUS
<1> USE DEF Whole
<1>1. Typed'
  BY TypedStep
<1>2. RefInv'
  BY RefInvStep
<1>3. TablesInv'
  BY TablesInvStep
<1>4. IdsUnique'
  BY IdsUniqueStep
<1>5. HandedOver'
  BY HandedOverStep
<1>6. RoomKept'
  BY RoomKeptStep
<1>7. CountsInv'
  BY CountsInvStep
<1>8. QED
  BY <1>1, <1>2, <1>3, <1>4, <1>5, <1>6, <1>7

LEMMA WholeHolds == Spec => []Whole
BY WholeInit, WholeStep, PTL DEF Spec

(* The inductive invariant that the runs check too. *)
THEOREM PromiseInvariant == Spec => []PromiseInv
<1>1. Whole => PromiseInv
  BY DEF Whole, TablesInv, CountsInv, PromiseInv
<1>2. QED
  BY <1>1, WholeHolds, PTL

(* No string id and no folder id of the file is ever defined twice, over all its blocks:
   the maps that a reader builds while it reads never change a meaning. *)
THEOREM IdsAreUnique == Spec => []IdsUnique
<1>1. Whole => IdsUnique
  BY DEF Whole
<1>2. QED
  BY <1>1, WholeHolds, PTL

(* A status that is not "error" never counts an object or a commit that is not there. *)
THEOREM StatusIsTrue == Spec => []StatusTrue
<1>1. Whole => StatusTrue
  BY DEF Whole, CountsInv
<1>2. QED
  BY <1>1, WholeHolds, PTL

(* What is in the file, what waits in the batch, and what was reported. *)
LEMMA FileAndBatch ==
    ASSUME Whole, stream = "good"
    PROVE  /\ FilesReported = FilesOf(blocks) \o Meanings(values, folders, batch.files)
           /\ FilesOf(blocks) \in Seq(Decoded)
           /\ Meanings(values, folders, batch.files) \in Seq(Decoded)
           /\ Len(Meanings(values, folders, batch.files)) = Len(batch.files)
<1>1. /\ values \in Strings /\ folders \in Tree /\ batch.files \in Seq(FileRecord)
      /\ AllWithin(values, folders, batch.files)
      /\ blocks \in Seq(Block) /\ AllResolve(blocks)
  BY SessionFacts DEF Whole
<1>2. Rooted(values, folders) /\ BlocksTrue(values, folders, blocks)
  BY SoundBlocks DEF Whole, TablesInv, Walked, RecordsSound
<1>3. FilesReported = FilesOf(blocks) \o Meanings(values, folders, batch.files)
  BY DEF Whole, TablesInv, Accounted
<1>4. QED
  BY <1>1, <1>2, <1>3, FilesDecoded, MeaningsType

LEMMA PrefixOfConcat ==
    ASSUME NEW S, NEW s \in Seq(S), NEW t \in Seq(S)
    PROVE  s = SubSeq(s \o t, 1, Len(s))
<1> DEFINE u == s \o t
<1>1. /\ u \in Seq(S) /\ Len(s) \in Nat /\ Len(t) \in Nat /\ Len(u) = Len(s) + Len(t)
      /\ \A i \in 1..Len(s) : u[i] = s[i] /\ u[i] \in S
  <2>1. u \in Seq(S) /\ Len(s) \in Nat /\ Len(t) \in Nat /\ Len(u) = Len(s) + Len(t)
    BY ConcatProperties, LenProperties
  <2>2. \A i \in 1..Len(s) : s[i] \in S
    BY ElementOfSeq
  <2>3. \A i \in 1..Len(s) : u[i] = s[i]
    BY <2>1, ConcatProperties
  <2>4. QED
    BY <2>1, <2>2, <2>3
<1> HIDE DEF u
<1>2. /\ SubSeq(u, 1, Len(s)) \in Seq(S)
      /\ Len(SubSeq(u, 1, Len(s))) = Len(s)
      /\ \A i \in 1..Len(s) : SubSeq(u, 1, Len(s))[i] = u[i]
  <2>1. Len(s) \in Int /\ 1 \in Int /\ Len(s) - 1 + 1 = Len(s)
    BY <1>1
  <2>2. \A i \in 1..Len(s) : i \in 1..Len(u)
    BY <1>1
  <2>3. /\ SubSeq(u, 1, Len(s)) \in Seq(S)
        /\ Len(SubSeq(u, 1, Len(s))) = IF 1 <= Len(s) THEN Len(s) - 1 + 1 ELSE 0
        /\ \A i \in 1..(Len(s) - 1 + 1) : SubSeq(u, 1, Len(s))[i] = u[1 + i - 1]
    BY <1>1, <2>1, SubSeqProperties
  <2>4. QED
    BY <1>1, <2>1, <2>3
<1>3. s = SubSeq(u, 1, Len(s))
  BY <1>1, <1>2, SeqEqual
<1>4. QED
  BY <1>3 DEF u

(* However a process ends: as long as no write failed, the file holds the files reported
   up to some file, and at most one batch is missing. *)
THEOREM LossIsBounded == Spec => []LossBounded
<1>1. Whole => LossBounded
  <2> SUFFICES ASSUME Whole, stream = "good"
               PROVE  /\ FilesOf(blocks) = SubSeq(FilesReported, 1, Len(FilesOf(blocks)))
                      /\ Len(FilesReported) - Len(FilesOf(blocks))
                           <= (IF BatchSize = 0 THEN 1 ELSE BatchSize)
    BY DEF LossBounded
  <2> DEFINE s == FilesOf(blocks)
             t == Meanings(values, folders, batch.files)
             room == IF BatchSize = 0 THEN 1 ELSE BatchSize
  <2>1. /\ FilesReported = s \o t /\ s \in Seq(Decoded) /\ t \in Seq(Decoded)
        /\ Len(t) = Len(batch.files)
    BY FileAndBatch
  <2>2. Len(batch.files) <= since /\ since <= room /\ since \in Nat /\ room \in Nat
    <3>1. RoomAt(pc, Len(batch.files), since) /\ since \in Nat /\ Len(batch.files) \in Nat
      BY SessionFacts, LenProperties, RoomParts DEF Whole, Typed, TypeOK
    <3>2. BatchSize \in Nat
      BY EngineAssumption DEF EngineAssumption
    <3> DEFINE k == Len(batch.files)
    <3> HIDE DEF k
    <3>3. RoomAt(pc, k, since) /\ k \in Nat /\ since \in Nat
      BY <3>1 DEF k
    <3>4. k <= since
      BY <3>3 DEF RoomAt
    <3>5. since <= room
      BY <3>3 DEF RoomAt
    <3>6. QED
      BY <3>2, <3>3, <3>4, <3>5 DEF k
  <2> HIDE DEF s, t, room
  <2>3. Len(s \o t) = Len(s) + Len(t) /\ Len(s) \in Nat /\ Len(t) \in Nat
    BY <2>1, ConcatProperties, LenProperties
  <2>4. s = SubSeq(s \o t, 1, Len(s))
    BY <2>1, PrefixOfConcat
  <2>5. Len(s \o t) - Len(s) <= room
    BY <2>1, <2>2, <2>3
  <2>6. QED
    BY <2>1, <2>4, <2>5 DEF s, room
<1>2. QED
  BY <1>1, WholeHolds, PTL

(* Where the batch is empty the file holds every file reported. *)
LEMMA NothingWaits ==
    ASSUME Whole, stream = "good", batch = EmptyBatch
    PROVE  FilesOf(blocks) = FilesReported
<1> DEFINE s == FilesOf(blocks)
           t == Meanings(values, folders, batch.files)
<1>1. FilesReported = s \o t /\ s \in Seq(Decoded)
  BY FileAndBatch
<1>2. t = <<>>
  BY DEF Meanings, EmptyBatch
<1> HIDE DEF s, t
<1>3. s \o <<>> = s
  BY <1>1, ConcatEmptySeq
<1>4. QED
  BY <1>1, <1>2, <1>3 DEF s

(* A process that has ended "stopped" or "completed", no write having failed, has left
   every file it was given in the file, in order, and nothing half written. *)
THEOREM EndedIsWhole == Spec => []EndedWhole
<1>1. Whole => EndedWhole
  <2> SUFFICES ASSUME Whole, status.state \in {"stopped", "completed"}, pc = "absent",
                      stream = "good"
               PROVE  FilesOf(blocks) = FilesReported /\ torn = <<>>
    BY DEF EndedWhole
  <2>1. batch = EmptyBatch /\ torn = <<>>
    BY DEF Whole, HandedOver
  <2>2. QED
    BY <2>1, NothingWaits
<1>2. QED
  BY <1>1, WholeHolds, PTL

-----------------------------------------------------------------------------
(* The process implements PublishedIndex, step by step. *)

Room == IF BatchSize = 0 THEN 1 ELSE BatchSize
EndedWell == pc = "absent" /\ status.state \in {"stopped", "completed"}

(* The mapping, with the names it has here. *)
LEMMA Mapping ==
    /\ Published!Init <=>
         FilesReported = <<>> /\ FilesOf(blocks) = <<>> /\ stream # "good" /\ ~ EndedWell
    /\ Published!Begin <=>
         FilesReported' = <<>> /\ FilesOf(blocks)' = <<>> /\ stream' = "good" /\ ~ EndedWell'
    /\ Published!Scan <=>
         /\ ~ EndedWell
         /\ stream = "good" => Len(FilesReported) < Len(FilesOf(blocks)) + Room
         /\ \E f \in FileEntries : FilesReported' = Append(FilesReported, f)
         /\ FilesOf(blocks)' = FilesOf(blocks)
         /\ stream' = "good" <=> stream = "good"
         /\ EndedWell' <=> EndedWell
    /\ Published!Publish <=>
         /\ stream = "good" /\ ~ EndedWell
         /\ \E n \in Len(FilesOf(blocks))..Len(FilesReported) :
              FilesOf(blocks)' = SubSeq(FilesReported, 1, n)
         /\ FilesReported' = FilesReported /\ stream' = "good" /\ ~ EndedWell'
    /\ Published!Distrust <=>
         /\ stream' # "good" /\ ~ EndedWell'
         /\ FilesReported' = FilesReported /\ FilesOf(blocks)' = FilesOf(blocks)
    /\ Published!Finish <=>
         /\ ~ EndedWell
         /\ stream = "good" => FilesOf(blocks) = FilesReported
         /\ EndedWell'
         /\ FilesReported' = FilesReported /\ FilesOf(blocks)' = FilesOf(blocks)
         /\ stream' = "good" <=> stream = "good"
    /\ UNCHANGED Published!published <=>
         /\ FilesReported' = FilesReported /\ FilesOf(blocks)' = FilesOf(blocks)
         /\ stream' = "good" <=> stream = "good"
         /\ EndedWell' <=> EndedWell
<1> HIDE DEF memory, file
<1>1. Published!Init <=>
         FilesReported = <<>> /\ FilesOf(blocks) = <<>> /\ stream # "good" /\ ~ EndedWell
  BY DEF Published!Init, EndedWell
<1>2. Published!Begin <=>
         FilesReported' = <<>> /\ FilesOf(blocks)' = <<>> /\ stream' = "good" /\ ~ EndedWell'
  BY DEF Published!Begin, EndedWell
<1>3. Published!Scan <=>
         /\ ~ EndedWell
         /\ stream = "good" => Len(FilesReported) < Len(FilesOf(blocks)) + Room
         /\ \E f \in FileEntries : FilesReported' = Append(FilesReported, f)
         /\ FilesOf(blocks)' = FilesOf(blocks)
         /\ stream' = "good" <=> stream = "good"
         /\ EndedWell' <=> EndedWell
  BY DEF Published!Scan, EndedWell, Room, FileEntries
<1>4. Published!Publish <=>
         /\ stream = "good" /\ ~ EndedWell
         /\ \E n \in Len(FilesOf(blocks))..Len(FilesReported) :
              FilesOf(blocks)' = SubSeq(FilesReported, 1, n)
         /\ FilesReported' = FilesReported /\ stream' = "good" /\ ~ EndedWell'
  BY DEF Published!Publish, EndedWell
<1>5. Published!Distrust <=>
         /\ stream' # "good" /\ ~ EndedWell'
         /\ FilesReported' = FilesReported /\ FilesOf(blocks)' = FilesOf(blocks)
  BY DEF Published!Distrust, EndedWell
<1>6. Published!Finish <=>
         /\ ~ EndedWell
         /\ stream = "good" => FilesOf(blocks) = FilesReported
         /\ EndedWell'
         /\ FilesReported' = FilesReported /\ FilesOf(blocks)' = FilesOf(blocks)
         /\ stream' = "good" <=> stream = "good"
  BY DEF Published!Finish, EndedWell
<1>7. UNCHANGED Published!published <=>
         /\ FilesReported' = FilesReported /\ FilesOf(blocks)' = FilesOf(blocks)
         /\ stream' = "good" <=> stream = "good"
         /\ EndedWell' <=> EndedWell
  BY DEF Published!published, EndedWell
<1>8. QED
  BY <1>1, <1>2, <1>3, <1>4, <1>5, <1>6, <1>7

(* What the process reports and what it has written, apart from the end of a session. *)
Kept == FilesReported' = FilesReported /\ FilesOf(blocks)' = FilesOf(blocks)

LEMMA SameLists2 == UNCHANGED <<blocks, reported>> => Kept
BY DEF Kept, FilesReported

LEMMA LivingNotEnded == Whole /\ pc # "absent" => ~ EndedWell
BY DEF EndedWell

LEMMA MovesOn ==
    ASSUME Whole, Kept, pc # "absent",
           \/ stream' = stream
           \/ stream' = "bad",
           pc' # "absent" \/ status'.state \notin {"stopped", "completed"}
    PROVE  Published!Distrust \/ UNCHANGED Published!published
<1>1. ~ EndedWell /\ ~ EndedWell'
  BY LivingNotEnded DEF EndedWell
<1>2. CASE stream' = stream
  <2>1. UNCHANGED Published!published
    BY <1>1, <1>2, Mapping DEF Kept
  <2>2. QED
    BY <2>1
<1>3. CASE stream' = "bad"
  <2>1. Published!Distrust
    BY <1>1, <1>3, Mapping DEF Kept
  <2>2. QED
    BY <2>1
<1>4. QED
  BY <1>2, <1>3

LEMMA FileDoneScans ==
    ASSUME Whole, FileDone
    PROVE  Published!Scan
<1>1. /\ pc = "path" /\ pc' # "absent" /\ entry.kind = "file"
      /\ reported' = Append(reported, entry) /\ blocks' = blocks /\ stream' = stream
  BY DEF FileDone, MaintenanceOrNot
<1>2. entry \in FileEntries /\ entry \in Entries /\ IsFile(entry)
  BY <1>1 DEF Whole, Typed, InHand, FileEntries, IsFile
<1>3. FilesReported' = Append(FilesReported, entry)
  <2>1. FilesReported = FilesAmong(reported) /\ FilesReported' = FilesAmong(reported')
    BY DEF FilesReported, FilesAmong
  <2>2. reported \in Seq(Entries)
    BY DEF Whole, Typed, TypeOK
  <2>3. QED
    BY <1>1, <1>2, <2>1, <2>2, FilesAmongAppend
<1>4. ASSUME stream = "good"
      PROVE  Len(FilesReported) < Len(FilesOf(blocks)) + Room
  <2> DEFINE s == FilesOf(blocks)
             t == Meanings(values, folders, batch.files)
             k == Len(batch.files)
             w == Len(s)
  <2>1. FilesReported = s \o t /\ s \in Seq(Decoded) /\ t \in Seq(Decoded) /\ Len(t) = k
    BY <1>4, FileAndBatch
  <2>2. RoomAt(pc, k, since) /\ since \in Nat
    BY RoomParts DEF Whole, Typed, TypeOK
  <2> HIDE DEF s, t, k
  <2>3. Len(s \o t) = w + k /\ w \in Nat /\ k \in Nat
    BY <2>1, ConcatProperties, LenProperties
  <2> HIDE DEF w
  <2>4. Room \in Nat /\ k + 1 <= Room
    <3>1. BatchSize \in Nat
      BY EngineAssumption DEF EngineAssumption
    <3>2. k + 1 <= since
      BY <1>1, <2>2 DEF RoomAt
    <3>3. since <= Room /\ Room \in Nat
      BY <2>2, <3>1 DEF RoomAt, Room
    <3>4. QED
      BY <2>2, <2>3, <3>2, <3>3
  <2>5. w + k < w + Room
    BY <2>3, <2>4
  <2>6. QED
    BY <2>1, <2>3, <2>5 DEF s, w
<1>5. ~ EndedWell /\ ~ EndedWell'
  BY <1>1 DEF EndedWell
<1>6. QED
  BY <1>1, <1>2, <1>3, <1>4, <1>5, Mapping

LEMMA BlockPublishes ==
    ASSUME Whole, BlockWritten
    PROVE  Published!Publish
<1> DEFINE s == FilesOf(blocks)
           t == Meanings(values, folders, batch.files)
<1>1. /\ stream = "good" /\ stream' = "good" /\ pc = "writing" /\ pc' # "absent"
      /\ reported' = reported
  BY DEF BlockWritten, Committed, Whole, Typed, TypeOK
<1>2. FilesOf(blocks)' = s \o t /\ s \in Seq(Decoded) /\ t \in Seq(Decoded)
  BY BlockWrittenTables DEF Whole
<1>3. FilesReported = s \o t /\ FilesReported' = FilesReported
  BY <1>1, FileAndBatch DEF FilesReported
<1> HIDE DEF s, t
<1> DEFINE u == s \o t
<1>4. u \in Seq(Decoded) /\ Len(u) = Len(s) + Len(t) /\ Len(s) \in Nat /\ Len(t) \in Nat
  BY <1>2, ConcatProperties, LenProperties
<1> HIDE DEF u
<1>5. Len(u) \in Len(s)..Len(u)
  BY <1>4
<1>6. u = SubSeq(u, 1, Len(u))
  BY <1>4, SubSeqFull
<1>7. ~ EndedWell /\ ~ EndedWell'
  BY <1>1 DEF EndedWell
<1>8. \E n \in Len(s)..Len(FilesReported) : FilesOf(blocks)' = SubSeq(FilesReported, 1, n)
  BY <1>2, <1>3, <1>5, <1>6 DEF u
<1>9. QED
  BY <1>1, <1>3, <1>7, <1>8, Mapping DEF s

LEMMA FinishFinishes ==
    ASSUME Whole, Finish
    PROVE  Published!Finish
<1>1. /\ pc = "finish" /\ pc' = "absent" /\ UNCHANGED <<blocks, reported, stream>>
      /\ status'.state \in {"stopped", "completed"}
  BY DEF Finish, writeStatus
<1>2. Kept
  BY <1>1, SameLists2
<1>3. ~ EndedWell /\ EndedWell'
  BY <1>1 DEF EndedWell
<1>4. batch = EmptyBatch
  BY <1>1 DEF Whole, HandedOver
<1>5. stream = "good" => FilesOf(blocks) = FilesReported
  BY <1>4, NothingWaits
<1>6. QED
  BY <1>1, <1>2, <1>3, <1>5, Mapping DEF Kept

LEMMA ConstructDistrusts ==
    ASSUME Construct
    PROVE  Published!Distrust
<1>1. /\ pc' = "constructed" /\ stream' = "closed" /\ UNCHANGED <<blocks, reported>>
  BY DEF Construct
<1>2. Kept /\ ~ EndedWell'
  BY <1>1, SameLists2 DEF EndedWell
<1>3. QED
  BY <1>1, <1>2, Mapping DEF Kept

LEMMA TruncateBegins ==
    ASSUME Truncate
    PROVE  Published!Begin
<1>1. /\ pc' = "heading" /\ stream' = "good" /\ blocks' = <<>> /\ reported' = <<>>
  BY DEF Truncate
<1>2. FilesReported' = FilesAmong(reported')
  BY DEF FilesReported, FilesAmong
<1>3. FilesReported' = <<>> /\ FilesOf(blocks)' = <<>> /\ ~ EndedWell'
  BY <1>1, <1>2, EmptyTables DEF EndedWell
<1>4. QED
  BY <1>1, <1>3, Mapping

LEMMA StepImplements ==
    ASSUME Whole, [Next]_vars
    PROVE  [Published!Next]_(Published!published)
<1> USE DEF Published!Next
<1>1. CASE Construct
  BY <1>1, ConstructDistrusts
<1>2. CASE Truncate
  BY <1>2, TruncateBegins
<1>3. CASE FileDone
  BY <1>3, FileDoneScans
<1>4. CASE BlockWritten
  BY <1>4, BlockPublishes
<1>5. CASE Finish
  BY <1>5, FinishFinishes
<1>6. CASE ResetCommand \/ Starting \/ WriteHeader \/ Running
  <2>1. /\ UNCHANGED <<blocks, reported>> /\ pc # "absent" /\ pc' # "absent"
        /\ stream' = stream \/ stream' = "bad"
    BY <1>6 DEF ResetCommand, Starting, WriteHeader, Running
  <2>2. QED
    BY <2>1, SameLists2, MovesOn
<1>7. CASE KnownFolder \/ NewFolder \/ ScanError \/ ScanEnds
  <2>1. UNCHANGED <<blocks, reported, stream>> /\ pc # "absent" /\ pc' # "absent"
    BY <1>7 DEF KnownFolder, NewFolder, ScanError, ScanEnds
  <2>2. QED
    BY <2>1, SameLists2, MovesOn
<1>8. ASSUME NEW e \in Entries, EntryFound(e)
      PROVE  [Published!Next]_(Published!published)
  <2>1. UNCHANGED <<blocks, reported, stream>> /\ pc # "absent" /\ pc' # "absent"
    BY <1>8 DEF EntryFound
  <2>2. QED
    BY <2>1, SameLists2, MovesOn
<1>9. CASE FolderDone
  <2>1. /\ UNCHANGED <<blocks, stream>> /\ pc = "path" /\ pc' # "absent"
        /\ reported' = Append(reported, entry) /\ entry.kind = "folder"
    BY <1>9 DEF FolderDone, MaintenanceOrNot
  <2>2. entry \in Entries /\ ~ IsFile(entry) /\ reported \in Seq(Entries)
    BY <2>1 DEF Whole, Typed, TypeOK, InHand, IsFile
  <2>3. FilesReported = FilesAmong(reported) /\ FilesReported' = FilesAmong(reported')
    BY DEF FilesReported, FilesAmong
  <2>4. Kept
    BY <2>1, <2>2, <2>3, FilesAmongAppend DEF Kept
  <2>5. QED
    BY <2>1, <2>4, MovesOn
<1>10. CASE NothingToCommit \/ StartBlock \/ Spill
  <2>1. UNCHANGED <<blocks, reported, stream>> /\ pc # "absent" /\ pc' # "absent"
    BY <1>10 DEF NothingToCommit, StartBlock, Spill, Whole, Typed, TypeOK
  <2>2. QED
    BY <2>1, SameLists2, MovesOn
<1>11. CASE BlockNotWritten
  <2>1. UNCHANGED <<blocks, reported>> /\ pc # "absent" /\ pc' # "absent" /\ stream' = "bad"
    BY <1>11 DEF BlockNotWritten, Committed, Whole, Typed, TypeOK
  <2>2. QED
    BY <2>1, SameLists2, MovesOn
<1>12. CASE Report \/ StopSeen \/ PauseSeen \/ ResumeSeen \/ GoOn
  <2>1. UNCHANGED <<blocks, reported, stream>> /\ pc # "absent" /\ pc' # "absent"
    BY <1>12 DEF Report, StopSeen, PauseSeen, ResumeSeen, GoOn
  <2>2. QED
    BY <2>1, SameLists2, MovesOn
<1>13. CASE Throw \/ Kill
  <2>1. /\ UNCHANGED <<blocks, reported, stream>> /\ pc # "absent"
        /\ status'.state = "error" \/ status' = status
    BY <1>13 DEF Throw, Kill, writeStatus
  <2>2. status'.state \notin {"stopped", "completed"}
    BY <2>1 DEF Whole, HandedOver
  <2>3. QED
    BY <2>1, <2>2, SameLists2, MovesOn
<1>14. ASSUME NEW c \in {"Continue", "Pause", "StopGraceful"}, WriteCommand(c)
       PROVE  [Published!Next]_(Published!published)
  <2>1. UNCHANGED <<blocks, reported, stream>> /\ pc # "absent" /\ pc' # "absent"
    BY <1>14 DEF WriteCommand
  <2>2. QED
    BY <2>1, SameLists2, MovesOn
<1>15. CASE UNCHANGED vars
  <2>1. UNCHANGED <<blocks, reported, stream, pc, status>>
    BY <1>15 DEF vars
  <2>2. Kept /\ (EndedWell' <=> EndedWell)
    BY <2>1, SameLists2 DEF EndedWell
  <2>3. UNCHANGED Published!published
    BY <2>1, <2>2, Mapping DEF Kept
  <2>4. QED
    BY <2>3
<1>16. QED
  BY <1>1, <1>2, <1>3, <1>4, <1>5, <1>6, <1>7, <1>8, <1>9, <1>10, <1>11, <1>12, <1>13, <1>14,
     <1>15 DEF Next, Step

(* The index process implements its promise to readers: every step, seen through what a
   reader decodes from the complete blocks, begins a new index, scans a file within the
   room of one batch, publishes a beginning of the scan, gives up trust, declares a whole
   index done, or changes nothing. *)
THEOREM PromiseKept == Spec => KeepsPromise
<1>1. Init => Published!Init
  <2> SUFFICES ASSUME Init PROVE Published!Init
    OBVIOUS
  <2>1. pc = "absent" /\ status.state = "none" /\ stream = "closed" /\ blocks = <<>>
        /\ reported = <<>>
    BY DEF Init, NoStatus
  <2>2. FilesReported = <<>> /\ FilesOf(blocks) = <<>>
    BY <2>1, EmptyTables, ReportedFiles
  <2>3. QED
    BY <2>1, <2>2, Mapping DEF EndedWell
<1>2. QED
  BY <1>1, WholeHolds, StepImplements, PTL DEF Spec, KeepsPromise, Published!Spec

-----------------------------------------------------------------------------
(* What can be seen of the file, and what it means: visible blocks decode, with the tables
   of the process that wrote them, to a beginning of the files of the scan. *)

Means(strs, folds, blks) ==
    Rooted(strs, folds) /\ BlocksTrue(strs, folds, blks) /\ AllResolve(blks)
Readable(blks, scanned) ==
    /\ blks \in Seq(Block)
    /\ \E strs \in Strings, folds \in Tree : Means(strs, folds, blks)
    /\ Begins(FilesOf(blks), scanned)
FileInv == Readable(Visible, FilesReported)

LEMMA VisibleParts ==
    ASSUME Typed
    PROVE  /\ blocks \in Seq(Block) /\ Visible \in Seq(Block)
           /\ Len(blocks) \in Nat /\ Len(Visible) \in Nat
           /\ Begins(blocks, Visible)
           /\ torn = <<>> => Visible = blocks
           /\ torn # <<>> => /\ torn[1].block \in Block /\ torn[1].seen \in Nat
                             /\ Visible = Append(blocks, torn[1].block)
                             /\ Len(Visible) = Len(blocks) + 1
                             /\ Visible[Len(blocks) + 1] = torn[1].block
<1>1. blocks \in Seq(Block) /\ torn \in Seq([block : Block, seen : Nat]) /\ Len(blocks) \in Nat
  BY LenProperties DEF Typed, TypeOK
<1>2. CASE torn = <<>>
  <2>1. Visible = blocks
    BY <1>2 DEF Visible
  <2>2. QED
    BY <1>1, <1>2, <2>1, BeginsItself
<1>3. CASE torn # <<>>
  <2>1. 1 \in 1..Len(torn)
    BY <1>1, <1>3, EmptySeq, LenProperties
  <2>2. torn[1] \in [block : Block, seen : Nat]
    BY <1>1, <2>1, ElementOfSeq
  <2>3. Visible = Append(blocks, torn[1].block)
    BY <1>3 DEF Visible
  <2>4. torn[1].block \in Block /\ torn[1].seen \in Nat
    BY <2>2
  <2>5. /\ Visible \in Seq(Block) /\ Len(Visible) = Len(blocks) + 1
        /\ Visible[Len(blocks) + 1] = torn[1].block /\ Begins(blocks, Visible)
    BY <1>1, <2>3, <2>4, AppendProperties, BeginsAppend
  <2>6. QED
    BY <1>1, <1>3, <2>3, <2>4, <2>5
<1>4. QED
  BY <1>2, <1>3

(* What is visible changes where a block is begun and where the file is truncated. *)
BlockAdded ==
    /\ StartBlock /\ stream = "good" /\ torn = <<>> /\ Visible = blocks /\ blocks' = blocks
    /\ Visible' = Append(blocks, BlockOf(batch, stats.commitId + 1))

LEMMA VisibleMoves ==
    ASSUME Whole, [Next]_vars
    PROVE  \/ Truncate
           \/ Visible' = Visible /\ blocks' = blocks
           \/ BlockWritten /\ Visible' = Visible /\ blocks' = Visible
           \/ BlockAdded
<1>0. Typed /\ HandedOver
  BY DEF Whole
<1>1. CASE Construct \/ ResetCommand \/ Starting \/ WriteHeader \/ Running \/ Throw \/ Kill
  BY <1>1 DEF Construct, ResetCommand, Starting, WriteHeader, Running, Throw, Kill, Visible
<1>2. CASE (\E e \in Entries : EntryFound(e)) \/ KnownFolder \/ NewFolder \/ FolderDone
             \/ FileDone \/ ScanError \/ ScanEnds \/ NothingToCommit
  BY <1>2 DEF EntryFound, KnownFolder, NewFolder, FolderDone, FileDone, ScanError, ScanEnds,
              NothingToCommit, Visible
<1>3. CASE Report \/ StopSeen \/ PauseSeen \/ ResumeSeen \/ GoOn \/ Finish
             \/ (\E c \in {"Continue", "Pause", "StopGraceful"} : WriteCommand(c))
             \/ UNCHANGED vars
  BY <1>3 DEF Report, StopSeen, PauseSeen, ResumeSeen, GoOn, Finish, WriteCommand, vars, Visible
<1>4. CASE BlockNotWritten
  BY <1>4 DEF BlockNotWritten, Visible
<1>5. CASE Spill
  <2>1. /\ pc = "writing" /\ stream = "good" /\ blocks' = blocks
        /\ torn' = [torn EXCEPT ![1].seen = @ + 1]
    BY <1>5 DEF Spill
  <2>2. torn # <<>> /\ torn \in Seq([block : Block, seen : Nat])
    BY <1>0, <2>1 DEF Typed, InHand, TypeOK
  <2>3. 1 \in DOMAIN torn /\ torn[1] \in [block : Block, seen : Nat]
    <3>1. 1 \in 1..Len(torn)
      BY <2>2, EmptySeq, LenProperties
    <3>2. QED
      BY <2>2, <3>1, ElementOfSeq, LenProperties
  <2>4. torn'[1].block = torn[1].block /\ 1 \in DOMAIN torn'
    BY <2>1, <2>3
  <2>5. torn' # <<>>
    BY <2>4
  <2>6. QED
    BY <2>1, <2>2, <2>4, <2>5 DEF Visible
<1>6. CASE BlockWritten
  <2>1. /\ pc = "writing" /\ stream = "good" /\ blocks' = Append(blocks, torn[1].block)
        /\ torn' = <<>>
    BY <1>6 DEF BlockWritten
  <2>2. torn # <<>>
    BY <1>0, <2>1 DEF Typed, InHand
  <2>3. QED
    BY <1>6, <2>1, <2>2 DEF Visible
<1>7. CASE StartBlock
  <2>1. /\ pc = "committing" /\ blocks' = blocks
        /\ torn' = IF stream = "good"
                   THEN <<[block |-> BlockOf(batch, stats.commitId + 1), seen |-> 0]>> ELSE torn
    BY <1>7 DEF StartBlock
  <2>2. CASE stream = "good"
    <3>1. torn = <<>>
      BY <1>0, <2>1, <2>2 DEF HandedOver
    <3>2. torn' # <<>> /\ torn'[1].block = BlockOf(batch, stats.commitId + 1)
      BY <2>1, <2>2
    <3>3. QED
      BY <1>7, <2>1, <2>2, <3>1, <3>2 DEF Visible, BlockAdded
  <2>3. CASE stream # "good"
    BY <2>1, <2>3 DEF Visible
  <2>4. QED
    BY <2>2, <2>3
<1>8. CASE Truncate
  BY <1>8
<1>9. QED
  BY <1>1, <1>2, <1>3, <1>4, <1>5, <1>6, <1>7, <1>8 DEF Next, Step

LEMMA FilesAmongType == \A s \in Seq(Entries) : FilesAmong(s) \in Seq(FileEntries)
<1> SUFFICES ASSUME NEW s \in Seq(Entries) PROVE FilesAmong(s) \in Seq(FileEntries)
  OBVIOUS
<1>1. CASE s = <<>>
  BY <1>1, EmptyTables, EmptySeq
<1>2. CASE s # <<>>
  <2>1. PICK e : e = s[1]
    OBVIOUS
  <2>2. e \in Entries
    BY <1>2, <2>1, EmptySeq, ElementOfSeq
  <2>3. QED
    BY <2>2, FilesAmongAppend
<1>3. QED
  BY <1>1, <1>2

LEMMA FilesReportedType ==
    ASSUME Whole
    PROVE  FilesReported \in Seq(FileEntries) /\ FileEntries \subseteq Decoded
<1>1. reported \in Seq(Entries)
  BY DEF Whole, Typed, TypeOK
<1>2. FileEntries \subseteq Decoded
  BY EngineAssumption DEF FileEntries, Decoded, Strings, IsFile
<1>3. QED
  BY <1>1, <1>2, FilesAmongType, ReportedFiles

(* The list of reported files only grows until the file is truncated. *)
LEMMA ReportedGrows ==
    ASSUME Whole, [Next]_vars
    PROVE  /\ FilesReported \in Seq(FileEntries) /\ FileEntries \subseteq Decoded
           /\ FilesReported' \in Seq(FileEntries)
           /\ Truncate \/ Begins(FilesReported, FilesReported')
           /\ (pc \in {"absent", "constructed", "starting", "opening"} /\ ~ Truncate)
                => FilesReported' = FilesReported
<1>0. Typed /\ reported \in Seq(Entries)
  BY DEF Whole, Typed, TypeOK
<1>1. \/ reported' = reported \/ Truncate
      \/ /\ pc = "path"
         /\ reported' = Append(reported, entry)
  BY DEF Next, Step, Construct, ResetCommand, Starting, WriteHeader, Running, Throw, Kill,
         EntryFound, KnownFolder, NewFolder, FolderDone, FileDone, MaintenanceOrNot, ScanError,
         ScanEnds, NothingToCommit, StartBlock, Spill, BlockWritten, BlockNotWritten, Committed,
         Report, StopSeen, PauseSeen, ResumeSeen, GoOn, Finish, WriteCommand, vars
<1>2. FileEntries \subseteq Decoded
  BY EngineAssumption DEF FileEntries, Decoded, Strings, IsFile
<1>3. \A s \in Seq(Entries) : FilesAmong(s) \in Seq(FileEntries)
  BY FilesAmongType
<1>4. FilesReported \in Seq(FileEntries)
  BY <1>0, <1>3, ReportedFiles
<1>5. FilesReported' = FilesAmong(reported')
  BY ReportedFiles DEF FilesReported, FilesAmong
<1>6. CASE reported' = reported
  <2>1. FilesReported' = FilesReported
    BY <1>5, <1>6, ReportedFiles
  <2>2. QED
    BY <1>2, <1>4, <2>1, BeginsItself
<1>7. CASE Truncate
  <2>1. reported' = <<>> /\ <<>> \in Seq(Entries)
    BY <1>7, EmptySeq DEF Truncate
  <2>2. QED
    BY <1>2, <1>3, <1>4, <1>5, <1>7, <2>1
<1>8. CASE pc = "path" /\ reported' = Append(reported, entry)
  <2>1. entry \in Entries
    BY <1>0, <1>8 DEF Typed, InHand
  <2>2. FilesReported' = IF IsFile(entry) THEN Append(FilesReported, entry) ELSE FilesReported
    BY <1>0, <1>5, <1>8, <2>1, FilesAmongAppend, ReportedFiles
  <2>3. IsFile(entry) => entry \in FileEntries
    BY <2>1 DEF FileEntries
  <2>4. Begins(FilesReported, FilesReported') /\ FilesReported' \in Seq(FileEntries)
    BY <1>4, <2>2, <2>3, BeginsItself, BeginsAppend, AppendProperties
  <2>5. QED
    BY <1>2, <1>4, <1>8, <2>4
<1>9. QED
  BY <1>1, <1>6, <1>7, <1>8

LEMMA FilesOfType ==
    ASSUME NEW blks, NEW scanned, Readable(blks, scanned)
    PROVE  FilesOf(blks) \in Seq(Decoded) /\ blks \in Seq(Block)
<1>1. PICK strs \in Strings, folds \in Tree : Means(strs, folds, blks)
  BY DEF Readable
<1>2. blks \in Seq(Block)
  BY DEF Readable
<1>3. QED
  BY <1>1, <1>2, FilesDecoded DEF Means

LEMMA NothingReadable == \A scanned : Len(scanned) \in Nat => Readable(<<>>, scanned)
<1> SUFFICES ASSUME NEW scanned, Len(scanned) \in Nat PROVE Readable(<<>>, scanned)
  OBVIOUS
<1>1. <<>> \in Seq(Block) /\ <<>> \in Strings /\ <<>> \in Tree /\ Len(<<>>) = 0
  BY EmptySeq DEF Strings, Tree
<1>2. Means(<<>>, <<>>, <<>>)
  BY <1>1, EmptyTables DEF Means, BlocksTrue, AllResolve
<1>3. Begins(FilesOf(<<>>), scanned)
  BY <1>1, NoFiles DEF Begins
<1>4. QED
  BY <1>1, <1>2, <1>3 DEF Readable

(* A block that is begun can be read with those before it, and they mean what they meant. *)
LEMMA AddedReadable ==
    ASSUME Whole, BlockAdded, NEW more, more = Append(blocks, BlockOf(batch, stats.commitId + 1))
    PROVE  /\ Readable(more, FilesReported)
           /\ \E strs \in Strings, folds \in Tree :
                Means(strs, folds, blocks) /\ Means(strs, folds, more)
<1>1. Typed /\ RefInv /\ TablesInv /\ stream = "good" /\ stats.commitId + 1 \in Nat
  <2>1. Typed /\ RefInv /\ TablesInv /\ stream = "good"
    BY DEF Whole, BlockAdded
  <2>2. stats.commitId \in Nat
    BY <2>1 DEF Typed, TypeOK, Counters
  <2>3. QED
    BY <2>1, <2>2
<1>2. values \in Strings /\ folders \in Tree
  BY <1>1, SessionFacts
<1>3. /\ more \in Seq(Block) /\ AllResolve(more) /\ Rooted(values, folders)
      /\ BlocksTrue(values, folders, blocks) /\ BlocksTrue(values, folders, more)
      /\ FilesOf(more) = FilesOf(blocks) \o Meanings(values, folders, batch.files)
  BY <1>1, BlockJoins
<1>4. FilesReported = FilesOf(more)
  BY <1>1, <1>3, FileAndBatch
<1>5. AllResolve(blocks)
  BY <1>1, SessionFacts
<1>6. Means(values, folders, blocks) /\ Means(values, folders, more)
  BY <1>3, <1>5 DEF Means
<1>7. FilesOf(more) \in Seq(Decoded)
  BY <1>2, <1>3, FilesDecoded
<1>8. Begins(FilesOf(more), FilesReported)
  BY <1>4, <1>7, BeginsItself
<1>9. QED
  BY <1>2, <1>3, <1>6, <1>8 DEF Readable

LEMMA FileInvInit == Init => FileInv
<1> SUFFICES ASSUME Init PROVE FileInv
  OBVIOUS
<1>1. Visible = <<>> /\ reported = <<>>
  BY DEF Init, Visible
<1>2. FilesReported = <<>> /\ Len(<<>>) = 0
  BY <1>1, EmptyTables, ReportedFiles, EmptySeq
<1>3. QED
  BY <1>1, <1>2, NothingReadable DEF FileInv

LEMMA FileInvStep ==
    ASSUME Whole, FileInv, [Next]_vars
    PROVE  FileInv'
<1> DEFINE v == Visible'
           rep == FilesReported'
<1>1. FileInv' <=> Readable(v, rep)
  BY DEF FileInv, Readable, Means
<1>2. rep \in Seq(FileEntries) /\ FilesReported \in Seq(FileEntries) /\ FileEntries \subseteq Decoded
  BY ReportedGrows
<1>3. rep \in Seq(Decoded) /\ FilesReported \in Seq(Decoded) /\ Len(rep) \in Nat
  BY <1>2
<1>4. Truncate \/ Begins(FilesReported, rep)
  BY ReportedGrows
<1> HIDE DEF rep
<1>5. CASE Truncate
  <2>1. v = <<>>
    BY <1>5 DEF Truncate, Visible
  <2>2. QED
    BY <1>1, <1>3, <2>1, NothingReadable
<1>6. ASSUME Readable(v, FilesReported), ~ Truncate PROVE FileInv'
  <2> HIDE DEF v
  <2>1. FilesOf(v) \in Seq(Decoded)
    BY <1>6, FilesOfType
  <2>2. Begins(FilesOf(v), FilesReported)
    BY <1>6 DEF Readable
  <2>3. Begins(FilesOf(v), rep)
    BY <1>3, <1>4, <1>6, <2>1, <2>2, BeginsTrans
  <2>4. QED
    BY <1>1, <1>6, <2>3 DEF Readable
<1>7. CASE Visible' = Visible
  BY <1>5, <1>6, <1>7 DEF FileInv
<1>8. CASE BlockAdded
  <2>1. v = Append(blocks, BlockOf(batch, stats.commitId + 1))
    BY <1>8 DEF BlockAdded
  <2> HIDE DEF v
  <2>2. Readable(v, FilesReported)
    BY <1>8, <2>1, AddedReadable
  <2>3. QED
    BY <1>5, <1>6, <2>2
<1>9. QED
  BY <1>5, <1>7, <1>8, VisibleMoves
=============================================================================
