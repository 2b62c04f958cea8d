------------------------- MODULE IndexSearch_proofs -------------------------
(* Proofs about IndexSearch: that a search beside the index process returns true lines,
   every committed match and, of an index that had ended well, every match; for any names,
   entries, batch size, queries and limits. *)
EXTENDS IndexSearch, IndexerEngine_proofs

USE DEF memory, file, reader, outfile, searchVars

-----------------------------------------------------------------------------
(* The index process under the search is that of IndexerEngine. *)

LEMMA EngineMoves == [SearchNext]_allVars => [Next]_vars
<1> SUFFICES ASSUME [SearchNext]_allVars PROVE [Next]_vars
  OBVIOUS
<1>1. CASE IndexStep
  BY <1>1 DEF IndexStep, Next
<1>2. ASSUME NEW c \in Configs, Open(c) \/ OpenFails(c) \/ EmptyQuery(c)
      PROVE  UNCHANGED vars
  BY <1>2 DEF Open, OpenFails, EmptyQuery, Start
<1>3. CASE SearchStep
  BY <1>3 DEF SearchStep, ReadHeader, ReadBlock, ReadRecords, ReadFile, FilesRead,
              ReadEnd, ReadOther, LineSaved, LineRefused, CloseOutput, SearchKilled
<1>4. CASE UNCHANGED allVars
  BY <1>4 DEF allVars
<1>5. QED
  BY <1>1, <1>2, <1>3, <1>4 DEF SearchNext

LEMMA WholeUnderSearch == SearchSpec => []Whole
<1>1. SearchInit => Whole
  BY WholeInit DEF SearchInit
<1>2. Whole /\ [SearchNext]_allVars => Whole'
  BY EngineMoves, WholeStep
<1>3. QED
  BY <1>1, <1>2, PTL DEF SearchSpec

-----------------------------------------------------------------------------
(* The header is there for every process that got past it with a good stream. *)
HeaderInv ==
    stream = "good" /\ pc # "heading" /\ (pc = "absent" => EndedWell) => header = "written"
OpensFile ==
    pc \in {"constructed", "starting", "opening"} => stream = "closed"

LEMMA HeaderStep ==
    ASSUME Whole, HeaderInv, OpensFile, [Next]_vars
    PROVE  HeaderInv' /\ OpensFile'
<1>0. pc # "absent" => status.state \notin {"stopped", "completed"}
  BY DEF Whole, HandedOver
<1> USE DEF HeaderInv, OpensFile, EndedWell
<1>1. CASE Construct \/ ResetCommand \/ Starting \/ Truncate \/ WriteHeader \/ Running \/ Throw \/ Kill
  BY <1>0, <1>1 DEF Construct, ResetCommand, Starting, Truncate, WriteHeader, Running, Throw, Kill,
                    writeStatus
<1>2. CASE (\E e \in Entries : EntryFound(e)) \/ KnownFolder \/ NewFolder \/ FolderDone
             \/ FileDone \/ ScanError \/ ScanEnds
  BY <1>2 DEF EntryFound, KnownFolder, NewFolder, FolderDone, FileDone, ScanError, ScanEnds,
              MaintenanceOrNot
<1>3. CASE NothingToCommit \/ StartBlock \/ Spill \/ BlockWritten \/ BlockNotWritten
  <2>1. next \in {"report", "finish"}
    BY DEF Whole, Typed, TypeOK
  <2>2. QED
    BY <1>3, <2>1 DEF NothingToCommit, StartBlock, Spill, BlockWritten, BlockNotWritten, Committed
<1>4. CASE Report \/ StopSeen \/ PauseSeen \/ ResumeSeen \/ GoOn \/ Finish
             \/ (\E c \in {"Continue", "Pause", "StopGraceful"} : WriteCommand(c))
             \/ UNCHANGED vars
  BY <1>4 DEF Report, StopSeen, PauseSeen, ResumeSeen, GoOn, Finish, WriteCommand, vars,
              writeStatus
<1>5. QED
  BY <1>1, <1>2, <1>3, <1>4 DEF Next, Step

-----------------------------------------------------------------------------
(* What the reader has passed, at file r of block k of a list of blocks. *)

LEMMA PartMeans ==
    ASSUME NEW strs \in Strings, NEW folds \in Tree, NEW blks \in Seq(Block),
           Means(strs, folds, blks), NEW k \in 0..Len(blks)
    PROVE  /\ SubSeq(blks, 1, k) \in Seq(Block) /\ Len(SubSeq(blks, 1, k)) = k
           /\ Means(strs, folds, SubSeq(blks, 1, k))
<1> DEFINE part == SubSeq(blks, 1, k)
<1>1. part \in Seq(Block) /\ Len(part) = k /\ Begins(part, blks)
  BY BeginsSubSeq
<1>2. DOMAIN part = 1..k /\ DOMAIN blks = 1..Len(blks) /\ k \in Nat /\ k <= Len(blks)
      /\ Len(blks) \in Nat
  BY <1>1, LenProperties
<1>3. \A j \in 1..k : part[j] = blks[j] /\ j \in DOMAIN blks
  BY <1>1, <1>2 DEF Begins
<1> HIDE DEF part
<1>4. BlocksTrue(strs, folds, part)
  BY <1>2, <1>3 DEF Means, BlocksTrue
<1>5. ASSUME NEW j \in DOMAIN part PROVE Resolves(part, j)
  <2>1. Resolves(blks, j) /\ part[j] = blks[j] /\ j \in 1..k
    BY <1>2, <1>3 DEF Means, AllResolve
  <2>2. \A i \in 1..j : part[i] = blks[i]
    BY <1>2, <1>3, <2>1
  <2>3. QED
    BY <2>1, <2>2 DEF Resolves, FolderIn, StringIn
<1>6. QED
  BY <1>1, <1>4, <1>5 DEF Means, AllResolve, part

LEMMA PartFiles ==
    ASSUME NEW strs \in Strings, NEW folds \in Tree, NEW blks \in Seq(Block),
           Means(strs, folds, blks), NEW k \in 0..Len(blks)
    PROVE  /\ FilesOf(SubSeq(blks, 1, k)) \in Seq(Decoded)
           /\ Begins(FilesOf(SubSeq(blks, 1, k)), FilesOf(blks))
<1> DEFINE part == SubSeq(blks, 1, k)
           p == FilesMeant(strs, folds, part)
           q == FilesMeant(strs, folds, blks)
<1>1. part \in Seq(Block) /\ Len(part) = k /\ Means(strs, folds, part) /\ Begins(part, blks)
  BY PartMeans, BeginsSubSeq
<1>2. Rooted(strs, folds) /\ BlocksTrue(strs, folds, blks) /\ AllResolve(blks)
  BY DEF Means
<1> HIDE DEF part
<1>3. Rooted(strs, folds) /\ BlocksTrue(strs, folds, part) /\ AllResolve(part)
  BY <1>1 DEF Means
<1>4. FilesOf(part) = FlattenSeq(p) /\ p \in Seq(Seq(Decoded)) /\ Len(p) = k
      /\ FilesOf(part) \in Seq(Decoded)
  BY <1>1, <1>3, FilesDecoded
<1>5. FilesOf(blks) = FlattenSeq(q) /\ q \in Seq(Seq(Decoded)) /\ Len(q) = Len(blks)
  BY <1>2, FilesDecoded
<1>6. k \in Nat /\ Len(blks) \in Nat /\ k <= Len(blks) /\ DOMAIN part = 1..k
      /\ DOMAIN blks = 1..Len(blks)
  BY <1>1, LenProperties
<1>7. ASSUME NEW i \in 1..k PROVE p[i] = q[i]
  <2>1. i \in 1..Len(blks) /\ part[i] = blks[i]
    BY <1>1, <1>6 DEF Begins
  <2>2. QED
    BY <1>6, <2>1 DEF FilesMeant
<1> HIDE DEF p, q
<1>8. Begins(p, q)
  BY <1>4, <1>5, <1>6, <1>7 DEF Begins
<1>9. Begins(FlattenSeq(p), FlattenSeq(q))
  BY <1>4, <1>5, <1>8, FlattenBegins
<1>10. QED
  BY <1>4, <1>5, <1>9 DEF part

LEMMA NextPart ==
    ASSUME NEW strs \in Strings, NEW folds \in Tree, NEW blks \in Seq(Block),
           Means(strs, folds, blks), NEW k \in 1..Len(blks)
    PROVE  /\ FilesOf(SubSeq(blks, 1, k)) =
                FilesOf(SubSeq(blks, 1, k - 1)) \o Meanings(strs, folds, blks[k].files)
           /\ Meanings(strs, folds, blks[k].files) \in Seq(Decoded)
           /\ Len(Meanings(strs, folds, blks[k].files)) = Len(blks[k].files)
           /\ blks[k].files \in Seq(FileRecord)
<1> DEFINE part == SubSeq(blks, 1, k - 1)
<1>1. k \in Nat /\ k - 1 \in 0..Len(blks) /\ k \in 0..Len(blks)
  BY LenProperties
<1>2. blks[k] \in Block
  BY ElementOfSeq
<1>3. SubSeq(blks, 1, k) = Append(part, blks[k])
  BY SubSeqAppend
<1>4. part \in Seq(Block) /\ Means(strs, folds, part) /\ Means(strs, folds, Append(part, blks[k]))
  BY <1>1, <1>3, PartMeans
<1> HIDE DEF part
<1>5. FilesOf(Append(part, blks[k])) = FilesOf(part) \o Meanings(strs, folds, blks[k].files)
  BY <1>2, <1>4, FilesOfAppend DEF Means
<1>6. k \in DOMAIN blks /\ blks[k].files \in Seq(FileRecord)
  BY <1>2, LenProperties DEF Block
<1>7. AllWithin(strs, folds, blks[k].files)
  <2>1. ASSUME NEW f \in Range(blks[k].files) PROVE Within(strs, folds, f)
    BY <1>6, FileDecoded DEF Means, Within
  <2>2. QED
    BY <2>1 DEF AllWithin
<1>8. Rooted(strs, folds)
  BY DEF Means
<1>9. QED
  BY <1>3, <1>5, <1>6, <1>7, <1>8, MeaningsType DEF part

Passing(blks, k, r) ==
    IF k = 0 THEN <<>>
    ELSE FilesOf(SubSeq(blks, 1, k - 1)) \o [i \in 1..r |-> FileAt(blks, blks[k].files[i])]

LEMMA FilesAtMean ==
    ASSUME NEW strs \in Strings, NEW folds \in Tree, NEW blks \in Seq(Block),
           Means(strs, folds, blks), NEW k \in 1..Len(blks), NEW r \in 0..Len(blks[k].files)
    PROVE  [i \in 1..r |-> FileAt(blks, blks[k].files[i])] =
             SubSeq(Meanings(strs, folds, blks[k].files), 1, r)
<1> DEFINE files == blks[k].files
           m == Meanings(strs, folds, files)
           a == [i \in 1..r |-> FileAt(blks, files[i])]
           b == SubSeq(m, 1, r)
<1>1. files \in Seq(FileRecord) /\ m \in Seq(Decoded) /\ Len(m) = Len(files)
  BY NextPart
<1>2. r \in 0..Len(m) /\ r \in Nat /\ DOMAIN files = 1..Len(files) /\ Len(files) \in Nat
      /\ k \in DOMAIN blks
  BY <1>1, LenProperties
<1>3. b \in Seq(Decoded) /\ Len(b) = r /\ Begins(b, m)
  BY <1>1, <1>2, BeginsSubSeq
<1>4. DOMAIN b = 1..r
  BY <1>3, LenProperties
<1>5. ASSUME NEW i \in 1..r PROVE a[i] = b[i]
  <2>1. i \in DOMAIN files
    BY <1>2
  <2>2. files[i] \in Range(files)
    BY <2>1 DEF Range
  <2>3. FileAt(blks, files[i]) = Meaning(strs, folds, files[i])
    BY <1>2, <2>2, FileDecoded DEF Means
  <2>4. m[i] = Meaning(strs, folds, files[i])
    BY <2>1 DEF Meanings
  <2>5. b[i] = m[i]
    BY <1>3 DEF Begins
  <2>6. QED
    BY <2>3, <2>4, <2>5
<1>6. b = [i \in 1..r |-> b[i]]
  BY <1>3, <1>4
<1> HIDE DEF b, m, files
<1>7. a = b
  BY <1>5, <1>6
<1>8. QED
  BY <1>7 DEF a, b, m, files

LEMMA PassingMeans ==
    ASSUME NEW strs \in Strings, NEW folds \in Tree, NEW blks \in Seq(Block),
           Means(strs, folds, blks), NEW k \in 1..Len(blks), NEW r \in 0..Len(blks[k].files)
    PROVE  Passing(blks, k, r) =
             FilesOf(SubSeq(blks, 1, k - 1))
               \o SubSeq(Meanings(strs, folds, blks[k].files), 1, r)
<1>1. k # 0
  OBVIOUS
<1>2. QED
  BY <1>1, FilesAtMean DEF Passing

(* The list of the passed files begins the list of all: at the start of a block it is that
   of the blocks before, at its end that of the blocks up to it. *)
LEMMA PassingFiles ==
    ASSUME NEW strs \in Strings, NEW folds \in Tree, NEW blks \in Seq(Block),
           Means(strs, folds, blks), NEW k \in 1..Len(blks), NEW r \in 0..Len(blks[k].files)
    PROVE  /\ Passing(blks, k, r) \in Seq(Decoded)
           /\ Begins(FilesOf(SubSeq(blks, 1, k - 1)), Passing(blks, k, r))
           /\ Begins(Passing(blks, k, r), FilesOf(blks))
           /\ r = 0 => Passing(blks, k, r) = FilesOf(SubSeq(blks, 1, k - 1))
           /\ r = Len(blks[k].files) => Passing(blks, k, r) = FilesOf(SubSeq(blks, 1, k))
<1> DEFINE before == FilesOf(SubSeq(blks, 1, k - 1))
           upto == FilesOf(SubSeq(blks, 1, k))
           m == Meanings(strs, folds, blks[k].files)
           b == SubSeq(m, 1, r)
           n == Len(blks[k].files)
           p == Passing(blks, k, r)
<1>1. k \in Nat /\ k \in 0..Len(blks) /\ k - 1 \in 0..Len(blks)
  BY LenProperties
<1>2. before \in Seq(Decoded) /\ upto \in Seq(Decoded) /\ Begins(upto, FilesOf(blks))
  BY <1>1, PartFiles
<1>3. upto = before \o m /\ m \in Seq(Decoded) /\ Len(m) = n
  BY NextPart
<1>4. p = before \o b
  BY PassingMeans
<1>5. FilesOf(blks) \in Seq(Decoded)
  BY FilesDecoded DEF Means
<1>6. r \in 0..n
  OBVIOUS
<1> HIDE DEF before, upto, m, n, p
<1>7. b \in Seq(Decoded) /\ Len(b) = r /\ Begins(b, m)
  BY <1>3, <1>6, BeginsSubSeq
<1> HIDE DEF b
<1>8. p \in Seq(Decoded) /\ Begins(before, p)
  BY <1>2, <1>4, <1>7, ConcatProperties, BeginsConcat
<1>9. Begins(p, upto)
  BY <1>2, <1>3, <1>4, <1>7, BeginsAfter
<1>10. Begins(p, FilesOf(blks))
  BY <1>2, <1>5, <1>8, <1>9, BeginsTrans
<1>11. r = 0 => p = before
  <2>1. r = 0 => b = <<>>
    BY <1>7, EmptySeq
  <2>2. QED
    BY <1>2, <1>4, <2>1, ConcatEmptySeq
<1>12. r = n => p = upto
  <2> SUFFICES ASSUME r = n PROVE p = upto
    OBVIOUS
  <2>1. Len(m) <= Len(b)
    BY <1>3, <1>6, <1>7
  <2>2. b = m
    BY <1>3, <1>7, <2>1, BeginsEqual
  <2>3. QED
    BY <1>3, <1>4, <2>2
<1>13. QED
  BY <1>8, <1>10, <1>11, <1>12 DEF before, upto, p, n

LEMMA PassingOne ==
    ASSUME NEW strs \in Strings, NEW folds \in Tree, NEW blks \in Seq(Block),
           Means(strs, folds, blks), NEW k \in 1..Len(blks), NEW r \in 0..Len(blks[k].files),
           NEW q \in 1..Len(blks[k].files), q = r + 1
    PROVE  /\ Passing(blks, k, q) = Append(Passing(blks, k, r),
                                           Meaning(strs, folds, blks[k].files[q]))
           /\ Meaning(strs, folds, blks[k].files[q]) \in Decoded
           /\ blks[k].files[q] \in Range(blks[k].files)
<1> DEFINE files == blks[k].files
           m == Meanings(strs, folds, files)
           n == Len(files)
           before == FilesOf(SubSeq(blks, 1, k - 1))
           b == SubSeq(m, 1, r)
           c == SubSeq(m, 1, q)
<1>1. m \in Seq(Decoded) /\ Len(m) = n /\ files \in Seq(FileRecord)
  BY NextPart
<1>2. Passing(blks, k, r) = before \o b
  BY PassingMeans
<1>3. q \in 0..n
  OBVIOUS
<1>4. Passing(blks, k, q) = before \o c
  BY <1>3, PassingMeans
<1>5. before \in Seq(Decoded)
  <2>1. k - 1 \in 0..Len(blks)
    BY LenProperties
  <2>2. QED
    BY <2>1, PartFiles
<1>6. q - 1 = r /\ q \in 1..Len(m) /\ r \in 0..Len(m) /\ q \in 1..n
  BY <1>1
<1>7. c = Append(b, m[q]) /\ m[q] \in Decoded
  BY <1>1, <1>6, SubSeqAppend, ElementOfSeq
<1>8. q \in DOMAIN files
  BY <1>1, <1>6, LenProperties
<1>9. m[q] = Meaning(strs, folds, files[q])
  BY <1>8 DEF Meanings
<1>10. files[q] \in Range(files)
  BY <1>8 DEF Range
<1>11. b \in Seq(Decoded)
  BY <1>1, <1>6, BeginsSubSeq
<1> HIDE DEF before, b, c, m, files
<1>12. before \o Append(b, m[q]) = Append(before \o b, m[q])
  <2>1. <<m[q]>> \in Seq(Decoded) /\ Append(b, m[q]) = b \o <<m[q]>>
    BY <1>7, <1>11, AppendOne
  <2>2. before \o b \in Seq(Decoded)
    BY <1>5, <1>11, ConcatProperties
  <2>3. Append(before \o b, m[q]) = (before \o b) \o <<m[q]>>
    BY <1>7, <2>2, AppendOne
  <2>4. QED
    BY <1>5, <1>11, <2>1, <2>3, ConcatAssociative
<1>13. QED
  BY <1>2, <1>4, <1>7, <1>9, <1>10, <1>12 DEF files

(* A block more to read changes nothing of what has been passed. *)
LEMMA PassingKept ==
    ASSUME NEW strs \in Strings, NEW folds \in Tree,
           NEW blks \in Seq(Block), NEW more \in Seq(Block), Begins(blks, more),
           Means(strs, folds, blks), Means(strs, folds, more),
           NEW k \in 1..Len(blks), NEW r \in 0..Len(blks[k].files)
    PROVE  Passing(more, k, r) = Passing(blks, k, r)
<1>1. k \in 1..Len(more) /\ more[k] = blks[k] /\ k - 1 \in 0..Len(blks)
  BY LenProperties DEF Begins
<1>2. SubSeq(more, 1, k - 1) = SubSeq(blks, 1, k - 1)
  BY <1>1, SameBeginning
<1>3. Passing(blks, k, r) =
        FilesOf(SubSeq(blks, 1, k - 1)) \o SubSeq(Meanings(strs, folds, blks[k].files), 1, r)
  BY PassingMeans
<1>4. r \in 0..Len(more[k].files)
  BY <1>1
<1>5. Passing(more, k, r) =
        FilesOf(SubSeq(more, 1, k - 1)) \o SubSeq(Meanings(strs, folds, more[k].files), 1, r)
  BY <1>1, <1>4, PassingMeans
<1>6. QED
  BY <1>1, <1>2, <1>3, <1>5

-----------------------------------------------------------------------------
(* The maps of the reader. *)

LastWith(records, id, k) ==
    /\ k \in DOMAIN records /\ records[k].id = id
    /\ \A j \in DOMAIN records : records[j].id = id => j <= k

LEMMA LastExists ==
    ASSUME NEW R, NEW records \in Seq(R), NEW r \in Range(records)
    PROVE  \E k \in DOMAIN records : LastWith(records, r.id, k)
<1> DEFINE n == Len(records)
           T == {j \in 1..n : records[j].id = r.id}
<1>1. DOMAIN records = 1..n /\ n \in Nat
  BY LenProperties
<1>2. T \in SUBSET 1..n /\ T # {}
  BY <1>1 DEF Range
<1>3. \A k : k \in T <=> (k \in 1..n /\ records[k].id = r.id)
  OBVIOUS
<1> HIDE DEF T, n
<1>4. PICK k \in T : \A j \in T : j <= k
  BY <1>1, <1>2, GreatestMember
<1>5. QED
  BY <1>1, <1>3, <1>4 DEF LastWith

IdsOf(records) == {r.id : r \in Range(records)}

AddedTo(map, records, p) ==
    /\ DOMAIN p = DOMAIN map \cup IdsOf(records)
    /\ \A id \in DOMAIN p :
         \/ p[id] \in Range(records) /\ p[id].id = id
         \/ id \in DOMAIN map /\ p[id] = map[id]

LEMMA PutIs ==
    ASSUME NEW R, NEW records \in Seq(R), NEW map
    PROVE  AddedTo(map, records, Put(map, records))
<1> DEFINE ids == {r.id : r \in Range(records)}
           p == Put(map, records)
           at_(id) == CHOOSE k \in DOMAIN records :
                        /\ records[k].id = id
                        /\ \A j \in DOMAIN records : records[j].id = id => j <= k
<1>1. p = [id \in DOMAIN map \cup ids |-> IF id \in ids THEN records[at_(id)] ELSE map[id]]
  BY DEF Put
<1>2. ASSUME NEW id \in ids
      PROVE  records[at_(id)] \in Range(records) /\ records[at_(id)].id = id
  <2>1. PICK r \in Range(records) : r.id = id
    OBVIOUS
  <2>2. \E k \in DOMAIN records :
           /\ records[k].id = id
           /\ \A j \in DOMAIN records : records[j].id = id => j <= k
    BY <2>1, LastExists DEF LastWith
  <2>3. at_(id) \in DOMAIN records /\ records[at_(id)].id = id
    BY <2>2
  <2> HIDE DEF at_
  <2>4. QED
    BY <2>3 DEF Range
<1> HIDE DEF p, at_
<1>3. DOMAIN p = DOMAIN map \cup ids
  BY <1>1
<1>4. ASSUME NEW id \in DOMAIN p
      PROVE  \/ p[id] \in Range(records) /\ p[id].id = id
             \/ id \in DOMAIN map /\ p[id] = map[id]
  <2>1. CASE id \in ids
    <3>1. p[id] = records[at_(id)]
      BY <1>1, <2>1
    <3>2. QED
      BY <1>2, <2>1, <3>1
  <2>2. CASE id \notin ids
    <3>1. p[id] = map[id] /\ id \in DOMAIN map
      BY <1>1, <1>3, <2>2
    <3>2. QED
      BY <3>1
  <2>3. QED
    BY <2>1, <2>2
<1>5. QED
  <2>1. AddedTo(map, records, p)
    BY <1>3, <1>4 DEF AddedTo, IdsOf
  <2>2. QED
    BY <2>1 DEF p

(* Reading the records of one block more keeps the map filled. *)
LEMMA PutFills ==
    ASSUME NEW R, NEW map, NEW lists, NEW k \in Nat, NEW q, q = k + 1, lists[q] \in Seq(R),
           MapOf(map, lists, k)
    PROVE  /\ MapOf(Put(map, lists[q]), lists, q)
           /\ Range(map) \subseteq R => Range(Put(map, lists[q])) \subseteq R
<1> DEFINE records == lists[q]
           p == Put(map, records)
<1>0. records \in Seq(R)
  OBVIOUS
<1> HIDE DEF records
<1>1. /\ DOMAIN p = DOMAIN map \cup IdsOf(records)
      /\ \A id \in DOMAIN p :
           \/ p[id] \in Range(records) /\ p[id].id = id
           \/ id \in DOMAIN map /\ p[id] = map[id]
  <2>1. AddedTo(map, records, p)
    BY <1>0, PutIs
  <2> HIDE DEF p
  <2>2. QED
    BY <2>1 DEF AddedTo
<1>2. Range(records) \subseteq R
  BY <1>0, RangeOfSeq
<1>3. \A j : j \in 1..q <=> (j \in 1..k \/ j = q)
  OBVIOUS
<1>4. /\ \A id \in DOMAIN map : map[id].id = id /\ \E j \in 1..k : map[id] \in Range(lists[j])
      /\ \A j \in 1..k : \A r \in Range(lists[j]) : r.id \in DOMAIN map
  BY DEF MapOf
<1> HIDE DEF p
<1>5. ASSUME NEW id \in DOMAIN p
      PROVE  p[id].id = id /\ \E j \in 1..q : p[id] \in Range(lists[j])
  <2>1. CASE p[id] \in Range(records) /\ p[id].id = id
    BY <1>3, <2>1 DEF records
  <2>2. CASE id \in DOMAIN map /\ p[id] = map[id]
    BY <1>3, <1>4, <2>2
  <2>3. QED
    BY <1>1, <2>1, <2>2
<1>6. ASSUME NEW j \in 1..q, NEW r \in Range(lists[j]) PROVE r.id \in DOMAIN p
  <2>1. CASE j = q
    BY <1>1, <2>1 DEF records, IdsOf
  <2>2. CASE j \in 1..k
    BY <1>1, <1>4, <2>2
  <2>3. QED
    BY <1>3, <2>1, <2>2
<1>7. MapOf(p, lists, q)
  BY <1>5, <1>6 DEF MapOf
<1>8. ASSUME Range(map) \subseteq R, NEW v \in Range(p) PROVE v \in R
  <2>1. PICK id \in DOMAIN p : v = p[id]
    BY DEF Range
  <2>2. id \in DOMAIN map => map[id] \in Range(map)
    BY DEF Range
  <2>3. QED
    BY <1>1, <1>2, <1>8, <2>1, <2>2
<1>9. QED
  BY <1>7, <1>8 DEF p, records

-----------------------------------------------------------------------------
(* What the maps say is what the tables of the writer said. *)

Filled(blks, k) ==
    /\ MapOf(names, [j \in DOMAIN blks |-> blks[j].strings], k)
    /\ MapOf(tree, [j \in DOMAIN blks |-> blks[j].folders], k)

NamesAgree(strs) == \A id \in DOMAIN names : id \in DOMAIN strs /\ names[id].value = strs[id]
TreeAgrees(folds) ==
    \A id \in DOMAIN tree :
        /\ id \in 1..Len(folds)
        /\ tree[id].parentId = folds[id].parentId /\ tree[id].nameId = folds[id].nameId
        /\ tree[id].nameId \in DOMAIN names
        /\ tree[id].parentId = 0 \/ tree[id].parentId \in DOMAIN tree

LEMMA FilledParts ==
    ASSUME NEW blks \in Seq(Block), NEW k \in 0..Len(blks), Filled(blks, k)
    PROVE  /\ \A id \in DOMAIN names :
                names[id].id = id /\ \E j \in 1..k : names[id] \in Range(blks[j].strings)
           /\ \A j \in 1..k : \A r \in Range(blks[j].strings) : r.id \in DOMAIN names
           /\ \A id \in DOMAIN tree :
                tree[id].id = id /\ \E j \in 1..k : tree[id] \in Range(blks[j].folders)
           /\ \A j \in 1..k : \A r \in Range(blks[j].folders) : r.id \in DOMAIN tree
<1>1. \A j \in 1..k : j \in DOMAIN blks
  BY LenProperties
<1> DEFINE ss == [j \in DOMAIN blks |-> blks[j].strings]
           fs == [j \in DOMAIN blks |-> blks[j].folders]
<1>2. \A j \in 1..k : ss[j] = blks[j].strings /\ fs[j] = blks[j].folders
  BY <1>1
<1>3. MapOf(names, ss, k) /\ MapOf(tree, fs, k)
  BY DEF Filled
<1> HIDE DEF ss, fs
<1>4. QED
  BY <1>2, <1>3 DEF MapOf

LEMMA MapsAgree ==
    ASSUME NEW strs \in Strings, NEW folds \in Tree, NEW blks \in Seq(Block),
           Means(strs, folds, blks), NEW k \in 0..Len(blks), Filled(blks, k)
    PROVE  NamesAgree(strs) /\ TreeAgrees(folds)
<1>1. /\ \A id \in DOMAIN names :
           names[id].id = id /\ \E j \in 1..k : names[id] \in Range(blks[j].strings)
      /\ \A j \in 1..k : \A r \in Range(blks[j].strings) : r.id \in DOMAIN names
      /\ \A id \in DOMAIN tree :
           tree[id].id = id /\ \E j \in 1..k : tree[id] \in Range(blks[j].folders)
      /\ \A j \in 1..k : \A r \in Range(blks[j].folders) : r.id \in DOMAIN tree
  BY FilledParts
<1>2. \A j \in 1..k : j \in DOMAIN blks
  BY LenProperties
<1>3. NamesAgree(strs)
  BY <1>1, <1>2 DEF NamesAgree, Means, BlocksTrue, StringsTrue
<1>4. ASSUME NEW id \in DOMAIN tree
      PROVE  /\ id \in 1..Len(folds)
             /\ tree[id].parentId = folds[id].parentId /\ tree[id].nameId = folds[id].nameId
             /\ tree[id].nameId \in DOMAIN names
             /\ tree[id].parentId = 0 \/ tree[id].parentId \in DOMAIN tree
  <2>1. PICK j \in 1..k : tree[id] \in Range(blks[j].folders)
    BY <1>1
  <2>2. tree[id].id = id
    BY <1>1
  <2>3. j \in DOMAIN blks /\ j \in Nat /\ \A i \in 1..j : i \in 1..k
    BY <1>2
  <2>4. tree[id] \in FoldersOf(blks)
    BY <2>1, <2>3 DEF FoldersOf
  <2>5. /\ tree[id].id \in 1..Len(folds)
        /\ tree[id].parentId = folds[tree[id].id].parentId
        /\ tree[id].nameId = folds[tree[id].id].nameId
    BY <2>4, FolderRecordTrue DEF Means
  <2>6. /\ FolderIn(blks, tree[id].parentId, j) /\ StringIn(blks, tree[id].nameId, j)
    BY <2>1, <2>3 DEF Means, AllResolve, Resolves
  <2>7. tree[id].nameId \in DOMAIN names
    BY <1>1, <2>3, <2>6 DEF StringIn
  <2>8. tree[id].parentId = 0 \/ tree[id].parentId \in DOMAIN tree
    BY <1>1, <2>3, <2>6 DEF FolderIn
  <2>9. QED
    BY <2>2, <2>5, <2>7, <2>8
<1>5. TreeAgrees(folds)
  BY <1>4 DEF TreeAgrees
<1>6. QED
  BY <1>3, <1>5

LEMMA FileKnown ==
    ASSUME NEW strs \in Strings, NEW folds \in Tree, NEW blks \in Seq(Block),
           Means(strs, folds, blks), NEW k \in 1..Len(blks), Filled(blks, k),
           NEW f \in Range(blks[k].files)
    PROVE  /\ f.folderId = 0 \/ f.folderId \in DOMAIN tree
           /\ f.nameId \in DOMAIN names /\ f.extensionId \in DOMAIN names
<1>1. k \in 0..Len(blks) /\ k \in DOMAIN blks
  BY LenProperties
<1>2. /\ \A j \in 1..k : \A r \in Range(blks[j].strings) : r.id \in DOMAIN names
      /\ \A j \in 1..k : \A r \in Range(blks[j].folders) : r.id \in DOMAIN tree
  BY <1>1, FilledParts
<1>3. /\ FolderIn(blks, f.folderId, k)
      /\ StringIn(blks, f.nameId, k) /\ StringIn(blks, f.extensionId, k)
  BY <1>1 DEF Means, AllResolve, Resolves
<1>4. QED
  BY <1>2, <1>3 DEF FolderIn, StringIn

-----------------------------------------------------------------------------
(* buildFolderPath finds the path: the walk up joins what FolderPaths joins down, and ends
   at the root within MaxDepth turns. *)

NameOf(i) == IF tree[i].nameId \in DOMAIN names THEN <<names[tree[i].nameId].value>> ELSE <<>>
Up(w) ==
    IF w.current \notin DOMAIN tree THEN w
    ELSE [current |-> tree[w.current].parentId, parts |-> NameOf(w.current) \o w.parts]
Walking == [current : Nat, parts : Strings]

(* The definition of FolderPath as a choice. *)
LEMMA FolderPathIs ==
    ASSUME NEW id
    PROVE  FolderPath(id) =
             (CHOOSE walk : walk = [n \in 0..MaxDepth |->
                                      IF n = 0 THEN [current |-> id, parts |-> <<>>]
                                      ELSE Up(walk[n - 1])])[MaxDepth].parts
BY DEF FolderPath, Up, NameOf

LEMMA UpType ==
    ASSUME NEW strs \in Strings, NEW folds \in Tree, Rooted(strs, folds),
           NamesAgree(strs), TreeAgrees(folds), NEW w \in Walking
    PROVE  Up(w) \in Walking
<1>1. CASE w.current \notin DOMAIN tree
  BY <1>1 DEF Up
<1>2. CASE w.current \in DOMAIN tree
  <2> DEFINE i == w.current
  <2>1. /\ i \in 1..Len(folds) /\ tree[i].parentId = folds[i].parentId
        /\ tree[i].nameId \in DOMAIN names
    BY <1>2 DEF TreeAgrees
  <2>2. folds[i].parentId \in Nat
    <3>1. folds[i] \in [parentId : Nat, nameId : Nat]
      BY <2>1, ElementOfSeq DEF Tree
    <3>2. QED
      BY <3>1
  <2>3. names[tree[i].nameId].value \in Names
    <3>1. /\ tree[i].nameId \in DOMAIN strs
          /\ names[tree[i].nameId].value = strs[tree[i].nameId]
      BY <2>1 DEF NamesAgree
    <3>2. QED
      BY <3>1, ElementOfSeq, LenProperties DEF Strings
  <2> DEFINE v == names[tree[i].nameId].value
  <2>4. NameOf(i) = <<v>>
    BY <2>1 DEF NameOf
  <2>5. Up(w) = [current |-> tree[i].parentId, parts |-> NameOf(i) \o w.parts]
    BY <1>2 DEF Up
  <2>6. w.parts \in Seq(Names)
    BY DEF Walking, Strings
  <2> HIDE DEF i, v
  <2>7. <<v>> \in Seq(Names)
    BY <2>3 DEF v
  <2>8. NameOf(i) \o w.parts \in Seq(Names)
    BY <2>4, <2>6, <2>7, ConcatProperties
  <2>9. QED
    BY <2>1, <2>2, <2>5, <2>8 DEF Walking, Strings
<1>3. QED
  BY <1>1, <1>2

(* Where the walk from folder id stands after n turns. *)
OnWay(strs, folds, id, w, n) ==
    LET p == FolderPaths(strs, folds)
    IN  /\ w \in Walking /\ (w.current = 0 \/ w.current \in DOMAIN tree)
        /\ p[id] = p[w.current] \o w.parts
        /\ w.current # 0 => Len(p[w.current]) + n <= Len(p[id])

LEMMA UpOnWay ==
    ASSUME NEW strs \in Strings, NEW folds \in Tree, Rooted(strs, folds),
           NamesAgree(strs), TreeAgrees(folds),
           NEW id \in 0..Len(folds), NEW w, NEW n \in Nat, OnWay(strs, folds, id, w, n)
    PROVE  OnWay(strs, folds, id, Up(w), n + 1)
<1> DEFINE p == FolderPaths(strs, folds)
<1>1. /\ w \in Walking /\ (w.current = 0 \/ w.current \in DOMAIN tree)
      /\ p[id] = p[w.current] \o w.parts
      /\ w.current # 0 => Len(p[w.current]) + n <= Len(p[id])
  BY DEF OnWay
<1>2. Up(w) \in Walking
  BY <1>1, UpType
<1>3. (/\ Up(w).current = 0 \/ Up(w).current \in DOMAIN tree
       /\ p[id] = p[Up(w).current] \o Up(w).parts
       /\ Up(w).current # 0 => Len(p[Up(w).current]) + (n + 1) <= Len(p[id]))
      => OnWay(strs, folds, id, Up(w), n + 1)
  BY <1>2 DEF OnWay
<1>4. \A i \in 0..Len(folds) : p[i] \in Strings
  BY PathsType
<1>5. \A i \in 1..Len(folds) : p[i] = Append(p[folds[i].parentId], strs[folds[i].nameId])
  BY PathsClimb
<1> HIDE DEF p
<1>6. CASE w.current \notin DOMAIN tree
  <2>1. Up(w) = w /\ w.current = 0
    BY <1>1, <1>6 DEF Up
  <2>2. QED
    BY <1>1, <1>3, <2>1
<1>7. CASE w.current \in DOMAIN tree
  <2> DEFINE i == w.current
             up == folds[i].parentId
             v == strs[folds[i].nameId]
  <2>1. /\ i \in 1..Len(folds) /\ tree[i].parentId = up /\ tree[i].nameId = folds[i].nameId
        /\ tree[i].nameId \in DOMAIN names
        /\ tree[i].parentId = 0 \/ tree[i].parentId \in DOMAIN tree
    BY <1>7 DEF TreeAgrees
  <2>2. up \in 0..Len(folds) /\ v \in Names
    BY <2>1, RootedParts
  <2>3. names[tree[i].nameId].value = v
    BY <2>1 DEF NamesAgree
  <2>4. Up(w).current = up /\ Up(w).parts = <<v>> \o w.parts
    BY <1>7, <2>1, <2>3 DEF Up, NameOf
  <2>5. p[i] = Append(p[up], v)
    BY <1>5, <2>1
  <2>6. p[up] \in Seq(Names) /\ w.parts \in Seq(Names)
    BY <1>1, <1>4, <2>2 DEF Walking, Strings
  <2>7. w.current = i /\ i # 0 /\ (up = 0 \/ up \in DOMAIN tree)
    BY <2>1
  <2> HIDE DEF i, up, v
  <2>8. <<v>> \in Seq(Names) /\ Append(p[up], v) = p[up] \o <<v>>
    BY <2>2, <2>6, AppendOne
  <2>9. (p[up] \o <<v>>) \o w.parts = p[up] \o (<<v>> \o w.parts)
    <3> DEFINE a == p[up]
               b == <<v>>
               c == w.parts
    <3>1. a \in Seq(Names) /\ b \in Seq(Names) /\ c \in Seq(Names)
      BY <2>6, <2>8
    <3> HIDE DEF a, b, c
    <3>2. (a \o b) \o c = a \o (b \o c)
      BY <3>1, ConcatAssociative
    <3>3. QED
      BY <3>2 DEF a, b, c
  <2>10. p[id] = p[up] \o (<<v>> \o w.parts)
    BY <1>1, <2>5, <2>7, <2>8, <2>9
  <2>11. Len(p[i]) = Len(p[up]) + 1
    BY <2>2, <2>5, <2>6, AppendProperties
  <2> DEFINE a == Len(p[up])
             b == Len(p[id])
  <2>12. a \in Nat /\ b \in Nat
    BY <1>4, <2>6, LenProperties DEF Strings
  <2>13. a + 1 + n <= b
    BY <1>1, <2>7, <2>11
  <2> HIDE DEF a, b
  <2>14. a + (n + 1) <= b
    BY <2>12, <2>13
  <2>15. QED
    BY <1>3, <2>4, <2>7, <2>10, <2>14 DEF a, b
<1>8. QED
  BY <1>6, <1>7

LEMMA FolderPathFound ==
    ASSUME NEW strs \in Strings, NEW folds \in Tree, Rooted(strs, folds),
           NamesAgree(strs), TreeAgrees(folds),
           NEW id, id = 0 \/ id \in DOMAIN tree,
           Len(FolderPaths(strs, folds)[id]) <= MaxDepth
    PROVE  FolderPath(id) = FolderPaths(strs, folds)[id]
<1> DEFINE start == [current |-> id, parts |-> <<>>]
           F == [w \in Walking |-> Up(w)]
           p == FolderPaths(strs, folds)
           Is(g) == g = [n \in 0..MaxDepth |-> IF n = 0 THEN start ELSE Up(g[n - 1])]
           h == CHOOSE g : Is(g)
<1>0. MaxDepth \in Nat
  BY SearchAssumption
<1>1. id \in 0..Len(folds) /\ id \in Nat /\ Len(folds) \in Nat
  BY LenProperties DEF TreeAgrees, Tree
<1>2. p[id] \in Seq(Names) /\ p[0] = <<>>
  BY <1>1, PathsType, PathsClimb DEF Strings
<1>3. start \in Walking
  BY <1>1, EmptySeq DEF Walking, Strings
<1>4. F \in [Walking -> Walking]
  BY UpType
<1> HIDE DEF start, F
<1>5. PICK g \in [0..MaxDepth -> Walking] :
          g[0] = start /\ \A n \in 1..MaxDepth : g[n] = F[g[n - 1]]
  <2>1. StepsTo(Walking, start, F, MaxDepth)
    BY <1>0, <1>3, <1>4, StepsExist
  <2>2. QED
    BY <2>1 DEF StepsTo
<1>6. \A n \in 1..MaxDepth : g[n] = Up(g[n - 1])
  <2>1. ASSUME NEW n \in 1..MaxDepth PROVE g[n] = Up(g[n - 1])
    <3>1. n - 1 \in 0..MaxDepth
      BY <1>0
    <3>2. g[n - 1] \in Walking
      BY <3>1
    <3>3. QED
      BY <1>5, <3>2 DEF F
  <2>2. QED
    BY <2>1
<1>7. Is(g)
  <2>1. \A n \in 0..MaxDepth : g[n] = IF n = 0 THEN start ELSE Up(g[n - 1])
    BY <1>0, <1>5, <1>6
  <2>2. g = [n \in 0..MaxDepth |-> g[n]]
    BY <1>5
  <2>3. QED
    BY <2>1, <2>2
<1>8. Is(h)
  BY <1>7
<1>9. FolderPath(id) = h[MaxDepth].parts
  BY FolderPathIs DEF start
<1> HIDE DEF h
<1>10. h[0] = start /\ \A n \in 0..MaxDepth : n # 0 => h[n] = Up(h[n - 1])
  <2>1. \A n \in 0..MaxDepth : h[n] = IF n = 0 THEN start ELSE Up(h[n - 1])
    BY <1>8
  <2>2. 0 \in 0..MaxDepth
    BY <1>0
  <2>3. QED
    BY <2>1, <2>2
<1> DEFINE T == {n \in Nat : n <= MaxDepth => OnWay(strs, folds, id, h[n], n)}
<1>11. OnWay(strs, folds, id, h[0], 0)
  <2>1. start.current = id /\ start.parts = <<>>
    BY DEF start
  <2>2. p[id] \o <<>> = p[id] /\ Len(p[id]) \in Nat
    BY <1>2, ConcatEmptySeq, LenProperties
  <2> DEFINE l == Len(p[id])
  <2>3. l + 0 <= l
    <3>1. l \in Nat
      BY <2>2
    <3> HIDE DEF l
    <3>2. QED
      BY <3>1
  <2>4. QED
    BY <1>3, <1>10, <2>1, <2>2, <2>3 DEF OnWay
<1>12. ASSUME NEW n \in T PROVE n + 1 \in T
  <2>1. n \in Nat /\ n + 1 \in Nat /\ (n <= MaxDepth => OnWay(strs, folds, id, h[n], n))
    OBVIOUS
  <2>2. ASSUME n + 1 <= MaxDepth PROVE OnWay(strs, folds, id, h[n + 1], n + 1)
    <3>1. n <= MaxDepth /\ n + 1 \in 0..MaxDepth /\ n + 1 # 0 /\ n + 1 - 1 = n
      BY <1>0, <2>1, <2>2
    <3>2. h[n + 1] = Up(h[n])
      BY <1>10, <3>1
    <3>3. OnWay(strs, folds, id, h[n], n)
      BY <2>1, <3>1
    <3>4. QED
      BY <1>1, <2>1, <3>2, <3>3, UpOnWay
  <2>3. QED
    BY <2>1, <2>2
<1>13. T \in SUBSET Nat /\ 0 \in T
  BY <1>11
<1>14. T = Nat
  <2> HIDE DEF T
  <2>1. QED
    BY <1>12, <1>13, SetInduction
<1>15. OnWay(strs, folds, id, h[MaxDepth], MaxDepth)
  BY <1>0, <1>14
<1> DEFINE w == h[MaxDepth]
           c == w.current
<1>16. /\ w \in Walking /\ (c = 0 \/ c \in DOMAIN tree) /\ p[id] = p[c] \o w.parts
       /\ c # 0 => Len(p[c]) + MaxDepth <= Len(p[id])
  BY <1>15 DEF OnWay
<1>17. c = 0
  <2> SUFFICES ASSUME c # 0 PROVE FALSE
    OBVIOUS
  <2>1. c \in 1..Len(folds) /\ c \in 0..Len(folds)
    BY <1>1, <1>16 DEF TreeAgrees
  <2>2. p[c] = Append(p[folds[c].parentId], strs[folds[c].nameId])
    BY <2>1, PathsClimb
  <2>3. folds[c].parentId \in 0..Len(folds) /\ strs[folds[c].nameId] \in Names
    BY <2>1, RootedParts
  <2>4. p[folds[c].parentId] \in Seq(Names)
    BY <2>3, PathsType DEF Strings
  <2> DEFINE a == p[folds[c].parentId]
  <2>5. Len(p[c]) = Len(a) + 1 /\ Len(a) \in Nat
    BY <2>2, <2>3, <2>4, AppendProperties, LenProperties
  <2> DEFINE l == Len(a)
             m == Len(p[id])
  <2>6. l \in Nat /\ m \in Nat /\ l + 1 + MaxDepth <= m /\ m <= MaxDepth
    BY <1>2, <1>16, <2>5, LenProperties
  <2> HIDE DEF l, m
  <2>7. QED
    BY <1>0, <2>6
<1>18. w.parts \in Seq(Names)
  BY <1>16 DEF Walking, Strings
<1>19. p[id] = w.parts
  BY <1>2, <1>16, <1>17, <1>18, ConcatEmptySeq
<1>20. QED
  BY <1>9, <1>19

(* A line says what its file record means. *)
LEMMA LineFound ==
    ASSUME NEW strs \in Strings, NEW folds \in Tree, NEW blks \in Seq(Block),
           Means(strs, folds, blks), NEW k \in 1..Len(blks), Filled(blks, k),
           NEW f \in Range(blks[k].files),
           Len(FolderPaths(strs, folds)[f.folderId]) <= MaxDepth
    PROVE  LineOf(f) = Meaning(strs, folds, f) /\ f.nameId \in DOMAIN names
<1>1. k \in 0..Len(blks)
  OBVIOUS
<1>2. NamesAgree(strs) /\ TreeAgrees(folds)
  BY <1>1, MapsAgree
<1>3. /\ f.folderId = 0 \/ f.folderId \in DOMAIN tree
      /\ f.nameId \in DOMAIN names /\ f.extensionId \in DOMAIN names
  BY FileKnown
<1>4. FolderPath(f.folderId) = FolderPaths(strs, folds)[f.folderId]
  BY <1>2, <1>3, FolderPathFound DEF Means
<1>5. names[f.nameId].value = strs[f.nameId] /\ names[f.extensionId].value = strs[f.extensionId]
  BY <1>2, <1>3 DEF NamesAgree
<1>6. QED
  BY <1>3, <1>4, <1>5 DEF LineOf, Meaning

LEMMA MeaningShort ==
    ASSUME ShortPaths, NEW strs \in Strings, NEW folds \in Tree, NEW blks \in Seq(Block),
           Means(strs, folds, blks), NEW scanned \in Seq(FileEntries),
           Begins(FilesOf(blks), scanned),
           NEW k \in 1..Len(blks), NEW q \in 1..Len(blks[k].files)
    PROVE  Len(FolderPaths(strs, folds)[blks[k].files[q].folderId]) <= MaxDepth
<1> DEFINE f == blks[k].files[q]
           m == Meaning(strs, folds, f)
           r == q - 1
           a == Passing(blks, k, r)
           b == Passing(blks, k, q)
<1>1. r \in 0..Len(blks[k].files) /\ q \in 0..Len(blks[k].files) /\ q = r + 1
  <2>1. blks[k].files \in Seq(FileRecord)
    BY NextPart
  <2>2. Len(blks[k].files) \in Nat
    BY <2>1, LenProperties
  <2>3. QED
    BY <2>2
<1>2. b = Append(a, m) /\ m \in Decoded
  BY <1>1, PassingOne
<1>3. a \in Seq(Decoded) /\ b \in Seq(Decoded) /\ Begins(b, FilesOf(blks))
  BY <1>1, PassingFiles
<1>4. FilesOf(blks) \in Seq(Decoded)
  BY FilesDecoded DEF Means
<1> HIDE DEF a, b, m
<1> DEFINE i == Len(a) + 1
<1>5. b[i] = m /\ Len(b) = i /\ i \in Nat /\ i \in 1..Len(b)
  BY <1>2, <1>3, AppendProperties, LenProperties
<1>6. i \in 1..Len(FilesOf(blks)) /\ FilesOf(blks)[i] = m
  BY <1>3, <1>4, <1>5, LenProperties DEF Begins
<1>7. i \in 1..Len(scanned) /\ scanned[i] = m
  BY <1>4, <1>6, LenProperties DEF Begins
<1>8. m \in FileEntries
  BY <1>7, ElementOfSeq
<1>9. Len(m.path) <= MaxDepth
  BY <1>8 DEF ShortPaths, FileEntries
<1>10. m.path = FolderPaths(strs, folds)[f.folderId]
  BY DEF m, Meaning
<1>11. QED
  BY <1>9, <1>10

-----------------------------------------------------------------------------
(* Follows, part by part. *)

Lines == Decoded \cup Entries
LineHits(q, s) ==
    FlattenSeq([i \in DOMAIN s |->
                  IF s[i].kind = "file" /\ <<s[i].path, s[i].name>> \in q THEN <<s[i]>> ELSE <<>>])
HitSet(q) == {e \in Lines : e.kind = "file" /\ <<e.path, e.name>> \in q}

LEMMA HitsChosen ==
    ASSUME NEW q, NEW s \in Seq(Lines)
    PROVE  LineHits(q, s) = Chosen(s, HitSet(q))
<1> DEFINE a == [i \in DOMAIN s |->
                   IF s[i].kind = "file" /\ <<s[i].path, s[i].name>> \in q THEN <<s[i]>> ELSE <<>>]
           b == [i \in DOMAIN s |-> IF s[i] \in HitSet(q) THEN <<s[i]>> ELSE <<>>]
<1>1. ASSUME NEW i \in DOMAIN s PROVE a[i] = b[i]
  <2>1. s[i] \in Lines
    BY ElementOfSeq, LenProperties
  <2>2. s[i] \in HitSet(q) <=> (s[i].kind = "file" /\ <<s[i].path, s[i].name>> \in q)
    BY <2>1 DEF HitSet
  <2>3. QED
    BY <2>2
<1>2. a = b
  BY <1>1
<1>3. QED
  BY <1>2 DEF LineHits, Chosen

PlaceAt(se, a, r, v, n) ==
    /\ a <= Len(v)
    /\ a > 0 => r <= Len(v[a].files)
    /\ se \in {"records", "files", "end"} => a > 0
    /\ se = "header" => a = 0
    /\ se = "records" => r = 0
    /\ se = "block" /\ a > 0 => a <= n /\ r = Len(v[a].files)
FilledAt(se, a, ns, tr, v) ==
    se \in Reading =>
        LET k == IF se = "records" THEN a - 1 ELSE a
        IN  /\ MapOf(ns, [j \in DOMAIN v |-> v[j].strings], k)
            /\ MapOf(tr, [j \in DOMAIN v |-> v[j].folders], k)
LimitAt(se, c, a, r, res, v) ==
    /\ Len(res) <= c.limit
    /\ se \in {"records", "files"} => Len(res) < c.limit
    /\ se = "end" /\ r < Len(v[a].files) => Len(res) = c.limit
PassedAt(se, c, a, r, res, pr, v, fs) ==
    /\ Len(pr) <= Len(fs) /\ pr = SubSeq(fs, 1, Len(pr))
    /\ se = "done" =>
         c.query = {} \/ Len(res) = c.limit \/ Len(pr) <= Len(Passing(v, a, r))
Found(c, a, r, res, v) == res = LineHits(c.query, Passing(v, a, r))
WholeAt(se, ou, pr, wh, p, to, he, fs, rep) ==
    wh = "yes" =>
        /\ p \in {"absent", "constructed", "starting", "opening"}
        /\ to = <<>> /\ he = "written" /\ (se = "failed" => ou = "none") /\ pr = fs /\ pr = rep

LEMMA SearchParts ==
    /\ Follows <=>
         (sight = "kept" =>
            /\ PlaceAt(search, at, read, Visible, Len(blocks))
            /\ FilledAt(search, at, names, tree, Visible)
            /\ LimitAt(search, config, at, read, results, Visible)
            /\ PassedAt(search, config, at, read, results, promised, Visible, FilesOf(blocks))
            /\ Found(config, at, read, results, Visible)
            /\ WholeAt(search, output, promised, whole, pc, torn, header, FilesOf(blocks), FilesReported))
    /\ Follows' <=>
         (sight' = "kept" =>
            /\ PlaceAt(search', at', read', Visible', Len(blocks'))
            /\ FilledAt(search', at', names', tree', Visible')
            /\ LimitAt(search', config', at', read', results', Visible')
            /\ PassedAt(search', config', at', read', results', promised', Visible',
                        FilesOf(blocks'))
            /\ Found(config', at', read', results', Visible')
            /\ WholeAt(search', output', promised', whole', pc', torn', header', FilesOf(blocks'),
                       FilesReported'))
<1>1. Behind = Passing(Visible, at, read) /\ Behind' = Passing(Visible', at', read')
  BY DEF Behind, Passing
<1>2. /\ Hits(Behind) = LineHits(config.query, Behind)
      /\ Hits(Behind)' = LineHits(config'.query, Behind')
  BY DEF Hits, Hit, LineHits
<1>3. (InPlace <=> PlaceAt(search, at, read, Visible, Len(blocks)))
      /\ (InPlace' <=> PlaceAt(search', at', read', Visible', Len(blocks')))
  BY DEF InPlace, PlaceAt
<1>4. (MapsFilled <=> FilledAt(search, at, names, tree, Visible))
      /\ (MapsFilled' <=> FilledAt(search', at', names', tree', Visible'))
  BY DEF MapsFilled, FilledAt
<1>5. (WithinLimit <=> LimitAt(search, config, at, read, results, Visible))
      /\ (WithinLimit' <=> LimitAt(search', config', at', read', results', Visible'))
  BY DEF WithinLimit, LimitAt
<1>6. (Passed <=> PassedAt(search, config, at, read, results, promised, Visible, FilesOf(blocks)))
      /\ (Passed' <=> PassedAt(search', config', at', read', results', promised', Visible',
                               FilesOf(blocks')))
  BY <1>1 DEF Passed, PassedAt
<1>7. (results = Hits(Behind) <=> Found(config, at, read, results, Visible))
      /\ (results' = Hits(Behind)' <=> Found(config', at', read', results', Visible'))
  BY <1>1, <1>2 DEF Found
<1>8. (StaysWhole <=> WholeAt(search, output, promised, whole, pc, torn, header, FilesOf(blocks),
                              FilesReported))
      /\ (StaysWhole' <=> WholeAt(search', output', promised', whole', pc', torn', header',
                                  FilesOf(blocks'), FilesReported'))
  BY DEF StaysWhole, WholeAt
<1>9. QED
  BY <1>3, <1>4, <1>5, <1>6, <1>7, <1>8 DEF Follows

-----------------------------------------------------------------------------
(* A step of the index process. *)

LEMMA BlocksArePart ==
    ASSUME Typed, FileInv
    PROVE  /\ FilesOf(blocks) \in Seq(Decoded) /\ FilesOf(Visible) \in Seq(Decoded)
           /\ Begins(FilesOf(blocks), FilesOf(Visible))
           /\ blocks = SubSeq(Visible, 1, Len(blocks)) /\ Len(blocks) \in 0..Len(Visible)
<1>1. /\ blocks \in Seq(Block) /\ Visible \in Seq(Block) /\ Begins(blocks, Visible)
      /\ Len(blocks) \in Nat /\ Len(Visible) \in Nat
  BY VisibleParts
<1>2. blocks = SubSeq(Visible, 1, Len(blocks)) /\ Len(blocks) \in 0..Len(Visible)
  BY <1>1, BeginningIsSubSeq DEF Begins
<1>3. PICK strs \in Strings, folds \in Tree : Means(strs, folds, Visible)
  BY DEF FileInv, Readable
<1>4. /\ FilesOf(SubSeq(Visible, 1, Len(blocks))) \in Seq(Decoded)
      /\ Begins(FilesOf(SubSeq(Visible, 1, Len(blocks))), FilesOf(Visible))
  BY <1>1, <1>2, <1>3, PartFiles
<1>5. FilesOf(Visible) \in Seq(Decoded)
  BY <1>1, <1>3, FilesDecoded DEF Means
<1>6. QED
  BY <1>2, <1>4, <1>5

LEMMA VisibleGrows ==
    ASSUME Whole, FileInv, [Next]_vars, ~ Truncate
    PROVE  /\ Visible \in Seq(Block) /\ Visible' \in Seq(Block) /\ Begins(Visible, Visible')
           /\ Len(blocks) \in Nat /\ Len(blocks') \in Nat /\ Len(blocks) <= Len(blocks')
           /\ \E strs \in Strings, folds \in Tree :
                Means(strs, folds, Visible) /\ Means(strs, folds, Visible')
           /\ FilesOf(blocks) \in Seq(Decoded) /\ FilesOf(blocks') \in Seq(Decoded)
           /\ Begins(FilesOf(blocks), FilesOf(blocks'))
<1>0. Typed
  BY DEF Whole
<1>1. /\ blocks \in Seq(Block) /\ Visible \in Seq(Block) /\ Begins(blocks, Visible)
      /\ Len(blocks) \in Nat /\ Len(Visible) \in Nat
  BY <1>0, VisibleParts
<1>2. PICK strs \in Strings, folds \in Tree : Means(strs, folds, Visible)
  BY DEF FileInv, Readable
<1>3. /\ FilesOf(blocks) \in Seq(Decoded) /\ FilesOf(Visible) \in Seq(Decoded)
      /\ Begins(FilesOf(blocks), FilesOf(Visible))
  BY <1>0, BlocksArePart
<1>4. Begins(Visible, Visible) /\ Begins(FilesOf(blocks), FilesOf(blocks))
  BY <1>1, <1>3, BeginsItself
<1>5. CASE Visible' = Visible /\ blocks' = blocks
  BY <1>1, <1>2, <1>3, <1>4, <1>5
<1>6. CASE Visible' = Visible /\ blocks' = Visible
  <2>1. Len(blocks) <= Len(Visible)
    BY <1>1 DEF Begins
  <2>2. QED
    BY <1>1, <1>2, <1>3, <1>4, <1>6, <2>1
<1>7. CASE BlockAdded
  <2> DEFINE v == Visible'
  <2>1. /\ v = Append(blocks, BlockOf(batch, stats.commitId + 1)) /\ Visible = blocks
        /\ blocks' = blocks
    BY <1>7 DEF BlockAdded
  <2> HIDE DEF v
  <2>2. /\ Readable(v, FilesReported)
        /\ \E s \in Strings, f \in Tree : Means(s, f, blocks) /\ Means(s, f, v)
    BY <1>7, <2>1, AddedReadable
  <2>3. v \in Seq(Block)
    BY <2>2 DEF Readable
  <2>4. Begins(blocks, v)
    <3>1. BlockOf(batch, stats.commitId + 1) \in Block
      <4>1. batch \in Batch /\ stats.commitId \in Nat
        BY <1>0 DEF Typed, TypeOK, Counters
      <4>2. QED
        BY <4>1 DEF BlockOf, Block, Batch
    <3>2. QED
      BY <1>1, <2>1, <3>1, BeginsAppend
  <2>5. QED
    BY <1>1, <1>3, <1>4, <2>1, <2>2, <2>3, <2>4 DEF v
<1>8. QED
  BY <1>5, <1>6, <1>7, VisibleMoves

(* Until it opens the file, an index process leaves it as it is. *)
LEMMA QuietStep ==
    ASSUME Whole, [Next]_vars, ~ Truncate,
           pc \in {"absent", "constructed", "starting", "opening"}
    PROVE  /\ pc' \in {"absent", "constructed", "starting", "opening"}
           /\ blocks' = blocks /\ torn' = torn /\ header' = header
           /\ FilesReported' = FilesReported
<1>1. FilesReported' = FilesReported
  BY ReportedGrows
<1>2. /\ pc' \in {"absent", "constructed", "starting", "opening"}
      /\ blocks' = blocks /\ torn' = torn /\ header' = header
  BY DEF Next, Step, Construct, ResetCommand, Starting, WriteHeader, Running, Throw, Kill,
         EntryFound, KnownFolder, NewFolder, FolderDone, FileDone, ScanError,
         ScanEnds, NothingToCommit, StartBlock, Spill, BlockWritten, BlockNotWritten,
         Report, StopSeen, PauseSeen, ResumeSeen, GoOn, Finish, WriteCommand, vars
<1>3. QED
  BY <1>1, <1>2

LEMMA MapKept ==
    ASSUME NEW blks \in Seq(Block), NEW more \in Seq(Block), Begins(blks, more),
           NEW k \in 0..Len(blks), NEW ns
    PROVE  /\ MapOf(ns, [j \in DOMAIN blks |-> blks[j].strings], k)
                => MapOf(ns, [j \in DOMAIN more |-> more[j].strings], k)
           /\ MapOf(ns, [j \in DOMAIN blks |-> blks[j].folders], k)
                => MapOf(ns, [j \in DOMAIN more |-> more[j].folders], k)
<1> DEFINE a == [j \in DOMAIN blks |-> blks[j].strings]
           b == [j \in DOMAIN more |-> more[j].strings]
           c == [j \in DOMAIN blks |-> blks[j].folders]
           d == [j \in DOMAIN more |-> more[j].folders]
<1>1. \A j \in 1..k : j \in DOMAIN blks /\ j \in DOMAIN more /\ more[j] = blks[j]
  BY LenProperties DEF Begins
<1>2. \A j \in 1..k : b[j] = a[j] /\ d[j] = c[j]
  BY <1>1
<1> HIDE DEF a, b, c, d
<1>3. (MapOf(ns, a, k) => MapOf(ns, b, k)) /\ (MapOf(ns, c, k) => MapOf(ns, d, k))
  BY <1>2 DEF MapOf
<1>4. QED
  BY <1>3 DEF a, b, c, d

(* More blocks to see leave the reader where it is. *)
LEMMA PlaceKept ==
    ASSUME NEW v \in Seq(Block), NEW w \in Seq(Block), Begins(v, w),
           NEW n \in Nat, NEW m \in Nat, n <= m,
           NEW se, NEW a \in Nat, NEW r \in Nat, PlaceAt(se, a, r, v, n)
    PROVE  /\ PlaceAt(se, a, r, w, m)
           /\ a # 0 => a \in 1..Len(v) /\ w[a] = v[a] /\ r \in 0..Len(v[a].files)
<1>1. Len(v) \in Nat /\ Len(w) \in Nat /\ Len(v) <= Len(w) /\ a <= Len(v)
  BY LenProperties DEF Begins, PlaceAt
<1>2. a \in 0..Len(v)
  BY <1>1
<1>3. CASE a = 0
  BY <1>1, <1>3 DEF PlaceAt
<1>4. CASE a # 0
  <2>1. a \in 1..Len(v) /\ a > 0
    BY <1>2, <1>4
  <2>2. w[a] = v[a]
    BY <2>1 DEF Begins
  <2>3. v[a].files \in Seq(FileRecord)
    <3>1. v[a] \in Block
      BY <2>1, ElementOfSeq
    <3>2. QED
      BY <3>1 DEF Block
  <2>4. Len(v[a].files) \in Nat /\ r <= Len(v[a].files)
    BY <2>1, <2>3, LenProperties DEF PlaceAt
  <2>5. r \in 0..Len(v[a].files)
    BY <2>4
  <2>6. a <= Len(w)
    BY <1>1
  <2>7. \A i \in Nat : i <= n => i <= m
    OBVIOUS
  <2>8. PlaceAt(se, a, r, w, m)
    BY <2>1, <2>2, <2>4, <2>6, <2>7 DEF PlaceAt
  <2>9. QED
    BY <2>1, <2>2, <2>5, <2>8
<1>5. QED
  BY <1>3, <1>4

(* What the reader has passed is a list of files, a beginning of those that can be seen. *)
LEMMA PassingType ==
    ASSUME NEW strs \in Strings, NEW folds \in Tree, NEW v \in Seq(Block), Means(strs, folds, v),
           NEW a \in Nat, NEW r, a # 0 => a \in 1..Len(v) /\ r \in 0..Len(v[a].files)
    PROVE  Passing(v, a, r) \in Seq(Decoded) /\ Begins(Passing(v, a, r), FilesOf(v))
<1>1. CASE a = 0
  <2>1. Passing(v, a, r) = <<>> /\ <<>> \in Seq(Decoded) /\ FilesOf(v) \in Seq(Decoded)
    BY <1>1, EmptySeq, FilesDecoded DEF Passing, Means
  <2>2. Begins(<<>>, FilesOf(v))
    BY <2>1, BeginsItself
  <2>3. QED
    BY <2>1, <2>2
<1>2. CASE a # 0
  BY <1>2, PassingFiles
<1>3. QED
  BY <1>1, <1>2

(* A step of the index process short of truncating the file disturbs nothing of Follows. *)
LEMMA IndexKeeps ==
    ASSUME Whole, FileInv, SearchTypeOK, Follows, [Next]_vars, ~ Truncate, sight = "kept",
           UNCHANGED <<search, config, at, read, names, tree, results, promised, whole,
                       output>>
    PROVE  Follows'
<1> DEFINE v == Visible
           w == Visible'
           n == Len(blocks)
           m == Len(blocks')
           fs == FilesOf(blocks)
           gs == FilesOf(blocks')
<1>1. /\ PlaceAt(search, at, read, v, n)
      /\ FilledAt(search, at, names, tree, v)
      /\ LimitAt(search, config, at, read, results, v)
      /\ PassedAt(search, config, at, read, results, promised, v, fs)
      /\ Found(config, at, read, results, v)
      /\ WholeAt(search, output, promised, whole, pc, torn, header, fs, FilesReported)
  BY SearchParts
<1>2. /\ v \in Seq(Block) /\ w \in Seq(Block) /\ Begins(v, w)
      /\ n \in Nat /\ m \in Nat /\ n <= m
      /\ \E strs \in Strings, folds \in Tree : Means(strs, folds, v) /\ Means(strs, folds, w)
      /\ fs \in Seq(Decoded) /\ gs \in Seq(Decoded) /\ Begins(fs, gs)
  BY VisibleGrows
<1>3. at \in Nat /\ read \in Nat /\ promised \in Seq(Line)
  BY DEF SearchTypeOK
<1>4. WholeAt(search, output, promised, whole, pc', torn', header', gs, FilesReported')
  BY <1>1, QuietStep DEF WholeAt
<1>5. Follows' <=>
        (sight' = "kept" =>
            /\ PlaceAt(search, at, read, w, m)
            /\ FilledAt(search, at, names, tree, w)
            /\ LimitAt(search, config, at, read, results, w)
            /\ PassedAt(search, config, at, read, results, promised, w, gs)
            /\ Found(config, at, read, results, w)
            /\ WholeAt(search, output, promised, whole, pc', torn', header', gs, FilesReported'))
  BY SearchParts
<1> HIDE DEF v, w, n, m, fs, gs
<1>6. PICK strs \in Strings, folds \in Tree : Means(strs, folds, v) /\ Means(strs, folds, w)
  BY <1>2
<1>7. /\ PlaceAt(search, at, read, w, m)
      /\ at # 0 => at \in 1..Len(v) /\ w[at] = v[at] /\ read \in 0..Len(v[at].files)
  BY <1>1, <1>2, <1>3, PlaceKept
<1>8. Passing(w, at, read) = Passing(v, at, read)
  <2>1. CASE at = 0
    BY <2>1 DEF Passing
  <2>2. CASE at # 0
    BY <1>2, <1>6, <1>7, <2>2, PassingKept
  <2>3. QED
    BY <2>1, <2>2
<1>9. FilledAt(search, at, names, tree, w)
  <2> SUFFICES ASSUME search \in Reading PROVE FilledAt(search, at, names, tree, w)
    BY DEF FilledAt
  <2> DEFINE k == IF search = "records" THEN at - 1 ELSE at
  <2>1. at <= Len(v) /\ Len(v) \in Nat /\ (search = "records" => at # 0)
    BY <1>1, <1>2, <1>3, LenProperties DEF PlaceAt
  <2>2. k \in 0..Len(v)
    BY <1>3, <2>1
  <2>3. /\ MapOf(names, [j \in DOMAIN v |-> v[j].strings], k)
        /\ MapOf(tree, [j \in DOMAIN v |-> v[j].folders], k)
    BY <1>1 DEF FilledAt
  <2> HIDE DEF k
  <2>4. /\ MapOf(names, [j \in DOMAIN w |-> w[j].strings], k)
        /\ MapOf(tree, [j \in DOMAIN w |-> w[j].folders], k)
    BY <1>2, <2>2, <2>3, MapKept
  <2>5. QED
    BY <2>4 DEF FilledAt, k
<1>10. LimitAt(search, config, at, read, results, w)
  <2>1. search = "end" => at # 0
    BY <1>1, <1>3 DEF PlaceAt
  <2>2. QED
    BY <1>1, <1>7, <2>1 DEF LimitAt
<1>11. PassedAt(search, config, at, read, results, promised, w, gs)
  <2>1. Len(promised) \in Nat /\ Len(fs) \in Nat /\ Len(gs) \in Nat /\ Len(fs) <= Len(gs)
    BY <1>2, <1>3, LenProperties DEF Begins
  <2>2. Len(promised) <= Len(fs) /\ promised = SubSeq(fs, 1, Len(promised))
    BY <1>1 DEF PassedAt
  <2>3. Len(promised) \in 0..Len(fs) /\ Len(promised) <= Len(gs)
    BY <2>1, <2>2
  <2>4. SubSeq(gs, 1, Len(promised)) = SubSeq(fs, 1, Len(promised))
    BY <1>2, <2>3, SameBeginning
  <2>5. QED
    BY <1>1, <1>8, <2>2, <2>3, <2>4 DEF PassedAt
<1>12. Found(config, at, read, results, w)
  BY <1>1, <1>8 DEF Found
<1>13. QED
  BY <1>4, <1>5, <1>7, <1>9, <1>10, <1>11, <1>12

LEMMA IndexStepKeeps ==
    ASSUME Whole, FileInv, SearchTypeOK, Follows, IndexStep
    PROVE  Follows'
<1>1. CASE sight' # "kept"
  BY <1>1 DEF Follows
<1>2. CASE sight' = "kept"
  <2>1. sight = "kept" /\ ~ Truncate
    BY <1>2 DEF IndexStep, Truncate, SearchTypeOK
  <2>2. [Next]_vars
    BY DEF IndexStep, Next
  <2>3. UNCHANGED <<search, config, at, read, names, tree, results, promised, whole,
                       output>>
    BY DEF IndexStep
  <2>4. QED
    BY <2>1, <2>2, <2>3, IndexKeeps
<1>3. QED
  BY <1>1, <1>2

-----------------------------------------------------------------------------
(* A step of the reader. *)

LEMMA ReaderParts ==
    ASSUME UNCHANGED vars
    PROVE  Follows' <=>
             (sight' = "kept" =>
                /\ PlaceAt(search', at', read', Visible, Len(blocks))
                /\ FilledAt(search', at', names', tree', Visible)
                /\ LimitAt(search', config', at', read', results', Visible)
                /\ PassedAt(search', config', at', read', results', promised', Visible,
                            FilesOf(blocks))
                /\ Found(config', at', read', results', Visible)
                /\ WholeAt(search', output', promised', whole', pc, torn, header, FilesOf(blocks),
                           FilesReported))
<1>1. Visible' = Visible /\ blocks' = blocks /\ pc' = pc /\ torn' = torn /\ header' = header
  BY DEF Visible, vars
<1>2. FilesReported' = FilesReported
  BY ReportedFiles DEF FilesReported, vars
<1>3. QED
  BY <1>1, <1>2, SearchParts

(* What the reader starts from: the parts of Follows and the types they are about. *)
LEMMA ReaderFacts ==
    ASSUME Whole, FileInv, SearchTypeOK, Follows, sight = "kept"
    PROVE  /\ PlaceAt(search, at, read, Visible, Len(blocks))
           /\ FilledAt(search, at, names, tree, Visible)
           /\ LimitAt(search, config, at, read, results, Visible)
           /\ PassedAt(search, config, at, read, results, promised, Visible, FilesOf(blocks))
           /\ Found(config, at, read, results, Visible)
           /\ WholeAt(search, output, promised, whole, pc, torn, header, FilesOf(blocks), FilesReported)
           /\ Visible \in Seq(Block) /\ Len(blocks) \in Nat /\ Len(Visible) \in Nat
           /\ at # 0 => at \in 1..Len(Visible) /\ read \in 0..Len(Visible[at].files)
           /\ at \in Nat /\ read \in Nat
<1>1. /\ PlaceAt(search, at, read, Visible, Len(blocks))
      /\ FilledAt(search, at, names, tree, Visible)
      /\ LimitAt(search, config, at, read, results, Visible)
      /\ PassedAt(search, config, at, read, results, promised, Visible, FilesOf(blocks))
      /\ Found(config, at, read, results, Visible)
      /\ WholeAt(search, output, promised, whole, pc, torn, header, FilesOf(blocks), FilesReported)
  BY SearchParts
<1>2. Visible \in Seq(Block) /\ Len(blocks) \in Nat /\ Len(Visible) \in Nat
  BY VisibleParts DEF Whole
<1>3. at \in Nat /\ read \in Nat
  BY DEF SearchTypeOK
<1>4. Begins(Visible, Visible) /\ Len(blocks) <= Len(blocks)
  BY <1>2, BeginsItself
<1>5. at # 0 => at \in 1..Len(Visible) /\ read \in 0..Len(Visible[at].files)
  BY <1>1, <1>2, <1>3, <1>4, PlaceKept
<1>6. QED
  BY <1>1, <1>2, <1>3, <1>5

LEMMA StartKeeps ==
    ASSUME Whole, FileInv, HeaderInv, NEW c \in Configs,
           Open(c) \/ OpenFails(c) \/ EmptyQuery(c)
    PROVE  Follows'
<1> DEFINE fs == FilesOf(blocks)
           se == search'
<1>1. fs \in Seq(Decoded) /\ Visible \in Seq(Block) /\ Len(Visible) \in Nat
  BY BlocksArePart, VisibleParts DEF Whole
<1>2. /\ UNCHANGED vars /\ config' = c /\ at' = 0 /\ read' = 0
      /\ names' = <<>> /\ tree' = <<>> /\ results' = <<>> /\ promised' = fs
      /\ whole' = IF /\ pc = "absent" /\ stream = "good"
                     /\ status.state \in {"stopped", "completed"} THEN "yes" ELSE "no"
      /\ se \in {"header", "failed", "done"}
      /\ (se = "failed" => output' = "none") /\ (se = "done" => c.query = {})
  BY DEF Open, OpenFails, EmptyQuery, Start
<1> HIDE DEF se
<1>3. c.limit \in Nat
  BY SearchAssumption
<1>4. PlaceAt(se, 0, 0, Visible, Len(blocks))
  BY <1>1, <1>2 DEF PlaceAt
<1>5. FilledAt(se, 0, <<>>, <<>>, Visible)
  <2>1. \A lists : MapOf(<<>>, lists, 0)
    BY EmptySeq DEF MapOf
  <2>2. QED
    BY <1>2, <2>1 DEF FilledAt
<1>6. LimitAt(se, c, 0, 0, <<>>, Visible)
  BY <1>2, <1>3, EmptySeq DEF LimitAt
<1>7. PassedAt(se, c, 0, 0, <<>>, fs, Visible, fs)
  <2>1. Begins(fs, fs) /\ Len(fs) \in Nat
    BY <1>1, BeginsItself, LenProperties
  <2>2. fs = SubSeq(fs, 1, Len(fs))
    BY <1>1, <2>1, BeginningIsSubSeq
  <2> HIDE DEF fs
  <2>3. QED
    BY <1>2, <2>1, <2>2 DEF PassedAt
<1>8. Found(c, 0, 0, <<>>, Visible)
  <2>1. Passing(Visible, 0, 0) = <<>> /\ <<>> \in Seq(Lines)
    BY EmptySeq DEF Passing
  <2>2. LineHits(c.query, <<>>) = <<>>
    BY <2>1, HitsChosen, ChosenEmpty
  <2>3. QED
    BY <2>1, <2>2 DEF Found
<1>9. WholeAt(se, output', fs, whole', pc, torn, header, fs, FilesReported)
  <2> SUFFICES ASSUME whole' = "yes"
               PROVE  WholeAt(se, output', fs, whole', pc, torn, header, fs, FilesReported)
    BY DEF WholeAt
  <2>1. pc = "absent" /\ stream = "good" /\ status.state \in {"stopped", "completed"}
    BY <1>2
  <2>2. header = "written"
    BY <2>1 DEF HeaderInv, EndedWell
  <2>3. torn = <<>> /\ batch = EmptyBatch
    BY <2>1 DEF Whole, HandedOver
  <2>4. fs = FilesReported
    BY <2>1, <2>3, NothingWaits
  <2> HIDE DEF fs
  <2>5. QED
    BY <1>2, <2>1, <2>2, <2>3, <2>4 DEF WholeAt
<1> HIDE DEF fs
<1>10. QED
  BY <1>2, <1>4, <1>5, <1>6, <1>7, <1>8, <1>9, ReaderParts DEF fs, se

LEMMA BlockSeen ==
    ASSUME Typed
    PROVE  /\ \A k \in 1..Len(Visible) : BlockAt(k) = Visible[k]
           /\ \A k \in Nat \ {0} : SeenOf(k) >= 1 => k \in 1..Len(Visible)
           /\ \A k \in 1..Len(blocks) : SeenOf(k) = ItemsOf(Visible[k])
           /\ Len(Visible) \in Len(blocks)..(Len(blocks) + 1)
<1> DEFINE n == Len(blocks)
           m == Len(Visible)
<1>1. /\ blocks \in Seq(Block) /\ Visible \in Seq(Block) /\ n \in Nat /\ m \in Nat
      /\ Begins(blocks, Visible)
      /\ torn = <<>> => Visible = blocks
      /\ torn # <<>> => m = n + 1 /\ Visible[n + 1] = torn[1].block
  BY VisibleParts
<1>2. \A k \in 1..n : Visible[k] = blocks[k]
  BY <1>1 DEF Begins
<1>3. m = n \/ (m = n + 1 /\ torn # <<>>)
  BY <1>1
<1> HIDE DEF n, m
<1>4. ASSUME NEW k \in 1..m PROVE BlockAt(k) = Visible[k]
  <2>1. CASE k <= n
    <3>1. k \in 1..n
      BY <1>1, <2>1
    <3>2. BlockAt(k) = blocks[k]
      BY <2>1 DEF BlockAt, n
    <3>3. QED
      BY <1>2, <3>1, <3>2
  <2>2. CASE ~ (k <= n)
    <3>1. k = n + 1 /\ torn # <<>>
      BY <1>1, <1>3, <2>2
    <3>2. BlockAt(k) = torn[1].block
      BY <2>2 DEF BlockAt, n
    <3>3. QED
      BY <1>1, <3>1, <3>2
  <2>3. QED
    BY <2>1, <2>2
<1>5. ASSUME NEW k \in Nat \ {0}, SeenOf(k) >= 1 PROVE k \in 1..m
  <2>1. k <= n \/ (k = n + 1 /\ torn # <<>>)
    BY <1>5 DEF SeenOf, n
  <2>2. n <= m /\ (torn # <<>> => n + 1 <= m)
    BY <1>1, <1>3
  <2>3. QED
    BY <1>1, <2>1, <2>2
<1>6. ASSUME NEW k \in 1..n PROVE SeenOf(k) = ItemsOf(Visible[k])
  <2>1. k <= n
    BY <1>1
  <2>2. SeenOf(k) = ItemsOf(blocks[k])
    BY <2>1 DEF SeenOf, n
  <2>3. QED
    BY <1>2, <2>2
<1>7. m \in n..(n + 1)
  BY <1>1, <1>3
<1>8. QED
  BY <1>4, <1>5, <1>6, <1>7 DEF n, m

(* A reader that has passed the last complete block has passed the files of all of them. *)
LEMMA PastCommitted ==
    ASSUME Typed, FileInv, NEW a \in Nat, NEW r, Len(blocks) <= a, a <= Len(Visible),
           a # 0 => r = Len(Visible[a].files)
    PROVE  Len(FilesOf(blocks)) <= Len(Passing(Visible, a, r))
<1> DEFINE n == Len(blocks)
           m == Len(Visible)
           v == Visible
<1>1. blocks \in Seq(Block) /\ v \in Seq(Block) /\ n \in Nat /\ m \in Nat
  BY VisibleParts
<1>2. m \in n..(n + 1)
  BY BlockSeen
<1>3. /\ FilesOf(blocks) \in Seq(Decoded) /\ FilesOf(v) \in Seq(Decoded)
      /\ Begins(FilesOf(blocks), FilesOf(v)) /\ blocks = SubSeq(v, 1, n)
  BY BlocksArePart
<1>4. PICK strs \in Strings, folds \in Tree : Means(strs, folds, v)
  BY DEF FileInv, Readable
<1>5. Len(FilesOf(blocks)) \in Nat /\ Len(FilesOf(blocks)) <= Len(FilesOf(v))
  BY <1>3, LenProperties DEF Begins
<1>6. v = SubSeq(v, 1, m)
  BY <1>1, BeginsItself, BeginningIsSubSeq
<1>7. n <= a /\ a <= m /\ (a # 0 => r = Len(v[a].files))
  OBVIOUS
<1> HIDE DEF n, m, v
<1>8. CASE a = 0
  <2>1. n = 0
    BY <1>1, <1>7, <1>8
  <2>2. blocks = <<>>
    BY <1>1, <2>1, EmptySeq DEF n
  <2>3. FilesOf(blocks) = <<>> /\ Passing(v, a, r) = <<>>
    BY <1>8, <2>2, NoFiles DEF Passing
  <2>4. Len(FilesOf(blocks)) = Len(Passing(v, a, r))
    BY <2>3
  <2>5. QED
    BY <1>5, <2>4 DEF v
<1>9. CASE a # 0
  <2>1. a \in 1..m
    BY <1>1, <1>7, <1>9
  <2>2. v[a] \in Block
    BY <1>1, <2>1, ElementOfSeq DEF m, v
  <2>3. v[a].files \in Seq(FileRecord)
    BY <2>2 DEF Block
  <2>4. r = Len(v[a].files) /\ r \in 0..Len(v[a].files)
    BY <1>7, <1>9, <2>3, LenProperties
  <2>5. Passing(v, a, r) = FilesOf(SubSeq(v, 1, a))
    BY <1>1, <1>4, <2>1, <2>4, PassingFiles DEF m, v
  <2>6. a = n \/ a = m
    BY <1>1, <1>2, <1>7
  <2>7. FilesOf(SubSeq(v, 1, a)) = FilesOf(blocks) \/ FilesOf(SubSeq(v, 1, a)) = FilesOf(v)
    BY <1>3, <1>6, <2>6
  <2>8. QED
    BY <1>5, <2>5, <2>7 DEF v
<1>10. QED
  BY <1>8, <1>9

LEMMA StreamKeeps ==
    ASSUME Whole, FileInv, SearchTypeOK, Follows,
           LineSaved \/ LineRefused \/ CloseOutput \/ SearchKilled
    PROVE  Follows'
<1> SUFFICES ASSUME sight = "kept" PROVE Follows'
  BY DEF LineSaved, LineRefused, CloseOutput, SearchKilled, Follows
<1>1. /\ PlaceAt(search, at, read, Visible, Len(blocks))
      /\ FilledAt(search, at, names, tree, Visible)
      /\ LimitAt(search, config, at, read, results, Visible)
      /\ PassedAt(search, config, at, read, results, promised, Visible, FilesOf(blocks))
      /\ Found(config, at, read, results, Visible)
      /\ WholeAt(search, output, promised, whole, pc, torn, header, FilesOf(blocks), FilesReported)
  BY ReaderFacts
<1>2. /\ UNCHANGED vars /\ UNCHANGED <<config, at, read, names, tree, results, promised, whole>>
      /\ search' = "killed" \/ (search' = search /\ output = "open")
  BY DEF LineSaved, LineRefused, CloseOutput, SearchKilled
<1>3. /\ PlaceAt(search', at, read, Visible, Len(blocks))
      /\ FilledAt(search', at, names, tree, Visible)
      /\ LimitAt(search', config, at, read, results, Visible)
      /\ PassedAt(search', config, at, read, results, promised, Visible, FilesOf(blocks))
  BY <1>1, <1>2 DEF PlaceAt, FilledAt, LimitAt, PassedAt, Reading
<1>4. WholeAt(search', output', promised, whole, pc, torn, header, FilesOf(blocks), FilesReported)
  BY <1>1, <1>2 DEF WholeAt
<1>5. QED
  BY <1>1, <1>2, <1>3, <1>4, ReaderParts

LEMMA ReadHeaderKeeps ==
    ASSUME Whole, FileInv, SearchTypeOK, Follows, ReadHeader
    PROVE  Follows'
<1>0. sight = "kept"
  BY DEF ReadHeader
<1>1. /\ PlaceAt(search, at, read, Visible, Len(blocks))
      /\ FilledAt(search, at, names, tree, Visible)
      /\ LimitAt(search, config, at, read, results, Visible)
      /\ PassedAt(search, config, at, read, results, promised, Visible, FilesOf(blocks))
      /\ Found(config, at, read, results, Visible)
      /\ WholeAt(search, output, promised, whole, pc, torn, header, FilesOf(blocks), FilesReported)
  BY <1>0, ReaderFacts
<1>2. /\ search = "header" /\ search' \in {"block", "failed"}
      /\ header = "written" => search' = "block"
      /\ UNCHANGED vars
      /\ UNCHANGED <<config, at, read, names, tree, results, promised, whole, output>>
  BY DEF ReadHeader
<1>3. /\ PlaceAt(search', at, read, Visible, Len(blocks))
      /\ FilledAt(search', at, names, tree, Visible)
      /\ LimitAt(search', config, at, read, results, Visible)
      /\ PassedAt(search', config, at, read, results, promised, Visible, FilesOf(blocks))
      /\ WholeAt(search', output, promised, whole, pc, torn, header, FilesOf(blocks), FilesReported)
  BY <1>1, <1>2 DEF PlaceAt, FilledAt, LimitAt, PassedAt, WholeAt, Reading
<1>4. QED
  BY <1>1, <1>2, <1>3, ReaderParts

LEMMA FilesReadKeeps ==
    ASSUME Whole, FileInv, SearchTypeOK, Follows, FilesRead
    PROVE  Follows'
<1>0. sight = "kept"
  BY DEF FilesRead
<1>1. /\ PlaceAt(search, at, read, Visible, Len(blocks))
      /\ FilledAt(search, at, names, tree, Visible)
      /\ LimitAt(search, config, at, read, results, Visible)
      /\ PassedAt(search, config, at, read, results, promised, Visible, FilesOf(blocks))
      /\ Found(config, at, read, results, Visible)
      /\ WholeAt(search, output, promised, whole, pc, torn, header, FilesOf(blocks), FilesReported)
      /\ at # 0 => at \in 1..Len(Visible) /\ read \in 0..Len(Visible[at].files)
      /\ at \in Nat
  BY <1>0, ReaderFacts
<1>2. /\ search = "files" /\ search' = "end" /\ read = Len(BlockAt(at).files)
      /\ UNCHANGED vars
      /\ UNCHANGED <<config, at, read, names, tree, results, promised, whole, output>>
  BY DEF FilesRead
<1>3. at > 0 /\ at # 0
  BY <1>1, <1>2 DEF PlaceAt
<1>4. BlockAt(at) = Visible[at]
  BY <1>1, <1>3, BlockSeen DEF Whole
<1>5. ~ (read < Len(Visible[at].files))
  <2>1. read \in Nat /\ read = Len(Visible[at].files)
    BY <1>2, <1>4 DEF SearchTypeOK
  <2>2. QED
    BY <2>1
<1>6. /\ PlaceAt("end", at, read, Visible, Len(blocks))
      /\ FilledAt("end", at, names, tree, Visible)
      /\ LimitAt("end", config, at, read, results, Visible)
      /\ PassedAt("end", config, at, read, results, promised, Visible, FilesOf(blocks))
      /\ WholeAt("end", output, promised, whole, pc, torn, header, FilesOf(blocks), FilesReported)
  BY <1>1, <1>2, <1>5 DEF PlaceAt, FilledAt, LimitAt, PassedAt, WholeAt, Reading
<1>7. QED
  BY <1>1, <1>2, <1>6, ReaderParts

LEMMA ReadEndKeeps ==
    ASSUME Whole, FileInv, SearchTypeOK, Follows, ReadEnd
    PROVE  Follows'
<1> DEFINE n == Len(blocks)
           files == Visible[at].files
<1>0. sight = "kept"
  BY DEF ReadEnd
<1>1. /\ PlaceAt(search, at, read, Visible, n)
      /\ FilledAt(search, at, names, tree, Visible)
      /\ LimitAt(search, config, at, read, results, Visible)
      /\ PassedAt(search, config, at, read, results, promised, Visible, FilesOf(blocks))
      /\ Found(config, at, read, results, Visible)
      /\ WholeAt(search, output, promised, whole, pc, torn, header, FilesOf(blocks), FilesReported)
      /\ at # 0 => at \in 1..Len(Visible) /\ read \in 0..Len(files)
      /\ at \in Nat /\ n \in Nat /\ Len(Visible) \in Nat /\ Visible \in Seq(Block)
  BY <1>0, ReaderFacts
<1>2. /\ search = "end"
      /\ search' = IF at <= n /\ read = Len(BlockAt(at).files) THEN "block" ELSE "done"
      /\ UNCHANGED vars
      /\ UNCHANGED <<config, at, read, names, tree, results, promised, whole, output>>
  BY DEF ReadEnd
<1>3. at > 0 /\ at # 0
  BY <1>1, <1>2 DEF PlaceAt
<1>4. BlockAt(at) = Visible[at]
  BY <1>1, <1>3, BlockSeen DEF Whole
<1>5. search' = IF at <= n /\ read = Len(files) THEN "block" ELSE "done"
  BY <1>2, <1>4
<1>6. /\ PlaceAt(search', at, read, Visible, n)
      /\ FilledAt(search', at, names, tree, Visible)
      /\ LimitAt(search', config, at, read, results, Visible)
      /\ WholeAt(search', output, promised, whole, pc, torn, header, FilesOf(blocks), FilesReported)
  <2>1. CASE at <= n /\ read = Len(files)
    <3>1. search' = "block"
      BY <1>5, <2>1
    <3>2. QED
      BY <1>1, <1>2, <2>1, <3>1 DEF PlaceAt, FilledAt, LimitAt, WholeAt, Reading
  <2>2. CASE ~ (at <= n /\ read = Len(files))
    <3>1. search' = "done"
      BY <1>5, <2>2
    <3>2. QED
      BY <1>1, <1>2, <3>1 DEF PlaceAt, FilledAt, LimitAt, WholeAt, Reading
  <2>3. QED
    BY <2>1, <2>2
<1>7. PassedAt(search', config, at, read, results, promised, Visible, FilesOf(blocks))
  <2>1. Len(promised) <= Len(FilesOf(blocks)) /\ promised = SubSeq(FilesOf(blocks), 1, Len(promised))
    BY <1>1 DEF PassedAt
  <2>2. ASSUME search' = "done"
        PROVE  config.query = {} \/ Len(results) = config.limit
                 \/ Len(promised) <= Len(Passing(Visible, at, read))
    <3>1. ~ (at <= n /\ read = Len(files))
      BY <1>5, <2>2
    <3>2. read \in 0..Len(files) /\ Len(files) \in Nat
      <4>1. Visible[at] \in Block
        BY <1>1, <1>3, ElementOfSeq
      <4>2. Len(files) \in Nat
        BY <4>1, LenProperties DEF Block
      <4>3. QED
        BY <1>1, <1>3, <4>2
    <3> DEFINE k == Len(files)
    <3>3. CASE read # k
      <4>1. read \in 0..k /\ k \in Nat
        BY <3>2
      <4> HIDE DEF k
      <4>2. read < k
        BY <3>3, <4>1
      <4>3. QED
        BY <1>1, <1>2, <4>2 DEF LimitAt, k
    <3>4. CASE read = k
      <4>1. n <= at /\ at <= Len(Visible)
        BY <1>1, <1>3, <3>1, <3>4
      <4>2. Len(FilesOf(blocks)) <= Len(Passing(Visible, at, read))
        BY <1>1, <3>4, <4>1, PastCommitted DEF Whole
      <4>3. Len(promised) \in Nat /\ Len(FilesOf(blocks)) \in Nat
        <5>1. promised \in Seq(Line) /\ FilesOf(blocks) \in Seq(Decoded)
          BY BlocksArePart DEF SearchTypeOK, Whole
        <5>2. QED
          BY <5>1, LenProperties
      <4>4. Len(Passing(Visible, at, read)) \in Nat
        <5>1. PICK strs \in Strings, folds \in Tree : Means(strs, folds, Visible)
          BY DEF FileInv, Readable
        <5>2. Passing(Visible, at, read) \in Seq(Decoded)
          BY <1>1, <5>1, PassingType
        <5>3. QED
          BY <5>2, LenProperties
      <4>5. \A i, j, l \in Nat : i <= j /\ j <= l => i <= l
        OBVIOUS
      <4>6. Len(promised) <= Len(Passing(Visible, at, read))
        BY <2>1, <4>2, <4>3, <4>4, <4>5
      <4>7. QED
        BY <4>6
    <3>5. QED
      BY <3>3, <3>4
  <2>3. QED
    BY <2>1, <2>2 DEF PassedAt
<1>8. QED
  BY <1>1, <1>2, <1>6, <1>7, ReaderParts

LEMMA PassedTypes ==
    ASSUME Whole, FileInv, SearchTypeOK, Follows, sight = "kept"
    PROVE  /\ Passing(Visible, at, read) \in Seq(Decoded)
           /\ Begins(Passing(Visible, at, read), FilesOf(Visible))
           /\ FilesOf(blocks) \in Seq(Decoded)
           /\ Len(promised) \in Nat /\ Len(FilesOf(blocks)) \in Nat
           /\ Len(Passing(Visible, at, read)) \in Nat
<1>1. PICK strs \in Strings, folds \in Tree : Means(strs, folds, Visible)
  BY DEF FileInv, Readable
<1>2. Visible \in Seq(Block) /\ at \in Nat
      /\ (at # 0 => at \in 1..Len(Visible) /\ read \in 0..Len(Visible[at].files))
  BY ReaderFacts
<1>3. Passing(Visible, at, read) \in Seq(Decoded)
      /\ Begins(Passing(Visible, at, read), FilesOf(Visible))
  BY <1>1, <1>2, PassingType
<1>4. FilesOf(blocks) \in Seq(Decoded) /\ promised \in Seq(Line)
  BY BlocksArePart DEF SearchTypeOK, Whole
<1>5. QED
  BY <1>3, <1>4, LenProperties

LEMMA NextBlockKeeps ==
    ASSUME Whole, FileInv, SearchTypeOK, Follows, ReadBlock, Len(results) < config.limit,
           SeenOf(at + 1) >= 1
    PROVE  Follows'
<1> DEFINE n == Len(blocks)
           m == Len(Visible)
           next_ == at + 1
<1>0. sight = "kept"
  BY DEF ReadBlock
<1>1. /\ PlaceAt(search, at, read, Visible, n)
      /\ FilledAt(search, at, names, tree, Visible)
      /\ LimitAt(search, config, at, read, results, Visible)
      /\ PassedAt(search, config, at, read, results, promised, Visible, FilesOf(blocks))
      /\ Found(config, at, read, results, Visible)
      /\ WholeAt(search, output, promised, whole, pc, torn, header, FilesOf(blocks), FilesReported)
      /\ at # 0 => at \in 1..m /\ read \in 0..Len(Visible[at].files)
      /\ at \in Nat /\ n \in Nat /\ m \in Nat /\ Visible \in Seq(Block)
  BY <1>0, ReaderFacts
<1>2. /\ search = "block" /\ search' = "records" /\ at' = next_ /\ read' = 0
      /\ UNCHANGED vars
      /\ UNCHANGED <<config, names, tree, results, promised, whole, output>>
  BY DEF ReadBlock
<1>3. next_ \in 1..m /\ next_ > 0 /\ next_ # 0 /\ next_ - 1 = at /\ next_ <= m
  <2>1. next_ \in Nat \ {0}
    BY <1>1
  <2>2. next_ \in 1..m
    BY <2>1, BlockSeen DEF Whole
  <2>3. QED
    BY <1>1, <2>2
<1>4. 0 <= Len(Visible[next_].files) /\ 0 \in 0..Len(Visible[next_].files)
  <2>1. Visible[next_] \in Block
    BY <1>1, <1>3, ElementOfSeq
  <2>2. Len(Visible[next_].files) \in Nat
    BY <2>1, LenProperties DEF Block
  <2>3. QED
    BY <2>2
<1> HIDE DEF next_
<1>5. PlaceAt("records", next_, 0, Visible, n)
  BY <1>3, <1>4 DEF PlaceAt
<1>6. FilledAt("records", next_, names, tree, Visible)
  BY <1>1, <1>2, <1>3 DEF FilledAt, Reading
<1>7. LimitAt("records", config, next_, 0, results, Visible)
  BY <1>1 DEF LimitAt
<1>8. PassedAt("records", config, next_, 0, results, promised, Visible, FilesOf(blocks))
  BY <1>1 DEF PassedAt
<1>9. WholeAt("records", output, promised, whole, pc, torn, header, FilesOf(blocks), FilesReported)
  BY <1>1 DEF WholeAt
<1>10. Passing(Visible, next_, 0) = Passing(Visible, at, read)
  <2>1. PICK strs \in Strings, folds \in Tree : Means(strs, folds, Visible)
    BY DEF FileInv, Readable
  <2>2. Passing(Visible, next_, 0) = FilesOf(SubSeq(Visible, 1, at))
    BY <1>1, <1>3, <1>4, <2>1, PassingFiles
  <2>3. CASE at = 0
    <3>1. SubSeq(Visible, 1, 0) = <<>>
      BY <1>1, EmptySeq, SubSeqProperties
    <3>2. Passing(Visible, at, read) = <<>>
      BY <2>3 DEF Passing
    <3>3. QED
      BY <2>2, <2>3, <3>1, <3>2, NoFiles
  <2>4. CASE at # 0
    <3>1. at > 0
      BY <1>1, <2>4
    <3>2. read = Len(Visible[at].files)
      BY <1>1, <1>2, <3>1 DEF PlaceAt
    <3>3. Passing(Visible, at, read) = FilesOf(SubSeq(Visible, 1, at))
      BY <1>1, <2>1, <2>4, <3>2, PassingFiles
    <3>4. QED
      BY <2>2, <3>3
  <2>5. QED
    BY <2>3, <2>4
<1>11. Found(config, next_, 0, results, Visible)
  BY <1>1, <1>10 DEF Found
<1>12. QED
  BY <1>2, <1>5, <1>6, <1>7, <1>8, <1>9, <1>11, ReaderParts

LEMMA ReadBlockKeeps ==
    ASSUME Whole, FileInv, SearchTypeOK, Follows, ReadBlock
    PROVE  Follows'
<1> DEFINE n == Len(blocks)
           m == Len(Visible)
<1> SUFFICES ASSUME ~ (Len(results) < config.limit /\ SeenOf(at + 1) >= 1) PROVE Follows'
  BY NextBlockKeeps
<1>0. sight = "kept"
  BY DEF ReadBlock
<1>1. /\ PlaceAt(search, at, read, Visible, n)
      /\ LimitAt(search, config, at, read, results, Visible)
      /\ PassedAt(search, config, at, read, results, promised, Visible, FilesOf(blocks))
      /\ Found(config, at, read, results, Visible)
      /\ WholeAt(search, output, promised, whole, pc, torn, header, FilesOf(blocks), FilesReported)
      /\ at # 0 => at \in 1..m /\ read \in 0..Len(Visible[at].files)
      /\ at \in Nat /\ n \in Nat /\ m \in Nat /\ Visible \in Seq(Block)
  BY <1>0, ReaderFacts
<1>2. /\ search = "block" /\ search' = "done"
      /\ UNCHANGED vars
      /\ UNCHANGED <<config, at, read, names, tree, results, promised, whole, output>>
  BY DEF ReadBlock
<1>3. /\ PlaceAt("done", at, read, Visible, n)
      /\ FilledAt("done", at, names, tree, Visible)
      /\ LimitAt("done", config, at, read, results, Visible)
      /\ WholeAt("done", output, promised, whole, pc, torn, header, FilesOf(blocks), FilesReported)
  BY <1>1, <1>2 DEF PlaceAt, FilledAt, LimitAt, WholeAt, Reading
<1>4. Len(results) \in Nat /\ config.limit \in Nat
  <2>1. results \in Seq(Line \cup {Nonsense}) /\ config \in Configs \cup {NoConfig}
    BY DEF SearchTypeOK
  <2>2. config.limit \in Nat
    BY <2>1, SearchAssumption DEF NoConfig
  <2>3. QED
    BY <2>1, <2>2, LenProperties
<1>5. Len(results) = config.limit \/ Len(promised) <= Len(Passing(Visible, at, read))
  <2>1. CASE ~ (Len(results) < config.limit)
    <3>1. Len(results) <= config.limit
      BY <1>1 DEF LimitAt
    <3>2. \A i, j \in Nat : i <= j /\ ~ (i < j) => i = j
      OBVIOUS
    <3>3. QED
      BY <1>4, <2>1, <3>1, <3>2
  <2>2. CASE ~ (SeenOf(at + 1) >= 1)
    <3> DEFINE next_ == at + 1
    <3>1. next_ \notin 1..n
      <4> SUFFICES ASSUME next_ \in 1..n PROVE FALSE
        OBVIOUS
      <4>1. SeenOf(next_) = ItemsOf(Visible[next_])
        BY BlockSeen DEF Whole
      <4>2. m \in n..(n + 1)
        BY BlockSeen DEF Whole
      <4>3. next_ \in 1..m
        BY <1>1, <4>2
      <4>4. Visible[next_] \in Block
        BY <1>1, <4>3, ElementOfSeq
      <4> DEFINE b == Visible[next_]
      <4>5. Len(b.strings) \in Nat /\ Len(b.folders) \in Nat /\ Len(b.files) \in Nat
        BY <4>4, LenProperties DEF Block
      <4> HIDE DEF b
      <4>6. ItemsOf(b) >= 1
        <5>1. \A i, j, l \in Nat : 1 + i + j + l >= 1
          OBVIOUS
        <5>2. 1 + Len(b.strings) + Len(b.folders) + Len(b.files) >= 1
          BY <4>5, <5>1
        <5>3. QED
          BY <5>2 DEF ItemsOf
      <4>7. QED
        BY <2>2, <4>1, <4>6 DEF b
    <3>2. n <= at
      BY <1>1, <3>1
    <3>3. at <= m /\ (at # 0 => read = Len(Visible[at].files))
      BY <1>1, <1>2 DEF PlaceAt
    <3>4. Len(FilesOf(blocks)) <= Len(Passing(Visible, at, read))
      BY <1>1, <3>2, <3>3, PastCommitted DEF Whole
    <3>5. Len(promised) <= Len(FilesOf(blocks))
      BY <1>1 DEF PassedAt
    <3>6. \A i, j, l \in Nat : i <= j /\ j <= l => i <= l
      OBVIOUS
    <3>7. Len(promised) <= Len(Passing(Visible, at, read))
      BY <1>0, <3>4, <3>5, <3>6, PassedTypes
    <3>8. QED
      BY <3>7
  <2>3. QED
    BY <2>1, <2>2
<1>6. PassedAt("done", config, at, read, results, promised, Visible, FilesOf(blocks))
  BY <1>1, <1>5 DEF PassedAt
<1>7. QED
  BY <1>1, <1>2, <1>3, <1>6, ReaderParts

(* Of an index that had ended whole no record is missing. *)
LEMMA WholeIsSeen ==
    ASSUME Typed, torn = <<>>, NEW k \in 1..Len(Visible)
    PROVE  SeenOf(k) = ItemsOf(Visible[k])
<1>1. Visible = blocks
  BY VisibleParts
<1>2. QED
  BY <1>1, BlockSeen

LEMMA BlockParts ==
    ASSUME NEW v \in Seq(Block), NEW k \in 1..Len(v)
    PROVE  /\ v[k] \in Block /\ k \in DOMAIN v
           /\ v[k].strings \in Seq(StringRecord) /\ Len(v[k].strings) \in Nat
           /\ v[k].folders \in Seq(FolderRecord) /\ Len(v[k].folders) \in Nat
           /\ v[k].files \in Seq(FileRecord) /\ Len(v[k].files) \in Nat
<1>1. v[k] \in Block /\ k \in DOMAIN v
  BY ElementOfSeq, LenProperties
<1>2. /\ v[k].strings \in Seq(StringRecord) /\ v[k].folders \in Seq(FolderRecord)
      /\ v[k].files \in Seq(FileRecord)
  BY <1>1 DEF Block
<1>3. QED
  BY <1>1, <1>2, LenProperties

LEMMA ReadRecordsKeeps ==
    ASSUME Whole, FileInv, SearchTypeOK, Follows, ReadRecords
    PROVE  Follows'
<1> DEFINE n == Len(blocks)
           m == Len(Visible)
           b == Visible[at]
           ss == [j \in DOMAIN Visible |-> Visible[j].strings]
           fs == [j \in DOMAIN Visible |-> Visible[j].folders]
           k == at - 1
<1>0. sight = "kept"
  BY DEF ReadRecords
<1>1. /\ PlaceAt(search, at, read, Visible, n)
      /\ FilledAt(search, at, names, tree, Visible)
      /\ LimitAt(search, config, at, read, results, Visible)
      /\ PassedAt(search, config, at, read, results, promised, Visible, FilesOf(blocks))
      /\ Found(config, at, read, results, Visible)
      /\ WholeAt(search, output, promised, whole, pc, torn, header, FilesOf(blocks), FilesReported)
      /\ at # 0 => at \in 1..m /\ read \in 0..Len(Visible[at].files)
      /\ at \in Nat /\ n \in Nat /\ m \in Nat /\ Visible \in Seq(Block)
  BY <1>0, ReaderFacts
<1>2. /\ search = "records"
      /\ \/ /\ RecordsThere /\ search' = "files"
            /\ names' = Put(names, BlockAt(at).strings) /\ tree' = Put(tree, BlockAt(at).folders)
         \/ ~ RecordsThere /\ search' = "failed" /\ UNCHANGED <<names, tree>>
      /\ UNCHANGED vars
      /\ UNCHANGED <<config, at, read, results, promised, whole, output>>
  BY DEF ReadRecords
<1>3. at > 0 /\ at # 0 /\ at \in 1..m
  BY <1>1, <1>2 DEF PlaceAt
<1>4. BlockAt(at) = b
  BY <1>3, BlockSeen DEF Whole
<1>5. /\ PlaceAt(search', at, read, Visible, n)
      /\ LimitAt(search', config, at, read, results, Visible)
      /\ PassedAt(search', config, at, read, results, promised, Visible, FilesOf(blocks))
  BY <1>1, <1>2 DEF PlaceAt, LimitAt, PassedAt
<1>6. FilledAt(search', at, names', tree', Visible)
  <2> SUFFICES ASSUME search' = "files"
               PROVE  FilledAt(search', at, names', tree', Visible)
    BY <1>2 DEF FilledAt, Reading
  <2>1. MapOf(names, ss, k) /\ MapOf(tree, fs, k)
    BY <1>1, <1>2 DEF FilledAt, Reading
  <2>2. k \in Nat /\ at = k + 1
    BY <1>3
  <2>3. ss[at] = b.strings /\ fs[at] = b.folders
    BY <1>1, <1>3, BlockParts
  <2>4. ss[at] \in Seq(StringRecord) /\ fs[at] \in Seq(FolderRecord)
    BY <1>1, <1>3, <2>3, BlockParts
  <2> HIDE DEF ss, fs, k
  <2>5. MapOf(Put(names, ss[at]), ss, at)
    BY <2>1, <2>2, <2>4, PutFills
  <2>6. MapOf(Put(tree, fs[at]), fs, at)
    BY <2>1, <2>2, <2>4, PutFills
  <2>7. names' = Put(names, ss[at]) /\ tree' = Put(tree, fs[at])
    BY <1>2, <1>4, <2>3
  <2>8. QED
    BY <2>5, <2>6, <2>7 DEF FilledAt, ss, fs
<1>7. WholeAt(search', output, promised, whole, pc, torn, header, FilesOf(blocks), FilesReported)
  <2> SUFFICES ASSUME whole = "yes"
               PROVE  WholeAt(search', output, promised, whole, pc, torn, header, FilesOf(blocks),
                              FilesReported)
    BY DEF WholeAt
  <2>1. torn = <<>>
    BY <1>1 DEF WholeAt
  <2>2. SeenOf(at) = ItemsOf(b)
    BY <1>3, <2>1, WholeIsSeen DEF Whole
  <2>3. Len(b.strings) \in Nat /\ Len(b.folders) \in Nat /\ Len(b.files) \in Nat
    BY <1>1, <1>3, BlockParts
  <2>4. \A i, j, l \in Nat : 1 + i + j + l >= 1 + i + j
    OBVIOUS
  <2>5. 1 + Len(b.strings) + Len(b.folders) + Len(b.files) >= 1 + Len(b.strings) + Len(b.folders)
    BY <2>3, <2>4
  <2>6. RecordsThere
    BY <1>4, <2>2, <2>5 DEF RecordsThere, ItemsOf
  <2>7. search' = "files"
    BY <1>2, <2>6
  <2>8. QED
    BY <1>1, <2>7 DEF WholeAt
<1>8. QED
  BY <1>1, <1>2, <1>5, <1>6, <1>7, ReaderParts

(* The line of the next file record is what the record means. *)
LEMMA FileLine ==
    ASSUME ShortPaths, Whole, FileInv, SearchTypeOK, Follows, sight = "kept", search = "files",
           read < Len(BlockAt(at).files), NEW q, q = read + 1
    PROVE  /\ at \in 1..Len(Visible) /\ at > 0 /\ BlockAt(at) = Visible[at]
           /\ q \in 1..Len(Visible[at].files)
           /\ LET f == BlockAt(at).files[q]
              IN  /\ LineOf(f) \in Decoded /\ f.nameId \in DOMAIN names
                  /\ Passing(Visible, at, q) = Append(Passing(Visible, at, read), LineOf(f))
<1> DEFINE b == Visible[at]
           n == Len(b.files)
<1>1. /\ PlaceAt(search, at, read, Visible, Len(blocks))
      /\ FilledAt(search, at, names, tree, Visible)
      /\ at # 0 => at \in 1..Len(Visible) /\ read \in 0..n
      /\ at \in Nat /\ Visible \in Seq(Block)
  BY ReaderFacts
<1>2. at > 0 /\ at \in 1..Len(Visible)
  BY <1>1 DEF PlaceAt
<1>3. BlockAt(at) = b
  BY <1>2, BlockSeen DEF Whole
<1>4. n \in Nat /\ read \in 0..n /\ read < n
  BY <1>1, <1>2, <1>3, BlockParts
<1>5. PICK strs \in Strings, folds \in Tree : Means(strs, folds, Visible)
  BY DEF FileInv, Readable
<1>6. Filled(Visible, at)
  BY <1>1 DEF FilledAt, Filled, Reading
<1> HIDE DEF n
<1>7. q \in 1..n
  BY <1>4
<1> DEFINE f == b.files[q]
           mm == Meaning(strs, folds, f)
<1>8. /\ Passing(Visible, at, q) = Append(Passing(Visible, at, read), mm)
      /\ mm \in Decoded /\ f \in Range(b.files)
  BY <1>1, <1>2, <1>4, <1>5, <1>7, PassingOne DEF n
<1>9. FilesReported \in Seq(FileEntries)
  BY FilesReportedType
<1>10. Begins(FilesOf(Visible), FilesReported)
  BY DEF FileInv, Readable
<1>11. Len(FolderPaths(strs, folds)[f.folderId]) <= MaxDepth
  BY <1>1, <1>2, <1>5, <1>7, <1>9, <1>10, MeaningShort DEF n
<1>12. LineOf(f) = mm /\ f.nameId \in DOMAIN names
  BY <1>1, <1>2, <1>5, <1>6, <1>8, <1>11, LineFound
<1>13. BlockAt(at).files[q] = f
  BY <1>3
<1> HIDE DEF f, mm
<1>14. QED
  BY <1>2, <1>3, <1>7, <1>8, <1>12, <1>13 DEF n

LEMMA FileKept ==
    ASSUME ShortPaths, Whole, FileInv, SearchTypeOK, Follows, ReadFile, NEW q, q = read + 1,
           SeenOf(at) > 1 + Len(BlockAt(at).strings) + Len(BlockAt(at).folders) + read
    PROVE  Follows'
<1> DEFINE b == Visible[at]
           n == Len(b.files)
           f == BlockAt(at).files[q]
           line == LineOf(f)
           p == Passing(Visible, at, read)
           set == HitSet(config.query)
           l == config.limit
<1>0. sight = "kept" /\ search = "files" /\ read < Len(BlockAt(at).files)
  BY DEF ReadFile
<1>1. /\ PlaceAt(search, at, read, Visible, Len(blocks))
      /\ FilledAt(search, at, names, tree, Visible)
      /\ LimitAt(search, config, at, read, results, Visible)
      /\ PassedAt(search, config, at, read, results, promised, Visible, FilesOf(blocks))
      /\ Found(config, at, read, results, Visible)
      /\ WholeAt(search, output, promised, whole, pc, torn, header, FilesOf(blocks), FilesReported)
      /\ Visible \in Seq(Block)
  BY <1>0, ReaderFacts
<1>2. /\ at \in 1..Len(Visible) /\ at > 0 /\ BlockAt(at) = b /\ q \in 1..n
      /\ line \in Decoded /\ f.nameId \in DOMAIN names
      /\ Passing(Visible, at, q) = Append(p, line)
  BY <1>0, FileLine
<1>3. p \in Seq(Decoded) /\ Decoded \subseteq Lines
  BY <1>0, PassedTypes DEF Lines
<1>4. line \in Lines /\ p \in Seq(Lines) /\ Append(p, line) \in Seq(Lines)
  BY <1>2, <1>3, AppendProperties
<1>5. line \in set <=> Matches(line)
  BY <1>2, <1>4 DEF HitSet, Matches, Decoded
<1>6. /\ read' = q
      /\ results' = IF line \in set THEN Append(results, line) ELSE results
      /\ search' = IF line \in set /\ Len(results') >= l THEN "end" ELSE "files"
      /\ UNCHANGED vars
      /\ UNCHANGED <<config, at, names, tree, promised, whole, output>>
  BY <1>0, <1>2, <1>5 DEF ReadFile
<1> HIDE DEF line, p, set, n, f
<1>7. Found(config, at, q, results', Visible)
  <2>1. results = Chosen(p, set)
    BY <1>1, <1>4, HitsChosen DEF Found, p, set
  <2>2. LineHits(config.query, Append(p, line)) = Chosen(Append(p, line), set)
    BY <1>4, HitsChosen DEF set
  <2>3. Chosen(Append(p, line), set) = IF line \in set THEN Append(Chosen(p, set), line)
                                                       ELSE Chosen(p, set)
    BY <1>4, ChosenAppend
  <2>4. results' = LineHits(config.query, Append(p, line))
    BY <1>6, <2>1, <2>2, <2>3
  <2>5. QED
    BY <1>2, <2>4 DEF Found
<1>8. Len(results) \in Nat /\ l \in Nat /\ Len(results) < l
      /\ Len(results') = IF line \in set THEN Len(results) + 1 ELSE Len(results)
  <2>1. results \in Seq(Line \cup {Nonsense}) /\ config \in Configs \cup {NoConfig}
    BY DEF SearchTypeOK
  <2>2. l \in Nat
    BY <2>1, SearchAssumption DEF NoConfig
  <2>3. line \in Line
    BY <1>2 DEF Line, Decoded, Strings
  <2>4. Len(Append(results, line)) = Len(results) + 1
    BY <2>1, <2>3, AppendProperties
  <2>5. Len(results) \in Nat
    BY <2>1, LenProperties
  <2>6. Len(results) < l
    BY <1>0, <1>1 DEF LimitAt
  <2>7. QED
    BY <1>6, <2>2, <2>4, <2>5, <2>6
<1> DEFINE i == Len(results)
           j == Len(results')
<1>9. j <= l /\ (search' = "files" => j < l) /\ (search' = "end" => j = l)
      /\ search' \in {"files", "end"}
  <2>1. /\ search' = "end" => line \in set /\ j >= l
        /\ search' = "files" => line \notin set \/ ~ (j >= l)
        /\ search' \in {"files", "end"}
    BY <1>6
  <2>2. i \in Nat /\ l \in Nat /\ i < l /\ j = IF line \in set THEN i + 1 ELSE i
    BY <1>8
  <2> HIDE DEF i, j, l
  <2>3. QED
    BY <2>1, <2>2
<1>10. LimitAt(search', config, at, q, results', Visible)
  BY <1>9 DEF LimitAt
<1>11. PlaceAt(search', at, q, Visible, Len(blocks))
  <2>1. q <= n
    BY <1>2
  <2>2. QED
    BY <1>1, <1>2, <1>9, <2>1 DEF PlaceAt, n
<1>12. FilledAt(search', at, names, tree, Visible)
  BY <1>0, <1>1, <1>9 DEF FilledAt, Reading
<1>13. PassedAt(search', config, at, q, results', promised, Visible, FilesOf(blocks))
  BY <1>1, <1>9 DEF PassedAt
<1>14. WholeAt(search', output, promised, whole, pc, torn, header, FilesOf(blocks), FilesReported)
  BY <1>1, <1>9 DEF WholeAt
<1>15. QED
  BY <1>6, <1>7, <1>10, <1>11, <1>12, <1>13, <1>14, ReaderParts

LEMMA ReadFileKeeps ==
    ASSUME ShortPaths, Whole, FileInv, SearchTypeOK, Follows, ReadFile
    PROVE  Follows'
<1> DEFINE b == Visible[at]
           before == 1 + Len(BlockAt(at).strings) + Len(BlockAt(at).folders)
           q == read + 1
<1>0. sight = "kept" /\ search = "files" /\ read < Len(BlockAt(at).files)
  BY DEF ReadFile
<1>1. CASE SeenOf(at) > before + read
  BY <1>1, FileKept
<1>2. CASE ~ (SeenOf(at) > before + read)
  <2>1. /\ PlaceAt(search, at, read, Visible, Len(blocks))
        /\ LimitAt(search, config, at, read, results, Visible)
        /\ PassedAt(search, config, at, read, results, promised, Visible, FilesOf(blocks))
        /\ Found(config, at, read, results, Visible)
        /\ WholeAt(search, output, promised, whole, pc, torn, header, FilesOf(blocks), FilesReported)
        /\ Visible \in Seq(Block) /\ read \in Nat
    BY <1>0, ReaderFacts
  <2>2. search' = "failed" /\ UNCHANGED vars
        /\ UNCHANGED <<config, at, read, names, tree, results, promised, whole, output>>
    BY <1>2 DEF ReadFile
  <2>3. at \in 1..Len(Visible) /\ BlockAt(at) = b
    BY <1>0, FileLine
  <2>4. /\ PlaceAt("failed", at, read, Visible, Len(blocks))
        /\ FilledAt("failed", at, names, tree, Visible)
        /\ LimitAt("failed", config, at, read, results, Visible)
        /\ PassedAt("failed", config, at, read, results, promised, Visible, FilesOf(blocks))
    BY <1>0, <2>1 DEF PlaceAt, FilledAt, LimitAt, PassedAt, Reading
  <2>5. whole # "yes"
    <3> SUFFICES ASSUME whole = "yes" PROVE FALSE
      OBVIOUS
    <3>1. torn = <<>>
      BY <2>1 DEF WholeAt
    <3>2. SeenOf(at) = ItemsOf(b)
      BY <2>3, <3>1, WholeIsSeen DEF Whole
    <3>3. Len(b.strings) \in Nat /\ Len(b.folders) \in Nat /\ Len(b.files) \in Nat
      BY <2>1, <2>3, BlockParts
    <3>4. \A i, j, k, r \in Nat : r < k => 1 + i + j + k > 1 + i + j + r
      OBVIOUS
    <3>5. read < Len(b.files)
      BY <1>0, <2>3
    <3>6. 1 + Len(b.strings) + Len(b.folders) + Len(b.files)
            > 1 + Len(b.strings) + Len(b.folders) + read
      BY <2>1, <3>3, <3>4, <3>5
    <3>7. QED
      BY <1>2, <2>3, <3>2, <3>6 DEF ItemsOf
  <2>6. WholeAt("failed", output, promised, whole, pc, torn, header, FilesOf(blocks), FilesReported)
    BY <2>5 DEF WholeAt
  <2>7. QED
    BY <2>1, <2>2, <2>4, <2>6, ReaderParts
<1>3. QED
  BY <1>1, <1>2

(* Every step of the reader, the one on another file included, which promises nothing. *)
LEMMA ReaderKeeps ==
    ASSUME ShortPaths, Whole, FileInv, SearchTypeOK, Follows, SearchStep
    PROVE  Follows'
<1>1. CASE ReadHeader \/ FilesRead \/ ReadEnd
  BY <1>1, ReadHeaderKeeps, FilesReadKeeps, ReadEndKeeps
<1>2. CASE ReadBlock \/ ReadRecords \/ ReadFile
  BY <1>2, ReadBlockKeeps, ReadRecordsKeeps, ReadFileKeeps
<1>3. CASE ReadOther
  BY <1>3 DEF ReadOther, Follows
<1>4. CASE LineSaved \/ LineRefused \/ CloseOutput \/ SearchKilled
  BY <1>4, StreamKeeps
<1>5. QED
  BY <1>1, <1>2, <1>3, <1>4 DEF SearchStep

(* What has been handed to the stream is written out in turn, and no more once it is cut. *)
LEMMA WrittenStep ==
    ASSUME ShortPaths, Whole, FileInv, SearchTypeOK, Follows, WrittenOut, [SearchNext]_allVars
    PROVE  WrittenOut'
<1> DEFINE Out == Line \cup {Nonsense}
           n == Len(lines)
<1>1. results \in Seq(Out) /\ lines \in Seq(Out) /\ n \in Nat /\ Len(results) \in Nat
  BY LenProperties DEF SearchTypeOK
<1>2. ASSUME output' = output, lines' = lines, search' \in Reading => search \in Reading,
             \/ search' = search /\ results' = results
             \/ search \in Reading /\ results' \in {results} \cup {Append(results, x) : x \in Out}
      PROVE  WrittenOut'
  <2>1. ASSUME NEW x \in Out, output # "none"
        PROVE  n <= Len(Append(results, x)) /\ lines = SubSeq(Append(results, x), 1, n)
    <3>1. n <= Len(results) /\ lines = SubSeq(results, 1, n)
      BY <2>1 DEF WrittenOut
    <3>2. Append(results, x) \in Seq(Out) /\ Len(Append(results, x)) = Len(results) + 1
      BY <1>1, AppendProperties
    <3>3. Begins(results, Append(results, x))
      BY <1>1, BeginsAppend
    <3>4. SubSeq(Append(results, x), 1, n) = SubSeq(results, 1, n)
      BY <1>1, <3>1, <3>2, <3>3, SameBeginning
    <3>5. QED
      BY <1>1, <3>1, <3>2, <3>4
  <2>2. QED
    BY <1>2, <2>1 DEF WrittenOut, Reading
<1>3. CASE IndexStep
  BY <1>2, <1>3 DEF IndexStep
<1>4. ASSUME NEW c \in Configs, Open(c) \/ OpenFails(c) \/ EmptyQuery(c)
      PROVE  WrittenOut'
  <2>1. <<>> \in Seq(Out) /\ Len(<<>>) = 0
    BY EmptySeq
  <2>2. <<>> = SubSeq(<<>>, 1, 0)
    BY <2>1, BeginsItself, BeginningIsSubSeq
  <2>3. QED
    <3>1. results' = <<>> /\ search' \in {"header", "failed", "done"}
      BY <1>4 DEF Open, OpenFails, EmptyQuery, Start
    <3>2. \/ search' = "header" /\ output' = "open" /\ lines' = <<>>
          \/ search' \in {"failed", "done"} /\ output' = "none"
          \/ search' = "done" /\ output' = "closed" /\ lines' = <<>>
      BY <1>4 DEF Open, OpenFails, EmptyQuery
    <3>3. lines' = <<>> => Len(lines') <= Len(results') /\ lines' = SubSeq(results', 1, Len(lines'))
      <4>1. 0 <= 0
        OBVIOUS
      <4>2. QED
        BY <2>1, <2>2, <3>1, <4>1, Zenon
    <3>4. QED
      BY <3>1, <3>2, <3>3 DEF WrittenOut, Reading
<1>5. CASE ReadHeader \/ ReadBlock \/ ReadRecords \/ FilesRead \/ ReadEnd
  <2>1. search \in Reading /\ UNCHANGED <<results, output, lines>>
    BY <1>5 DEF ReadHeader, ReadBlock, ReadRecords, FilesRead, ReadEnd, Reading
  <2>2. QED
    BY <1>2, <2>1
<1>6. CASE ReadFile \/ ReadOther
  <2> DEFINE line == LineOf(BlockAt(at).files[read + 1])
  <2>1. ReadFile => line \in Out
    <3> SUFFICES ASSUME ReadFile PROVE line \in Out
      OBVIOUS
    <3>1. sight = "kept" /\ search = "files" /\ read < Len(BlockAt(at).files)
      BY DEF ReadFile
    <3>2. line \in Decoded
      BY <3>1, FileLine
    <3>3. QED
      BY <3>2 DEF Line, Decoded, Strings
  <2>2. /\ search \in Reading /\ UNCHANGED <<output, lines>>
        /\ \/ results' = results
           \/ ReadFile /\ results' = Append(results, line)
           \/ results' = Append(results, Nonsense)
    BY <1>6 DEF ReadFile, ReadOther, Reading
  <2> HIDE DEF line
  <2>3. QED
    BY <1>2, <2>1, <2>2
<1>7. CASE LineSaved
  <2> DEFINE more == Append(lines, results[n + 1])
  <2>1. /\ n < Len(results) /\ lines = SubSeq(results, 1, n)
        /\ output' = output /\ output = "open" /\ lines' = more
        /\ UNCHANGED <<search, results>>
    BY <1>7 DEF LineSaved, WrittenOut
  <2>2. n \in 0..Len(results)
    BY <1>1, <2>1
  <2>3. Begins(lines, results)
    BY <1>1, <2>1, <2>2, BeginsSubSeq
  <2>4. results[n + 1] \in Out /\ Begins(more, results)
    BY <1>1, <2>1, <2>3, AppendToBeginning
  <2>5. more \in Seq(Out)
    BY <1>1, <2>4, AppendProperties
  <2> HIDE DEF more
  <2>6. more = SubSeq(results, 1, Len(more)) /\ Len(more) <= Len(results)
    BY <1>1, <2>4, <2>5, BeginningIsSubSeq DEF Begins
  <2>7. QED
    BY <2>1, <2>6 DEF WrittenOut
<1>8. CASE LineRefused \/ CloseOutput \/ SearchKilled
  BY <1>1, <1>8 DEF LineRefused, CloseOutput, SearchKilled, WrittenOut, Reading
<1>9. CASE UNCHANGED allVars
  BY <1>9 DEF allVars, WrittenOut
<1>10. QED
  BY <1>3, <1>4, <1>5, <1>6, <1>7, <1>8, <1>9 DEF SearchNext, SearchStep

(* Put keeps a map to records of one kind by id. *)
LEMMA PutType ==
    ASSUME NEW R, NEW map, NEW records \in Seq(R), DOMAIN map \subseteq Nat, Range(map) \subseteq R,
           \A r \in R : r.id \in Nat
    PROVE  DOMAIN Put(map, records) \subseteq Nat /\ Range(Put(map, records)) \subseteq R
<1> DEFINE p == Put(map, records)
<1>1. AddedTo(map, records, p)
  BY PutIs
<1> HIDE DEF p
<1>2. Range(records) \subseteq R
  BY RangeOfSeq
<1>3. DOMAIN p \subseteq Nat
  BY <1>1, <1>2 DEF AddedTo, IdsOf
<1>4. ASSUME NEW id \in DOMAIN p PROVE p[id] \in R
  BY <1>1, <1>2 DEF AddedTo, Range
<1>5. QED
  BY <1>3, <1>4 DEF Range, p

LEMMA SearchTypeInit == SearchInit => SearchTypeOK
<1> SUFFICES ASSUME SearchInit PROVE SearchTypeOK
  OBVIOUS
<1>1. DOMAIN <<>> = {} /\ Range(<<>>) = {}
  BY EmptySeq DEF Range
<1>2. <<>> \in Seq(Line \cup {Nonsense}) /\ <<>> \in Seq(Line)
  BY EmptySeq
<1>3. QED
  BY <1>1, <1>2 DEF SearchInit, SearchTypeOK

LEMMA SearchTypeStep ==
    ASSUME ShortPaths, Whole, FileInv, SearchTypeOK, Follows, [SearchNext]_allVars
    PROVE  SearchTypeOK'
<1> DEFINE Out == Line \cup {Nonsense}
<1> USE DEF SearchTypeOK
<1>1. CASE IndexStep
  BY <1>1 DEF IndexStep
<1>2. ASSUME NEW c \in Configs, Open(c) \/ OpenFails(c) \/ EmptyQuery(c)
      PROVE  SearchTypeOK'
  <2>1. DOMAIN <<>> = {} /\ Range(<<>>) = {}
    BY EmptySeq DEF Range
  <2>2. <<>> \in Seq(Out)
    BY EmptySeq
  <2>3. FilesOf(blocks) \in Seq(Line)
    BY BlocksArePart DEF Whole, Line, Decoded, Strings
  <2>4. QED
    <3>1. /\ config' = c /\ at' = 0 /\ read' = 0 /\ names' = <<>> /\ tree' = <<>>
          /\ results' = <<>> /\ promised' = FilesOf(blocks) /\ whole' \in {"yes", "no"}
          /\ sight' = "kept"
      BY <1>2 DEF Open, OpenFails, EmptyQuery, Start
    <3>2. /\ search' \in {"header", "failed", "done"}
          /\ output' \in {"open", "none", "closed"} /\ lines' \in {lines, <<>>}
      BY <1>2 DEF Open, OpenFails, EmptyQuery
    <3>3. QED
      BY <2>1, <2>2, <2>3, <3>1, <3>2 DEF Reading
<1>3. CASE ReadHeader \/ ReadBlock \/ FilesRead \/ ReadEnd
  BY <1>3 DEF ReadHeader, ReadBlock, FilesRead, ReadEnd, Reading
<1>4. CASE ReadRecords
  <2>1. CASE ~ RecordsThere
    BY <1>4, <2>1 DEF ReadRecords, Reading
  <2>2. CASE RecordsThere
    <3> DEFINE b == BlockAt(at)
    <3>1. sight = "kept" /\ search = "records"
      BY <1>4 DEF ReadRecords
    <3>2. at \in 1..Len(Visible) /\ Visible \in Seq(Block)
      BY <3>1, ReaderFacts DEF PlaceAt
    <3>3. b.strings \in Seq(StringRecord) /\ b.folders \in Seq(FolderRecord)
      BY <3>2, BlockParts, BlockSeen DEF Whole
    <3> HIDE DEF b
    <3>4. (\A r \in StringRecord : r.id \in Nat) /\ (\A r \in FolderRecord : r.id \in Nat)
      BY DEF StringRecord, FolderRecord
    <3>5. DOMAIN Put(names, b.strings) \subseteq Nat /\ Range(Put(names, b.strings)) \subseteq StringRecord
      BY <3>3, <3>4, PutType
    <3>6. DOMAIN Put(tree, b.folders) \subseteq Nat /\ Range(Put(tree, b.folders)) \subseteq FolderRecord
      BY <3>3, <3>4, PutType
    <3>7. /\ search' = "files" /\ names' = Put(names, b.strings) /\ tree' = Put(tree, b.folders)
          /\ UNCHANGED <<config, at, read, results, promised, whole, sight, output, lines>>
      BY <1>4, <2>2 DEF ReadRecords, b
    <3>8. QED
      BY <3>5, <3>6, <3>7 DEF Reading
  <2>3. QED
    BY <2>1, <2>2
<1>5. CASE ReadFile
  <2> DEFINE q == read + 1
             line == LineOf(BlockAt(at).files[q])
  <2>1. sight = "kept" /\ search = "files" /\ read < Len(BlockAt(at).files)
    BY <1>5 DEF ReadFile
  <2>2. line \in Decoded
    BY <2>1, FileLine
  <2>3. line \in Out
    BY <2>2 DEF Line, Decoded, Strings
  <2>4. Append(results, line) \in Seq(Out)
    BY <2>3, AppendProperties
  <2>5. /\ results' \in {results, Append(results, line)} /\ read' \in {read, q}
        /\ search' \in {"end", "files", "failed"}
        /\ UNCHANGED <<config, at, names, tree, promised, whole, sight, output, lines>>
    BY <1>5 DEF ReadFile
  <2> HIDE DEF line
  <2>6. q \in Nat
    OBVIOUS
  <2>7. QED
    BY <2>4, <2>5, <2>6 DEF Reading
<1>6. CASE ReadOther
  <2>1. Nonsense \in Out
    OBVIOUS
  <2>2. Append(results, Nonsense) \in Seq(Out)
    BY <2>1, AppendProperties
  <2>3. QED
    BY <1>6, <2>2 DEF ReadOther
<1>7. CASE UNCHANGED allVars
  BY <1>7 DEF allVars
<1>8. CASE LineSaved
  <2>1. Len(lines) + 1 \in 1..Len(results)
    BY <1>8, LenProperties DEF LineSaved
  <2>2. results[Len(lines) + 1] \in Out
    BY <2>1, ElementOfSeq
  <2>3. Append(lines, results[Len(lines) + 1]) \in Seq(Out)
    BY <2>2, AppendProperties
  <2>4. QED
    BY <1>8, <2>3 DEF LineSaved
<1>9. CASE LineRefused \/ CloseOutput \/ SearchKilled
  BY <1>9 DEF LineRefused, CloseOutput, SearchKilled
<1>10. QED
  BY <1>1, <1>2, <1>3, <1>4, <1>5, <1>6, <1>7, <1>8, <1>9 DEF SearchNext, SearchStep

-----------------------------------------------------------------------------
(* The invariant holds. *)

SearchAll == Whole /\ FileInv /\ HeaderInv /\ OpensFile /\ SearchTypeOK /\ Follows
                 /\ WrittenOut

LEMMA FollowsInit == SearchInit => Follows
<1> SUFFICES ASSUME SearchInit PROVE Follows
  OBVIOUS
<1>1. Visible = <<>> /\ blocks = <<>> /\ FilesOf(<<>>) = <<>> /\ Len(<<>>) = 0
  BY NoFiles, EmptySeq DEF SearchInit, Init, Visible
<1>2. /\ search = "none" /\ at = 0 /\ read = 0 /\ results = <<>> /\ promised = <<>>
      /\ whole = "no" /\ config.limit = 0
  BY DEF SearchInit, NoConfig
<1>3. PlaceAt(search, at, read, Visible, Len(blocks))
  BY <1>1, <1>2 DEF PlaceAt
<1>4. FilledAt(search, at, names, tree, Visible)
  BY <1>2 DEF FilledAt, Reading
<1>5. LimitAt(search, config, at, read, results, Visible)
  BY <1>1, <1>2 DEF LimitAt
<1>6. PassedAt(search, config, at, read, results, promised, Visible, FilesOf(blocks))
  <2>1. SubSeq(<<>>, 1, 0) = <<>>
    <3>1. <<>> \in Seq(Nat)
      BY EmptySeq
    <3>2. <<>> = SubSeq(<<>>, 1, Len(<<>>))
      BY <3>1, BeginsItself, BeginningIsSubSeq
    <3>3. QED
      BY <1>1, <3>2
  <2>2. QED
    BY <1>1, <1>2, <2>1 DEF PassedAt
<1>7. Found(config, at, read, results, Visible)
  <2>1. Passing(Visible, at, read) = <<>> /\ <<>> \in Seq(Lines)
    BY <1>2, EmptySeq DEF Passing
  <2>2. LineHits(config.query, <<>>) = <<>>
    BY <2>1, HitsChosen, ChosenEmpty
  <2>3. QED
    BY <1>2, <2>1, <2>2 DEF Found
<1>8. WholeAt(search, output, promised, whole, pc, torn, header, FilesOf(blocks), FilesReported)
  BY <1>2 DEF WholeAt
<1>9. QED
  BY <1>3, <1>4, <1>5, <1>6, <1>7, <1>8, SearchParts

LEMMA WrittenInit == SearchInit => WrittenOut
BY DEF SearchInit, WrittenOut, Reading

LEMMA SearchAllInit == SearchInit => SearchAll
<1>1. SearchInit => HeaderInv /\ OpensFile
  BY DEF SearchInit, Init, HeaderInv, OpensFile
<1>2. SearchInit => Whole /\ FileInv
  BY WholeInit, FileInvInit DEF SearchInit
<1>3. QED
  BY <1>1, <1>2, SearchTypeInit, FollowsInit, WrittenInit DEF SearchAll

LEMMA FollowsStep ==
    ASSUME ShortPaths, SearchAll, [SearchNext]_allVars
    PROVE  Follows'
<1> USE DEF SearchAll
<1>1. CASE IndexStep
  BY <1>1, IndexStepKeeps
<1>2. ASSUME NEW c \in Configs, Open(c) \/ OpenFails(c) \/ EmptyQuery(c)
      PROVE  Follows'
  BY <1>2, StartKeeps
<1>3. CASE SearchStep
  BY <1>3, ReaderKeeps
<1>4. CASE UNCHANGED allVars
  <2>1. UNCHANGED vars /\ UNCHANGED searchVars /\ UNCHANGED <<search, config, at, read, names,
          tree, results, promised, whole, sight, output>>
    BY <1>4 DEF allVars
  <2>2. QED
    BY <2>1, ReaderParts, SearchParts
<1>5. QED
  BY <1>1, <1>2, <1>3, <1>4 DEF SearchNext

LEMMA SearchAllStep ==
    ASSUME ShortPaths, SearchAll, [SearchNext]_allVars
    PROVE  SearchAll'
<1>1. [Next]_vars
  BY EngineMoves
<1>2. Whole' /\ FileInv' /\ HeaderInv' /\ OpensFile'
  BY <1>1, WholeStep, FileInvStep, HeaderStep DEF SearchAll
<1>3. SearchTypeOK' /\ Follows' /\ WrittenOut'
  BY SearchTypeStep, FollowsStep, WrittenStep DEF SearchAll
<1>4. QED
  BY <1>2, <1>3 DEF SearchAll

LEMMA SearchAllHolds ==
    ASSUME ShortPaths
    PROVE  SearchSpec => []SearchAll
<1>1. SearchAll /\ [SearchNext]_allVars => SearchAll'
  BY SearchAllStep
<1>2. QED
  BY <1>1, SearchAllInit, PTL DEF SearchSpec

(* What runSearch stores, its maps and its lines have their types: every line is put together
   from names the indexer has seen, or is made up from a file that was truncated. *)
THEOREM SearchTypeCorrect ==
    ASSUME ShortPaths
    PROVE  SearchSpec => []SearchTypeOK
<1>1. SearchAll => SearchTypeOK
  BY DEF SearchAll
<1>2. QED
  BY <1>1, SearchAllHolds, PTL

(* How far runSearch is, what its maps hold and what its lines are, in every interleaving
   with the index process. *)
THEOREM SearchInvariant ==
    ASSUME ShortPaths
    PROVE  SearchSpec => []SearchInv
<1>1. SearchAll => SearchInv
  BY DEF SearchAll, SearchInv
<1>2. QED
  BY <1>1, SearchAllHolds, PTL

-----------------------------------------------------------------------------
(* What the invariant means for the one who reads the results. *)

LEMMA FirstIs ==
    ASSUME NEW S, NEW r \in Seq(S), NEW s \in Seq(S), Begins(r, s)
    PROVE  r = FirstOf(s, Len(r))
<1>1. Len(r) \in Nat /\ Len(s) \in Nat /\ Len(r) <= Len(s)
  BY LenProperties DEF Begins
<1>2. r = SubSeq(s, 1, Len(r))
  BY BeginningIsSubSeq
<1> DEFINE n == Len(r)
           m == Len(s)
<1>3. n \in Nat /\ m \in Nat /\ n <= m
  BY <1>1
<1> HIDE DEF n, m
<1>4. n = (IF n < m THEN n ELSE m)
  BY <1>3
<1>5. QED
  BY <1>2, <1>4 DEF FirstOf, n, m

LEMMA FirstType ==
    ASSUME NEW S, NEW s \in Seq(S), NEW n \in Nat
    PROVE  /\ FirstOf(s, n) \in Seq(S) /\ Begins(FirstOf(s, n), s)
           /\ Len(FirstOf(s, n)) <= n /\ Len(FirstOf(s, n)) \in Nat
           /\ Len(s) <= n => FirstOf(s, n) = s
<1> DEFINE m == Len(s)
           k == IF n < m THEN n ELSE m
<1>1. m \in Nat
  BY LenProperties
<1>2. FirstOf(s, n) = SubSeq(s, 1, k)
  BY DEF FirstOf
<1>3. s = SubSeq(s, 1, m)
  BY BeginsItself, BeginningIsSubSeq
<1> HIDE DEF m
<1>4. k \in 0..m /\ k \in Nat /\ k <= n /\ (m <= n => k = m)
  BY <1>1
<1> HIDE DEF k
<1>5. SubSeq(s, 1, k) \in Seq(S) /\ Len(SubSeq(s, 1, k)) = k /\ Begins(SubSeq(s, 1, k), s)
  BY <1>4, BeginsSubSeq DEF m
<1>6. m <= n => SubSeq(s, 1, k) = s
  BY <1>3, <1>4
<1>7. QED
  BY <1>2, <1>4, <1>5, <1>6 DEF m

(* The hits among the entries are those among the files. *)
LEMMA HitsReported ==
    ASSUME Whole
    PROVE  /\ Hits(reported) = Chosen(FilesReported, HitSet(config.query))
           /\ FilesReported \in Seq(Lines)
<1> DEFINE q == config.query
<1>1. reported \in Seq(Entries) /\ reported \in Seq(Lines)
  BY DEF Whole, Typed, TypeOK, Lines
<1>2. Hits(reported) = LineHits(q, reported)
  BY DEF Hits, Hit, LineHits
<1>3. Hits(reported) = Chosen(reported, HitSet(q))
  BY <1>1, <1>2, HitsChosen
<1>4. FilesReported = Chosen(reported, FileEntries)
  <2> DEFINE a == [i \in DOMAIN reported |-> IF IsFile(reported[i]) THEN <<reported[i]>> ELSE <<>>]
             b == [i \in DOMAIN reported |->
                     IF reported[i] \in FileEntries THEN <<reported[i]>> ELSE <<>>]
  <2>1. \A i \in DOMAIN reported : reported[i] \in Entries
    BY <1>1, ElementOfSeq, LenProperties
  <2>2. a = b
    BY <2>1 DEF FileEntries
  <2>3. QED
    BY <2>2, ReportedFiles DEF FilesAmong, Chosen
<1>5. \A e \in Entries : e \in HitSet(q) => e \in FileEntries
  BY DEF HitSet, FileEntries, IsFile
<1>6. Chosen(Chosen(reported, FileEntries), HitSet(q)) = Chosen(reported, HitSet(q))
  BY <1>1, <1>5, ChosenTwice
<1>7. FilesReported \in Seq(Lines)
  BY FilesReportedType DEF Lines
<1>8. QED
  BY <1>3, <1>4, <1>6, <1>7

LEMMA Ordered ==
    ASSUME SearchAll, sight = "kept"
    PROVE  LET p == Passing(Visible, at, read)
               set == HitSet(config.query)
           IN  /\ p \in Seq(Lines) /\ FilesOf(Visible) \in Seq(Lines)
               /\ promised \in Seq(Lines)
               /\ Begins(p, FilesOf(Visible)) /\ Begins(promised, FilesOf(Visible))
               /\ Begins(p, FilesReported)
               /\ results = Chosen(p, set) /\ Hits(promised) = Chosen(promised, set)
               /\ \A s \in Seq(Lines) : Chosen(s, set) \in Seq(Lines)
<1> DEFINE p == Passing(Visible, at, read)
           set == HitSet(config.query)
           v == FilesOf(Visible)
<1> USE DEF SearchAll
<1>1. p \in Seq(Decoded) /\ Begins(p, v) /\ v \in Seq(Decoded) /\ FilesOf(blocks) \in Seq(Decoded)
      /\ Begins(FilesOf(blocks), v)
  BY PassedTypes, BlocksArePart DEF Whole
<1>2. Line = Decoded
  BY DEF Line, Decoded, Strings
<1>3. promised \in Seq(Decoded)
  BY <1>2 DEF SearchTypeOK
<1>4. PassedAt(search, config, at, read, results, promised, Visible, FilesOf(blocks))
      /\ Found(config, at, read, results, Visible)
  BY ReaderFacts
<1>5. Begins(promised, v)
  <2>1. Len(promised) <= Len(FilesOf(blocks)) /\ promised = SubSeq(FilesOf(blocks), 1, Len(promised))
    BY <1>4 DEF PassedAt
  <2>2. Len(promised) \in 0..Len(FilesOf(blocks))
    BY <1>1, <1>3, <2>1, LenProperties
  <2>3. Begins(promised, FilesOf(blocks))
    BY <1>1, <2>1, <2>2, BeginsSubSeq
  <2>4. QED
    BY <1>1, <1>3, <2>3, BeginsTrans
<1>6. Begins(v, FilesReported) /\ FilesReported \in Seq(Decoded)
  BY FilesReportedType DEF FileInv, Readable
<1>7. Begins(p, FilesReported)
  BY <1>1, <1>6, BeginsTrans
<1>8. p \in Seq(Lines) /\ v \in Seq(Lines) /\ promised \in Seq(Lines)
  BY <1>1, <1>3 DEF Lines
<1>9. results = Chosen(p, set)
  BY <1>4, <1>8, HitsChosen DEF Found
<1>10. Hits(promised) = Chosen(promised, set)
  <2>1. Hits(promised) = LineHits(config.query, promised)
    BY DEF Hits, Hit, LineHits
  <2>2. QED
    BY <1>8, <2>1, HitsChosen
<1>11. \A s \in Seq(Lines) : Chosen(s, set) \in Seq(Lines)
  BY ChosenType
<1>12. QED
  BY <1>1, <1>5, <1>7, <1>8, <1>9, <1>10, <1>11

LEMMA LinesTrue == SearchAll => ResultsTrue
<1> SUFFICES ASSUME SearchAll, sight = "kept", output # "none"
             PROVE  lines = FirstOf(Hits(reported), Len(lines)) /\ Len(lines) <= config.limit
  BY DEF ResultsTrue
<1> DEFINE p == Passing(Visible, at, read)
           set == HitSet(config.query)
           all == Chosen(FilesReported, set)
<1>1. /\ p \in Seq(Lines) /\ Begins(p, FilesReported) /\ results = Chosen(p, set)
      /\ \A s \in Seq(Lines) : Chosen(s, set) \in Seq(Lines)
  BY Ordered
<1>2. Hits(reported) = all /\ FilesReported \in Seq(Lines)
  BY HitsReported DEF SearchAll
<1>3. Begins(results, all) /\ results \in Seq(Lines) /\ all \in Seq(Lines)
  BY <1>1, <1>2, ChosenBegins
<1> HIDE DEF all
<1>4. lines = FirstOf(all, Len(lines)) /\ Len(lines) <= Len(results)
  <2>1. lines = SubSeq(results, 1, Len(lines)) /\ Len(lines) <= Len(results)
    BY DEF SearchAll, WrittenOut
  <2>2. Len(lines) \in 0..Len(results)
    BY <1>3, <2>1, LenProperties DEF SearchAll, SearchTypeOK
  <2>3. lines \in Seq(Lines) /\ Begins(lines, results)
    BY <1>3, <2>1, <2>2, BeginsSubSeq
  <2>4. QED
    BY <1>3, <2>1, <2>3, BeginsTrans, FirstIs
<1>5. Len(lines) <= config.limit
  <2>1. Len(results) <= config.limit /\ config \in Configs \cup {NoConfig}
    BY ReaderFacts DEF SearchAll, LimitAt, SearchTypeOK
  <2>2. config.limit \in Nat
    BY <2>1, SearchAssumption DEF NoConfig
  <2>3. Len(lines) \in Nat /\ Len(results) \in Nat
    BY <1>3, LenProperties DEF SearchAll, SearchTypeOK
  <2>4. QED
    BY <1>4, <2>1, <2>2, <2>3
<1>6. QED
  BY <1>2, <1>4, <1>5

LEMMA NoQuery ==
    ASSUME config.query = {}
    PROVE  \A s \in Seq(Lines) : Chosen(s, HitSet(config.query)) = <<>>
<1>1. \A x \in Lines : x \notin HitSet(config.query)
  BY DEF HitSet
<1>2. QED
  BY <1>1, ChosenNone

LEMMA CommittedTrue == SearchAll => FindsCommitted
<1> DEFINE set == HitSet(config.query)
           p == Passing(Visible, at, read)
           all == Chosen(FilesOf(Visible), set)
           told == Chosen(promised, set)
           hits == FirstOf(told, config.limit)
<1> SUFFICES ASSUME SearchAll, sight = "kept", search = "done"
             PROVE  FirstOf(Hits(promised), config.limit)
                      = FirstOf(results, Len(FirstOf(Hits(promised), config.limit)))
  BY DEF FindsCommitted, SearchAll, WrittenOut
<1>1. /\ p \in Seq(Lines) /\ FilesOf(Visible) \in Seq(Lines) /\ promised \in Seq(Lines)
      /\ Begins(p, FilesOf(Visible)) /\ Begins(promised, FilesOf(Visible))
      /\ results = Chosen(p, set) /\ Hits(promised) = told
      /\ \A s \in Seq(Lines) : Chosen(s, set) \in Seq(Lines)
  BY Ordered
<1>2. Begins(results, all) /\ Begins(told, all)
  BY <1>1, ChosenBegins
<1>3. results \in Seq(Lines) /\ all \in Seq(Lines) /\ told \in Seq(Lines)
  BY <1>1
<1>4. config.limit \in Nat
  <2>1. config \in Configs \cup {NoConfig}
    BY DEF SearchAll, SearchTypeOK
  <2>2. QED
    BY <2>1, SearchAssumption DEF NoConfig
<1>5. config.query = {} \/ Len(results) = config.limit \/ Len(promised) <= Len(p)
  BY ReaderFacts DEF SearchAll, PassedAt
<1>6. Len(promised) <= Len(p) => Begins(told, results)
  <2> SUFFICES ASSUME Len(promised) <= Len(p) PROVE Begins(told, results)
    OBVIOUS
  <2>1. Begins(promised, p)
    BY <1>1, BeginsShorter
  <2>2. QED
    BY <1>1, <2>1, ChosenBegins
<1>7. config.query = {} => told = <<>>
  BY <1>1, NoQuery
<1> HIDE DEF p, all, told, set
<1>8. /\ hits \in Seq(Lines) /\ Begins(hits, told) /\ Len(hits) <= config.limit
      /\ Len(hits) \in Nat
  BY <1>3, <1>4, FirstType
<1>9. Len(results) \in Nat /\ Len(told) \in Nat /\ Len(hits) <= Len(told)
  BY <1>3, <1>8, LenProperties DEF Begins
<1> HIDE DEF hits
<1>10. Len(hits) <= Len(results)
  <2>1. CASE config.query = {}
    <3>1. Len(told) = 0
      BY <1>7, <2>1, EmptySeq
    <3>2. QED
      BY <1>8, <1>9, <3>1
  <2>2. CASE Len(results) = config.limit
    BY <1>8, <2>2
  <2>3. CASE Len(promised) <= Len(p)
    <3>1. Len(told) <= Len(results)
      BY <1>6, <2>3 DEF Begins
    <3>2. QED
      BY <1>8, <1>9, <3>1
  <2>4. QED
    BY <1>5, <2>1, <2>2, <2>3
<1>11. Begins(hits, all)
  BY <1>2, <1>3, <1>8, BeginsTrans
<1>12. Begins(hits, results)
  BY <1>2, <1>3, <1>8, <1>10, <1>11, BeginsShorter
<1>13. hits = FirstOf(results, Len(hits))
  BY <1>3, <1>8, <1>12, FirstIs
<1>14. QED
  BY <1>1, <1>13 DEF hits

LEMMA AllTrue == SearchAll => FindsAll
<1> DEFINE set == HitSet(config.query)
           p == Passing(Visible, at, read)
           all == Chosen(FilesReported, set)
           l == config.limit
<1> SUFFICES ASSUME SearchAll, sight = "kept", whole = "yes"
             PROVE  /\ search = "failed" => output = "none"
                    /\ search = "done" => results = FirstOf(Hits(reported), l)
  BY DEF FindsAll, SearchAll, WrittenOut
<1>1. /\ p \in Seq(Lines) /\ FilesOf(Visible) \in Seq(Lines) /\ promised \in Seq(Lines)
      /\ Begins(p, FilesOf(Visible)) /\ Begins(p, FilesReported)
      /\ results = Chosen(p, set)
      /\ \A s \in Seq(Lines) : Chosen(s, set) \in Seq(Lines)
  BY Ordered
<1>2. Hits(reported) = all /\ FilesReported \in Seq(Lines)
  BY HitsReported DEF SearchAll
<1>3. /\ WholeAt(search, output, promised, whole, pc, torn, header, FilesOf(blocks), FilesReported)
      /\ LimitAt(search, config, at, read, results, Visible)
      /\ PassedAt(search, config, at, read, results, promised, Visible, FilesOf(blocks))
  BY ReaderFacts DEF SearchAll
<1>4. (search = "failed" => output = "none") /\ torn = <<>> /\ promised = FilesReported
  BY <1>3 DEF WholeAt
<1>5. search = "done" => config.query = {} \/ Len(results) = l \/ Len(promised) <= Len(p)
  BY <1>3, <1>4 DEF PassedAt
<1>6. l \in Nat
  <2>1. config \in Configs \cup {NoConfig}
    BY DEF SearchAll, SearchTypeOK
  <2>2. QED
    BY <2>1, SearchAssumption DEF NoConfig
<1>7. Begins(results, all) /\ results \in Seq(Lines) /\ all \in Seq(Lines)
  BY <1>1, <1>2, ChosenBegins
<1>8. Len(results) <= l /\ Len(results) \in Nat
  BY <1>3, <1>7, LenProperties DEF LimitAt
<1>9. config.query = {} => all = <<>> /\ results = <<>>
  BY <1>1, <1>2, NoQuery
<1>10. Len(promised) <= Len(p) => results = all
  <2> SUFFICES ASSUME Len(promised) <= Len(p) PROVE results = all
    OBVIOUS
  <2>1. p = FilesReported
    BY <1>1, <1>2, <1>4, BeginsEqual
  <2>2. QED
    BY <1>1, <2>1
<1> HIDE DEF p, all, set, l
<1>11. ASSUME search = "done" PROVE results = FirstOf(all, l)
  <2>1. CASE Len(results) = l
    BY <1>7, <2>1, FirstIs
  <2>2. CASE results = all
    BY <1>6, <1>7, <1>8, <2>2, FirstType
  <2>3. QED
    BY <1>5, <1>9, <1>10, <1>11, <2>1, <2>2
<1>12. QED
  BY <1>2, <1>4, <1>11 DEF l

(* As long as the index is not truncated, every line of the results file is a matching file
   that the scanner reported, with its true path and extension, in the order of the scan,
   without a gap and within the limit: whatever blocks the indexer writes or tears meanwhile,
   wherever a line is refused, and wherever the search is killed. *)
THEOREM ResultsAreTrue ==
    ASSUME ShortPaths
    PROVE  SearchSpec => []ResultsTrue
BY LinesTrue, SearchAllHolds, PTL

(* A search that exits with 0 has put every match of the blocks that were complete when it
   started, up to its limit, into the results file, unless that refused a line. *)
THEOREM CommittedFound ==
    ASSUME ShortPaths
    PROVE  SearchSpec => []FindsCommitted
BY CommittedTrue, SearchAllHolds, PTL

(* A search of an index that had ended with every write made fails only if the index or the
   results file cannot be opened, and puts every match of the scan, up to its limit, into the
   results file, unless that refused a line, whatever processes start and end meanwhile. *)
THEOREM AllFound ==
    ASSUME ShortPaths
    PROVE  SearchSpec => []FindsAll
BY AllTrue, SearchAllHolds, PTL
=============================================================================
