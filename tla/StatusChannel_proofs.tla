----------------------- MODULE StatusChannel_proofs ------------------------
(* Proofs about StatusChannel: the types, and that no reader returns a torn text
   or reports a corrupted length, for any texts, sizes, readers and bounds. *)
EXTENDS StatusChannel, TLAPS

USE DEF ChannelAssumption, Fields, Cells, Texts, mapping, writer, reading, history, Running

-----------------------------------------------------------------------------
(* Even parity, step by step: all that is needed of %. *)
LEMMA Parity ==
    \A n \in Nat : /\ n % 2 \in {0, 1}
                   /\ (n + 1) % 2 = 0 <=> n % 2 = 1
    OBVIOUS

(* writeJson never copies more than fits. *)
LEMMA CopiedType == \A m \in Texts : Copied(m) \in 0..MaxSize
    BY ChannelAssumption DEF Copied

LEMMA BlankType == Blank \in [Cells -> Texts]
    BY DEF Blank

(* The variables keep the types of the layout and of the locals of readSnapshot. *)
THEOREM TypeCorrect == Spec => []TypeOK
<1>1. Init => TypeOK
  BY ChannelAssumption, BlankType DEF Init, TypeOK
<1>2. TypeOK /\ [Next]_vars => TypeOK'
  <2> SUFFICES ASSUME TypeOK, [Next]_vars PROVE TypeOK'
    OBVIOUS
  <2> USE ChannelAssumption, CopiedType, BlankType DEF TypeOK
  <2>1. CASE CreateMapping
    BY <2>1 DEF CreateMapping, Construct
  <2>2. CASE ReuseMapping
    BY <2>2 DEF ReuseMapping, Construct
  <2>3. CASE Constructed
    BY <2>3 DEF Constructed
  <2>4. ASSUME NEW f \in Fields, ResetField(f) PROVE TypeOK'
    BY <2>4 DEF ResetField
  <2>5. ASSUME NEW i \in Cells, ResetByte(i) PROVE TypeOK'
    BY <2>5 DEF ResetByte
  <2>6. ASSUME NEW i \in Cells, StoreByte(i) PROVE TypeOK'
    BY <2>6 DEF StoreByte
  <2>7. ASSUME NEW m \in Messages, BeginWrite(m) PROVE TypeOK'
    BY <2>7 DEF BeginWrite
  <2>8. CASE StoreLength
    BY <2>8 DEF StoreLength
  <2>9. CASE EndWrite
    BY <2>9 DEF EndWrite
  <2>10. CASE IndexerGone
    BY <2>10 DEF IndexerGone
  <2>11. ASSUME NEW r \in Readers, Open(r) PROVE TypeOK'
    BY <2>11 DEF Open
  <2>12. ASSUME NEW r \in Readers, OpenFails(r) PROVE TypeOK'
    BY <2>12 DEF OpenFails, Answer
  <2>13. ASSUME NEW r \in Readers, CheckMagic(r) PROVE TypeOK'
    BY <2>13 DEF CheckMagic, Answer
  <2>14. ASSUME NEW r \in Readers, ReadBefore(r) PROVE TypeOK'
    <3>1. CASE version % 2 = 0
      BY <2>14, <3>1 DEF ReadBefore
    <3>2. CASE version % 2 # 0
      <4>1. attempt' \in [Readers -> Nat]
        BY <2>14, <3>2 DEF ReadBefore
      <4>2. disturbed' \subseteq Readers \cup {Indexer}
        BY <2>14 DEF ReadBefore
      <4>3. before' \in [Readers -> Nat]
        BY <2>14 DEF ReadBefore
      <4>4. QED
        BY <2>14, <3>2, <4>1, <4>2, <4>3 DEF ReadBefore
    <3>3. QED
      BY <3>1, <3>2
  <2>15. ASSUME NEW r \in Readers, GiveUp(r) PROVE TypeOK'
    BY <2>15 DEF GiveUp, Answer
  <2>16. ASSUME NEW r \in Readers, ReadLength(r) PROVE TypeOK'
    <3>1. CASE jsonLength > MaxSize
      BY <2>16, <3>1 DEF ReadLength, Answer
    <3>2. CASE ~(jsonLength > MaxSize)
      <4>1. 1..jsonLength \in SUBSET Cells
        BY <3>2
      <4>2. toCopy' \in [Readers -> SUBSET Cells]
        <5>1. toCopy' = [toCopy EXCEPT ![r] = 1..jsonLength]
          BY <2>16, <3>2 DEF ReadLength
        <5>2. QED
          BY <4>1, <5>1
      <4>3. length' \in [Readers -> 0..MaxSize]
        BY <2>16 DEF ReadLength
      <4>4. QED
        BY <2>16, <3>2, <4>2, <4>3 DEF ReadLength
    <3>3. QED
      BY <3>1, <3>2
  <2>17. ASSUME NEW r \in Readers, CopyByte(r) PROVE TypeOK'
    BY <2>17 DEF CopyByte
  <2>18. ASSUME NEW r \in Readers, ReadAfter(r) PROVE TypeOK'
    <3>1. CASE Undisturbed(r)
      BY <2>18, <3>1 DEF ReadAfter, Answer
    <3>2. CASE ~Undisturbed(r)
      <4>1. attempt' = [attempt EXCEPT ![r] = @ + 1]
        BY <2>18, <3>2 DEF ReadAfter
      <4>3. attempt' \in [Readers -> Nat]
        BY <4>1
      <4>2. QED
        BY <2>18, <3>2, <4>3 DEF ReadAfter
    <3>3. QED
      BY <3>1, <3>2
  <2>19. CASE UNCHANGED vars
    BY <2>19 DEF vars
  <2>20. QED
    BY <2>1, <2>2, <2>3, <2>4, <2>5, <2>6, <2>7, <2>8, <2>9, <2>10, <2>11, <2>12,
       <2>13, <2>14, <2>15, <2>16, <2>17, <2>18, <2>19 DEF Next, ReadStep
<1>3. QED
  BY <1>1, <1>2, PTL DEF Spec

-----------------------------------------------------------------------------
(* What the four conjuncts about the writer depend on. *)
Written == Settled /\ WriteInProgress /\ ResetInProgress /\ WriterParity

(* A step of the writer keeps its own conjuncts. *)
LEMMA WriterKeepsWritten ==
    ASSUME TypeOK, Written,
           \/ CreateMapping \/ ReuseMapping \/ Constructed
           \/ \E f \in Fields : ResetField(f)
           \/ \E i \in Cells : ResetByte(i) \/ StoreByte(i)
           \/ \E m \in Messages : BeginWrite(m)
           \/ StoreLength \/ EndWrite \/ IndexerGone
    PROVE  Written'
<1> USE ChannelAssumption, Parity, CopiedType
    DEF TypeOK, Written, Settled, WriteInProgress, ResetInProgress, WriterParity
<1>1. CASE CreateMapping
  BY <1>1 DEF CreateMapping, Construct, Copied
<1>2. CASE ReuseMapping
  BY <1>2 DEF ReuseMapping, Construct
<1>3. CASE Constructed
  BY <1>3 DEF Constructed, Copied
<1>4. ASSUME NEW f \in Fields, ResetField(f) PROVE Written'
  BY <1>4 DEF ResetField, Copied
<1>5. ASSUME NEW i \in Cells, ResetByte(i) PROVE Written'
  BY <1>5 DEF ResetByte, Copied
<1>6. ASSUME NEW i \in Cells, StoreByte(i) PROVE Written'
  BY <1>6 DEF StoreByte
<1>7. ASSUME NEW m \in Messages, BeginWrite(m) PROVE Written'
  BY <1>7 DEF BeginWrite
<1>8. CASE StoreLength
  BY <1>8 DEF StoreLength
<1>9. CASE EndWrite
  BY <1>9 DEF EndWrite
<1>10. CASE IndexerGone
  BY <1>10 DEF IndexerGone
<1>11. QED
  BY <1>1, <1>2, <1>3, <1>4, <1>5, <1>6, <1>7, <1>8, <1>9, <1>10

(* A step of the writer leaves every read in progress valid: it moves the version up
   before it stores anything, or it disturbs the reader. *)
LEMMA WriterKeepsReadings ==
    ASSUME TypeOK, Written, Readings,
           \/ CreateMapping \/ ReuseMapping \/ Constructed
           \/ \E f \in Fields : ResetField(f)
           \/ \E i \in Cells : ResetByte(i) \/ StoreByte(i)
           \/ \E m \in Messages : BeginWrite(m)
           \/ StoreLength \/ EndWrite \/ IndexerGone
    PROVE  Readings'
<1> SUFFICES ASSUME NEW r \in Readers
             PROVE  (/\ Running(r) => r \in holders
                     /\ rpc[r] # "done" => result[r] = "none"
                     /\ ReadInProgress(r))'
  BY DEF Readings
<1>0. /\ Running(r) => r \in holders
      /\ rpc[r] # "done" => result[r] = "none"
      /\ ReadInProgress(r)
  BY DEF Readings
<1> USE ChannelAssumption, Parity, <1>0 DEF TypeOK, ReadInProgress
<1>1. CASE CreateMapping
  BY <1>1 DEF CreateMapping, Construct
<1>2. CASE ReuseMapping
  BY <1>2 DEF ReuseMapping, Construct
<1>3. CASE Constructed
  BY <1>3 DEF Constructed
<1>4. ASSUME NEW f \in Fields, ResetField(f)
      PROVE  (Running(r) => r \in holders)' /\ (rpc[r] # "done" => result[r] = "none")' /\ ReadInProgress(r)'
  <2>1. contents = "own" => version' = version /\ jsonLength' = jsonLength
    BY <1>4 DEF ResetField, Written, ResetInProgress
  <2>2. UNCHANGED <<holders, json, reading, history>>
    BY <1>4 DEF ResetField
  <2>3. QED
    BY <2>1, <2>2
<1>5. ASSUME NEW i \in Cells, ResetByte(i)
      PROVE  (Running(r) => r \in holders)' /\ (rpc[r] # "done" => result[r] = "none")' /\ ReadInProgress(r)'
  <2>1. contents = "own" => version = 0 /\ jsonLength = 0
    BY <1>5 DEF ResetByte, Written, ResetInProgress
  <2>2. UNCHANGED <<holders, version, jsonLength, reading, history>>
    BY <1>5 DEF ResetByte
  <2>3. QED
    BY <2>1, <2>2
<1>6. ASSUME NEW i \in Cells, StoreByte(i)
      PROVE  (Running(r) => r \in holders)' /\ (rpc[r] # "done" => result[r] = "none")' /\ ReadInProgress(r)'
  <2>1. version % 2 = 1
    BY <1>6 DEF StoreByte, Written, WriteInProgress
  <2>2. rpc[r] \in {"length", "copy"} /\ r \notin disturbed => before[r] # version
    <3>1. 0 # 1
      OBVIOUS
    <3>2. rpc[r] \in {"length", "copy"} /\ r \notin disturbed => before[r] % 2 = 0
      BY <1>0
    <3>3. QED
      BY <2>1, <3>1, <3>2, Zenon
  <2>3. UNCHANGED <<holders, version, reading, history>>
    BY <1>6 DEF StoreByte
  <2>4. QED
    BY <2>2, <2>3
<1>7. ASSUME NEW m \in Messages, BeginWrite(m)
      PROVE  (Running(r) => r \in holders)' /\ (rpc[r] # "done" => result[r] = "none")' /\ ReadInProgress(r)'
  <2>1. version' = version + 1 /\ UNCHANGED <<holders, reading, history>>
    BY <1>7 DEF BeginWrite
  <2>2. QED
    BY <2>1
<1>8. CASE StoreLength
  <2>1. version % 2 = 1
    BY <1>8 DEF StoreLength, Written, WriteInProgress
  <2>2. rpc[r] \in {"length", "copy"} /\ r \notin disturbed => before[r] # version
    <3>1. 0 # 1
      OBVIOUS
    <3>2. rpc[r] \in {"length", "copy"} /\ r \notin disturbed => before[r] % 2 = 0
      BY <1>0
    <3>3. QED
      BY <2>1, <3>1, <3>2, Zenon
  <2>3. UNCHANGED <<holders, version, reading, history>>
    BY <1>8 DEF StoreLength
  <2>4. QED
    BY <2>2, <2>3
<1>9. CASE EndWrite
  BY <1>9 DEF EndWrite
<1>10. CASE IndexerGone
  BY <1>10 DEF IndexerGone
<1>11. QED
  BY <1>1, <1>2, <1>3, <1>4, <1>5, <1>6, <1>7, <1>8, <1>9, <1>10

(* Neither answers nor the copies behind them change when the writer moves. *)
LEMMA WriterKeepsAnswers ==
    ASSUME NoTornSnapshot, NeverCorrupted, UNCHANGED reading,
           disturbed \subseteq disturbed'
    PROVE  NoTornSnapshot' /\ NeverCorrupted'
BY DEF NoTornSnapshot, NeverCorrupted, CopyOf

LEMMA WriterStep ==
    ASSUME \/ CreateMapping \/ ReuseMapping \/ Constructed
           \/ \E f \in Fields : ResetField(f)
           \/ \E i \in Cells : ResetByte(i) \/ StoreByte(i)
           \/ \E m \in Messages : BeginWrite(m)
           \/ StoreLength \/ EndWrite \/ IndexerGone
    PROVE  UNCHANGED reading /\ disturbed \subseteq disturbed'
BY DEF CreateMapping, ReuseMapping, Construct, Constructed, ResetField, ResetByte,
       StoreByte, BeginWrite, StoreLength, EndWrite, IndexerGone

(* A reader that gets its second load of an unmoved version holds the last text. *)
LEMMA AnswerIsLast ==
    ASSUME TypeOK, Written, Readings, NEW r \in Readers, r \notin disturbed,
           ReadAfter(r), before[r] = version
    PROVE  wpc # "writing" /\ CopyOf(r, message)
<1> USE DEF TypeOK
<1>1. /\ rpc[r] = "copy" /\ toCopy[r] = {}
  BY DEF ReadAfter
<1>2. ReadInProgress(r)
  BY DEF Readings
<1>3. /\ contents = "own" /\ version % 2 = 0
      /\ length[r] = jsonLength
      /\ \A i \in 1..length[r] : copy[r][i] = json[i]
  BY <1>1, <1>2 DEF ReadInProgress
<1>4. wpc # "writing"
  BY <1>3 DEF Written, WriteInProgress
<1>5. jsonLength = Copied(message) /\ \A i \in 1..Copied(message) : json[i] = message
  BY <1>3, <1>4 DEF Written, Settled
<1>6. QED
  BY <1>3, <1>4, <1>5 DEF CopyOf

(* What a step of reader r leaves alone: the mapping, the writer, the other readers. *)
LEMMA ReaderStep ==
    ASSUME TypeOK, NEW r \in Readers, Open(r) \/ OpenFails(r) \/ ReadStep(r)
    PROVE  /\ UNCHANGED <<mapping, writer, contents>>
           /\ \A q \in Readers \ {r} :
                /\ rpc'[q] = rpc[q] /\ before'[q] = before[q] /\ length'[q] = length[q]
                /\ toCopy'[q] = toCopy[q] /\ copy'[q] = copy[q] /\ result'[q] = result[q]
                /\ q \in holders' <=> q \in holders
                /\ q \in disturbed' <=> q \in disturbed
<1> USE DEF TypeOK, Answer
<1>1. CASE Open(r)
  BY <1>1 DEF Open
<1>2. CASE OpenFails(r)
  BY <1>2 DEF OpenFails
<1>3. CASE CheckMagic(r)
  BY <1>3 DEF CheckMagic
<1>4. CASE ReadBefore(r)
  BY <1>4 DEF ReadBefore
<1>5. CASE GiveUp(r)
  BY <1>5 DEF GiveUp
<1>6. CASE ReadLength(r)
  BY <1>6 DEF ReadLength
<1>7. CASE CopyByte(r)
  BY <1>7 DEF CopyByte
<1>8. CASE ReadAfter(r)
  BY <1>8 DEF ReadAfter
<1>9. QED
  BY <1>1, <1>2, <1>3, <1>4, <1>5, <1>6, <1>7, <1>8 DEF ReadStep

(* What a step of reader r keeps of its own conjunct. *)
LEMMA ReaderKeepsReading ==
    ASSUME TypeOK, IInv, NEW r \in Readers, Open(r) \/ OpenFails(r) \/ ReadStep(r)
    PROVE  /\ (Running(r) => r \in holders)'
           /\ (rpc[r] # "done" => result[r] = "none")'
           /\ ReadInProgress(r)'
           /\ (result[r] = "json" /\ r \notin disturbed => \E m \in Messages : CopyOf(r, m))'
           /\ (result[r] # "corrupted")'
<1>0. /\ Running(r) => r \in holders
      /\ rpc[r] # "done" => result[r] = "none"
      /\ ReadInProgress(r)
      /\ result[r] # "corrupted"
  BY DEF IInv, Readings, NeverCorrupted
<1> USE ChannelAssumption, <1>0 DEF TypeOK, Answer
<1>1. CASE Open(r)
  BY <1>1 DEF Open, ReadInProgress
<1>2. CASE OpenFails(r)
  BY <1>2 DEF OpenFails, ReadInProgress
<1>3. CASE CheckMagic(r)
  BY <1>3 DEF CheckMagic, ReadInProgress
<1>4. CASE ReadBefore(r)
  BY <1>4 DEF ReadBefore, ReadInProgress
<1>5. CASE GiveUp(r)
  BY <1>5 DEF GiveUp, ReadInProgress
<1>6. CASE ReadLength(r)
  BY <1>6 DEF ReadLength, ReadInProgress
<1>7. CASE CopyByte(r)
  BY <1>7 DEF CopyByte, ReadInProgress
<1>8. CASE ReadAfter(r)
  <2>1. CASE ~Undisturbed(r)
    BY <1>8, <2>1 DEF ReadAfter, ReadInProgress
  <2>2. CASE Undisturbed(r)
    <3>1. /\ rpc'[r] = "done" /\ result'[r] \in {"json", "empty"}
          /\ result'[r] = "json" => length[r] # 0
          /\ UNCHANGED <<length, copy, disturbed>>
      BY <1>8, <2>2 DEF ReadAfter
    <3>2. r \notin disturbed => CopyOf(r, message)
      BY <1>8, <2>2, AnswerIsLast DEF IInv, Written, Undisturbed
    <3>3. r \notin disturbed /\ length[r] # 0 => message \in Messages
      BY <3>2 DEF CopyOf, Copied
    <3>4. r \notin disturbed /\ length[r] # 0 => \E m \in Messages : CopyOf(r, m)'
      BY <3>1, <3>2, <3>3 DEF CopyOf
    <3>5. QED
      BY <3>1, <3>4 DEF ReadInProgress
  <2>3. QED
    BY <2>1, <2>2
<1>9. QED
  BY <1>1, <1>2, <1>3, <1>4, <1>5, <1>6, <1>7, <1>8 DEF ReadStep

LEMMA IndInvStep == TypeOK /\ IInv /\ [Next]_vars => IInv'
<1> SUFFICES ASSUME TypeOK, IInv, [Next]_vars PROVE IInv'
  OBVIOUS
<1>1. CASE \/ CreateMapping \/ ReuseMapping \/ Constructed
           \/ \E f \in Fields : ResetField(f)
           \/ \E i \in Cells : ResetByte(i) \/ StoreByte(i)
           \/ \E m \in Messages : BeginWrite(m)
           \/ StoreLength \/ EndWrite \/ IndexerGone
  <2>1. Written /\ Readings /\ NoTornSnapshot /\ NeverCorrupted
    BY DEF IInv, Written
  <2>2. Written'
    BY <1>1, <2>1, WriterKeepsWritten
  <2>3. Readings'
    BY <1>1, <2>1, WriterKeepsReadings
  <2>4. NoTornSnapshot' /\ NeverCorrupted'
    BY <1>1, <2>1, WriterStep, WriterKeepsAnswers
  <2>5. QED
    BY <2>2, <2>3, <2>4 DEF IInv, Written
<1>2. ASSUME NEW r \in Readers, Open(r) \/ OpenFails(r) \/ ReadStep(r) PROVE IInv'
  <2>1. UNCHANGED <<mapping, writer, contents>>
    BY <1>2, ReaderStep
  <2>2. \A q \in Readers \ {r} :
          /\ rpc'[q] = rpc[q] /\ before'[q] = before[q] /\ length'[q] = length[q]
          /\ toCopy'[q] = toCopy[q] /\ copy'[q] = copy[q] /\ result'[q] = result[q]
          /\ q \in holders' <=> q \in holders
          /\ q \in disturbed' <=> q \in disturbed
    BY <1>2, ReaderStep
  <2>3. Settled' /\ WriteInProgress' /\ ResetInProgress' /\ WriterParity'
    BY <2>1 DEF IInv, Settled, WriteInProgress, ResetInProgress, WriterParity
  <2>4. /\ (Running(r) => r \in holders)'
        /\ (rpc[r] # "done" => result[r] = "none")'
        /\ ReadInProgress(r)'
        /\ (result[r] = "json" /\ r \notin disturbed => \E m \in Messages : CopyOf(r, m))'
        /\ (result[r] # "corrupted")'
    BY <1>2, ReaderKeepsReading
  <2>5. ASSUME NEW q \in Readers \ {r}
        PROVE  /\ (Running(q) => q \in holders)'
               /\ (rpc[q] # "done" => result[q] = "none")'
               /\ ReadInProgress(q)'
               /\ (result[q] = "json" /\ q \notin disturbed => \E m \in Messages : CopyOf(q, m))'
               /\ (result[q] # "corrupted")'
    BY <2>1, <2>2 DEF IInv, Readings, ReadInProgress, NoTornSnapshot, NeverCorrupted, CopyOf
  <2>6. Readings' /\ NoTornSnapshot' /\ NeverCorrupted'
    BY <2>4, <2>5 DEF Readings, NoTornSnapshot, NeverCorrupted
  <2>7. QED
    BY <2>3, <2>6 DEF IInv
<1>3. CASE UNCHANGED vars
  BY <1>3 DEF vars, IInv, Settled, WriteInProgress, ResetInProgress, WriterParity, Readings,
     ReadInProgress, NoTornSnapshot, NeverCorrupted, CopyOf
<1>4. QED
  BY <1>1, <1>2, <1>3 DEF Next

LEMMA IndInvInit == Init => IInv
BY ChannelAssumption DEF Init, IInv, Settled, WriteInProgress, ResetInProgress,
   WriterParity, Readings, ReadInProgress, NoTornSnapshot, NeverCorrupted, Copied, Blank

(* The strengthening is an invariant: what is stored of a write, what is copied of it, and
   the versions seen agree at every byte of both. *)
THEOREM InductiveInvariant == Spec => []IInv
<1>1. TypeOK /\ IInv /\ [Next]_vars => IInv'
  BY IndInvStep
<1>2. QED
  BY <1>1, IndInvInit, TypeCorrect, PTL DEF Spec

(* No text is ever put together from two writes, for any number of readers, texts,
   attempts and bytes, unless a new session reset the mapping during the read. *)
THEOREM SnapshotsWhole == Spec => []NoTornSnapshot
<1>1. IInv => NoTornSnapshot
  BY DEF IInv
<1>2. QED
  BY <1>1, InductiveInvariant, PTL

(* readSnapshot never meets an impossible length, not even during a reset. *)
THEOREM LengthsSound == Spec => []NeverCorrupted
<1>1. IInv => NeverCorrupted
  BY DEF IInv
<1>2. QED
  BY <1>1, InductiveInvariant, PTL

(* A reader that returns a text returns the last one written, at that moment. *)
THEOREM SnapshotsCurrent == Spec => SnapshotIsLast
<1> DEFINE Last == \A r \in Readers :
         /\ rpc[r] = "copy" /\ rpc'[r] = "done"
         /\ r \notin disturbed
         => /\ wpc # "writing"
            /\ CopyOf(r, message)
<1>1. TypeOK /\ IInv /\ [Next]_vars => [Last]_vars
  <2> SUFFICES ASSUME TypeOK, IInv, Next, NEW r \in Readers,
                      rpc[r] = "copy", rpc'[r] = "done", r \notin disturbed
               PROVE  wpc # "writing" /\ CopyOf(r, message)
    OBVIOUS
  <2>1. ~ UNCHANGED rpc
    OBVIOUS
  <2>2. PICK q \in Readers : Open(q) \/ OpenFails(q) \/ ReadStep(q)
    BY <2>1, WriterStep DEF Next
  <2>3. q = r
    BY <2>2, ReaderStep
  <2>4. ReadAfter(r) /\ Undisturbed(r)
    BY <2>2, <2>3 DEF TypeOK, ReadStep, Open, OpenFails, CheckMagic, ReadBefore, GiveUp,
       ReadLength, CopyByte, ReadAfter
  <2>5. QED
    BY <2>4, AnswerIsLast DEF IInv, Written, Undisturbed
<1>2. QED
  BY <1>1, InductiveInvariant, TypeCorrect, PTL DEF Spec, SnapshotIsLast
=============================================================================
