--------------------------- MODULE StatusChannel ---------------------------
(***************************************************************************)
(* The status channel between the indexer and the processes that run the   *)
(* "status" command (ipc/SharedMemoryStatus, platform/MappedMemory): one    *)
(* named mapping, one writer, any number of readers, and a version counter  *)
(* that is odd while the writer is changing the text.                       *)
(*                                                                         *)
(* A text is a member of Messages; a byte of the buffer holds the message   *)
(* it comes from, or Nul.  The stores between two interlocked increments    *)
(* may reach a reader in any order; a reader's loads happen in program      *)
(* order (the x64 build of the workflow).                                   *)
(***************************************************************************)
EXTENDS Naturals, FiniteSets

CONSTANTS
    Messages,     \* the texts the indexer writes
    Size,         \* [Messages -> Nat]: how long each one is
    MaxSize,      \* sizeof(jsonUtf8) - 1
    MaxAttempts,  \* 20 in the code
    MaxVersion,   \* bound: how far one session counts
    Readers,      \* the processes that run the "status" command
    Indexer,      \* the process that runs the "index" command
    Nul           \* a zero byte

ASSUME ChannelAssumption ==
    /\ Size \in [Messages -> Nat]
    /\ MaxSize \in Nat
    /\ MaxAttempts \in Nat
    /\ MaxVersion \in Nat
    /\ Indexer \notin Readers
    /\ Nul \notin Messages

VARIABLES
    holders,      \* processes with a handle on the mapping: it lives until the last goes
    magic, version, jsonLength, json,                  \* the layout in the mapping
    wpc, message, pendingFields, pendingCells,         \* the writer
    rpc, attempt, before, length, toCopy, copy, result,  \* the readers
    contents,     \* history: "mixed" while a reset over an earlier session's bytes is unfinished
    disturbed     \* history: readers whose read such a reset overlapped

mapping == <<magic, version, jsonLength, json>>
writer == <<wpc, message, pendingFields, pendingCells>>
reading == <<rpc, attempt, before, length, toCopy, copy, result>>
history == <<contents, disturbed>>
vars == <<holders, mapping, writer, reading, history>>

Fields == {"magic", "version", "jsonLength"}
Cells == 1..(MaxSize + 1)
Texts == Messages \cup {Nul}

(* Mutant: the terminator is forgotten. *)
CopiedToTheEnd(m) == IF m = Nul THEN 0 ELSE IF Size[m] < MaxSize + 1 THEN Size[m] ELSE MaxSize + 1

(* The bytes writeJson copies: the whole text, or what fits. *)
Copied(m) == IF m = Nul THEN 0 ELSE IF Size[m] < MaxSize THEN Size[m] ELSE MaxSize

Blank == [i \in Cells |-> Nul]

Init ==
    /\ holders = {}
    /\ magic = "zero" /\ version = 0 /\ jsonLength = 0 /\ json = Blank
    /\ wpc = "absent" /\ message = Nul /\ pendingFields = {} /\ pendingCells = {}
    /\ rpc = [r \in Readers |-> "absent"]
    /\ attempt = [r \in Readers |-> 0]
    /\ before = [r \in Readers |-> 0]
    /\ length = [r \in Readers |-> 0]
    /\ toCopy = [r \in Readers |-> {}]
    /\ copy = [r \in Readers |-> Blank]
    /\ result = [r \in Readers |-> "none"]
    /\ contents = "own" /\ disturbed = {}

-----------------------------------------------------------------------------
(* The indexer. *)

(* What both ways of getting a mapping share: the constructor goes on to assign
   every member of the layout. *)
Construct ==
    /\ wpc = "absent"
    /\ holders' = holders \cup {Indexer}
    /\ wpc' = "constructing"
    /\ message' = Nul
    /\ pendingFields' = Fields
    /\ pendingCells' = Cells
    /\ UNCHANGED reading

(* CreateFileMapping makes a new object, whose pages are zero. *)
CreateMapping ==
    /\ holders = {}
    /\ Construct
    /\ magic' = "zero" /\ version' = 0 /\ jsonLength' = 0 /\ json' = Blank
    /\ contents' = "own"
    /\ UNCHANGED disturbed

(* CreateFileMapping returns the object a reader still holds; ERROR_ALREADY_EXISTS
   is not looked at, and the layout is assigned under the reader. *)
ReuseMapping ==
    /\ holders # {}
    /\ Construct
    /\ contents' = "mixed"
    /\ disturbed' = disturbed \cup holders
    /\ UNCHANGED mapping

ResetField(f) ==
    /\ wpc = "constructing"
    /\ f \in pendingFields
    /\ pendingFields' = pendingFields \ {f}
    /\ magic' = IF f = "magic" THEN "FFST" ELSE magic
    /\ version' = IF f = "version" THEN 0 ELSE version
    /\ jsonLength' = IF f = "jsonLength" THEN 0 ELSE jsonLength
    /\ UNCHANGED <<holders, json, wpc, message, pendingCells, reading, history>>

ResetByte(i) ==
    /\ wpc = "constructing"
    /\ i \in pendingCells
    /\ pendingCells' = pendingCells \ {i}
    /\ json' = [json EXCEPT ![i] = Nul]
    /\ UNCHANGED <<holders, magic, version, jsonLength, wpc, message, pendingFields,
                   reading, history>>

Constructed ==
    /\ wpc = "constructing"
    /\ pendingFields = {} /\ pendingCells = {}
    /\ wpc' = "idle"
    /\ contents' = "own"
    /\ UNCHANGED <<holders, mapping, message, pendingFields, pendingCells, reading,
                   disturbed>>

(* Mutant: the version stays even while the text changes. *)
BeginWriteUnmarked(m) ==
    /\ wpc = "idle"
    /\ version + 2 <= MaxVersion
    /\ wpc' = "writing"
    /\ message' = m
    /\ pendingFields' = {"jsonLength"}
    /\ pendingCells' = 1..(Copied(m) + 1)
    /\ UNCHANGED <<holders, mapping, reading, history>>

BeginWrite(m) ==
    /\ wpc = "idle"
    /\ version + 2 <= MaxVersion
    /\ version' = version + 1
    /\ wpc' = "writing"
    /\ message' = m
    /\ pendingFields' = {"jsonLength"}
    /\ pendingCells' = 1..(Copied(m) + 1)
    /\ UNCHANGED <<holders, magic, jsonLength, json, reading, history>>

StoreByte(i) ==
    /\ wpc = "writing"
    /\ i \in pendingCells
    /\ pendingCells' = pendingCells \ {i}
    /\ json' = [json EXCEPT ![i] = IF i <= Copied(message) THEN message ELSE Nul]
    /\ UNCHANGED <<holders, magic, version, jsonLength, wpc, message, pendingFields,
                   reading, history>>

StoreLength ==
    /\ wpc = "writing"
    /\ "jsonLength" \in pendingFields
    /\ pendingFields' = {}
    /\ jsonLength' = Copied(message)
    /\ UNCHANGED <<holders, magic, version, json, wpc, message, pendingCells,
                   reading, history>>

(* Mutant: the second increment is missing. *)
EndWriteUnmarked ==
    /\ wpc = "writing"
    /\ pendingFields = {} /\ pendingCells = {}
    /\ wpc' = "idle"
    /\ UNCHANGED <<holders, mapping, message, pendingFields, pendingCells, reading, history>>

EndWrite ==
    /\ wpc = "writing"
    /\ pendingFields = {} /\ pendingCells = {}
    /\ version' = version + 1
    /\ wpc' = "idle"
    /\ UNCHANGED <<holders, magic, jsonLength, json, message, pendingFields,
                   pendingCells, reading, history>>

(* The process ends, or is killed anywhere: the system closes its handle. *)
IndexerGone ==
    /\ wpc # "absent"
    /\ wpc' = "absent"
    /\ holders' = holders \ {Indexer}
    /\ pendingFields' = {} /\ pendingCells' = {}
    /\ UNCHANGED <<mapping, message, reading, history>>

-----------------------------------------------------------------------------
(* A reader: one run of the "status" command. *)

Running(r) == rpc[r] \notin {"absent", "done"}

Answer(r, what) ==
    /\ rpc' = [rpc EXCEPT ![r] = "done"]
    /\ result' = [result EXCEPT ![r] = what]
    /\ holders' = holders \ {r}

(* OpenFileMapping finds the object only while somebody holds it. *)
Open(r) ==
    /\ ~Running(r)
    /\ holders # {}
    /\ holders' = holders \cup {r}
    /\ rpc' = [rpc EXCEPT ![r] = "attached"]
    /\ attempt' = [attempt EXCEPT ![r] = 0]
    /\ result' = [result EXCEPT ![r] = "none"]
    /\ UNCHANGED <<mapping, writer, before, length, toCopy, copy, history>>

OpenFails(r) ==
    /\ ~Running(r)
    /\ holders = {}
    /\ Answer(r, "error")
    /\ UNCHANGED <<mapping, writer, attempt, before, length, toCopy, copy, history>>

CheckMagic(r) ==
    /\ rpc[r] = "attached"
    /\ IF magic = "FFST"
         THEN /\ rpc' = [rpc EXCEPT ![r] = "before"]
              /\ UNCHANGED <<holders, result>>
         ELSE Answer(r, "error")
    /\ UNCHANGED <<mapping, writer, attempt, before, length, toCopy, copy, history>>

(* Mutant: waiting for an even version is not an attempt. *)
ReadBeforeForever(r) ==
    /\ rpc[r] = "before"
    /\ attempt[r] < MaxAttempts
    /\ before' = [before EXCEPT ![r] = version]
    /\ rpc' = IF version % 2 = 0 THEN [rpc EXCEPT ![r] = "length"] ELSE rpc
    /\ disturbed' = IF contents = "mixed" THEN disturbed \cup {r} ELSE disturbed \ {r}
    /\ UNCHANGED <<holders, mapping, writer, attempt, length, toCopy, copy, result, contents>>

(* The first load of version; an odd one ends the attempt. *)
ReadBefore(r) ==
    /\ rpc[r] = "before"
    /\ attempt[r] < MaxAttempts
    /\ before' = [before EXCEPT ![r] = version]
    /\ IF version % 2 = 0 THEN /\ rpc' = [rpc EXCEPT ![r] = "length"]
                               /\ UNCHANGED attempt
                          ELSE /\ attempt' = [attempt EXCEPT ![r] = @ + 1]
                               /\ UNCHANGED rpc
    /\ disturbed' = IF contents = "mixed" THEN disturbed \cup {r} ELSE disturbed \ {r}
    /\ UNCHANGED <<holders, mapping, writer, length, toCopy, copy, result, contents>>

GiveUp(r) ==
    /\ rpc[r] = "before"
    /\ attempt[r] >= MaxAttempts
    /\ Answer(r, "busy")
    /\ UNCHANGED <<mapping, writer, attempt, before, length, toCopy, copy, history>>

ReadLength(r) ==
    /\ rpc[r] = "length"
    /\ length' = [length EXCEPT ![r] = jsonLength]
    /\ IF jsonLength > MaxSize
         THEN Answer(r, "corrupted") /\ UNCHANGED toCopy
         ELSE /\ rpc' = [rpc EXCEPT ![r] = "copy"]
              /\ toCopy' = [toCopy EXCEPT ![r] = 1..jsonLength]
              /\ UNCHANGED <<holders, result>>
    /\ UNCHANGED <<mapping, writer, attempt, before, copy, history>>

CopyByte(r) ==
    /\ rpc[r] = "copy"
    /\ \E i \in toCopy[r] :
         /\ copy' = [copy EXCEPT ![r] = [@ EXCEPT ![i] = json[i]]]
         /\ toCopy' = [toCopy EXCEPT ![r] = @ \ {i}]
    /\ UNCHANGED <<holders, mapping, writer, rpc, attempt, before, length, result, history>>

Undisturbed(r) == before[r] = version /\ version % 2 = 0

(* Mutant: the version is not compared. *)
ReadAfterUnchecked(r) ==
    /\ rpc[r] = "copy"
    /\ toCopy[r] = {}
    /\ Answer(r, IF length[r] = 0 THEN "empty" ELSE "json")
    /\ UNCHANGED <<mapping, writer, attempt, before, length, toCopy, copy, history>>

(* The second load of version decides whether the copy is returned. *)
ReadAfter(r) ==
    /\ rpc[r] = "copy"
    /\ toCopy[r] = {}
    /\ IF Undisturbed(r)
         THEN /\ Answer(r, IF length[r] = 0 THEN "empty" ELSE "json")
              /\ UNCHANGED attempt
         ELSE /\ rpc' = [rpc EXCEPT ![r] = "before"]
              /\ attempt' = [attempt EXCEPT ![r] = @ + 1]
              /\ UNCHANGED <<holders, result>>
    /\ UNCHANGED <<mapping, writer, before, length, toCopy, copy, history>>

-----------------------------------------------------------------------------
ReadStep(r) ==
    \/ CheckMagic(r) \/ ReadBefore(r) \/ GiveUp(r)
    \/ ReadLength(r) \/ CopyByte(r) \/ ReadAfter(r)

Next ==
    \/ CreateMapping \/ ReuseMapping \/ Constructed
    \/ \E f \in Fields : ResetField(f)
    \/ \E i \in Cells : ResetByte(i) \/ StoreByte(i)
    \/ \E m \in Messages : BeginWrite(m)
    \/ StoreLength \/ EndWrite \/ IndexerGone
    \/ \E r \in Readers : Open(r) \/ OpenFails(r) \/ ReadStep(r)

Spec == Init /\ [][Next]_vars

(* A process that runs the "status" command is scheduled until it has answered; the
   indexer owes nothing: it may stop, or be killed, half-way through a write. *)
FairSpec == Spec /\ \A r \in Readers : WF_vars(ReadStep(r))

-----------------------------------------------------------------------------
(* Every variable holds a value the code can store in it. *)
TypeOK ==
    /\ holders \subseteq Readers \cup {Indexer}
    /\ magic \in {"zero", "FFST"}
    /\ version \in Nat
    /\ jsonLength \in 0..MaxSize
    /\ json \in [Cells -> Texts]
    /\ wpc \in {"absent", "constructing", "idle", "writing"}
    /\ message \in Texts
    /\ pendingFields \subseteq Fields
    /\ pendingCells \subseteq Cells
    /\ rpc \in [Readers -> {"absent", "attached", "before", "length", "copy", "done"}]
    /\ attempt \in [Readers -> Nat]
    /\ before \in [Readers -> Nat]
    /\ length \in [Readers -> 0..MaxSize]
    /\ toCopy \in [Readers -> SUBSET Cells]
    /\ copy \in [Readers -> [Cells -> Texts]]
    /\ result \in [Readers -> {"none", "json", "empty", "corrupted", "busy", "error"}]
    /\ contents \in {"own", "mixed"}
    /\ disturbed \subseteq Readers \cup {Indexer}

(* The copy of r is one text, as much of it as the writer puts in the buffer. *)
CopyOf(r, m) ==
    /\ length[r] = Copied(m)
    /\ \A i \in 1..length[r] : copy[r][i] = m

(* A text that readSnapshot returns comes from one write, never from parts of two, if
   no new indexer reset the mapping while it was being read. *)
NoTornSnapshot ==
    \A r \in Readers :
        result[r] = "json" /\ r \notin disturbed => \E m \in Messages : CopyOf(r, m)

(* At the moment readSnapshot returns a text, or says that there is none, that is what
   the last finished write left: a reader never answers with an older text, and never
   with one whose write is still going on. *)
SnapshotIsLast ==
    [][\A r \in Readers :
         /\ rpc[r] = "copy" /\ rpc'[r] = "done"
         /\ r \notin disturbed
         => /\ wpc # "writing"
            /\ CopyOf(r, message)]_vars

(* No reader ever finds the length that makes readSnapshot answer "corrupted", not even
   while the mapping is being reset. *)
NeverCorrupted == \A r \in Readers : result[r] # "corrupted"

(* The "status" command always ends, also when the indexer was killed half-way through
   a write and the version stays odd for ever. *)
ReaderAnswers == \A r \in Readers : Running(r) ~> ~Running(r)

(* What SharedMemoryStatus.h promises of readSnapshot, with no condition: the text it
   returns is whole. *)
AlwaysWhole ==
    \A r \in Readers :
        result[r] = "json" => \E m \in Messages : CopyOf(r, m)

-----------------------------------------------------------------------------
(* The inductive invariant behind NoTornSnapshot and SnapshotIsLast. *)

(* Between writes the buffer holds exactly the last text written; after a reset it
   holds nothing. *)
Settled ==
    wpc # "writing" /\ contents = "own" /\ version % 2 = 0 =>
        /\ jsonLength = Copied(message)
        /\ \A i \in 1..Copied(message) : json[i] = message

(* Of a write, what is no longer pending is stored, and the version is odd. *)
WriteInProgress ==
    wpc = "writing" =>
        /\ version % 2 = 1
        /\ "jsonLength" \notin pendingFields => jsonLength = Copied(message)
        /\ \A i \in 1..Copied(message) : i \notin pendingCells => json[i] = message

(* The constructor leaves an even version and no text, whatever was there; over fresh
   pages it changes nothing a reader can tell. *)
ResetInProgress ==
    wpc = "constructing" =>
        /\ message = Nul
        /\ "version" \notin pendingFields \/ contents = "own" => version = 0
        /\ "jsonLength" \notin pendingFields \/ contents = "own" => jsonLength = 0

WriterParity ==
    /\ wpc = "idle" => version % 2 = 0
    /\ wpc \in {"idle", "writing"} => contents = "own"

(* What a reader has copied is what the mapping holds, as long as the version has not
   moved since it began; and the version only moves up. *)
ReadInProgress(r) ==
    rpc[r] \in {"length", "copy"} /\ r \notin disturbed =>
        /\ contents = "own"
        /\ before[r] % 2 = 0 /\ before[r] <= version
        /\ rpc[r] = "copy" /\ before[r] = version =>
             /\ length[r] = jsonLength
             /\ \A i \in 1..length[r] : i \notin toCopy[r] => copy[r][i] = json[i]

Readings ==
    \A r \in Readers :
        /\ Running(r) => r \in holders
        /\ rpc[r] # "done" => result[r] = "none"
        /\ ReadInProgress(r)

IInv ==
    /\ Settled /\ WriteInProgress /\ ResetInProgress /\ WriterParity
    /\ Readings /\ NoTornSnapshot /\ NeverCorrupted
=============================================================================
