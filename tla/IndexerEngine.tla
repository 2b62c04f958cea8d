--------------------------- MODULE IndexerEngine ---------------------------
(***************************************************************************)
(* One "index" process (engine/IndexerEngine) with what it is made of: the  *)
(* string table, the folder tree, the batch in memory, the writer of the    *)
(* .ffdb file, and the two ends of shared memory it uses: the command slot  *)
(* it polls and the status it publishes.  Around it: the scanner, which     *)
(* reports entries and errors; the processes that write a command; a disk   *)
(* that may refuse a write; an end of the process at any point.             *)
(*                                                                         *)
(* An id of the string table is a position in values, an id of the folder   *)
(* tree a position in folders.  A block of the file is complete (a member   *)
(* of blocks) once its end marker is out; before that it is torn, and only  *)
(* a prefix of its items can be seen in the file.                           *)
(***************************************************************************)
EXTENDS Naturals, Sequences, SequencesExt

CONSTANTS
    Names,       \* strings: the parts of paths, names and extensions
    Entries,     \* what the scanner may report
    BatchSize,   \* commitBatchSize
    MaxObjects,  \* bound: entries in one scan
    MaxErrors    \* bound: errors in one scan

ASSUME EngineAssumption ==
    /\ Entries \subseteq [kind : {"folder", "file"}, path : Seq(Names),
                          name : Names, extension : Names]
    /\ BatchSize \in Nat /\ MaxObjects \in Nat /\ MaxErrors \in Nat

VARIABLES
    pc,             \* where run() is
    values,         \* strings_
    folders,        \* pathTree_: the (parentId, nameId) keys in the order of their ids
    batch,          \* batch_
    stats,          \* stats_: the counters
    collected,      \* errors_: how many it holds
    since,          \* objectsSinceMaintenance_
    entry, todo, parent,  \* processEntry: the entry, the parts left of its path, parentId
    next,           \* what the code does after commitBatch: "report" or "finish"
    stopRequested,  \* stopRequested_: "yes" or "no"
    command,        \* the slot of SharedMemoryControl
    status,         \* the text in SharedMemoryStatus
    header, blocks, torn,  \* the file
    stream,         \* stream_: "closed", "good" or "bad"
    reported        \* history: the entries of this scan, each when it is done

memory == <<values, folders, batch, since, entry, todo, parent>>
file == <<header, blocks, torn>>
vars == <<pc, memory, stats, collected, next, stopRequested, command, status, file,
          stream, reported>>

Stops == {"StopGraceful", "StopImmediate"}

EmptyBatch == [strings |-> <<>>, folders |-> <<>>, files |-> <<>>]

NoStats == [filesIndexed |-> 0, foldersIndexed |-> 0, objectsIndexed |-> 0, errors |-> 0,
            committedFiles |-> 0, committedFolders |-> 0, commitId |-> 0]

NoStatus == [state |-> "none", stats |-> NoStats]

NoEntry == [kind |-> "none"]

writeStatus(state) == status' = [state |-> state, stats |-> stats]

-----------------------------------------------------------------------------
(* The string table. *)

(* The table after getOrAdd(v), the id it returns, and what it adds to the batch. *)
Interned(table, v) == IF v \in Range(table) THEN table ELSE Append(table, v)
IdOf(table, v) == CHOOSE i \in DOMAIN table : table[i] = v
(* Mutant: a new string is not put in the batch. *)
NoNewStrings(table, v) == <<>>

NewStrings(table, v) ==
    IF v \in Range(table) THEN <<>> ELSE <<[id |-> Len(table) + 1, value |-> v]>>

-----------------------------------------------------------------------------
(* The process. *)

(* The members of a new IndexerEngine; its constructor creates both mappings. *)
FreshMemory ==
    /\ values' = <<>> /\ folders' = <<>> /\ batch' = EmptyBatch
    /\ stats' = NoStats /\ collected' = 0 /\ since' = 0
    /\ entry' = NoEntry /\ todo' = <<>> /\ parent' = 0
    /\ next' = "report" /\ stopRequested' = "no"

Construct ==
    /\ pc = "absent"
    /\ pc' = "constructed"
    /\ FreshMemory
    /\ command' = "Continue"
    /\ status' = NoStatus
    /\ stream' = "closed"
    /\ UNCHANGED <<file, reported>>

ResetCommand ==
    /\ pc = "constructed"
    /\ pc' = "starting"
    /\ command' = "Continue"
    /\ UNCHANGED <<memory, stats, collected, next, stopRequested, status, file, stream, reported>>

Starting ==
    /\ pc = "starting"
    /\ pc' = "opening"
    /\ writeStatus("starting")
    /\ UNCHANGED <<memory, stats, collected, next, stopRequested, command, file, stream, reported>>

(* openNew: the file of the last index is gone before the new header is out. *)
Truncate ==
    /\ pc = "opening"
    /\ pc' = "heading"
    /\ stream' = "good"
    /\ header' = "none" /\ blocks' = <<>> /\ torn' = <<>>
    /\ reported' = <<>>
    /\ UNCHANGED <<memory, stats, collected, next, stopRequested, command, status>>

WriteHeader ==
    /\ pc = "heading"
    /\ pc' = "opened"
    /\ \/ header' = "written" /\ UNCHANGED stream
       \/ stream' = "bad" /\ UNCHANGED header
    /\ UNCHANGED <<memory, stats, collected, next, stopRequested, command, status, blocks, torn,
                   reported>>

(* Mutant: the command is reset once the file is open. *)
RunningResets ==
    /\ pc = "opened"
    /\ pc' = "scanning"
    /\ command' = "Continue"
    /\ writeStatus("running")
    /\ UNCHANGED <<memory, stats, collected, next, stopRequested, file, stream, reported>>

Running ==
    /\ pc = "opened"
    /\ pc' = "scanning"
    /\ writeStatus("running")
    /\ UNCHANGED <<memory, stats, collected, next, stopRequested, command, file, stream, reported>>

(* An exception in run(): the catch block publishes "error", or fails to, and nothing is
   committed.  OpenNew's own (the file cannot be opened) leaves the old file as it was. *)
Throw ==
    /\ pc \in {"constructed", "opening", "scanning", "path", "writing"}
    /\ pc' = "absent"
    /\ writeStatus("error") \/ UNCHANGED status
    /\ UNCHANGED <<memory, stats, collected, next, stopRequested, command, file, stream, reported>>

(* The process is killed: what the stream had not flushed is lost with it. *)
Kill ==
    /\ pc # "absent"
    /\ pc' = "absent"
    /\ UNCHANGED <<memory, stats, collected, next, stopRequested, command, status, file, stream,
                   reported>>

(* "pause", "resume" and "stop" find the slot while the indexer lives. *)
WriteCommand(c) ==
    /\ pc # "absent"
    /\ command' = c
    /\ UNCHANGED <<pc, memory, stats, collected, next, stopRequested, status, file, stream,
                   reported>>

-----------------------------------------------------------------------------
(* processEntry and what it calls. *)

EntryFound(e) ==
    /\ pc = "scanning"
    /\ stats.objectsIndexed < MaxObjects
    /\ pc' = "path"
    /\ entry' = e /\ todo' = e.path /\ parent' = 0
    /\ stats' = [stats EXCEPT !.objectsIndexed = @ + 1]
    /\ since' = since + 1
    /\ UNCHANGED <<values, folders, batch, collected, next, stopRequested, command, status,
                   file, stream, reported>>

(* One turn of the loop of getOrCreatePath. *)
FolderKey(table) == [parentId |-> parent, nameId |-> IdOf(table, Head(todo))]

KnownFolder ==
    /\ pc = "path" /\ todo # <<>>
    /\ values' = Interned(values, Head(todo))
    /\ FolderKey(values') \in Range(folders)
    /\ parent' = IdOf(folders, FolderKey(values'))
    /\ batch' = [batch EXCEPT !.strings = @ \o NewStrings(values, Head(todo))]
    /\ todo' = Tail(todo)
    /\ UNCHANGED <<pc, folders, stats, collected, since, entry, next, stopRequested, command,
                   status, file, stream, reported>>

(* Mutant: the walk stays in the folder above the new one. *)
NewFolderStays ==
    /\ pc = "path" /\ todo # <<>>
    /\ values' = Interned(values, Head(todo))
    /\ FolderKey(values') \notin Range(folders)
    /\ folders' = Append(folders, FolderKey(values'))
    /\ batch' = [batch EXCEPT
                   !.strings = @ \o NewStrings(values, Head(todo)),
                   !.folders = Append(@, [id |-> Len(folders'), parentId |-> parent,
                                          nameId |-> IdOf(values', Head(todo))])]
    /\ todo' = Tail(todo)
    /\ UNCHANGED <<pc, parent, stats, collected, since, entry, next, stopRequested, command,
                   status, file, stream, reported>>

NewFolder ==
    /\ pc = "path" /\ todo # <<>>
    /\ values' = Interned(values, Head(todo))
    /\ FolderKey(values') \notin Range(folders)
    /\ folders' = Append(folders, FolderKey(values'))
    /\ parent' = Len(folders')
    /\ batch' = [batch EXCEPT
                   !.strings = @ \o NewStrings(values, Head(todo)),
                   !.folders = Append(@, [id |-> Len(folders'), parentId |-> parent,
                                          nameId |-> IdOf(values', Head(todo))])]
    /\ todo' = Tail(todo)
    /\ UNCHANGED <<pc, stats, collected, since, entry, next, stopRequested, command, status,
                   file, stream, reported>>

(* Mutant: only the interval counts. *)
MaintenanceByTime ==
    /\ pc' \in {"scanning", "committing"}
    /\ next' = "report"
    /\ reported' = Append(reported, entry)

(* shouldMaintenanceNow: the batch is full, or the interval has passed. *)
MaintenanceOrNot ==
    /\ \/ since < BatchSize /\ pc' = "scanning"
       \/ pc' = "committing"
    /\ next' = "report"
    /\ reported' = Append(reported, entry)

FolderDone ==
    /\ pc = "path" /\ todo = <<>> /\ entry.kind = "folder"
    /\ stats' = [stats EXCEPT !.foldersIndexed = @ + 1]
    /\ MaintenanceOrNot
    /\ UNCHANGED <<memory, collected, stopRequested, command, status, file, stream>>

FileDone ==
    /\ pc = "path" /\ todo = <<>> /\ entry.kind = "file"
    /\ LET named == Interned(values, entry.name)
       IN  /\ values' = Interned(named, entry.extension)
           /\ batch' = [batch EXCEPT
                 !.strings = @ \o NewStrings(values, entry.name)
                               \o NewStrings(named, entry.extension),
                 !.files = Append(@, [folderId |-> parent,
                                      nameId |-> IdOf(values', entry.name),
                                      extensionId |-> IdOf(values', entry.extension)])]
    /\ stats' = [stats EXCEPT !.filesIndexed = @ + 1]
    /\ MaintenanceOrNot
    /\ UNCHANGED <<folders, collected, since, entry, todo, parent, stopRequested, command,
                   status, file, stream>>

ScanError ==
    /\ pc = "scanning"
    /\ stats.errors < MaxErrors
    /\ stats' = [stats EXCEPT !.errors = @ + 1]
    /\ collected' = collected + 1
    /\ UNCHANGED <<pc, memory, next, stopRequested, command, status, file, stream, reported>>

(* Mutant: shutdown does not commit. *)
ScanEndsUncommitted ==
    /\ pc = "scanning"
    /\ pc' = "finish"
    /\ next' = "finish"
    /\ UNCHANGED <<memory, stats, collected, stopRequested, command, status, file, stream,
                   reported>>

ScanEnds ==
    /\ pc = "scanning"
    /\ pc' = "committing"
    /\ next' = "finish"
    /\ UNCHANGED <<memory, stats, collected, stopRequested, command, status, file, stream,
                   reported>>

-----------------------------------------------------------------------------
(* commitBatch and writeBatch. *)

(* Mutant: the commit is counted before the batch is found empty. *)
NothingCounted ==
    /\ pc = "committing"
    /\ batch = EmptyBatch
    /\ pc' = next
    /\ stats' = [stats EXCEPT !.commitId = @ + 1]
    /\ UNCHANGED <<memory, collected, next, stopRequested, command, status, file, stream,
                   reported>>

NothingToCommit ==
    /\ pc = "committing"
    /\ batch = EmptyBatch
    /\ pc' = next
    /\ UNCHANGED <<memory, stats, collected, next, stopRequested, command, status, file, stream,
                   reported>>

BlockOf(b, commitId) ==
    [commitId |-> commitId, strings |-> b.strings, folders |-> b.folders, files |-> b.files]

(* Items of a block before its end marker: the header of the block and the records. *)
ItemsOf(b) == 1 + Len(b.strings) + Len(b.folders) + Len(b.files)

StartBlock ==
    /\ pc = "committing"
    /\ batch # EmptyBatch
    /\ pc' = "writing"
    /\ stats' = [stats EXCEPT !.commitId = @ + 1]
    /\ torn' = IF stream = "good" THEN <<[block |-> BlockOf(batch, stats.commitId + 1), seen |-> 0]>>
                                  ELSE torn
    /\ UNCHANGED <<memory, collected, next, stopRequested, command, status, header, blocks,
                   stream, reported>>

(* The buffer of the stream overflows: one more item can be seen in the file. *)
Spill ==
    /\ pc = "writing" /\ stream = "good"
    /\ torn[1].seen < ItemsOf(torn[1].block)
    /\ torn' = [torn EXCEPT ![1].seen = @ + 1]
    /\ UNCHANGED <<pc, memory, stats, collected, next, stopRequested, command, status, header,
                   blocks, stream, reported>>

(* Mutant: the batch is not cleared. *)
CommittedTwice ==
    /\ pc' = next
    /\ stats' = [stats EXCEPT !.committedFiles = @ + Len(batch.files),
                              !.committedFolders = @ + Len(batch.folders)]
    /\ collected' = 0
    /\ UNCHANGED <<memory, next, stopRequested, command, status, header, reported>>

(* What commitBatch does once writeBatch has returned, however the stream is. *)
Committed ==
    /\ pc' = next
    /\ stats' = [stats EXCEPT !.committedFiles = @ + Len(batch.files),
                              !.committedFolders = @ + Len(batch.folders)]
    /\ batch' = EmptyBatch
    /\ collected' = 0
    /\ UNCHANGED <<values, folders, since, entry, todo, parent, next, stopRequested, command,
                   status, header, reported>>

(* Mutant: a block is written over the one before. *)
BlockOverwrites ==
    /\ pc = "writing" /\ stream = "good"
    /\ blocks' = <<torn[1].block>>
    /\ torn' = <<>>
    /\ Committed
    /\ UNCHANGED stream

BlockWritten ==
    /\ pc = "writing" /\ stream = "good"
    /\ blocks' = Append(blocks, torn[1].block)
    /\ torn' = <<>>
    /\ Committed
    /\ UNCHANGED stream

(* Mutant: the error of the stream is cleared, and the batch given up. *)
BlockSkipped ==
    /\ pc = "writing"
    /\ torn' = <<>>
    /\ Committed
    /\ UNCHANGED <<blocks, stream>>

(* A write or the flush fails, or failed for an earlier block: nobody asks the stream. *)
BlockNotWritten ==
    /\ pc = "writing"
    /\ stream' = "bad"
    /\ Committed
    /\ UNCHANGED <<blocks, torn>>

-----------------------------------------------------------------------------
(* maintenancePoint after its commit, and shutdown after its own. *)

Report ==
    /\ pc = "report"
    /\ pc' = "polling"
    /\ writeStatus("running")
    /\ since' = 0
    /\ UNCHANGED <<values, folders, batch, entry, todo, parent, stats, collected, next,
                   stopRequested, command, file, stream, reported>>

(* Mutant: a stop during a pause is not seen. *)
StopSeenUnpaused ==
    /\ pc = "polling"
    /\ command \in Stops
    /\ stopRequested' = "yes"
    /\ writeStatus("stopping")
    /\ pc' = "committing" /\ next' = "finish"
    /\ UNCHANGED <<memory, stats, collected, command, file, stream, reported>>

(* handleControlCommand.  The scan ends when it returns false. *)
StopSeen ==
    /\ pc \in {"polling", "paused"}
    /\ command \in Stops
    /\ stopRequested' = "yes"
    /\ writeStatus("stopping")
    /\ pc' = "committing" /\ next' = "finish"
    /\ UNCHANGED <<memory, stats, collected, command, file, stream, reported>>

PauseSeen ==
    /\ pc = "polling"
    /\ command = "Pause"
    /\ pc' = "paused"
    /\ writeStatus("paused")
    /\ UNCHANGED <<memory, stats, collected, next, stopRequested, command, file, stream, reported>>

(* Mutant: the pause waits for another command than "resume" writes. *)
ResumeMissed ==
    /\ pc = "paused"
    /\ command = "StopImmediate"
    /\ pc' = "scanning"
    /\ writeStatus("running")
    /\ UNCHANGED <<memory, stats, collected, next, stopRequested, command, file, stream, reported>>

(* Mutant: a status nobody knows. *)
ResumedStatus ==
    /\ pc = "paused"
    /\ command = "Continue"
    /\ pc' = "scanning"
    /\ writeStatus("resumed")
    /\ UNCHANGED <<memory, stats, collected, next, stopRequested, command, file, stream, reported>>

ResumeSeen ==
    /\ pc = "paused"
    /\ command = "Continue"
    /\ pc' = "scanning"
    /\ writeStatus("running")
    /\ UNCHANGED <<memory, stats, collected, next, stopRequested, command, file, stream, reported>>

GoOn ==
    /\ pc = "polling"
    /\ command = "Continue"
    /\ pc' = "scanning"
    /\ UNCHANGED <<memory, stats, collected, next, stopRequested, command, status, file, stream,
                   reported>>

(* The last status; run() returns 0 whatever the stream says. *)
Finish ==
    /\ pc = "finish"
    /\ pc' = "absent"
    /\ writeStatus(IF stopRequested = "yes" THEN "stopped" ELSE "completed")
    /\ UNCHANGED <<memory, stats, collected, next, stopRequested, command, file, stream, reported>>

-----------------------------------------------------------------------------
Init ==
    /\ pc = "absent"
    /\ values = <<>> /\ folders = <<>> /\ batch = EmptyBatch
    /\ stats = NoStats /\ collected = 0 /\ since = 0
    /\ entry = NoEntry /\ todo = <<>> /\ parent = 0
    /\ next = "report" /\ stopRequested = "no"
    /\ command = "Continue" /\ status = NoStatus
    /\ header = "none" /\ blocks = <<>> /\ torn = <<>>
    /\ stream = "closed" /\ reported = <<>>

(* The steps run() takes by itself. *)
Step ==
    \/ ResetCommand \/ Starting \/ Truncate \/ WriteHeader \/ Running
    \/ \E e \in Entries : EntryFound(e)
    \/ KnownFolder \/ NewFolder \/ FolderDone \/ FileDone
    \/ ScanError \/ ScanEnds
    \/ NothingToCommit \/ StartBlock \/ Spill \/ BlockWritten \/ BlockNotWritten
    \/ Report \/ StopSeen \/ PauseSeen \/ ResumeSeen \/ GoOn \/ Finish

Next ==
    \/ Construct \/ Step \/ Throw \/ Kill
    \/ \E c \in {"Continue", "Pause", "StopGraceful"} : WriteCommand(c)

Spec == Init /\ [][Next]_vars

(* The thread that runs the index is scheduled; a pause polls every 300 ms. *)
FairSpec == Spec /\ WF_vars(Step)

-----------------------------------------------------------------------------
(* What is in the file. *)

StringRecord == [id : Nat, value : Names]
FolderRecord == [id : Nat, parentId : Nat, nameId : Nat]
FileRecord == [folderId : Nat, nameId : Nat, extensionId : Nat]
Batch == [strings : Seq(StringRecord), folders : Seq(FolderRecord), files : Seq(FileRecord)]
Block == [commitId : Nat, strings : Seq(StringRecord), folders : Seq(FolderRecord),
          files : Seq(FileRecord)]
Counters == [filesIndexed : Nat, foldersIndexed : Nat, objectsIndexed : Nat, errors : Nat,
             committedFiles : Nat, committedFolders : Nat, commitId : Nat]

(* A string or folder with this id is in one of the first k blocks of blks. *)
StringIn(blks, id, k) == \E j \in 1..k : \E r \in Range(blks[j].strings) : r.id = id
FolderIn(blks, id, k) == id = 0 \/ \E j \in 1..k : \E r \in Range(blks[j].folders) : r.id = id

(* All that block k refers to has been read when block k has been read. *)
Resolves(blks, k) ==
    /\ \A f \in Range(blks[k].folders) :
         /\ f.parentId < f.id
         /\ FolderIn(blks, f.parentId, k) /\ StringIn(blks, f.nameId, k)
    /\ \A f \in Range(blks[k].files) :
         /\ FolderIn(blks, f.folderId, k)
         /\ StringIn(blks, f.nameId, k) /\ StringIn(blks, f.extensionId, k)

(* What a reader makes of a list of blocks: the path, name and extension of each file. *)
StringsOf(blks) == UNION {Range(blks[k].strings) : k \in DOMAIN blks}
FoldersOf(blks) == UNION {Range(blks[k].folders) : k \in DOMAIN blks}
StringAt(blks, id) == (CHOOSE r \in StringsOf(blks) : r.id = id).value

PathOf(blks, id) ==
    LET all == FoldersOf(blks)
        up[f \in {0} \cup {r.id : r \in all}] ==
            IF f = 0 THEN <<>>
            ELSE LET r == CHOOSE r \in all : r.id = f
                 IN  Append(up[r.parentId], StringAt(blks, r.nameId))
    IN  up[id]

FileAt(blks, f) ==
    [kind |-> "file", path |-> PathOf(blks, f.folderId), name |-> StringAt(blks, f.nameId),
     extension |-> StringAt(blks, f.extensionId)]

FilesOf(blks) ==
    FlattenSeq([k \in DOMAIN blks |->
                  [i \in DOMAIN blks[k].files |-> FileAt(blks, blks[k].files[i])]])

(* The complete blocks and the one that has been begun. *)
Visible == IF torn = <<>> THEN blocks ELSE Append(blocks, torn[1].block)

IsFile(e) == e.kind = "file"
FilesReported ==
    FlattenSeq([i \in DOMAIN reported |-> IF IsFile(reported[i]) THEN <<reported[i]>> ELSE <<>>])

(* The promise to readers, with the file as they decode it. *)
Published == INSTANCE PublishedIndex WITH
    Files <- {e \in Entries : IsFile(e)},
    Room <- IF BatchSize = 0 THEN 1 ELSE BatchSize,
    scanned <- FilesReported,
    index <- FilesOf(blocks),
    trust <- IF stream = "good" THEN "yes" ELSE "no",
    done <- IF pc = "absent" /\ status.state \in {"stopped", "completed"} THEN "yes" ELSE "no"

-----------------------------------------------------------------------------
(* Every variable holds a value the code can store in it. *)
TypeOK ==
    /\ pc \in {"absent", "constructed", "starting", "opening", "heading", "opened", "scanning",
               "path", "committing", "writing", "report", "polling", "paused", "finish"}
    /\ values \in Seq(Names)
    /\ folders \in Seq([parentId : Nat, nameId : Nat])
    /\ batch \in Batch
    /\ stats \in Counters
    /\ collected \in Nat /\ since \in Nat
    /\ entry \in Entries \cup {NoEntry} /\ todo \in Seq(Names) /\ parent \in Nat
    /\ next \in {"report", "finish"} /\ stopRequested \in {"yes", "no"}
    /\ command \in {"Continue", "Pause", "StopGraceful", "StopImmediate"}
    /\ status \in [state : {"none", "starting", "running", "paused", "stopping", "stopped",
                            "completed", "error"}, stats : Counters]
    /\ header \in {"none", "written"}
    /\ blocks \in Seq(Block)
    /\ torn \in Seq([block : Block, seen : Nat])
    /\ stream \in {"closed", "good", "bad"}
    /\ reported \in Seq(Entries)

(* Whatever is killed, thrown or refused by the disk, the complete blocks of the file can
   be read by themselves: no block uses a string or a folder that a later block, a torn
   one or one that was never written defines, and folders form a tree. *)
ReferencesResolve == \A k \in DOMAIN blocks : Resolves(blocks, k)

(* An id never gets a second meaning: readers keep one map of strings and one of folders
   over all the blocks, and a later record with the same id would change the paths of
   files of an earlier block. *)
IdsUnique ==
    \A j, k \in DOMAIN blocks :
        /\ \A a \in DOMAIN blocks[j].strings, b \in DOMAIN blocks[k].strings :
             blocks[j].strings[a].id = blocks[k].strings[b].id => j = k /\ a = b
        /\ \A a \in DOMAIN blocks[j].folders, b \in DOMAIN blocks[k].folders :
             blocks[j].folders[a].id = blocks[k].folders[b].id => j = k /\ a = b

(* The complete blocks hold the files the scanner reported, under their paths and in its
   order, up to some file, as long as no write failed; and a process that ends in any way
   takes no more than one batch with it. *)
LossBounded ==
    stream = "good" =>
        LET kept == FilesOf(blocks)
            lost == Len(FilesReported) - Len(kept)
        IN  /\ kept = SubSeq(FilesReported, 1, Len(kept))
            /\ lost <= (IF BatchSize = 0 THEN 1 ELSE BatchSize)

(* "stopped" and "completed" mean that all that was reported is in the file. *)
EndedWhole ==
    /\ status.state \in {"stopped", "completed"}
    /\ pc = "absent" /\ stream = "good"
    => FilesOf(blocks) = FilesReported /\ torn = <<>>

(* A status other than "error" counts every object as a file or a folder, and the commit
   it names is in the file: the status never runs ahead of the disk. *)
StatusTrue ==
    status.state # "error" /\ stream = "good" =>
        /\ status.stats.objectsIndexed = status.stats.filesIndexed + status.stats.foldersIndexed
        /\ status.stats.committedFiles <= Len(FilesOf(blocks))
        /\ status.stats.commitId <= Len(blocks)

(* Once a session has published a status, it no longer takes a stop back by itself: only
   another command does. *)
StopKept ==
    [][/\ pc # "absent" /\ status.state # "none"
       /\ command \in Stops /\ command' \notin Stops
       => pc' = pc]_vars

(* The file only grows within a session: what a reader has read stays true. *)
AppendOnly ==
    [][pc # "opening" => blocks = SubSeq(blocks', 1, Len(blocks))]_vars

(* A stop that is not taken back ends the process, wherever it is: scanning, committing
   or paused. *)
StopHonoured == command \in Stops ~> (pc = "absent" \/ command \notin Stops)

(* A paused process goes on, or stops, once it is told to and the order stands. *)
PauseEnds ==
    (pc = "paused" /\ command # "Pause") ~> (pc # "paused" \/ command = "Pause")

(* The index process keeps its promise to readers: through kills, refused writes, ids and
   blocks, what they decode is the beginning of the scan, grows at its end, is short of at
   most one batch, and is whole when the process has ended well. *)
KeepsPromise == Published!Spec

(* What IndexerEngine.h says of the exit code 0, which run() returns with the last
   status "completed" or "stopped": it ended correctly, so the index has every file. *)
SuccessIsWhole ==
    status.state \in {"stopped", "completed"} /\ pc = "absent"
        => FilesOf(blocks) = FilesReported

-----------------------------------------------------------------------------
(* The inductive invariant behind ReferencesResolve. *)

(* An entry is being processed, and a block is being written, where the code says so. *)
InHand ==
    /\ pc = "path" => entry \in Entries
    /\ pc = "writing" /\ stream = "good" =>
         torn # <<>> /\ torn[1].block = BlockOf(batch, stats.commitId)

(* Before the file is opened nothing has an id. *)
NoIdsYet ==
    pc \in {"constructed", "starting", "opening"} =>
        values = <<>> /\ folders = <<>> /\ batch = EmptyBatch

(* The batch and the walk down a path use ids that have been given out. *)
BatchRefers ==
    /\ parent <= Len(folders)
    /\ \A f \in Range(batch.folders) :
         f.id <= Len(folders) /\ f.parentId < f.id /\ f.nameId \in 1..Len(values)
    /\ \A f \in Range(batch.files) :
         /\ f.folderId <= Len(folders)
         /\ f.nameId \in 1..Len(values) /\ f.extensionId \in 1..Len(values)

(* While every write has succeeded, each id given out is defined in the file or in the
   batch that is written next. *)
Placed ==
    stream = "good" =>
        /\ \A id \in 1..Len(values) :
             \/ \E r \in Range(batch.strings) : r.id = id
             \/ StringIn(blocks, id, Len(blocks))
        /\ \A id \in 1..Len(folders) :
             \/ \E r \in Range(batch.folders) : r.id = id
             \/ FolderIn(blocks, id, Len(blocks))

IInv == InHand /\ NoIdsYet /\ BatchRefers /\ Placed /\ ReferencesResolve

-----------------------------------------------------------------------------
(* The inductive invariant behind KeepsPromise: what the tables in memory mean, and that
   the file and the batch say the same. *)

(* The path of every folder id, in the tables of the process. *)
FolderPaths(strs, tree) ==
    LET up[id \in 0..Len(tree)] ==
            IF id = 0 THEN <<>> ELSE Append(up[tree[id].parentId], strs[tree[id].nameId])
    IN  up

Meaning(strs, tree, f) ==
    [kind |-> "file", path |-> FolderPaths(strs, tree)[f.folderId], name |-> strs[f.nameId],
     extension |-> strs[f.extensionId]]
Meanings(strs, tree, files) == [i \in DOMAIN files |-> Meaning(strs, tree, files[i])]

(* The tree is one, and a walk stands where the parts it has left behind lead. *)
Rooted(strs, tree) ==
    \A id \in DOMAIN tree : tree[id].parentId < id /\ tree[id].nameId \in DOMAIN strs
Walked ==
    /\ Rooted(values, folders)
    /\ pc = "path" => entry.path = FolderPaths(values, folders)[parent] \o todo

(* Records say what the tables say, and no two of the same kind define the same id. *)
Different(records) ==
    \A a, b \in DOMAIN records : records[a].id = records[b].id => a = b
Apart(records, others) == \A r \in Range(records), o \in Range(others) : r.id # o.id

StringsTrue(strs, records) ==
    \A r \in Range(records) : r.id \in DOMAIN strs /\ r.value = strs[r.id]
StringsSound(strs, records, blks) ==
    /\ StringsTrue(strs, records) /\ Different(records)
    /\ \A k \in DOMAIN blks :
         StringsTrue(strs, blks[k].strings) /\ Apart(records, blks[k].strings)

FoldersTrue(tree, records) ==
    \A r \in Range(records) :
        r.id \in DOMAIN tree /\ [parentId |-> r.parentId, nameId |-> r.nameId] = tree[r.id]
FoldersSound(tree, records, blks) ==
    /\ FoldersTrue(tree, records) /\ Different(records)
    /\ \A k \in DOMAIN blks :
         FoldersTrue(tree, blks[k].folders) /\ Apart(records, blks[k].folders)

RecordsSound ==
    stream = "good" =>
        /\ StringsSound(values, batch.strings, blocks)
        /\ FoldersSound(folders, batch.folders, blocks)

(* The file and the batch together hold every file reported, in order. *)
Accounted ==
    stream = "good" =>
        FilesReported = FilesOf(blocks) \o Meanings(values, folders, batch.files)

(* The batch holds no more files than entries since the last report, and there are never
   more of those than a batch may hold. *)
RoomKept ==
    /\ Len(batch.files) + (IF pc = "path" THEN 1 ELSE 0) <= since
    /\ since <= (IF BatchSize = 0 THEN 1 ELSE BatchSize)
    /\ pc = "scanning" => since = 0 \/ since < BatchSize
    /\ pc \in {"constructed", "starting", "opening", "heading", "opened", "polling", "paused"}
         => since = 0

(* The batch has been handed over where the code reports, pauses or finishes, and a
   process that ended well had nothing left to write. *)
HandedOver ==
    /\ pc # "absent" => status.state \notin {"stopped", "completed"}
    /\ \/ pc \in {"report", "polling", "paused", "finish"}
       \/ pc = "absent" /\ status.state \in {"stopped", "completed"}
       => batch = EmptyBatch /\ (stream = "good" => torn = <<>>)
    /\ stream = "good" /\ pc \notin {"writing", "absent"} => torn = <<>>

(* The counters count what is in the file and in hand. *)
Counted ==
    /\ pc # "absent" =>
         stats.objectsIndexed = stats.filesIndexed + stats.foldersIndexed
                                  + (IF pc = "path" THEN 1 ELSE 0)
    /\ pc # "absent" /\ stream = "good" =>
         /\ stats.commitId = Len(blocks) + (IF pc = "writing" THEN 1 ELSE 0)
         /\ stats.committedFiles = Len(FilesOf(blocks))
    /\ pc \in {"constructed", "starting", "opening"} =>
         stats = NoStats /\ status.stats = NoStats

PromiseInv ==
    /\ Walked /\ RecordsSound /\ IdsUnique /\ Accounted
    /\ RoomKept /\ HandedOver /\ Counted /\ StatusTrue
=============================================================================
