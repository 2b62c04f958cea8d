---------------------------- MODULE IndexSearch ----------------------------
(***************************************************************************)
(* A "search" process (app/IndexerApplication, runSearch) beside the index  *)
(* process: it reads the .ffdb file record by record while the indexer may  *)
(* be appending blocks to it, be killed inside one, or start a new index.   *)
(*                                                                         *)
(* A record is there for the reader once it can be seen in the file.  The   *)
(* file grows at its end, so reading a block's strings and folders in one   *)
(* step, at the moment the last of them is read, gives the results that     *)
(* reading them one by one gives; its files are read one by one because     *)
(* each may be the last that the limit admits.                              *)
(*                                                                         *)
(* Lines go into a stream, and from there into the results file whenever    *)
(* the library writes out its buffer, at the latest when runSearch returns. *)
(* The stream is not looked at once it is open.                             *)
(***************************************************************************)
EXTENDS IndexerEngine

CONSTANTS
    Configs,   \* a query is the set of <<folder path, name>> it matches, a limit searchLimit
    MaxDepth   \* the guard of buildFolderPath: 4096 turns

ASSUME SearchAssumption ==
    /\ \A c \in Configs : c.query \subseteq Seq(Names) \X Names /\ c.limit \in Nat
    /\ MaxDepth \in Nat

(* The guard of buildFolderPath is above the depth of every path the scanner reports: what
   the theorems about the lines of a search assume. *)
ShortPaths == \A e \in Entries : Len(e.path) <= MaxDepth

VARIABLES
    search,    \* where runSearch is; "done" is exit code 0, "failed" an exception
    config,    \* config: the query and the limit
    at, read,  \* the block being read, and the files of it that have been read
    names, tree,  \* strings, folders: the maps the reader fills
    results,   \* the lines handed to the stream "out"; written is their number
    output,    \* the stream: "none" (not opened), "open", "closed", or "cut" short for good
    lines,     \* the lines in the results file, for those who load it
    promised,  \* history: the files of the blocks that were complete at the start
    whole,     \* history: "yes" if the last index had ended with all its files then
    sight      \* history: "lost" once the file was truncated after the start

outfile == <<output, lines>>
reader == <<config, at, read, names, tree, results, promised, whole, sight>>
searchVars == <<search, reader, outfile>>
allVars == <<vars, searchVars>>

Reading == {"header", "block", "records", "files", "end"}

NoConfig == [query |-> {}, limit |-> 0]

(* A line for a file the reader has made up from bytes that are not a file record. *)
Nonsense == [kind |-> "nonsense"]

-----------------------------------------------------------------------------
(* What can be seen of the file at a moment. *)

BlockAt(k) == IF k <= Len(blocks) THEN blocks[k] ELSE torn[1].block

(* How many items of block k: all of them once it is complete. *)
SeenOf(k) ==
    CASE k <= Len(blocks) -> ItemsOf(blocks[k])
      [] k = Len(blocks) + 1 /\ torn # <<>> -> torn[1].seen
      [] OTHER -> 0

-----------------------------------------------------------------------------
(* What the reader makes of what it has read. *)

(* map[record.id] = record, for each record in turn: of two with the same id the later. *)
Put(map, records) ==
    LET ids == {r.id : r \in Range(records)}
        LastOf(id) == CHOOSE k \in DOMAIN records :
            /\ records[k].id = id
            /\ \A j \in DOMAIN records : records[j].id = id => j <= k
    IN  [id \in DOMAIN map \cup ids |-> IF id \in ids THEN records[LastOf(id)] ELSE map[id]]

(* Mutant: the parts of the path are not put in order. *)
FolderPathUpwards(id) ==
    LET name(i) == IF tree[i].nameId \in DOMAIN names THEN <<names[tree[i].nameId].value>> ELSE <<>>
        walk[n \in 0..MaxDepth] ==
            IF n = 0 THEN [current |-> id, parts |-> <<>>]
            ELSE LET w == walk[n - 1]
                 IN  IF w.current \notin DOMAIN tree THEN w
                     ELSE [current |-> tree[w.current].parentId,
                           parts |-> w.parts \o name(w.current)]
    IN  walk[MaxDepth].parts

(* buildFolderPath: up from the folder to the root, or to a folder that is not known. *)
FolderPath(id) ==
    LET name(i) == IF tree[i].nameId \in DOMAIN names THEN <<names[tree[i].nameId].value>> ELSE <<>>
        walk[n \in 0..MaxDepth] ==
            IF n = 0 THEN [current |-> id, parts |-> <<>>]
            ELSE LET w == walk[n - 1]
                 IN  IF w.current \notin DOMAIN tree THEN w
                     ELSE [current |-> tree[w.current].parentId,
                           parts |-> name(w.current) \o w.parts]
    IN  walk[MaxDepth].parts

(* The line written for a file record whose name is known. *)
LineOf(f) ==
    [kind |-> "file", path |-> FolderPath(f.folderId), name |-> names[f.nameId].value,
     extension |-> IF f.extensionId \in DOMAIN names THEN names[f.extensionId].value ELSE ""]

Matches(line) == <<line.path, line.name>> \in config.query

-----------------------------------------------------------------------------
(* runSearch. *)

(* A process with this query; one that is over has closed its output. *)
Start(c) ==
    /\ search \in {"none", "done", "failed", "killed"} /\ output # "open"
    /\ config' = c
    /\ at' = 0 /\ read' = 0 /\ names' = <<>> /\ tree' = <<>> /\ results' = <<>>
    /\ promised' = FilesOf(blocks)
    /\ whole' = IF /\ pc = "absent" /\ stream = "good"
                   /\ status.state \in {"stopped", "completed"} THEN "yes" ELSE "no"
    /\ sight' = "kept"
    /\ UNCHANGED vars

(* The index is opened, then the output, which empties the results file. *)
Open(c) ==
    /\ Start(c)
    /\ search' = "header"
    /\ output' = "open" /\ lines' = <<>>

(* One of the two cannot be opened: an exception, and the results file stays as it is. *)
OpenFails(c) ==
    /\ Start(c)
    /\ search' = "failed"
    /\ output' = "none" /\ UNCHANGED lines

(* An empty query does not open the index, and does not ask whether the output is open. *)
EmptyQuery(c) ==
    /\ Start(c) /\ c.query = {}
    /\ search' = "done"
    /\ \/ output' = "closed" /\ lines' = <<>>
       \/ output' = "none" /\ UNCHANGED lines

(* Mutant: an outcome the caller does not know. *)
HeaderRefused ==
    /\ search = "header" /\ sight = "kept"
    /\ search' = IF header = "written" THEN "block" ELSE "refused"
    /\ UNCHANGED <<vars, reader, outfile>>

ReadHeader ==
    /\ search = "header" /\ sight = "kept"
    /\ search' = IF header = "written" THEN "block" ELSE "failed"
    /\ UNCHANGED <<vars, reader, outfile>>

(* Mutant: the end of the file is an error. *)
BlockExpected ==
    /\ search = "block" /\ sight = "kept"
    /\ IF Len(results) < config.limit /\ SeenOf(at + 1) >= 1
       THEN search' = "records" /\ at' = at + 1 /\ read' = 0
       ELSE /\ search' = IF Len(results) < config.limit THEN "failed" ELSE "done"
            /\ UNCHANGED <<at, read>>
    /\ UNCHANGED <<vars, config, names, tree, results, promised, whole, sight, outfile>>

(* The head of the loop: the limit, then the header of the next block. *)
ReadBlock ==
    /\ search = "block" /\ sight = "kept"
    /\ IF Len(results) < config.limit /\ SeenOf(at + 1) >= 1
       THEN search' = "records" /\ at' = at + 1 /\ read' = 0
       ELSE search' = "done" /\ UNCHANGED <<at, read>>
    /\ UNCHANGED <<vars, config, names, tree, results, promised, whole, sight, outfile>>

(* No record before the files of the block is cut.  A cut inside a string throws; one before
   its id or length only leaves the stream failed, and throws at the latest at the first
   folder or file, which a block with a new string always has. *)
RecordsThere ==
    SeenOf(at) >= 1 + Len(BlockAt(at).strings) + Len(BlockAt(at).folders)

(* The strings and folders of the block. *)
ReadRecords ==
    /\ search = "records" /\ sight = "kept"
    /\ IF RecordsThere
       THEN /\ search' = "files"
            /\ names' = Put(names, BlockAt(at).strings)
            /\ tree' = Put(tree, BlockAt(at).folders)
       ELSE search' = "failed" /\ UNCHANGED <<names, tree>>
    /\ UNCHANGED <<vars, config, at, read, results, promised, whole, sight, outfile>>

(* One file record: its line goes to the stream at once, before the end marker is asked for. *)
ReadFile ==
    /\ search = "files" /\ sight = "kept"
    /\ LET b == BlockAt(at)
           f == b.files[read + 1]
           before == 1 + Len(b.strings) + Len(b.folders)
           found == f.nameId \in DOMAIN names /\ Matches(LineOf(f))
       IN  /\ read < Len(b.files)
           /\ IF SeenOf(at) > before + read
              THEN /\ read' = read + 1
                   /\ results' = IF found THEN Append(results, LineOf(f)) ELSE results
                   /\ search' = IF found /\ Len(results') >= config.limit THEN "end" ELSE search
              ELSE search' = "failed" /\ UNCHANGED <<read, results>>
    /\ UNCHANGED <<vars, config, at, names, tree, promised, whole, sight, outfile>>

FilesRead ==
    /\ search = "files" /\ sight = "kept"
    /\ read = Len(BlockAt(at).files)
    /\ search' = "end"
    /\ UNCHANGED <<vars, reader, outfile>>

(* Mutant: the search ends with its first block. *)
EndOfFirst ==
    /\ search = "end" /\ sight = "kept"
    /\ search' = "done"
    /\ UNCHANGED <<vars, reader, outfile>>

(* The end marker: not there, or not an end marker when the limit has left the block
   half read, ends the search without an error. *)
ReadEnd ==
    /\ search = "end" /\ sight = "kept"
    /\ search' = IF at <= Len(blocks) /\ read = Len(BlockAt(at).files) THEN "block" ELSE "done"
    /\ UNCHANGED <<vars, reader, outfile>>

(* The file under the reader is another one: what is at its position is anything. *)
ReadOther ==
    /\ search \in Reading /\ sight = "lost"
    /\ search' \in {search, "done", "failed"}
    /\ \/ UNCHANGED results
       \/ Len(results) < config.limit /\ results' = Append(results, Nonsense)
    /\ UNCHANGED <<vars, config, at, read, names, tree, promised, whole, sight, outfile>>

-----------------------------------------------------------------------------
(* The output stream. *)

(* Its buffer is written out as far as the next line... *)
LineSaved ==
    /\ output = "open" /\ Len(lines) < Len(results)
    /\ lines' = Append(lines, results[Len(lines) + 1])
    /\ UNCHANGED <<vars, search, reader, output>>

(* ... or refused; "out <<" does nothing from then on. *)
LineRefused ==
    /\ output = "open" /\ Len(lines) < Len(results)
    /\ output' = "cut"
    /\ UNCHANGED <<vars, search, reader, lines>>

(* Its destructor, once all is written out. *)
CloseOutput ==
    /\ search \in {"done", "failed"} /\ output = "open" /\ lines = results
    /\ output' = "closed"
    /\ UNCHANGED <<vars, search, reader, lines>>

(* The process is killed, or short of memory. *)
SearchKilled ==
    /\ search \in Reading \/ output = "open"
    /\ search' = "killed"
    /\ output' = IF output = "open" THEN "cut" ELSE output
    /\ UNCHANGED <<vars, reader, lines>>

-----------------------------------------------------------------------------
SearchInit ==
    /\ Init
    /\ search = "none" /\ config = NoConfig /\ at = 0 /\ read = 0
    /\ names = <<>> /\ tree = <<>> /\ results = <<>>
    /\ promised = <<>> /\ whole = "no" /\ sight = "kept"
    /\ output = "none" /\ lines = <<>>

SearchStep ==
    \/ ReadHeader \/ ReadBlock \/ ReadRecords \/ ReadFile \/ FilesRead \/ ReadEnd \/ ReadOther
    \/ LineSaved \/ LineRefused \/ CloseOutput \/ SearchKilled

(* A step of the index process; commands only end a scan early, which ScanEnds does too. *)
IndexStep ==
    /\ Construct \/ Step \/ Throw \/ Kill
    /\ sight' = IF pc = "opening" /\ pc' = "heading" THEN "lost" ELSE sight
    /\ UNCHANGED <<search, config, at, read, names, tree, results, promised, whole, outfile>>

SearchNext ==
    \/ IndexStep \/ SearchStep
    \/ \E c \in Configs : Open(c) \/ OpenFails(c) \/ EmptyQuery(c)

SearchSpec == SearchInit /\ [][SearchNext]_allVars

-----------------------------------------------------------------------------
Hit(e) == e.kind = "file" /\ <<e.path, e.name>> \in config.query
Hits(s) == FlattenSeq([i \in DOMAIN s |-> IF Hit(s[i]) THEN <<s[i]>> ELSE <<>>])
FirstOf(s, n) == SubSeq(s, 1, IF n < Len(s) THEN n ELSE Len(s))

Line == [kind : {"file"}, path : Seq(Names), name : Names, extension : Names]

(* Every variable of the reader holds a value the code can store in it. *)
SearchTypeOK ==
    /\ search \in {"none", "done", "failed", "killed"} \cup Reading
    /\ config \in Configs \cup {NoConfig}
    /\ at \in Nat /\ read \in Nat
    /\ DOMAIN names \subseteq Nat /\ Range(names) \subseteq StringRecord
    /\ DOMAIN tree \subseteq Nat /\ Range(tree) \subseteq FolderRecord
    /\ results \in Seq(Line \cup {Nonsense}) /\ promised \in Seq(Line)
    /\ output \in {"none", "open", "cut", "closed"} /\ lines \in Seq(Line \cup {Nonsense})
    /\ whole \in {"yes", "no"} /\ sight \in {"kept", "lost"}

(* Whatever the indexer does meanwhile short of starting a new index, and wherever the disk
   refuses the lines or the search is killed, each line of the results file is a file the
   scanner reported and the query matches, under its true path and with its extension, in
   the order of the scan and as often as it reported it, without a gap, and there are no
   more lines than the limit. *)
ResultsTrue ==
    sight = "kept" /\ output # "none" =>
        /\ lines = FirstOf(Hits(reported), Len(lines))
        /\ Len(lines) <= config.limit

(* A search that exits with 0 and whose lines were not refused leaves in the results file
   every match of the blocks that were complete when it started, up to the limit: growing
   or torn ends of the index never hide them. *)
FindsCommitted ==
    search = "done" /\ sight = "kept" /\ output = "closed" =>
        LET hits == FirstOf(Hits(promised), config.limit)
        IN  hits = FirstOf(lines, Len(hits))

(* A search of an index that had ended, every write having succeeded, fails only when the
   index or the results file cannot be opened, and leaves every match the scan reported, up
   to the limit, in the results file unless a line was refused, whatever index process
   starts and ends meanwhile without opening the index. *)
FindsAll ==
    whole = "yes" /\ sight = "kept" =>
        /\ search = "failed" => output = "none"
        /\ search = "done" /\ output = "closed" =>
             lines = FirstOf(Hits(reported), config.limit)

(* What BinaryIndexWriter.cpp says of a block with its end marker: a search can read it
   even during indexing, so with such blocks in the file a search that could open its files
   does not fail. *)
SearchDuringIndexing ==
    search = "failed" /\ output # "none" /\ sight = "kept" /\ stream = "good" => promised = <<>>

-----------------------------------------------------------------------------
(* The inductive invariant behind ResultsTrue, FindsCommitted and FindsAll: how far the
   reader is in the blocks it can see, and what it has made of them. *)

(* The files the reader has passed. *)
Behind ==
    IF at = 0 THEN <<>>
    ELSE FilesOf(SubSeq(Visible, 1, at - 1))
           \o [i \in 1..read |-> FileAt(Visible, Visible[at].files[i])]

InPlace ==
    /\ at <= Len(Visible)
    /\ at > 0 => read <= Len(Visible[at].files)
    /\ search \in {"records", "files", "end"} => at > 0
    /\ search = "header" => at = 0
    /\ search = "records" => read = 0
    /\ search = "block" /\ at > 0 => at <= Len(blocks) /\ read = Len(Visible[at].files)

(* The maps hold the records of the first k blocks and nothing else. *)
MapOf(map, lists, k) ==
    /\ \A id \in DOMAIN map : map[id].id = id /\ \E j \in 1..k : map[id] \in Range(lists[j])
    /\ \A j \in 1..k : \A r \in Range(lists[j]) : r.id \in DOMAIN map
MapsFilled ==
    search \in Reading =>
        LET k == IF search = "records" THEN at - 1 ELSE at
        IN  /\ MapOf(names, [j \in DOMAIN Visible |-> Visible[j].strings], k)
            /\ MapOf(tree, [j \in DOMAIN Visible |-> Visible[j].folders], k)

(* The limit is looked at before a block and after a line. *)
WithinLimit ==
    /\ Len(results) <= config.limit
    /\ search \in {"records", "files"} => Len(results) < config.limit
    /\ search = "end" /\ read < Len(Visible[at].files) => Len(results) = config.limit

Passed ==
    /\ Len(promised) <= Len(FilesOf(blocks))
    /\ promised = SubSeq(FilesOf(blocks), 1, Len(promised))
    /\ search = "done" =>
         config.query = {} \/ Len(results) = config.limit \/ Len(promised) <= Len(Behind)

(* While nobody opens the file for a new index, one that ended whole stays so. *)
StaysWhole ==
    whole = "yes" =>
        /\ pc \in {"absent", "constructed", "starting", "opening"}
        /\ torn = <<>> /\ header = "written" /\ (search = "failed" => output = "none")
        /\ promised = FilesOf(blocks) /\ promised = FilesReported

(* Where the reader is, and what it has handed over, as long as its file is the same. *)
Follows ==
    sight = "kept" =>
        /\ InPlace /\ MapsFilled /\ WithinLimit /\ Passed /\ StaysWhole
        /\ results = Hits(Behind)

(* What has become of the lines handed to the stream. *)
WrittenOut ==
    /\ search \in Reading => output \in {"open", "cut"}
    /\ output # "none" => Len(lines) <= Len(results) /\ lines = SubSeq(results, 1, Len(lines))
    /\ output = "closed" => search \in {"done", "failed"} /\ lines = results

SearchInv == Follows /\ WrittenOut
=============================================================================
