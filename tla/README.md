# FindFile: TLA+ models, checks and proofs

FindFile indexes a directory tree into a binary file (`file_index.ffdb`) and searches that
file. `FindFileIndexer.exe` (`src/indexer`) is one program with six commands (`index`, `search`,
`pause`, `resume`, `stop`, `status`); `FindFile.exe` (`src/desktop/FindFile.Native`) is the
window that starts it. Every command is a process of its own. They share three things: the
`.ffdb` file, and two named shared-memory blocks, one for commands and one for the status.
That is where the system can go wrong in ways a test hardly reaches, and where this project
starts. Windows share two more files with one another and with what outlives them:
`index_root.txt` and `search_results.tsv`.

Line numbers below are those of the files named, under `src/indexer/src` unless said otherwise.

## 1. Inventory

| Part | State | Operations | Meets | Correct when |
|---|---|---|---|---|
| `engine/IndexerEngine` | batch, counters, `objectsSinceMaintenance_`, `stopRequested_` | `run`, `processEntry`, `commitBatch`, `maintenancePoint`, `handleControlCommand`, `shutdown` | all the rest of the index process | complete blocks can be read by themselves; at most one batch is lost; the status is not ahead of the file; stop and resume are obeyed |
| `index/StringTable`, `PathTreeBuilder`, `IndexBatch` | value -> id, (parent, name) -> id, records of the next block | `getOrAdd`, `getOrCreatePath`, `add*`, `clearPreserveMemory` | called by the engine | an id has one meaning for ever and is defined no later than it is used |
| `index/BinaryIndexWriter` | an `ofstream`, the file | `openNew`, `writeBatch`, `finalize` | read by `runSearch` and the GUI meanwhile | the file only grows within a session; a refused write is not a success |
| `ipc/SharedMemoryControl` | one command | `writeCommand`, `readCommand`, `resetToContinue` | `pause`, `resume`, `stop` processes | a stop that is not taken back stops the indexer |
| `ipc/SharedMemoryStatus`, `platform/MappedMemory` | magic, version, length, text in a mapping that lives while a handle to it does | constructor, `writeJson`, `readSnapshot` | `status` processes | what a reader returns is one whole, current text; a reader always answers |
| `app/IndexerApplication`, `runSearch` | maps of strings and folders, the output file | read header, block, records, end marker | the file while it grows, is cut or replaced | every line is true, no committed match is missing, and what is missing because the disk refused it is not passed off as found |
| `fs/DirectoryScanner` | iterator | `scan`, `shouldSkip` | `onEntry`, `onError` of the engine | folders before what is in them, excluded content stays out, what is left out is complained of |
| `app/CommandLineParser` | none | `parse` | `main` | the options given are the options used |
| GUI jobs (`main.cpp` 376-384, 477) | buttons, results, `index_root.txt`, `search_results.tsv` | start, stop, search, clear, the messages of the worker threads | starts indexer processes, reads their files | what is shown belongs to what was asked |
| GUI statistics (`main.cpp` 214-302) | none | a second reader of the `.ffdb` file | the file while it grows | counts only what is there |
| GUI updater (`main.cpp` 389-401) | manifest, package | check, download, compare, start `LVKUpdater.exe` | network, running indexer | only a newer, verified package is installed |
| Logger, UTF and time helpers, stubs, windows and layout, builds | none that matters here | | | |

What is hard: processes read shared memory and the file while another writes them, without a
lock; any process may be killed at any point (the GUI does not wait for the indexer it
started); the disk and each call on the tree may fail; a session may follow another while a
reader still holds the old mapping or the old file. PROJECT.json, "hazards", lists each at its
line with the properties that cover it.

## 2. Modules

| Module | Stands for |
|---|---|
| `StatusChannel` | the status mapping: the indexer's stores, the reader's loads, the life of the mapping |
| `StatusChannel_proofs` | its theorems |
| `IndexerEngine` | one index process with the index in memory, the writer, the file, the command slot and the published status |
| `PublishedIndex` | abstract: what an index process promises its readers |
| `IndexerEngine_proofs` | theorems about `IndexerEngine`: types, the order of records, the slot; what a reader decodes from the file, and the refinement |
| `SequenceFacts` | lemmas about numbers and sequences that the proofs below need |
| `IndexSearch` | extends `IndexerEngine` with a search process that reads the file beside it |
| `IndexSearch_proofs` | its theorems |
| `IndexStatistics` | extends `IndexerEngine` with what the window counts in the file |
| `IndexStatistics_proofs` | its theorems |
| `Sessions` | several index processes beside one another, their command slot, and those who write to it |
| `GuiShell` | extends `Sessions` with the windows, the searches and the files they share |
| `GuiShell_proofs` | its theorems |
| `Texts`, `NameRules` | texts as sequences of symbols; the rules that leave names out |
| `DirectoryScanner` | the walk over the tree under those rules, and what it reports |
| `CommandLine` | the cleaning and quoting of a path, the cutting of a line, the parser |
| `IndexCommand` | composes `CommandLine` and `DirectoryScanner`: from what the user types to what is scanned |
| `CommandLine_proofs` | theorems about what `CommandLine` does to a text, and about each line of `IndexCommand` |
| `IndexCommand_proofs` | theorems about a command from the user to the end of its scan |
| `MC*` | small instances for TLC |

Operators whose comment begins with "Mutant:" stand next to the definition they change. No
specification uses them; they are plausible bugs of the code, and each property is checked to
fail when one of them takes the place of the original.

### StatusChannel

`writeJson` increments the version, stores the bytes and the length, and increments it again;
`readSnapshot` reads the version, the length, the bytes and the version again, up to
`MaxAttempts` times. The stores between two increments are not ordered by the code, so
`StoreByte` and `StoreLength` happen in any order; each byte is a step. Loads are taken in
program order: the build is x64, the version is `volatile`, and the processor does not
reorder loads. The mapping lives while a process holds it (`holders`): a new indexer gets
fresh pages (`CreateMapping`) or the old ones (`ReuseMapping`), and its constructor then
stores the default layout over them field by field, in any order (`ResetField`, `ResetByte`).
`IndexerGone` ends the indexer at any point, also inside a write. `disturbed` is a history
variable: readers that had begun when a mapping was reset under them.

The text is a function from cells to the message each byte comes from; `Copied(m)` is what
fits of it. `jsonUtf8` is `StatusMemorySize - 12` bytes and a text is cut at one less.

### IndexerEngine

`pc` names the place in `run()`. `values` and `folders` are the string table and the folder
tree: an id is a position. `processEntry` is `EntryFound`, one `KnownFolder` or `NewFolder` for
each part of the path (the loop of `getOrCreatePath`), then `FolderDone` or `FileDone`, which
also decide whether a maintenance point follows: always when the batch is full, and maybe
when it is not, since the interval may have passed. `commitBatch` is `NothingToCommit`, or
`StartBlock`, any number of `Spill` (the stream buffer overflows and one more item reaches the
file), and `BlockWritten` or `BlockNotWritten`. After it `Report` publishes the status, and
`StopSeen`, `PauseSeen`, `ResumeSeen`, `GoOn` are `handleControlCommand`. `Throw` is an exception
caught by `run()`: the log or the index cannot be opened, or memory is short.

The file is `header`, `blocks` (those whose end marker is out) and `torn` (at most one block
without it, and how many of its items can be seen). The stream is `"bad"` from the first write
that fails: an `ofstream` keeps its `badbit`, nothing throws, and nobody asks it.

Left out of the data: sizes, times and attributes of records, current path, total size and
extension counts of the status. Parts of a path are never empty or `"."`: `relative_path`
comes from `fs::relative`, and the only entry that would give `"."` is the root, which is not
reported. `StopImmediate` can be read but no process writes it. The slot and the published
status exist while the index process lives; that a reader or another session keeps them is
in `StatusChannel` for the status and in `Sessions` for the slot.

### PublishedIndex

The promise, without ids, blocks, batches or shared memory: the index is a prefix of the files
reported, grows at its end, lacks at most a batch while every write has succeeded, and nothing
once the process has said it is done. `IndexerEngine` implements it (`KeepsPromise`) under the
mapping `scanned <- FilesReported`, `index <- FilesOf(blocks)`, where `FilesOf` decodes blocks the
way `runSearch` does.

### IndexSearch

`runSearch` step by step: open, header, block header, the strings and folders of a block, each
file, end marker. What it can see of block k is `SeenOf(k)`. Strings and folders are read in
one step: within a session the file only grows (`AppendOnly`), so reading them at the moment
of the last gives what reading them one by one gives. The files are read one by one, since
each may be the last the limit admits, and lines go out before the end marker is asked for.
`Truncate` of a new index takes the file from under the reader (`sight = "lost"`), and from then
on it may read anything (`ReadOther`). One search follows another over the same results file.

`results` are the lines handed to the stream `out`, `lines` those in the file. The library writes
its buffer out when it likes, at the latest at the end (`LineSaved`, `CloseOutput`); when the disk
refuses (`LineRefused`) the stream is `"cut"` and takes no more, `search` goes on and exits with 0.
A line counts as saved once its fourth tab is: `loadSearchResults` skips one with fewer fields, and
only the time stands behind it. `OpenFails` is any exception before both files are open (the folder
of the output cannot be made, the index or the output cannot be opened, its size cannot be had);
the results file then keeps its old lines. `SearchKilled` is also an exception of memory. A query is the set of (path, name) it matches. Commands
are left out beside a search: all they do to the file is to end a scan early, which
`ScanEnds` does at any point.

### DirectoryScanner

The library's `recursive_directory_iterator` is external: entries of a directory in any order,
links not followed, a directory that denies access passed over (`skip_permission_denied`), and
a failed `increment(ec)` that leaves the end iterator. The body of the loop is `KindUnknown`,
`Skip` and `Entry`; in `Entry` the second look at the kind (in `shouldSkip`), `relative` and
`file_size` each may fail. `Excluded` applies the rules of `NameRules` to the lists of `config`.
The tree stands still during a scan.

### NameRules, CommandLine, IndexCommand

A symbol stands for a character, or for a word whose characters mean nothing one by one
(`"--root"`, `"report"`); `Symbols` is the set of them, and `Small` is `towlower` of its capitals. Each
loop over a text is `After(next, start, v)`, where `next` says what one symbol does to the state. `CommandLine` has the path functions of the window, `quote`, and the
parser: `parse` gives the last value of each option, `Refused` is every exception it may throw.
`Split` is external: the start of a C program takes the line apart, in the documented way
(backslashes count only before a mark). `IndexCommand` follows one command: a path, a query or
nothing in the window (`IndexLine`, `SearchLine`, `StopLine`), or arguments by hand; `StartProgram`;
`Parse`; and for `index` the scan. `asked` keeps what the user meant, and the properties compare
the far end with it: `ArgumentsArrive` the parsed arguments, `ExcludedStaysOut` and `NothingForgotten`
the entries reported. `Glob` and `EndsIn` say what a mask and an extension mean, apart from how
`simpleMatch` decides it.

### IndexStatistics

`buildIndexStatisticsText` looks at less than `runSearch`: it does not stop at a read that
failed, counts a string before it knows that it could be read, and counts the files of a block
without its end marker. Since the file only grows within a session and a failed read fails all
that follow, its result is a function of the file at one moment; `Statistics` is that function,
and `StatisticsTrue` holds it against what the scan has reported, at every moment of the engine.

### Sessions and GuiShell

`IndexerEngine` has one index process and every detail of it; `Sessions` has several and keeps
of each only what the others can tell: whether it has mapped, initialised and reset the slot,
whether it is scanning, polling, paused or finishing, and whether the index file is still the
one it truncated. The slot is a mapping with holders, as in `StatusChannel`: a process that
sends a command opens it (`OpenSlot`), writes (`Send`) and goes (`SendDone`), and while it holds the
slot the pages outlive the index process; it may fail to start or be killed at any of these
points (`SenderFails`). `meant` is history: for whom the stop in the slot was given. A stop that a
user gives by hand names no index process, so it is meant for all that run when it is written,
and `StopHitsOwn` says something of the stops of windows only, and of old stops in the slot.

`GuiShell` adds the windows. A worker thread waits for its process and posts a message with
the exit code; the model lets the message be there as soon as the process has ended.
`stopIndexing` runs in the thread of the window: between `StopIndex` and `StopReturns` the window
takes no message. `Close` ends the worker threads with the program, and their processes go on
without anyone who waits for them (`Orphan`, `owner = Nobody`); the end of `installUpdate` is such
a `Close`. The shared files are reduced to whose content they hold: `index` and `results` to the
process that truncated them last and whether another has written since, `rootFile` to the
process whose root it is. `SaveRoot` is `saveTextFile`, which looks neither at the open nor at the
write: the file may keep the old root or be left empty or cut short (`Nobody`), and the index is
started all the same; `ReadRoot` may find no file it can open. `FinishSearch` is exit code 0, with
all lines in the file or, since `runSearch` does not look at its stream, those before the first
refused one (`"cut"`). `saved`, `alone`, `quiet` and `settled` are history: whether the start of the last index
saved its root, whether indexes, or searches, have been begun beside those of another window, and
whether the index is that of a process that ended well and undisturbed. What the properties of
`GuiShell` leave out by them is in `hazards` with no property: two indexes, or two searches, at
the same time, and a search beside or after an index that failed. Nothing in the code keeps these
apart, and nothing says what they should give.

## 3. Runs

| Run | Shows | Bounds |
|---|---|---|
| `status_channel` | types; no torn text (`NoTornSnapshot`); the length is never out of range (`NeverCorrupted`); the answer is the last whole text (`SnapshotIsLast`); a reader answers even if the writer died inside a write (`ReaderAnswers`); the inductive invariant | one reader, two texts of which one is cut, 2 cells, 2 attempts, `MaxVersion` 4 (two writes in a session, any number of sessions) |
| `status_always_whole` | finding: without the exception for a reset mapping, the text may be torn | the same |
| `engine` | `ReferencesResolve`, `IdsUnique`, `LossBounded`, `EndedWhole`, `StatusTrue`; `StatisticsTrue`; `StopKept`, `AppendOnly`; `KeepsPromise`; `StopHonoured`, `PauseEnds`; the inductive invariants `IInv`, `PromiseInv` and `StatisticsInv` | 4 entries, `MaxObjects` 3 in a scan, `BatchSize` 2, `MaxErrors` 1, any number of sessions, commands, kills and refused writes |
| `engine_success_is_whole` | finding: exit code 0 with files missing | the same without scan errors |
| `search` | lines of the results file are true and in order (`ResultsTrue`), committed matches are found (`FindsCommitted`) and a finished index is searched whole (`FindsAll`) unless a line is refused; types; the inductive invariant `SearchInv`; that the instance satisfies `ShortPaths` | 3 files that share their strings, one of them in the root and without an extension, `MaxObjects` 3, `MaxDepth` 3, limits 1 and 2, a scan reports an entry once (`MCReportedOnce`), a truncation under a search is not followed further (`MCFollowed`) |
| `search_during_indexing` | finding: a search of complete blocks fails on the block being written | the same with `MaxObjects` 2 |
| `scanner` | what the user meant arrives (`ArgumentsArrive`); `FoldersFirst`, `ExcludedStaysOut`, `NothingForgotten` under the lists that were given; the inductive invariant `CoverInv`; that the instance satisfies `PlainLists` and `MasksMean` | 6 entries with folders, files and two links, all orders, `MaxFaults` 3; folders, spellings, queries, lists and refused lines of `MCDirectoryScanner` |
| `scanner_errors_go_on` | finding: a failed increment ends the scan silently | `MaxFaults` 1 |
| `scanner_relative` | finding: the relative path of a link is that of its target | `MaxFaults` 0 |
| `window` | writers of one file are apart (`OneWriter`), paths belong to their root (`PathsTrue`), what is shown are lines of the query that was asked (`ShownIsAnswer`), a stop ends whom it was given for (`StopHitsOwn`); types; the inductive invariant | 2 windows, 2 index processes, 2 searches and a user; `MaxJobs` 2; commands and searches are followed apart (`MCSearchesApart`) |
| `window_live` | a button that a job disabled comes back (`ButtonsReturn`) | 1 window, 1 index process, 1 search and a user; `MaxJobs` 3 |
| `window_stop_sent` | finding: a stop is lost, and the window says that it was sent | 1 window, 1 index process, 1 search |

Why the bounds are enough. A torn text needs two texts, two cells and a write between two
loads; a second attempt and a second session reach every branch of `readSnapshot` and of the
constructor. In the engine a block boundary falls at every place within a path when
`BatchSize` is 2 and commits may come at any object, so a string or folder may be defined in
the same block, an earlier one or (wrongly) a later one; three entries give a block after a
block that failed. In the search two blocks and a torn one occur, and the limit falls inside a
block, at its end and beyond. The deepest path has two parts and `MaxDepth` 3 is above it, as
4096 is in the code. `MCReportedOnce` and `MCFollowed` are state constraints only of the search
runs and only keep their size down: after a truncation no property speaks of the search that was
reading, and the next one is searched from states that are reached without it. Lines are refused
or saved at any moment, so they are still in the buffer when the indexer writes the next block,
when the search ends and when it fails. `scanner` does not check deadlock: a scan ends.

`MaxJobs` bounds the index, search and user processes that are there at a time (a stop of a
window is not counted); names of processes are used again, so there is no bound on how many
there are one after another. Every hazard of the windows is between two processes: an index
beside one that was orphaned, a search beside an index or beside another search, a stop beside a
user's command. `MCSearchesApart` is a state constraint of the run `window`: a command, or an
index process beside another, is followed only as long as nothing has been searched. What a
search reads and writes is touched by neither but through an index process, and a search beside
an index process, or beside another search, is followed; commands and searches of one window are
together in `window_live`. The proofs have no such bound. Windows, index processes and searches
are interchangeable, which the run uses (`MCSymmetry`); `window_live` does not, as symmetry is
not sound for liveness. It has one index process: what another, left by its window, can do to it
is to write "Continue" into the slot, as the user's "resume" does, and to keep the slot alive,
as the user's processes do.
The texts are as long as their cases need: a root with one slash, a share, quotation marks
and runs of slashes before a mark and at the end, masks at both ends and in another case.

Fairness. `StatusChannel!FairSpec` assumes that a process that runs `status` is scheduled;
nothing is assumed of the indexer, so an odd version may stay for ever. `IndexerEngine!FairSpec`
assumes that the index process takes steps; a pause polls every 300 ms, so it is never
blocked. Both liveness properties of the engine speak of an order that stands: the slot holds
one command, and nothing obliges the indexer to look at it before the next one. Scans are
finite (`MaxObjects`), as they are for a finite tree. A `Kill` also ends what is waited for.

`GuiShell!FairSpec` assumes that processes and worker threads run (that one fails or is killed is
never owed) and that a window which
waits for a stop goes on when its process has ended. `ScanEnds` is strongly fair: a tree is
finite, and each poll is followed by another entry, so an index process that is resumed now
and then reaches the end. The two messages are strongly fair: a posted message is taken before
any input, however often the user blocks the window in `stopIndexing`. Nothing is assumed of
the user: a pause may last for ever, and `ButtonsReturn` says so.

What the properties of commands do not say: a stop written before the indexer's first status
may be lost to the reset at start (`StopKept` begins there on purpose), and a stop before the
slot exists fails in its own process.

## 4. Disagreements found

Each has a run whose only property states what the source says of itself; PROJECT.json quotes
the lines.

- `SharedMemoryStatus.h` promises the last whole JSON; a second session that resets the
  mapping can give a reader halves of two (the version returns to the value it saw).
- `IndexerEngine.h` promises exit code 0 for success; a refused write is counted as committed,
  and the process ends with 0 and an index that lacks files, of which later blocks may use
  strings.
- `BinaryIndexWriter.cpp` says that complete blocks can be searched during indexing; a search
  that reaches the torn block throws, and the GUI shows an error in place of what was found.
  After a kill inside a block this lasts until the next index.
- `DirectoryScanner.h` says errors go to `onError` and the scan goes on; a failed increment ends
  it, with nothing reported.
- `ScannedEntry.h` says `relativePath` is relative to the root; for a link it is its target's.
- `stopIndexing` says «Команда остановки отправлена» whatever its process answered; a stop
  pressed before the index process has reset its slot is lost, as is one whose process does not
  start.

Seen on the way and not given a run, as each is a smaller form of one above or shows at once
in the code: `committed_files` of the status counts refused blocks (`IndexerEngine.cpp:153`); a
status longer than the buffer is cut with an even version (`SharedMemoryStatus.cpp:33`); lines
are written from a block whose end marker is not there (`IndexerApplication.cpp:342`); a folder
that denies access is passed over without `onError` (`DirectoryScanner.cpp:53`); an empty query
by hand exits with 0 also when the output cannot be opened, and leaves the old lines in it
(`IndexerApplication.cpp:233`).

Two failures of the disk pass unseen as the one of `engine_success_is_whole` does. The models
have both, and the properties that they would break name them as exceptions. `runSearch` looks at
its output stream neither at a line (`IndexerApplication.cpp:342-346`) nor at its end (377): lines
that the disk refuses are missing, and so are all that follow, while the search prints the number
of all of them and exits with 0, and the window shows the beginning as the whole answer
(`FindsCommitted`, `FindsAll`: `output = "closed"`; `ShownIsAnswer`: `"cut"`). `saveTextFile`
(`main.cpp:150`) looks neither at its open nor at its write: `runIndexAsync` starts the index all
the same, and searches join its paths to the root of an older one, or to none (`PathsTrue`:
`saved = "yes"`).

Of the documents: CHANGELOG.txt 4-13 lists options that `CommandLineParser` refuses and
spellings it does not take: lists are cut at `;` only, and an extension is compared with its
dot, so `--include-ext pdf` leaves out every file. README_NATIVE_V2.txt says the GUI no longer
reads `.ffdb` itself; `buildIndexStatisticsText` does. The root file names the next root from
the start of an index on, also when that index fails (`PathsTrue` speaks of searches after one
that ended well). A search that failed leaves the list of an older query on the screen, and a
search that is under way fills the list again after `Clear`.

## 5. Proofs

The provers check these for every value of the constants; the only assumptions are
`ChannelAssumption`, `EngineAssumption`, `SearchAssumption`, `SessionsAssumption`, `GuiAssumption`,
`ScannerAssumption` (an entry lies in the root or in a folder that is an entry) and five about
texts: `SmallAssumption`, `RuleSignsAssumption` (`towlower` leaves `*` and `.` alone), `SignsAssumption` (the signs are symbols), `WordsAssumption` (the words of
the window's lines are symbols without capitals) and `CommandAssumption` (a folder is written as
Windows writes it, and what a user may add to it is spaces, marks and slashes; an item of a list is
not empty and has no semicolon). TLC evaluates all of them in the runs. Two theorems about the
scan (`PlainLists`) and those about the search (`ShortPaths`) have a hypothesis besides, named where
they are listed; it is a fact about constants that the runs' instances satisfy and that the code
does not always ensure.

`StatusChannel_proofs`:
- `TypeCorrect`, `InductiveInvariant`: `TypeOK` and `IInv` are invariants.
- `SnapshotsWhole`, `LengthsSound`: `NoTornSnapshot` and `NeverCorrupted` are invariants.
- `SnapshotsCurrent`: `SnapshotIsLast`, from the same invariant and one step of it.

`NoTornSnapshot` is not inductive. `IInv` adds what ties a reader's partial copy to the
mapping: outside a write the buffer holds the last text (`Settled`); inside one the version is
odd and what is no longer pending is stored (`WriteInProgress`); after a reset the version is
even and the length 0 (`ResetInProgress`, `WriterParity`); and while the version has not moved
since the reader loaded it, what it has copied is what the mapping holds (`ReadInProgress`),
for every reader under which the mapping was not reset. The version only moves up within a
session, so a version equal to the first one means that nothing was stored in between.

`IndexerEngine_proofs`:
- `TypeCorrect`: `Spec => []TypeOK` (with `InHand`, which the types of a block in progress need).
- `BlocksStandAlone`: `Spec => []ReferencesResolve`.
- `InductiveInvariant`: `Spec => []IInv`.
- `FileGrows`: `Spec => AppendOnly`; only `Truncate` and `BlockWritten` touch the blocks.
- `StopIsKept`: `Spec => StopKept`; from `NoStatusYet`: the only step of `run()` that writes the
  command slot comes before its first status.

`ReferencesResolve` speaks of the file; to be kept by `BlockWritten` it needs that the batch
refers only to ids given out (`BatchRefers`) and that each id given out is defined in the file
or in the batch (`Placed`). `Placed` holds only while every write has succeeded; after a
failure no block is ever completed again in that session, so the file keeps what it had.
`NoIdsYet` makes both true again when a new session begins over an old file.

The second half of the module is about what a reader decodes:
- `PromiseInvariant`: `Spec => []PromiseInv`.
- `IdsAreUnique`, `StatusIsTrue`, `LossIsBounded`, `EndedIsWhole`: `IdsUnique`, `StatusTrue`,
  `LossBounded` and `EndedWhole` are invariants.
- `PromiseKept`: `Spec => KeepsPromise`, the refinement of `PublishedIndex`: each action of the
  process is shown to be a `Scan`, `Publish`, `Finish`, `Begin` or `Distrust` of the promise or to
  leave what readers decode as it was.

These need more than that records are there: that they say what was reported. `PromiseInv` adds
it part by part. `Walked`: the folder in hand and the parts still to walk are the path of the
entry. `RecordsSound`: a record of the file or the batch holds what the tables in memory say
of its id. `Accounted`: files reported are, in order, those decoded from the blocks followed by those
of the batch. `IdsUnique` with the tables that only grow makes decoding independent of the moment.
`RoomKept` bounds the batch: an entry that finds it full goes to a commit, so it never holds more
files than `BatchSize`, or one if that is 0. `HandedOver`: nothing is left in the batch where the
code reports, pauses or has ended well. `Counted` and `StatusTrue` tie counters and published
status to the blocks. What compares the tables with the file holds until the first refused write;
after it no block is completed, so the file stays what it was.

`IndexSearch_proofs`, for any names, entries, batch size, queries and limits, under `ShortPaths`:
no entry lies deeper than `MaxDepth`. `buildFolderPath` cuts deeper paths at their upper end
(`IndexerApplication.cpp:140`, `hazards`), and such a line would not be true.
- `SearchTypeCorrect`, `SearchInvariant`: `SearchTypeOK` and `SearchInv` are invariants.
- `ResultsAreTrue`, `CommittedFound`, `AllFound`: `ResultsTrue`, `FindsCommitted`, `FindsAll`. All three
  speak of the lines in the results file. The last two need that no line was refused (`output`),
  and `AllFound` lets the search fail when a file cannot be opened: the code ensures no more.

The engine under the search is that of `IndexerEngine` (`EngineMoves`), so all of `PromiseInv` is
at hand, and so is `FileInv` of the same module, which carries it over to what is visible:
complete blocks and the torn one decode, with the tables of the process that wrote them, to a
beginning of the files reported, also after that process is gone. `SearchInv` says where the reader is (`InPlace`), that
its maps hold the records it has passed and nothing else (`MapsFilled`), that the lines it has
handed over are the matches among the files it has passed and within the limit (`WithinLimit`),
and what was complete when it started (`Passed`, `StaysWhole`), all of it as long as its file is
the same (`Follows`); and whatever happens to its file, that the lines in the results file are the
first of those, and all of them once the stream is closed (`WrittenOut`). Then a file it passes is decoded with maps that agree
with the tables of the writer; `buildFolderPath` follows the same parents (`UpOnWay`); files
passed are a beginning of the files visible, and matches of a beginning are a beginning of the matches.

`IndexStatistics_proofs`, for any names, entries and batch size:
- `StatisticsInvariant`, `StatisticsAreTrue`: `StatisticsInv` and `StatisticsTrue` are invariants.

`WhatIsRead` says what the loops that do not stop at a failed read have in their hands: list by
list, a beginning of what is visible, and a file only where the strings of its block and of those
before it are all read. So the type the window looks up is the one the record means
(`ExtensionRead`), and with `FileInv` the files it counts are the first that were reported
(`CountedFiles`). That it counts no string and no folder the process does not know needs one thing
more, which no invariant above has: `StatisticsInv`, that an id given out has exactly one record.
A record that is missing would break `ReferencesResolve` only when something refers to it, and one too
many would be found by `IdsUnique` only when it is out; the sum of both lengths shows either at once.

`GuiShell_proofs`, for any numbers of windows, users and processes:
- `TypeCorrect`, `WritersApart`, `InductiveInvariant`: `TypeOK`, `OneWriter` and `IInv` are invariants.
- `PathsAreTrue`, `StopsHitOwn`, `AnswersShown`: `PathsTrue`, `StopHitsOwn` and `ShownIsAnswer`.
  `PathsAreTrue` needs that the root could be saved (`saved`), and allows for a root that cannot be
  read; `AnswersShown` allows for an answer that the disk has cut short.

None of these follows from the button that is disabled alone. `IInv` says first what the
button is good for: a window that waits for a process is open, has the button disabled and
waits for one only (`StartGuards`, `SearchGuards`), and a window that sends a stop still has the
process it stops (`StopsOwn`: a blocked window takes no message). Then, as long as nobody has
begun an index beside another's (`alone`), one index process is pending at most, the root file
is its own if it could be saved, and a stop it can find in the slot is for it (`OneAtATime`): both the constructor and
`run()` clear what an earlier session left, and who opened the slot before that was sending to
the same process. `Settled` carries the end of such an index over to the searches that were
asked for after it, up to the next start. Each action has one step in each of the eight
lemmas; `BegunAlone`, `BegunQuiet` and `MadeUneasy` do the actions with sets of owners in them.

`CommandLine_proofs`, for any symbols and any texts of them:
- `QuoteCut`: what `quote` writes into a line, whatever marks, spaces and runs of slashes the text
  has, comes out of `Split` as one argument, that text, and the cutting goes on as before it.
- `WrittenSplit`: `splitSemicolonList` gives back the list that was written with semicolons.
- `PathArrives`: every spelling of a folder is cleaned by `normalizeUserPath` to a path that names
  this folder and is not empty.

`After` is determined by its steps (`StepsOnce`, `LoopsByStep`), and what follows in a text is read
on from where the loop stands (`LoopGoesOn`); the rest is induction over texts. For `quote` the
invariant is `CutsBack`: what the program has cut from the line written so far, followed by the
slashes that `quote` counts and has not written yet, is the text quoted so far. A mark doubles
those slashes and adds one, the end doubles them, and halving gives them back. Then `IndexMeant`,
`SearchMeant`, `StopMeant` and `HandMeant` say of each whole line that it `Means` what was asked: it is
not `Refused`, and each option has its value, since the words of the line are not capitals and
stand at odd places, and what the user typed stands at even ones.

`IndexCommand_proofs`, for any tree, folders, spellings, queries, lists and number of faults:
- `CommandTypeCorrect`: `Spec => []TypeOK`.
- `CommandsArrive`: `Spec => []ArgumentsArrive`.
- `FoldersComeFirst`: `Spec => []FoldersFirst`.
- `WalkCovers`: `Spec => []CoverInv`.
- `PlainListsMean`: `PlainLists => MasksMean`, that is, for masks that are names, `*.x` or `x*` and
  extensions with one dot, at their beginning, the rules leave out exactly what the lists ask for.
- `NothingIsForgotten`, `ExcludedIsOut`: `NothingForgotten` and `ExcludedStaysOut`, under the
  hypothesis `PlainLists`. It is false for masks that `simpleMatch` does not understand, such as
  `a*b` or `*`, and there the code does not leave out what was meant. That the lists of the scan
  are those the user gave is `CommandsArrive`.

`Glob` and `EndsIn` say what is meant without saying how it is decided: `MaskMeans` compares `Glob`
with the three cases of `simpleMatch`, and `ExtensionMeans` shows that a name that ends in an
extension with one dot has its last dot there.

`ArgumentsArrive` speaks of the parsed arguments. `OnItsWay` says what it needs at each stage: in
the window the text is a spelling of what is meant (`Typing`), the line and the arguments cut from
it are those of the lemmas above, and nobody's arguments are refused but those written to be.

The strengthening `WalkInv` relates the open directories of the iterator to the path of the
entry it stands on: what is left at a depth lies in the folder that the path goes through there,
and is not on that path (`Branches`); neither it nor anything below it has been reported
(`Fresh`); and every folder that the path goes through has been reported or complained of
(`WayKnown`), because the only entries that the loop passes over in silence are those into which
the iterator is then forbidden to go. `CoverInv` is the other half. `Coverage`: every entry is
`Settled` (reported, complained of, excluded, or below a folder that is excluded or denies
access) or still `Ahead` of the iterator, in a directory it has open or below
an entry that is left in one. `RulesKept`: an entry that a rule excludes was reported only if the second
look at its kind failed, and what is above a reported entry was let through. At the end nothing is
ahead, so all is settled. `WayOfFolders`, by induction along a path, gives that every part of the
way to an entry is a folder of the tree.

`SequenceFacts` is where recursion is dealt with, as no installed prover can use the library's
induction theorems: that the numbers are well-founded, with an order given as a set
(`LessIsWellFounded`), gives a least member of every set of numbers (`LeastMember`), that gives
induction for sets (`SetInduction`), and that gives induction over the length of sequences
(`SequencesByAppend`), each about a set and not about an operator. What is applied to each element
of a list (`OnEach`, `EachFlatten`) is for the same reason a function. `FlattenSeq` and `FolderPaths`,
which are recursive functions, are then determined by their equations: a function that satisfies
them exists (`JoinsUpExists`, `ClimbExists`) and any two are equal (`JoinsUpOnce`). The rest of the
module is about beginnings of sequences (`Begins`) and what a filter or a join does to them.

What stays with TLC: liveness (`ReaderAnswers`, `StopHonoured`, `PauseEnds`, `ButtonsReturn`).

## 6. Not modelled, and why

- Conversions of text, time and size, logging, the look of the window: no property is about
  them.
- `CheckpointManager`, `PathBuffer`, `FileHandle`: stubs without behaviour. `--mode update` and
  `--mode resume` are parsed and used nowhere.
- A disk that loses data it accepted, damaged files from elsewhere, changes of the tree
  during a scan.
- The updater: downloads, a comparison of versions and a checksum, one after another in one
  thread; its end is the `Close` of a window. The step that matters, the replacement of the
  program under other windows and index processes, is taken by `LVKUpdater.exe`, which is not
  in the repository.
- Killing a window while it waits in `stopIndexing`; windows of different sessions (the GUI always
  uses `main`); the summary file of the last index; the overflow and sign of `std::stoul`; the upper and lower
  case of extensions in the statistics, which are added up under one name there.
- What an index process in `Sessions` writes: `IndexerEngine` has it, for one process. That two
  writers at once spoil the file is `state = "mixed"`, and nothing is said of such a file.

## 7. Plan

Done: `StatusChannel`, `IndexerEngine` with `PublishedIndex`, `IndexSearch`, `IndexStatistics`,
`DirectoryScanner` with `NameRules`, `CommandLine` and `IndexCommand`, `Sessions` and `GuiShell`, and
the proofs of section 5. (`ControlChannel` of the first plan became part of `Sessions`.)

Left, in order:

1. Proofs: that one index process of `Sessions` is what `IndexerEngine` is to the
   others.
2. A record of what each search was asked, to tell a late message from the text in the box.
3. `compareVersions` of the updater against an order on versions.
