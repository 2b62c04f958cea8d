------------------------------ MODULE GuiShell ------------------------------
(***************************************************************************)
(* The windows (desktop/FindFile.Native/src/main.cpp).  Each runs an index  *)
(* process or a search from a worker thread, which waits for it and posts a *)
(* message with its exit code; "stop" runs its process in the thread of the *)
(* window, which is blocked meanwhile.  Windows share with one another, and *)
(* with processes that outlive the window that started them, the index, the *)
(* file with its root and the file of results.                              *)
(*                                                                         *)
(* A message is there from the end of its process on: nobody can tell when  *)
(* the worker thread posts it.  Each search has a query of its own; the     *)
(* name of the search stands for it.                                        *)
(***************************************************************************)
EXTENDS Sessions

CONSTANTS
    Searchers,  \* search processes
    MaxJobs     \* bound: processes of windows and users at a time, without those for "stop"

ASSUME GuiAssumption == Nobody \notin Searchers

VARIABLES
    window,    \* "closed", "free" or "stopping": in the call of stopIndexing
    buttons,   \* the enabled ones of each window
    rootFile,  \* index_root.txt: whose root it is, Nobody's when it is empty or cut short
    search,    \* the searches, from the worker thread to the message
    results,   \* search_results.tsv: the search that truncated it last, and its state
    shown,     \* the list of a window: "nothing", the "answer" it asked for, an answer "cut"
               \* short by the disk, or "other" lines
    saved,     \* history: whether the start of the last index saved its root
    alone,     \* history: "no" once an index is begun beside that of another window
    quiet,     \* history: "no" once a search is begun beside that of another window
    settled    \* history: "yes" from an undisturbed index to the next start

gui == <<window, buttons, rootFile, saved, search, results, shown, alone, quiet, settled>>
vars == <<sessions, gui>>

NoSearch == [phase |-> "none", owner |-> Nobody, root |-> Nobody, calm |-> "no"]

Over == {"none", "succeeded", "failed"}
Searching(s) == search[s].phase \notin Over \/ search[s].owner # Nobody

Room ==
    Cardinality({j \in Indexers : Pending(j)}) + Cardinality({s \in Searchers : Searching(s)})
        + Cardinality({u \in Users : sender[u] # "none"}) + 1 <= MaxJobs

Init ==
    /\ SessionsInit
    /\ window = [w \in Windows |-> "closed"] /\ buttons = [w \in Windows |-> {}]
    /\ rootFile = Nobody /\ saved = "no"
    /\ search = [s \in Searchers |-> NoSearch] /\ results = [by |-> Nobody, state |-> "none"]
    /\ shown = [w \in Windows |-> "nothing"]
    /\ alone = "yes" /\ quiet = "yes" /\ settled = "no"

OpenWindow(w) ==
    /\ window[w] = "closed"
    /\ window' = [window EXCEPT ![w] = "free"]
    /\ buttons' = [buttons EXCEPT ![w] = {"start", "search"}]
    /\ UNCHANGED <<sessions, rootFile, saved, search, results, shown, alone, quiet, settled>>

(* WM_DESTROY, also at the end of installUpdate: the worker threads die with the program,
   the processes they wait for go on. *)
Orphan(s) == IF search[s].phase \in {"running", "reading"}
             THEN [NoSearch EXCEPT !.phase = search[s].phase] ELSE NoSearch

Close(w) ==
    /\ window[w] = "free"
    /\ window' = [window EXCEPT ![w] = "closed"]
    /\ buttons' = [buttons EXCEPT ![w] = {}]
    /\ owner' = [j \in Indexers |-> IF owner[j] = w THEN Nobody ELSE owner[j]]
    /\ phase' = [j \in Indexers |-> IF owner[j] = w /\ ~Alive(j) THEN "none" ELSE phase[j]]
    /\ search' = [s \in Searchers |-> IF search[s].owner = w THEN Orphan(s) ELSE search[s]]
    /\ shown' = [shown EXCEPT ![w] = "nothing"]
    /\ UNCHANGED <<slot, sender, target, index, rootFile, saved, results, alone, quiet, settled>>

-----------------------------------------------------------------------------
(* Indexing. *)

(* Whether w has the shared files for itself when the jobs of these owners are pending. *)
Apart(w, owners, before) ==
    IF owners = {} THEN "yes" ELSE IF owners = {w} THEN before ELSE "no"

IndexOwners == {owner[j] : j \in {j \in Indexers : Pending(j)}}

(* No search that is under way can count on the index any longer. *)
Uneasy == [s \in Searchers |-> [search[s] EXCEPT !.calm = "no"]]

(* Mutant: the root is saved for the first index only. *)
SaveRootOnce(j) ==
    /\ rootFile' = IF rootFile = Nobody THEN j ELSE rootFile
    /\ saved' = "yes"

(* saveTextFile, which looks at nothing: the root is there, or the file could not be opened
   and holds the last one, or the disk has taken none of the text or not all of it. *)
SaveRoot(j) ==
    \/ rootFile' = j /\ saved' = "yes"
    \/ rootFile' \in {rootFile, Nobody} /\ saved' = "no"

(* Mutant: "start" can be pressed again. *)
StartIndexAgain(w, j) ==
    /\ window[w] = "free" /\ "start" \in buttons[w]
    /\ Launch(j, w)
    /\ SaveRoot(j)
    /\ buttons' = [buttons EXCEPT ![w] = @ \cup {"stop"}]
    /\ alone' = Apart(w, IndexOwners, alone) /\ settled' = "no"
    /\ search' = Uneasy
    /\ UNCHANGED <<window, results, shown, quiet>>

(* runIndexAsync. *)
StartIndex(w, j) ==
    /\ window[w] = "free" /\ "start" \in buttons[w]
    /\ Launch(j, w)
    /\ SaveRoot(j)
    /\ buttons' = [buttons EXCEPT ![w] = (@ \ {"start"}) \cup {"stop"}]
    /\ alone' = Apart(w, IndexOwners, alone) /\ settled' = "no"
    /\ search' = Uneasy
    /\ UNCHANGED <<window, results, shown, quiet>>

(* Mutant: only success gives the button back. *)
IndexDoneWell(w, j) ==
    /\ window[w] = "free"
    /\ owner[j] = w /\ ~Alive(j)
    /\ owner' = [owner EXCEPT ![j] = Nobody]
    /\ phase' = [phase EXCEPT ![j] = "none"]
    /\ buttons' = [buttons EXCEPT ![w] = IF phase[j] = "succeeded" THEN (@ \ {"stop"}) \cup {"start"}
                                         ELSE @]
    /\ settled' = IF phase[j] = "succeeded" THEN alone ELSE "no"
    /\ UNCHANGED <<slot, sender, target, index, window, rootFile, saved, search, results, shown,
                   alone, quiet>>

(* WM_APP_INDEX_DONE. *)
IndexDone(w, j) ==
    /\ window[w] = "free"
    /\ owner[j] = w /\ ~Alive(j)
    /\ owner' = [owner EXCEPT ![j] = Nobody]
    /\ phase' = [phase EXCEPT ![j] = "none"]
    /\ buttons' = [buttons EXCEPT ![w] = (@ \ {"stop"}) \cup {"start"}]
    /\ settled' = IF phase[j] = "succeeded" THEN alone ELSE "no"
    /\ UNCHANGED <<slot, sender, target, index, window, rootFile, saved, search, results, shown,
                   alone, quiet>>

(* Mutant: the window does not wait for the process. *)
StopIndexAsync(w, j) ==
    /\ window[w] = "free" /\ "stop" \in buttons[w]
    /\ owner[j] = w
    /\ SendStarts(w, j)
    /\ UNCHANGED gui

(* stopIndexing, up to the wait for its process. *)
StopIndex(w, j) ==
    /\ window[w] = "free" /\ "stop" \in buttons[w]
    /\ owner[j] = w
    /\ SendStarts(w, j)
    /\ window' = [window EXCEPT ![w] = "stopping"]
    /\ UNCHANGED <<buttons, rootFile, saved, search, results, shown, alone, quiet, settled>>

(* Whatever the exit code, the window says that the command has been sent. *)
StopReturns(w) ==
    /\ window[w] = "stopping" /\ sender[w] = "done"
    /\ window' = [window EXCEPT ![w] = "free"]
    /\ sender' = [sender EXCEPT ![w] = "none"]
    /\ target' = [target EXCEPT ![w] = Nobody]
    /\ UNCHANGED <<phase, owner, slot, index, buttons, rootFile, saved, search, results, shown,
                   alone, quiet, settled>>

-----------------------------------------------------------------------------
(* Searching. *)

SearchOwners == {search[s].owner : s \in {s \in Searchers : Searching(s)}}

(* Mutant: "search" can be pressed again. *)
SubmitAgain(w, s) ==
    /\ window[w] = "free" /\ "search" \in buttons[w]
    /\ index.state # "none"
    /\ ~Searching(s)
    /\ search' = [search EXCEPT ![s] = [NoSearch EXCEPT !.phase = "started", !.owner = w,
                                                        !.calm = settled]]
    /\ quiet' = Apart(w, SearchOwners, quiet)
    /\ UNCHANGED <<sessions, window, buttons, rootFile, saved, results, shown, alone, settled>>

(* runSearchAsync. *)
Submit(w, s) ==
    /\ window[w] = "free" /\ "search" \in buttons[w]
    /\ index.state # "none"
    /\ ~Searching(s)
    /\ search' = [search EXCEPT ![s] = [NoSearch EXCEPT !.phase = "started", !.owner = w,
                                                        !.calm = settled]]
    /\ buttons' = [buttons EXCEPT ![w] = @ \ {"search"}]
    /\ quiet' = Apart(w, SearchOwners, quiet)
    /\ UNCHANGED <<sessions, window, rootFile, saved, results, shown, alone, settled>>

SearchGoes(s, from, to) ==
    /\ search[s].phase = from
    /\ search' = [search EXCEPT ![s] = to]
    /\ UNCHANGED <<sessions, window, buttons, rootFile, saved, shown, alone, quiet, settled>>

(* The worker thread: readTextFile, which gives no text when it cannot open the file, then
   CreateProcess. *)
ReadRoot(s) ==
    /\ \E root \in {rootFile, Nobody} :
         SearchGoes(s, "started", [search[s] EXCEPT !.phase = "running", !.root = root])
    /\ UNCHANGED results

(* runSearch opens the index and truncates the file of results. *)
OpenFiles(s) ==
    /\ SearchGoes(s, "running", [NoSearch EXCEPT !.phase = "reading", !.owner = search[s].owner])
    /\ results' = [by |-> s, state |-> "part"]

Outcome(s, code) == IF search[s].owner = Nobody THEN NoSearch
                    ELSE [NoSearch EXCEPT !.phase = code, !.owner = search[s].owner]

(* The lines of s go among those of a search that has truncated the file since. *)
Lines(s, state) == IF results = [by |-> s, state |-> "part"] THEN [results EXCEPT !.state = state]
                   ELSE [results EXCEPT !.state = "mixed"]

(* Exit code 0, whether or not the disk has taken all the lines. *)
FinishSearch(s) ==
    /\ SearchGoes(s, "reading", Outcome(s, "succeeded"))
    /\ \E state \in {"whole", "cut"} : results' = Lines(s, state)

(* CreateProcess fails, the process throws, or it is killed. *)
FailSearch(s) ==
    \/ /\ \E from \in {"started", "running", "reading"} : SearchGoes(s, from, Outcome(s, "failed"))
       /\ UNCHANGED results
    \/ /\ SearchGoes(s, "reading", Outcome(s, "failed"))
       /\ results' = Lines(s, "part")

(* loadSearchResults. *)
Loaded(s) ==
    CASE results = [by |-> s, state |-> "whole"] -> "answer"
      [] results = [by |-> s, state |-> "cut"] -> "cut"
      [] OTHER -> "other"

(* Mutant: only success gives the button back. *)
SearchDoneWell(w, s) ==
    /\ window[w] = "free"
    /\ search[s].owner = w /\ search[s].phase \in Over
    /\ search' = [search EXCEPT ![s] = NoSearch]
    /\ IF search[s].phase = "failed" THEN UNCHANGED <<shown, buttons>>
       ELSE /\ \E list \in {Loaded(s), "nothing"} : shown' = [shown EXCEPT ![w] = list]
            /\ buttons' = [buttons EXCEPT ![w] = @ \cup {"search"}]
    /\ UNCHANGED <<sessions, window, rootFile, saved, results, alone, quiet, settled>>

(* WM_APP_SEARCH_DONE: what is loaded, nothing if the results cannot be opened, or the list
   stays as it is. *)
SearchDone(w, s) ==
    /\ window[w] = "free"
    /\ search[s].owner = w /\ search[s].phase \in Over
    /\ search' = [search EXCEPT ![s] = NoSearch]
    /\ buttons' = [buttons EXCEPT ![w] = @ \cup {"search"}]
    /\ IF search[s].phase = "failed" THEN UNCHANGED shown
       ELSE \E list \in {Loaded(s), "nothing"} : shown' = [shown EXCEPT ![w] = list]
    /\ UNCHANGED <<sessions, window, rootFile, saved, results, alone, quiet, settled>>

(* clearResults, for its button and for an empty query. *)
Clear(w) ==
    /\ window[w] = "free"
    /\ shown' = [shown EXCEPT ![w] = "nothing"]
    /\ UNCHANGED <<sessions, window, buttons, rootFile, saved, search, results, alone, quiet, settled>>

SearcherGoesOn(s) == ReadRoot(s) \/ OpenFiles(s) \/ FinishSearch(s)

-----------------------------------------------------------------------------
WindowStep(w) ==
    \/ OpenWindow(w) \/ Close(w) \/ StopReturns(w) \/ Clear(w)
    \/ \E j \in Indexers : Room /\ StartIndex(w, j)
    \/ \E j \in Indexers : IndexDone(w, j) \/ StopIndex(w, j)
    \/ \E s \in Searchers : Room /\ Submit(w, s)
    \/ \E s \in Searchers : SearchDone(w, s)

Next ==
    \/ SessionsStep /\ UNCHANGED gui
    \/ \E u \in Users : Room /\ SendStarts(u, Nobody) /\ UNCHANGED gui
    \/ \E w \in Windows : WindowStep(w)
    \/ \E s \in Searchers : SearcherGoesOn(s) \/ FailSearch(s)

Spec == Init /\ [][Next]_vars

(* Processes and threads run.  A scan comes to an end: a tree is finite, and every poll is
   followed by another entry.  A posted message is taken before any input, however often
   the user blocks the window. *)
FairSpec ==
    /\ Spec
    /\ \A j \in Indexers : /\ WF_vars(IndexerGoesOn(j) /\ UNCHANGED gui)
                           /\ SF_vars(ScanEnds(j) /\ UNCHANGED gui)
    /\ \A s \in Senders : WF_vars(SenderGoesOn(s) /\ UNCHANGED gui)
    /\ \A s \in Searchers : WF_vars(SearcherGoesOn(s))
    /\ \A w \in Windows : /\ WF_vars(StopReturns(w))
                          /\ \A j \in Indexers : SF_vars(IndexDone(w, j))
                          /\ \A s \in Searchers : SF_vars(SearchDone(w, s))

-----------------------------------------------------------------------------
Searches == [phase : {"started", "running", "reading"} \cup Over,
             owner : Windows \cup {Nobody}, root : Indexers \cup {Nobody}, calm : {"yes", "no"}]

(* Every variable holds a value the code can store in it. *)
TypeOK ==
    /\ SessionsTypeOK
    /\ window \in [Windows -> {"closed", "free", "stopping"}]
    /\ buttons \in [Windows -> SUBSET {"start", "stop", "search"}]
    /\ rootFile \in Indexers \cup {Nobody}
    /\ search \in [Searchers -> Searches]
    /\ results \in [by : Searchers \cup {Nobody},
                   state : {"none", "part", "cut", "whole", "mixed"}]
    /\ shown \in [Windows -> {"nothing", "answer", "cut", "other"}]
    /\ {saved, alone, quiet, settled} \subseteq {"yes", "no"}

(* While no index is begun beside that of another window, or of a window that has been
   closed, a process that writes to the index file finds there what it began itself: the
   disabled button and the order of the messages keep the writers apart. *)
OneWriter == alone = "yes" =>
    \A j \in Indexers : phase[j] \in Writing => index = [by |-> j, state |-> "begun"]

(* A search asked for after an index that ended well and undisturbed and whose root could be
   saved, and run before the next one is begun, joins the paths of a finished index to the
   root they belong to, or to none when the file of the root cannot be read, though the root
   and the index are two files written at different times. *)
PathsTrue == [][\A s \in Searchers :
    OpenFiles(s) /\ search[s].calm = "yes" /\ saved = "yes"
        => index.state = "ended" /\ search[s].root \in {index.by, Nobody}]_vars

(* While no search is begun beside that of another window, or of a closed one, the lines
   that a window loads are those of the query it asked, and all of them unless the disk
   refused some, whatever has ended since the last message and however often windows are
   opened and closed. *)
ShownIsAnswer == [][\A w \in Windows :
    shown'[w] # shown[w] /\ quiet = "yes" => shown'[w] # "other"]_vars

(* A stop is obeyed by the index process it was given for: neither a stop of a window that
   comes late, nor one, also a user's, that a process still holding the mapping has kept in
   the slot, ends the next. *)
StopHitsOwn == [][\A j \in Indexers : StopSeen(j) /\ alone = "yes" => j \in meant]_vars

(* A button that was disabled for a job comes back, however the job ends, unless the window
   is closed or somebody has paused the index process. *)
ButtonsReturn == \A w \in Windows :
    /\ window[w] # "closed" /\ "start" \notin buttons[w] ~>
          \/ window[w] = "closed" \/ "start" \in buttons[w]
          \/ \E j \in Indexers : owner[j] = w /\ phase[j] = "paused"
    /\ window[w] # "closed" /\ "search" \notin buttons[w] ~>
          window[w] = "closed" \/ "search" \in buttons[w]

(* What the window says when stopIndexing returns, "Команда остановки отправлена": the
   stop is in the slot, or the index process has no need of it any more. *)
StopIsSent == [][\A w \in Windows : StopReturns(w) /\ alone = "yes" =>
    command = "StopGraceful" \/ phase[target[w]] \in {"finishing", "succeeded", "failed"}]_vars
-----------------------------------------------------------------------------
(* The strengthening that GuiShell_proofs shows to be inductive. *)

(* A window that waits for an index process is open, its "start" is disabled, and it waits
   for one; and somebody waits for each process that is over. *)
StartGuards ==
    /\ \A j \in Indexers : owner[j] # Nobody =>
         window[owner[j]] # "closed" /\ "start" \notin buttons[owner[j]]
    /\ \A i, j \in Indexers : owner[i] # Nobody /\ owner[i] = owner[j] => i = j
    /\ \A j \in Indexers : phase[j] \in Over => (phase[j] = "none" <=> owner[j] = Nobody)

(* A window that is sending a stop is blocked, and its index process is still its own. *)
StopsOwn ==
    \A w \in Windows : sender[w] # "none" =>
        /\ window[w] = "stopping"
        /\ target[w] \in Indexers /\ owner[target[w]] = w

(* One index process at a time: the file is its own, and so are the root and the stop. *)
OneAtATime == alone = "yes" =>
    /\ \A i, j \in Indexers : Pending(i) /\ Pending(j) => i = j
    /\ saved = "yes" => \A j \in Indexers : Pending(j) => rootFile = j
    /\ \A j \in Indexers : phase[j] = "succeeded" => index = [by |-> j, state |-> "ended"]
    /\ \A j \in Indexers : phase[j] \in Writing \cup {"starting"} /\ command = "StopGraceful"
                              => j \in meant

(* After an index that ended well. *)
Settled ==
    /\ settled = "yes" =>
         /\ \A j \in Indexers : ~Pending(j)
         /\ index.state = "ended" /\ (saved = "yes" => rootFile = index.by)
    /\ \A s \in Searchers : search[s].calm = "yes" =>
         settled = "yes" /\ (search[s].phase = "running" => search[s].root \in {rootFile, Nobody})

(* What StartGuards says, for searches. *)
SearchGuards ==
    /\ \A s \in Searchers : search[s].owner # Nobody =>
         window[search[s].owner] # "closed" /\ "search" \notin buttons[search[s].owner]
    /\ \A r, s \in Searchers : search[r].owner # Nobody /\ search[r].owner = search[s].owner
                                  => r = s
    /\ \A s \in Searchers :
         search[s].phase \in Over => (search[s].phase = "none" <=> search[s].owner = Nobody)

(* One search at a time: the file of results is its own. *)
OneSearch == quiet = "yes" =>
    /\ \A r, s \in Searchers : Searching(r) /\ Searching(s) => r = s
    /\ \A s \in Searchers : search[s].phase = "reading" => results = [by |-> s, state |-> "part"]
    /\ \A s \in Searchers :
         search[s].phase = "succeeded" => results \in [by : {s}, state : {"whole", "cut"}]

IInv == /\ TypeOK /\ StartGuards /\ StopsOwn /\ OneAtATime /\ OneWriter /\ Settled
        /\ SearchGuards /\ OneSearch
=============================================================================
