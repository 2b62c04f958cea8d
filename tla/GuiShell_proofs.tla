--------------------------- MODULE GuiShell_proofs ---------------------------
(***************************************************************************)
(* Theorems about GuiShell, for any numbers of windows, users, index and    *)
(* search processes.  The bound MaxJobs is not used.                        *)
(***************************************************************************)
EXTENDS GuiShell, TLAPS

USE DEF slot, sessions, gui, vars, Senders, Alive, Pending, Writing, Over, Searching, NoSearch

-----------------------------------------------------------------------------
(* What the steps with a choice in them do. *)

(* An index that may count as alone is begun when no other is pending. *)
LEMMA BegunAlone ==
    ASSUME IInv, NEW w \in Windows, NEW j \in Indexers, StartIndex(w, j)
    PROVE  /\ alone' \in {"yes", "no"}
           /\ alone' = "yes" => \A i \in Indexers : ~Pending(i)
<1>1. \A i \in Indexers : owner[i] # w
  BY SessionsAssumption DEF IInv, StartGuards, StartIndex
<1>2. IndexOwners # {w}
  BY <1>1 DEF IndexOwners
<1>3. alone' = IF IndexOwners = {} THEN "yes" ELSE "no"
  BY <1>2 DEF StartIndex, Apart
<1>4. IndexOwners = {} => \A i \in Indexers : ~Pending(i)
  BY DEF IndexOwners
<1>5. QED
  BY <1>3, <1>4

LEMMA BegunQuiet ==
    ASSUME IInv, NEW w \in Windows, NEW s \in Searchers, Submit(w, s)
    PROVE  /\ quiet' \in {"yes", "no"}
           /\ quiet' = "yes" => \A r \in Searchers : ~Searching(r)
<1>1. \A r \in Searchers : search[r].owner # w
  BY SessionsAssumption DEF IInv, SearchGuards, Submit
<1>2. SearchOwners # {w}
  BY <1>1 DEF SearchOwners
<1>3. quiet' = IF SearchOwners = {} THEN "yes" ELSE "no"
  BY <1>2 DEF Submit, Apart
<1>4. SearchOwners = {} => \A r \in Searchers : ~Searching(r)
  BY DEF SearchOwners
<1>5. QED
  BY <1>3, <1>4

(* A start leaves the searches as they are, but calm. *)
LEMMA MadeUneasy ==
    ASSUME IInv, NEW w \in Windows, NEW j \in Indexers, StartIndex(w, j)
    PROVE  /\ search' \in [Searchers -> Searches]
           /\ \A s \in Searchers :
                /\ search'[s].phase = search[s].phase /\ search'[s].owner = search[s].owner
                /\ search'[s].root = search[s].root /\ search'[s].calm = "no"
<1>1. \A s \in Searchers : search[s] \in Searches
  BY DEF IInv, TypeOK
<1>2. \A s \in Searchers : [search[s] EXCEPT !.calm = "no"] \in Searches
  BY <1>1 DEF Searches
<1>3. search' = [s \in Searchers |-> [search[s] EXCEPT !.calm = "no"]]
  BY DEF StartIndex, Uneasy
<1>4. search' \in [Searchers -> Searches]
  BY <1>2, <1>3
<1>5. \A s \in Searchers :
        /\ search'[s].phase = search[s].phase /\ search'[s].owner = search[s].owner
        /\ search'[s].root = search[s].root /\ search'[s].calm = "no"
  BY <1>1, <1>3 DEF Searches
<1>6. QED
  BY <1>4, <1>5

LEMMA SearchFails ==
    ASSUME NEW s \in Searchers, FailSearch(s)
    PROVE  /\ search[s].phase \notin Over
           /\ search' = [search EXCEPT ![s] = Outcome(s, "failed")]
           /\ \/ results' = results
              \/ search[s].phase = "reading" /\ results' = Lines(s, "part")
           /\ UNCHANGED <<sessions, window, buttons, rootFile, saved, shown, alone, quiet, settled>>
<1>1. CASE /\ \E from \in {"started", "running", "reading"} :
                 SearchGoes(s, from, Outcome(s, "failed"))
           /\ UNCHANGED results
  <2>1. PICK from \in {"started", "running", "reading"} :
          SearchGoes(s, from, Outcome(s, "failed"))
    BY <1>1
  <2>2. QED
    BY <1>1, <2>1 DEF SearchGoes
<1>2. CASE /\ SearchGoes(s, "reading", Outcome(s, "failed"))
           /\ results' = Lines(s, "part")
  BY <1>2 DEF SearchGoes
<1>3. QED
  BY <1>1, <1>2 DEF FailSearch

LEMMA SearchLeaves ==
    ASSUME NEW s \in Searchers, SearcherGoesOn(s) \/ FailSearch(s)
    PROVE  UNCHANGED <<sessions, window, buttons, rootFile, saved, shown, alone, quiet, settled>>
BY SearchFails DEF SearcherGoesOn, ReadRoot, OpenFiles, FinishSearch, SearchGoes

-----------------------------------------------------------------------------
(* Every step keeps the invariant. *)

(* Types.  That a stop is meant for an index process rests on StopsOwn. *)
LEMMA TypesKept ==
    ASSUME IInv, [Next]_vars PROVE  TypeOK'
<1> USE SessionsAssumption, GuiAssumption DEF IInv, TypeOK, SessionsTypeOK, Searches,
      Phases, Commands, StopsOwn
<1>1. ASSUME NEW j \in Indexers, MapSlot(j), UNCHANGED gui PROVE  TypeOK'
  BY <1>1 DEF MapSlot, Goes
<1>2. ASSUME NEW j \in Indexers, InitSlot(j), UNCHANGED gui PROVE  TypeOK'
  BY <1>2 DEF InitSlot, Goes, WriteContinue
<1>3. ASSUME NEW j \in Indexers, ResetCommand(j), UNCHANGED gui PROVE  TypeOK'
  BY <1>3 DEF ResetCommand, Goes, WriteContinue
<1>4. ASSUME NEW j \in Indexers, OpenNew(j), UNCHANGED gui PROVE  TypeOK'
  BY <1>4 DEF OpenNew, Goes
<1>5. ASSUME NEW j \in Indexers, Commit(j), UNCHANGED gui PROVE  TypeOK'
  BY <1>5 DEF Commit, Goes, Write
<1>6. ASSUME NEW j \in Indexers, StopSeen(j), UNCHANGED gui PROVE  TypeOK'
  BY <1>6 DEF StopSeen, Goes
<1>7. ASSUME NEW j \in Indexers, PauseSeen(j), UNCHANGED gui PROVE  TypeOK'
  BY <1>7 DEF PauseSeen, Goes
<1>8. ASSUME NEW j \in Indexers, GoOn(j), UNCHANGED gui PROVE  TypeOK'
  BY <1>8 DEF GoOn, Goes
<1>9. ASSUME NEW j \in Indexers, ScanEnds(j), UNCHANGED gui PROVE  TypeOK'
  BY <1>9 DEF ScanEnds, Goes
<1>10. ASSUME NEW j \in Indexers, Finish(j), UNCHANGED gui PROVE  TypeOK'
  BY <1>10 DEF Finish, Write, Exit, Release
<1>11. ASSUME NEW j \in Indexers, Fail(j), UNCHANGED gui PROVE  TypeOK'
  BY <1>11 DEF Fail, Exit, Release
<1>12. ASSUME NEW s \in Senders, OpenSlot(s), UNCHANGED gui PROVE  TypeOK'
  BY <1>12 DEF OpenSlot
<1>13. ASSUME NEW s \in Senders, SlotMissing(s), UNCHANGED gui PROVE  TypeOK'
  BY <1>13 DEF SlotMissing, SendEnds
<1>14. ASSUME NEW s \in Senders, NEW c \in Commands, Send(s, c), UNCHANGED gui
      PROVE  TypeOK'
  BY <1>14 DEF Send, MeantBy
<1>14a. ASSUME NEW s \in Senders, SendDone(s) \/ SenderFails(s), UNCHANGED gui
      PROVE  TypeOK'
  BY <1>14a DEF SendDone, SenderFails, Release, SendEnds
<1>15. ASSUME NEW u \in Users, SendStarts(u, Nobody), UNCHANGED gui PROVE  TypeOK'
  BY <1>15 DEF SendStarts
<1>16. ASSUME NEW w \in Windows, OpenWindow(w) PROVE  TypeOK'
  BY <1>16 DEF OpenWindow
<1>17. ASSUME NEW w \in Windows, Close(w) PROVE  TypeOK'
  BY <1>17 DEF Close, Orphan
<1>18. ASSUME NEW w \in Windows, StopReturns(w) PROVE  TypeOK'
  BY <1>18 DEF StopReturns
<1>19. ASSUME NEW w \in Windows, Clear(w) PROVE  TypeOK'
  BY <1>19 DEF Clear
<1>20. ASSUME NEW w \in Windows, NEW j \in Indexers, StartIndex(w, j) PROVE  TypeOK'
  <2>1. search' \in [Searchers -> Searches]
    BY <1>20, MadeUneasy
  <2>2. alone' \in {"yes", "no"}
    BY <1>20, BegunAlone
  <2>3. QED
    BY <1>20, <2>1, <2>2 DEF StartIndex, SaveRoot, Launch, Goes
<1>21. ASSUME NEW w \in Windows, NEW j \in Indexers, IndexDone(w, j) PROVE  TypeOK'
  BY <1>21 DEF IndexDone
<1>22. ASSUME NEW w \in Windows, NEW j \in Indexers, StopIndex(w, j) PROVE  TypeOK'
  BY <1>22 DEF StopIndex, SendStarts
<1>23. ASSUME NEW w \in Windows, NEW s \in Searchers, Submit(w, s) PROVE  TypeOK'
  <2>1. /\ quiet' \in {"yes", "no"}
        /\ quiet' = "yes" => \A r \in Searchers : ~Searching(r)
    BY <1>23, BegunQuiet
  <2>2. QED
    BY <1>23, <2>1 DEF Submit
<1>24. ASSUME NEW w \in Windows, NEW s \in Searchers, SearchDone(w, s) PROVE  TypeOK'
  BY <1>24 DEF SearchDone, Loaded
<1>25. ASSUME NEW s \in Searchers, ReadRoot(s) PROVE  TypeOK'
  <2>1. PICK root \in {rootFile, Nobody} :
          SearchGoes(s, "started", [search[s] EXCEPT !.phase = "running", !.root = root])
    BY <1>25 DEF ReadRoot
  <2>2. search[s] \in Searches /\ root \in Indexers \cup {Nobody}
    BY <2>1
  <2>3. [search[s] EXCEPT !.phase = "running", !.root = root] \in Searches
    BY <2>2
  <2>4. QED
    BY <1>25, <2>1, <2>3 DEF ReadRoot, SearchGoes
<1>26. ASSUME NEW s \in Searchers, OpenFiles(s) PROVE  TypeOK'
  BY <1>26 DEF OpenFiles, SearchGoes
<1>27. ASSUME NEW s \in Searchers, FinishSearch(s) PROVE  TypeOK'
  <2>1. Outcome(s, "succeeded") \in Searches
    BY DEF Outcome
  <2>2. \A state \in {"whole", "cut"} :
          Lines(s, state) \in [by : Searchers \cup {Nobody},
                              state : {"none", "part", "cut", "whole", "mixed"}]
    BY DEF Lines
  <2>3. QED
    BY <1>27, <2>1, <2>2 DEF FinishSearch, SearchGoes
<1>28. ASSUME NEW s \in Searchers, FailSearch(s) PROVE  TypeOK'
  <2>1. Outcome(s, "failed") \in Searches
    BY DEF Outcome
  <2>2. Lines(s, "part") \in [by : Searchers \cup {Nobody},
                             state : {"none", "part", "cut", "whole", "mixed"}]
    BY DEF Lines
  <2>3. /\ search' = [search EXCEPT ![s] = Outcome(s, "failed")]
        /\ results' = results \/ results' = Lines(s, "part")
        /\ UNCHANGED <<sessions, window, buttons, rootFile, saved, shown, alone, quiet, settled>>
    BY <1>28, SearchFails
  <2>4. QED
    BY <1>28, <2>1, <2>2, <2>3
<1>29. CASE UNCHANGED vars
  BY <1>29
<1> HIDE DEF IInv, TypeOK, SessionsTypeOK, Searches, Phases, Commands, StopsOwn
<1>30. QED
  BY <1>1, <1>2, <1>3, <1>4, <1>5, <1>6, <1>7, <1>8, <1>9, <1>10, <1>11, <1>12, <1>13,
     <1>14, <1>14a, <1>15, <1>16, <1>17, <1>18, <1>19, <1>20, <1>21, <1>22, <1>23, <1>24,
     <1>25, <1>26, <1>27, <1>28, <1>29 DEF Next, SessionsStep, IndexerGoesOn, SenderGoesOn,
     WindowStep, SearcherGoesOn

(* The button is disabled by the step that makes the window wait, and enabled by the one
   that ends the wait. *)
LEMMA StartGuardsKept ==
    ASSUME IInv, [Next]_vars PROVE  StartGuards'
<1> USE SessionsAssumption, GuiAssumption DEF IInv, TypeOK, SessionsTypeOK, StartGuards
<1>1. ASSUME NEW j \in Indexers, MapSlot(j), UNCHANGED gui PROVE  StartGuards'
  BY <1>1 DEF MapSlot, Goes
<1>2. ASSUME NEW j \in Indexers, InitSlot(j), UNCHANGED gui PROVE  StartGuards'
  BY <1>2 DEF InitSlot, Goes, WriteContinue
<1>3. ASSUME NEW j \in Indexers, ResetCommand(j), UNCHANGED gui PROVE  StartGuards'
  BY <1>3 DEF ResetCommand, Goes, WriteContinue
<1>4. ASSUME NEW j \in Indexers, OpenNew(j), UNCHANGED gui PROVE  StartGuards'
  BY <1>4 DEF OpenNew, Goes
<1>5. ASSUME NEW j \in Indexers, Commit(j), UNCHANGED gui PROVE  StartGuards'
  BY <1>5 DEF Commit, Goes, Write
<1>6. ASSUME NEW j \in Indexers, StopSeen(j), UNCHANGED gui PROVE  StartGuards'
  BY <1>6 DEF StopSeen, Goes
<1>7. ASSUME NEW j \in Indexers, PauseSeen(j), UNCHANGED gui PROVE  StartGuards'
  BY <1>7 DEF PauseSeen, Goes
<1>8. ASSUME NEW j \in Indexers, GoOn(j), UNCHANGED gui PROVE  StartGuards'
  BY <1>8 DEF GoOn, Goes
<1>9. ASSUME NEW j \in Indexers, ScanEnds(j), UNCHANGED gui PROVE  StartGuards'
  BY <1>9 DEF ScanEnds, Goes
<1>10. ASSUME NEW j \in Indexers, Finish(j), UNCHANGED gui PROVE  StartGuards'
  BY <1>10 DEF Finish, Write, Exit, Release
<1>11. ASSUME NEW j \in Indexers, Fail(j), UNCHANGED gui PROVE  StartGuards'
  BY <1>11 DEF Fail, Exit, Release
<1>12. ASSUME NEW s \in Senders, OpenSlot(s), UNCHANGED gui PROVE  StartGuards'
  BY <1>12 DEF OpenSlot
<1>13. ASSUME NEW s \in Senders, SlotMissing(s), UNCHANGED gui PROVE  StartGuards'
  BY <1>13 DEF SlotMissing, SendEnds
<1>14. ASSUME NEW s \in Senders, NEW c \in Commands, Send(s, c), UNCHANGED gui
      PROVE  StartGuards'
  BY <1>14 DEF Send, MeantBy
<1>14a. ASSUME NEW s \in Senders, SendDone(s) \/ SenderFails(s), UNCHANGED gui
      PROVE  StartGuards'
  BY <1>14a DEF SendDone, SenderFails, Release, SendEnds
<1>15. ASSUME NEW u \in Users, SendStarts(u, Nobody), UNCHANGED gui PROVE  StartGuards'
  BY <1>15 DEF SendStarts
<1>16. ASSUME NEW w \in Windows, OpenWindow(w) PROVE  StartGuards'
  BY <1>16 DEF OpenWindow
<1>17. ASSUME NEW w \in Windows, Close(w) PROVE  StartGuards'
  BY <1>17 DEF Close, Orphan
<1>18. ASSUME NEW w \in Windows, StopReturns(w) PROVE  StartGuards'
  BY <1>18 DEF StopReturns
<1>19. ASSUME NEW w \in Windows, Clear(w) PROVE  StartGuards'
  BY <1>19 DEF Clear
<1>20. ASSUME NEW w \in Windows, NEW j \in Indexers, StartIndex(w, j) PROVE  StartGuards'
  <2>1. /\ alone' \in {"yes", "no"}
        /\ alone' = "yes" => \A i \in Indexers : ~Pending(i)
    BY <1>20, BegunAlone
  <2>2. QED
    BY <1>20, <2>1 DEF StartIndex, SaveRoot, Launch, Goes
<1>21. ASSUME NEW w \in Windows, NEW j \in Indexers, IndexDone(w, j) PROVE  StartGuards'
  BY <1>21 DEF IndexDone
<1>22. ASSUME NEW w \in Windows, NEW j \in Indexers, StopIndex(w, j) PROVE  StartGuards'
  BY <1>22 DEF StopIndex, SendStarts
<1>23. ASSUME NEW w \in Windows, NEW s \in Searchers, Submit(w, s) PROVE  StartGuards'
  BY <1>23 DEF Submit, Apart, SearchOwners
<1>24. ASSUME NEW w \in Windows, NEW s \in Searchers, SearchDone(w, s) PROVE  StartGuards'
  BY <1>24 DEF SearchDone
<1>25. ASSUME NEW s \in Searchers, SearcherGoesOn(s) \/ FailSearch(s) PROVE  StartGuards'
  BY <1>25, SearchLeaves
<1>26. CASE UNCHANGED vars
  BY <1>26
<1>27. QED
  BY <1>1, <1>2, <1>3, <1>4, <1>5, <1>6, <1>7, <1>8, <1>9, <1>10, <1>11, <1>12, <1>13,
     <1>14, <1>14a, <1>15, <1>16, <1>17, <1>18, <1>19, <1>20, <1>21, <1>22, <1>23, <1>24,
     <1>25, <1>26 DEF Next, SessionsStep, IndexerGoesOn, SenderGoesOn, WindowStep

(* A blocked window takes no message: the process it stops stays its own. *)
LEMMA StopsOwnKept ==
    ASSUME IInv, [Next]_vars PROVE  StopsOwn'
<1> USE SessionsAssumption, GuiAssumption DEF IInv, TypeOK, SessionsTypeOK, StopsOwn,
      StartGuards
<1>1. ASSUME NEW j \in Indexers, MapSlot(j), UNCHANGED gui PROVE  StopsOwn'
  BY <1>1 DEF MapSlot, Goes
<1>2. ASSUME NEW j \in Indexers, InitSlot(j), UNCHANGED gui PROVE  StopsOwn'
  BY <1>2 DEF InitSlot, Goes, WriteContinue
<1>3. ASSUME NEW j \in Indexers, ResetCommand(j), UNCHANGED gui PROVE  StopsOwn'
  BY <1>3 DEF ResetCommand, Goes, WriteContinue
<1>4. ASSUME NEW j \in Indexers, OpenNew(j), UNCHANGED gui PROVE  StopsOwn'
  BY <1>4 DEF OpenNew, Goes
<1>5. ASSUME NEW j \in Indexers, Commit(j), UNCHANGED gui PROVE  StopsOwn'
  BY <1>5 DEF Commit, Goes, Write
<1>6. ASSUME NEW j \in Indexers, StopSeen(j), UNCHANGED gui PROVE  StopsOwn'
  BY <1>6 DEF StopSeen, Goes
<1>7. ASSUME NEW j \in Indexers, PauseSeen(j), UNCHANGED gui PROVE  StopsOwn'
  BY <1>7 DEF PauseSeen, Goes
<1>8. ASSUME NEW j \in Indexers, GoOn(j), UNCHANGED gui PROVE  StopsOwn'
  BY <1>8 DEF GoOn, Goes
<1>9. ASSUME NEW j \in Indexers, ScanEnds(j), UNCHANGED gui PROVE  StopsOwn'
  BY <1>9 DEF ScanEnds, Goes
<1>10. ASSUME NEW j \in Indexers, Finish(j), UNCHANGED gui PROVE  StopsOwn'
  BY <1>10 DEF Finish, Write, Exit, Release
<1>11. ASSUME NEW j \in Indexers, Fail(j), UNCHANGED gui PROVE  StopsOwn'
  BY <1>11 DEF Fail, Exit, Release
<1>12. ASSUME NEW s \in Senders, OpenSlot(s), UNCHANGED gui PROVE  StopsOwn'
  BY <1>12 DEF OpenSlot
<1>13. ASSUME NEW s \in Senders, SlotMissing(s), UNCHANGED gui PROVE  StopsOwn'
  BY <1>13 DEF SlotMissing, SendEnds
<1>14. ASSUME NEW s \in Senders, NEW c \in Commands, Send(s, c), UNCHANGED gui
      PROVE  StopsOwn'
  BY <1>14 DEF Send, MeantBy
<1>14a. ASSUME NEW s \in Senders, SendDone(s) \/ SenderFails(s), UNCHANGED gui
      PROVE  StopsOwn'
  BY <1>14a DEF SendDone, SenderFails, Release, SendEnds
<1>15. ASSUME NEW u \in Users, SendStarts(u, Nobody), UNCHANGED gui PROVE  StopsOwn'
  BY <1>15 DEF SendStarts
<1>16. ASSUME NEW w \in Windows, OpenWindow(w) PROVE  StopsOwn'
  BY <1>16 DEF OpenWindow
<1>17. ASSUME NEW w \in Windows, Close(w) PROVE  StopsOwn'
  BY <1>17 DEF Close, Orphan
<1>18. ASSUME NEW w \in Windows, StopReturns(w) PROVE  StopsOwn'
  BY <1>18 DEF StopReturns
<1>19. ASSUME NEW w \in Windows, Clear(w) PROVE  StopsOwn'
  BY <1>19 DEF Clear
<1>20. ASSUME NEW w \in Windows, NEW j \in Indexers, StartIndex(w, j) PROVE  StopsOwn'
  <2>1. /\ alone' \in {"yes", "no"}
        /\ alone' = "yes" => \A i \in Indexers : ~Pending(i)
    BY <1>20, BegunAlone
  <2>2. QED
    BY <1>20, <2>1 DEF StartIndex, SaveRoot, Launch, Goes
<1>21. ASSUME NEW w \in Windows, NEW j \in Indexers, IndexDone(w, j) PROVE  StopsOwn'
  BY <1>21 DEF IndexDone
<1>22. ASSUME NEW w \in Windows, NEW j \in Indexers, StopIndex(w, j) PROVE  StopsOwn'
  BY <1>22 DEF StopIndex, SendStarts
<1>23. ASSUME NEW w \in Windows, NEW s \in Searchers, Submit(w, s) PROVE  StopsOwn'
  BY <1>23 DEF Submit, Apart, SearchOwners
<1>24. ASSUME NEW w \in Windows, NEW s \in Searchers, SearchDone(w, s) PROVE  StopsOwn'
  BY <1>24 DEF SearchDone
<1>25. ASSUME NEW s \in Searchers, SearcherGoesOn(s) \/ FailSearch(s) PROVE  StopsOwn'
  BY <1>25, SearchLeaves
<1>26. CASE UNCHANGED vars
  BY <1>26
<1>27. QED
  BY <1>1, <1>2, <1>3, <1>4, <1>5, <1>6, <1>7, <1>8, <1>9, <1>10, <1>11, <1>12, <1>13,
     <1>14, <1>14a, <1>15, <1>16, <1>17, <1>18, <1>19, <1>20, <1>21, <1>22, <1>23, <1>24,
     <1>25, <1>26 DEF Next, SessionsStep, IndexerGoesOn, SenderGoesOn, WindowStep

(* Only a start makes a process pending, and one that counts as alone finds none. *)
LEMMA OneAtATimeKept ==
    ASSUME IInv, [Next]_vars PROVE  OneAtATime'
<1> USE SessionsAssumption, GuiAssumption DEF IInv, TypeOK, SessionsTypeOK, OneAtATime,
      OneWriter, StopsOwn, StartGuards, Commands
<1>1. ASSUME NEW j \in Indexers, MapSlot(j), UNCHANGED gui PROVE  OneAtATime'
  BY <1>1 DEF MapSlot, Goes
<1>2. ASSUME NEW j \in Indexers, InitSlot(j), UNCHANGED gui PROVE  OneAtATime'
  BY <1>2 DEF InitSlot, Goes, WriteContinue
<1>3. ASSUME NEW j \in Indexers, ResetCommand(j), UNCHANGED gui PROVE  OneAtATime'
  BY <1>3 DEF ResetCommand, Goes, WriteContinue
<1>4. ASSUME NEW j \in Indexers, OpenNew(j), UNCHANGED gui PROVE  OneAtATime'
  BY <1>4 DEF OpenNew, Goes
<1>5. ASSUME NEW j \in Indexers, Commit(j), UNCHANGED gui PROVE  OneAtATime'
  BY <1>5 DEF Commit, Goes, Write
<1>6. ASSUME NEW j \in Indexers, StopSeen(j), UNCHANGED gui PROVE  OneAtATime'
  BY <1>6 DEF StopSeen, Goes
<1>7. ASSUME NEW j \in Indexers, PauseSeen(j), UNCHANGED gui PROVE  OneAtATime'
  BY <1>7 DEF PauseSeen, Goes
<1>8. ASSUME NEW j \in Indexers, GoOn(j), UNCHANGED gui PROVE  OneAtATime'
  BY <1>8 DEF GoOn, Goes
<1>9. ASSUME NEW j \in Indexers, ScanEnds(j), UNCHANGED gui PROVE  OneAtATime'
  BY <1>9 DEF ScanEnds, Goes
<1>10. ASSUME NEW j \in Indexers, Finish(j), UNCHANGED gui PROVE  OneAtATime'
  BY <1>10 DEF Finish, Write, Exit, Release
<1>11. ASSUME NEW j \in Indexers, Fail(j), UNCHANGED gui PROVE  OneAtATime'
  BY <1>11 DEF Fail, Exit, Release
<1>12. ASSUME NEW s \in Senders, OpenSlot(s), UNCHANGED gui PROVE  OneAtATime'
  BY <1>12 DEF OpenSlot
<1>13. ASSUME NEW s \in Senders, SlotMissing(s), UNCHANGED gui PROVE  OneAtATime'
  BY <1>13 DEF SlotMissing, SendEnds
<1>14. ASSUME NEW s \in Senders, NEW c \in Commands, Send(s, c), UNCHANGED gui
      PROVE  OneAtATime'
  BY <1>14 DEF Send, MeantBy
<1>14a. ASSUME NEW s \in Senders, SendDone(s) \/ SenderFails(s), UNCHANGED gui
      PROVE  OneAtATime'
  BY <1>14a DEF SendDone, SenderFails, Release, SendEnds
<1>15. ASSUME NEW u \in Users, SendStarts(u, Nobody), UNCHANGED gui PROVE  OneAtATime'
  BY <1>15 DEF SendStarts
<1>16. ASSUME NEW w \in Windows, OpenWindow(w) PROVE  OneAtATime'
  BY <1>16 DEF OpenWindow
<1>17. ASSUME NEW w \in Windows, Close(w) PROVE  OneAtATime'
  BY <1>17 DEF Close, Orphan
<1>18. ASSUME NEW w \in Windows, StopReturns(w) PROVE  OneAtATime'
  BY <1>18 DEF StopReturns
<1>19. ASSUME NEW w \in Windows, Clear(w) PROVE  OneAtATime'
  BY <1>19 DEF Clear
<1>20. ASSUME NEW w \in Windows, NEW j \in Indexers, StartIndex(w, j) PROVE  OneAtATime'
  <2>1. /\ alone' \in {"yes", "no"}
        /\ alone' = "yes" => \A i \in Indexers : ~Pending(i)
    BY <1>20, BegunAlone
  <2>2. QED
    BY <1>20, <2>1 DEF StartIndex, SaveRoot, Launch, Goes
<1>21. ASSUME NEW w \in Windows, NEW j \in Indexers, IndexDone(w, j) PROVE  OneAtATime'
  BY <1>21 DEF IndexDone
<1>22. ASSUME NEW w \in Windows, NEW j \in Indexers, StopIndex(w, j) PROVE  OneAtATime'
  BY <1>22 DEF StopIndex, SendStarts
<1>23. ASSUME NEW w \in Windows, NEW s \in Searchers, Submit(w, s) PROVE  OneAtATime'
  BY <1>23 DEF Submit, Apart, SearchOwners
<1>24. ASSUME NEW w \in Windows, NEW s \in Searchers, SearchDone(w, s) PROVE  OneAtATime'
  BY <1>24 DEF SearchDone
<1>25. ASSUME NEW s \in Searchers, SearcherGoesOn(s) \/ FailSearch(s) PROVE  OneAtATime'
  BY <1>25, SearchLeaves
<1>26. CASE UNCHANGED vars
  BY <1>26
<1>27. QED
  BY <1>1, <1>2, <1>3, <1>4, <1>5, <1>6, <1>7, <1>8, <1>9, <1>10, <1>11, <1>12, <1>13,
     <1>14, <1>14a, <1>15, <1>16, <1>17, <1>18, <1>19, <1>20, <1>21, <1>22, <1>23, <1>24,
     <1>25, <1>26 DEF Next, SessionsStep, IndexerGoesOn, SenderGoesOn, WindowStep

(* The only other process that could touch the file is not there. *)
LEMMA OneWriterKept ==
    ASSUME IInv, [Next]_vars PROVE  OneWriter'
<1> USE SessionsAssumption, GuiAssumption DEF IInv, TypeOK, SessionsTypeOK, OneAtATime,
      OneWriter, StartGuards
<1>1. ASSUME NEW j \in Indexers, MapSlot(j), UNCHANGED gui PROVE  OneWriter'
  BY <1>1 DEF MapSlot, Goes
<1>2. ASSUME NEW j \in Indexers, InitSlot(j), UNCHANGED gui PROVE  OneWriter'
  BY <1>2 DEF InitSlot, Goes, WriteContinue
<1>3. ASSUME NEW j \in Indexers, ResetCommand(j), UNCHANGED gui PROVE  OneWriter'
  BY <1>3 DEF ResetCommand, Goes, WriteContinue
<1>4. ASSUME NEW j \in Indexers, OpenNew(j), UNCHANGED gui PROVE  OneWriter'
  BY <1>4 DEF OpenNew, Goes
<1>5. ASSUME NEW j \in Indexers, Commit(j), UNCHANGED gui PROVE  OneWriter'
  BY <1>5 DEF Commit, Goes, Write
<1>6. ASSUME NEW j \in Indexers, StopSeen(j), UNCHANGED gui PROVE  OneWriter'
  BY <1>6 DEF StopSeen, Goes
<1>7. ASSUME NEW j \in Indexers, PauseSeen(j), UNCHANGED gui PROVE  OneWriter'
  BY <1>7 DEF PauseSeen, Goes
<1>8. ASSUME NEW j \in Indexers, GoOn(j), UNCHANGED gui PROVE  OneWriter'
  BY <1>8 DEF GoOn, Goes
<1>9. ASSUME NEW j \in Indexers, ScanEnds(j), UNCHANGED gui PROVE  OneWriter'
  BY <1>9 DEF ScanEnds, Goes
<1>10. ASSUME NEW j \in Indexers, Finish(j), UNCHANGED gui PROVE  OneWriter'
  BY <1>10 DEF Finish, Write, Exit, Release
<1>11. ASSUME NEW j \in Indexers, Fail(j), UNCHANGED gui PROVE  OneWriter'
  BY <1>11 DEF Fail, Exit, Release
<1>12. ASSUME NEW s \in Senders, OpenSlot(s), UNCHANGED gui PROVE  OneWriter'
  BY <1>12 DEF OpenSlot
<1>13. ASSUME NEW s \in Senders, SlotMissing(s), UNCHANGED gui PROVE  OneWriter'
  BY <1>13 DEF SlotMissing, SendEnds
<1>14. ASSUME NEW s \in Senders, NEW c \in Commands, Send(s, c), UNCHANGED gui
      PROVE  OneWriter'
  BY <1>14 DEF Send, MeantBy
<1>14a. ASSUME NEW s \in Senders, SendDone(s) \/ SenderFails(s), UNCHANGED gui
      PROVE  OneWriter'
  BY <1>14a DEF SendDone, SenderFails, Release, SendEnds
<1>15. ASSUME NEW u \in Users, SendStarts(u, Nobody), UNCHANGED gui PROVE  OneWriter'
  BY <1>15 DEF SendStarts
<1>16. ASSUME NEW w \in Windows, OpenWindow(w) PROVE  OneWriter'
  BY <1>16 DEF OpenWindow
<1>17. ASSUME NEW w \in Windows, Close(w) PROVE  OneWriter'
  BY <1>17 DEF Close, Orphan
<1>18. ASSUME NEW w \in Windows, StopReturns(w) PROVE  OneWriter'
  BY <1>18 DEF StopReturns
<1>19. ASSUME NEW w \in Windows, Clear(w) PROVE  OneWriter'
  BY <1>19 DEF Clear
<1>20. ASSUME NEW w \in Windows, NEW j \in Indexers, StartIndex(w, j) PROVE  OneWriter'
  <2>1. /\ alone' \in {"yes", "no"}
        /\ alone' = "yes" => \A i \in Indexers : ~Pending(i)
    BY <1>20, BegunAlone
  <2>2. QED
    BY <1>20, <2>1 DEF StartIndex, SaveRoot, Launch, Goes
<1>21. ASSUME NEW w \in Windows, NEW j \in Indexers, IndexDone(w, j) PROVE  OneWriter'
  BY <1>21 DEF IndexDone
<1>22. ASSUME NEW w \in Windows, NEW j \in Indexers, StopIndex(w, j) PROVE  OneWriter'
  BY <1>22 DEF StopIndex, SendStarts
<1>23. ASSUME NEW w \in Windows, NEW s \in Searchers, Submit(w, s) PROVE  OneWriter'
  BY <1>23 DEF Submit, Apart, SearchOwners
<1>24. ASSUME NEW w \in Windows, NEW s \in Searchers, SearchDone(w, s) PROVE  OneWriter'
  BY <1>24 DEF SearchDone
<1>25. ASSUME NEW s \in Searchers, SearcherGoesOn(s) \/ FailSearch(s) PROVE  OneWriter'
  BY <1>25, SearchLeaves
<1>26. CASE UNCHANGED vars
  BY <1>26
<1>27. QED
  BY <1>1, <1>2, <1>3, <1>4, <1>5, <1>6, <1>7, <1>8, <1>9, <1>10, <1>11, <1>12, <1>13,
     <1>14, <1>14a, <1>15, <1>16, <1>17, <1>18, <1>19, <1>20, <1>21, <1>22, <1>23, <1>24,
     <1>25, <1>26 DEF Next, SessionsStep, IndexerGoesOn, SenderGoesOn, WindowStep

(* Nothing touches a settled index but a start, after which nothing is settled or calm. *)
LEMMA SettledKept ==
    ASSUME IInv, [Next]_vars PROVE  Settled'
<1> USE SessionsAssumption, GuiAssumption DEF IInv, TypeOK, SessionsTypeOK, OneAtATime,
      Settled, StartGuards
<1>1. ASSUME NEW j \in Indexers, MapSlot(j), UNCHANGED gui PROVE  Settled'
  BY <1>1 DEF MapSlot, Goes
<1>2. ASSUME NEW j \in Indexers, InitSlot(j), UNCHANGED gui PROVE  Settled'
  BY <1>2 DEF InitSlot, Goes, WriteContinue
<1>3. ASSUME NEW j \in Indexers, ResetCommand(j), UNCHANGED gui PROVE  Settled'
  BY <1>3 DEF ResetCommand, Goes, WriteContinue
<1>4. ASSUME NEW j \in Indexers, OpenNew(j), UNCHANGED gui PROVE  Settled'
  BY <1>4 DEF OpenNew, Goes
<1>5. ASSUME NEW j \in Indexers, Commit(j), UNCHANGED gui PROVE  Settled'
  BY <1>5 DEF Commit, Goes, Write
<1>6. ASSUME NEW j \in Indexers, StopSeen(j), UNCHANGED gui PROVE  Settled'
  BY <1>6 DEF StopSeen, Goes
<1>7. ASSUME NEW j \in Indexers, PauseSeen(j), UNCHANGED gui PROVE  Settled'
  BY <1>7 DEF PauseSeen, Goes
<1>8. ASSUME NEW j \in Indexers, GoOn(j), UNCHANGED gui PROVE  Settled'
  BY <1>8 DEF GoOn, Goes
<1>9. ASSUME NEW j \in Indexers, ScanEnds(j), UNCHANGED gui PROVE  Settled'
  BY <1>9 DEF ScanEnds, Goes
<1>10. ASSUME NEW j \in Indexers, Finish(j), UNCHANGED gui PROVE  Settled'
  BY <1>10 DEF Finish, Write, Exit, Release
<1>11. ASSUME NEW j \in Indexers, Fail(j), UNCHANGED gui PROVE  Settled'
  BY <1>11 DEF Fail, Exit, Release
<1>12. ASSUME NEW s \in Senders, OpenSlot(s), UNCHANGED gui PROVE  Settled'
  BY <1>12 DEF OpenSlot
<1>13. ASSUME NEW s \in Senders, SlotMissing(s), UNCHANGED gui PROVE  Settled'
  BY <1>13 DEF SlotMissing, SendEnds
<1>14. ASSUME NEW s \in Senders, NEW c \in Commands, Send(s, c), UNCHANGED gui
      PROVE  Settled'
  BY <1>14 DEF Send, MeantBy
<1>14a. ASSUME NEW s \in Senders, SendDone(s) \/ SenderFails(s), UNCHANGED gui
      PROVE  Settled'
  BY <1>14a DEF SendDone, SenderFails, Release, SendEnds
<1>15. ASSUME NEW u \in Users, SendStarts(u, Nobody), UNCHANGED gui PROVE  Settled'
  BY <1>15 DEF SendStarts
<1>16. ASSUME NEW w \in Windows, OpenWindow(w) PROVE  Settled'
  BY <1>16 DEF OpenWindow
<1>17. ASSUME NEW w \in Windows, Close(w) PROVE  Settled'
  BY <1>17 DEF Close, Orphan
<1>18. ASSUME NEW w \in Windows, StopReturns(w) PROVE  Settled'
  BY <1>18 DEF StopReturns
<1>19. ASSUME NEW w \in Windows, Clear(w) PROVE  Settled'
  BY <1>19 DEF Clear
<1>20. ASSUME NEW w \in Windows, NEW j \in Indexers, StartIndex(w, j) PROVE  Settled'
  <2>1. \A s \in Searchers : search'[s].calm = "no"
    BY <1>20, MadeUneasy
  <2>2. settled' = "no"
    BY <1>20 DEF StartIndex
  <2>3. QED
    BY <2>1, <2>2
<1>21. ASSUME NEW w \in Windows, NEW j \in Indexers, IndexDone(w, j) PROVE  Settled'
  BY <1>21 DEF IndexDone
<1>22. ASSUME NEW w \in Windows, NEW j \in Indexers, StopIndex(w, j) PROVE  Settled'
  BY <1>22 DEF StopIndex, SendStarts
<1>23. ASSUME NEW w \in Windows, NEW s \in Searchers, Submit(w, s) PROVE  Settled'
  BY <1>23 DEF Submit, Apart, SearchOwners
<1>24. ASSUME NEW w \in Windows, NEW s \in Searchers, SearchDone(w, s) PROVE  Settled'
  BY <1>24 DEF SearchDone
<1>25. ASSUME NEW s \in Searchers, ReadRoot(s) PROVE  Settled'
  BY <1>25 DEF ReadRoot, SearchGoes
<1>26. ASSUME NEW s \in Searchers, OpenFiles(s) PROVE  Settled'
  BY <1>26 DEF OpenFiles, SearchGoes
<1>27. ASSUME NEW s \in Searchers, FinishSearch(s) PROVE  Settled'
  BY <1>27 DEF FinishSearch, SearchGoes, Outcome, Lines
<1>28. ASSUME NEW s \in Searchers, FailSearch(s) PROVE  Settled'
  <2>1. /\ search[s].phase \notin Over
        /\ search' = [search EXCEPT ![s] = Outcome(s, "failed")]
        /\ \/ results' = results
           \/ search[s].phase = "reading" /\ results' = Lines(s, "part")
        /\ UNCHANGED <<sessions, window, buttons, rootFile, saved, shown, alone, quiet, settled>>
    BY <1>28, SearchFails
  <2>2. QED
    BY <1>28, <2>1 DEF Outcome, Lines
<1>29. CASE UNCHANGED vars
  BY <1>29
<1>30. QED
  BY <1>1, <1>2, <1>3, <1>4, <1>5, <1>6, <1>7, <1>8, <1>9, <1>10, <1>11, <1>12, <1>13,
     <1>14, <1>14a, <1>15, <1>16, <1>17, <1>18, <1>19, <1>20, <1>21, <1>22, <1>23, <1>24,
     <1>25, <1>26, <1>27, <1>28, <1>29 DEF Next, SessionsStep, IndexerGoesOn, SenderGoesOn,
     WindowStep, SearcherGoesOn

(* What StartGuardsKept says, for searches. *)
LEMMA SearchGuardsKept ==
    ASSUME IInv, [Next]_vars PROVE  SearchGuards'
<1> USE SessionsAssumption, GuiAssumption DEF IInv, TypeOK, SearchGuards
<1>1. CASE UNCHANGED gui
  BY <1>1
<1>2. ASSUME NEW w \in Windows, OpenWindow(w) PROVE  SearchGuards'
  BY <1>2 DEF OpenWindow
<1>3. ASSUME NEW w \in Windows, Close(w) PROVE  SearchGuards'
  BY <1>3 DEF Close, Orphan
<1>4. ASSUME NEW w \in Windows, StopReturns(w) PROVE  SearchGuards'
  BY <1>4 DEF StopReturns
<1>5. ASSUME NEW w \in Windows, Clear(w) PROVE  SearchGuards'
  BY <1>5 DEF Clear
<1>6. ASSUME NEW w \in Windows, NEW j \in Indexers, StartIndex(w, j) PROVE  SearchGuards'
  <2>1. \A s \in Searchers :
          search'[s].phase = search[s].phase /\ search'[s].owner = search[s].owner
    BY <1>6, MadeUneasy
  <2>2. UNCHANGED <<window, results, quiet>>
    BY <1>6 DEF StartIndex
  <2>3. \A v \in Windows : "search" \in buttons'[v] => "search" \in buttons[v]
    BY <1>6 DEF StartIndex
  <2>4. \A s \in Searchers : search[s].owner \in Windows \cup {Nobody}
    BY DEF Searches
  <2>5. QED
    BY <2>1, <2>2, <2>3, <2>4
<1>7. ASSUME NEW w \in Windows, NEW j \in Indexers, IndexDone(w, j) PROVE  SearchGuards'
  BY <1>7 DEF IndexDone
<1>8. ASSUME NEW w \in Windows, NEW j \in Indexers, StopIndex(w, j) PROVE  SearchGuards'
  BY <1>8 DEF StopIndex, SendStarts
<1>9. ASSUME NEW w \in Windows, NEW s \in Searchers, Submit(w, s) PROVE  SearchGuards'
  BY <1>9 DEF Submit, Apart, SearchOwners
<1>10. ASSUME NEW w \in Windows, NEW s \in Searchers, SearchDone(w, s) PROVE  SearchGuards'
  BY <1>10 DEF SearchDone
<1>11. ASSUME NEW s \in Searchers, ReadRoot(s) PROVE  SearchGuards'
  BY <1>11 DEF ReadRoot, SearchGoes
<1>12. ASSUME NEW s \in Searchers, OpenFiles(s) PROVE  SearchGuards'
  BY <1>12 DEF OpenFiles, SearchGoes
<1>13. ASSUME NEW s \in Searchers, FinishSearch(s) PROVE  SearchGuards'
  BY <1>13 DEF FinishSearch, SearchGoes, Outcome, Lines
<1>14. ASSUME NEW s \in Searchers, FailSearch(s) PROVE  SearchGuards'
  <2>1. /\ search[s].phase \notin Over
        /\ search' = [search EXCEPT ![s] = Outcome(s, "failed")]
        /\ \/ results' = results
           \/ search[s].phase = "reading" /\ results' = Lines(s, "part")
        /\ UNCHANGED <<sessions, window, buttons, rootFile, saved, shown, alone, quiet, settled>>
    BY <1>14, SearchFails
  <2>2. QED
    BY <1>14, <2>1 DEF Outcome, Lines
<1>15. QED
  BY <1>1, <1>2, <1>3, <1>4, <1>5, <1>6, <1>7, <1>8, <1>9, <1>10, <1>11, <1>12, <1>13, <1>14
     DEF Next, WindowStep, SearcherGoesOn

(* What OneAtATimeKept and OneWriterKept say, for searches. *)
LEMMA OneSearchKept ==
    ASSUME IInv, [Next]_vars PROVE  OneSearch'
<1> USE SessionsAssumption, GuiAssumption DEF IInv, TypeOK, SearchGuards, OneSearch
<1>1. CASE UNCHANGED gui
  BY <1>1
<1>2. ASSUME NEW w \in Windows, OpenWindow(w) PROVE  OneSearch'
  BY <1>2 DEF OpenWindow
<1>3. ASSUME NEW w \in Windows, Close(w) PROVE  OneSearch'
  BY <1>3 DEF Close, Orphan
<1>4. ASSUME NEW w \in Windows, StopReturns(w) PROVE  OneSearch'
  BY <1>4 DEF StopReturns
<1>5. ASSUME NEW w \in Windows, Clear(w) PROVE  OneSearch'
  BY <1>5 DEF Clear
<1>6. ASSUME NEW w \in Windows, NEW j \in Indexers, StartIndex(w, j) PROVE  OneSearch'
  <2>1. \A s \in Searchers :
          search'[s].phase = search[s].phase /\ search'[s].owner = search[s].owner
    BY <1>6, MadeUneasy
  <2>2. UNCHANGED <<window, results, quiet>>
    BY <1>6 DEF StartIndex
  <2>3. QED
    BY <2>1, <2>2
<1>7. ASSUME NEW w \in Windows, NEW j \in Indexers, IndexDone(w, j) PROVE  OneSearch'
  BY <1>7 DEF IndexDone
<1>8. ASSUME NEW w \in Windows, NEW j \in Indexers, StopIndex(w, j) PROVE  OneSearch'
  BY <1>8 DEF StopIndex, SendStarts
<1>9. ASSUME NEW w \in Windows, NEW s \in Searchers, Submit(w, s) PROVE  OneSearch'
  <2>1. /\ quiet' \in {"yes", "no"}
        /\ quiet' = "yes" => \A r \in Searchers : ~Searching(r)
    BY <1>9, BegunQuiet
  <2>2. QED
    BY <1>9, <2>1 DEF Submit
<1>10. ASSUME NEW w \in Windows, NEW s \in Searchers, SearchDone(w, s) PROVE  OneSearch'
  BY <1>10 DEF SearchDone
<1>11. ASSUME NEW s \in Searchers, ReadRoot(s) PROVE  OneSearch'
  BY <1>11 DEF ReadRoot, SearchGoes
<1>12. ASSUME NEW s \in Searchers, OpenFiles(s) PROVE  OneSearch'
  BY <1>12 DEF OpenFiles, SearchGoes
<1>13. ASSUME NEW s \in Searchers, FinishSearch(s) PROVE  OneSearch'
  BY <1>13 DEF FinishSearch, SearchGoes, Outcome, Lines
<1>14. ASSUME NEW s \in Searchers, FailSearch(s) PROVE  OneSearch'
  <2>1. /\ search[s].phase \notin Over
        /\ search' = [search EXCEPT ![s] = Outcome(s, "failed")]
        /\ \/ results' = results
           \/ search[s].phase = "reading" /\ results' = Lines(s, "part")
        /\ UNCHANGED <<sessions, window, buttons, rootFile, saved, shown, alone, quiet, settled>>
    BY <1>14, SearchFails
  <2>2. QED
    BY <1>14, <2>1 DEF Outcome, Lines
<1>15. QED
  BY <1>1, <1>2, <1>3, <1>4, <1>5, <1>6, <1>7, <1>8, <1>9, <1>10, <1>11, <1>12, <1>13, <1>14
     DEF Next, WindowStep, SearcherGoesOn

-----------------------------------------------------------------------------
(* The theorems. *)

LEMMA InitIInv == ASSUME Init PROVE  IInv
<1> USE SessionsAssumption, GuiAssumption DEF Init, SessionsInit
<1>1. TypeOK
  BY DEF TypeOK, SessionsTypeOK, Phases, Commands, Searches
<1>2. StartGuards /\ StopsOwn /\ OneAtATime /\ OneWriter
  BY DEF StartGuards, StopsOwn, OneAtATime, OneWriter
<1>3. Settled /\ SearchGuards /\ OneSearch
  BY DEF Settled, SearchGuards, OneSearch
<1>4. QED
  BY <1>1, <1>2, <1>3 DEF IInv

(* The strengthening is inductive: windows, processes and files agree on who works alone. *)
THEOREM InductiveInvariant == Spec => []IInv
<1>1. IInv /\ [Next]_vars => IInv'
  <2> SUFFICES ASSUME IInv, [Next]_vars PROVE  IInv'
    OBVIOUS
  <2>1. TypeOK' /\ StartGuards' /\ StopsOwn'
    BY TypesKept, StartGuardsKept, StopsOwnKept
  <2>2. OneAtATime' /\ OneWriter' /\ Settled'
    BY OneAtATimeKept, OneWriterKept, SettledKept
  <2>3. SearchGuards' /\ OneSearch'
    BY SearchGuardsKept, OneSearchKept
  <2>4. QED
    BY <2>1, <2>2, <2>3 DEF IInv
<1>2. QED
  BY InitIInv, <1>1, PTL DEF Spec

(* Every variable of the windows and of the processes around them keeps its type. *)
THEOREM TypeCorrect == Spec => []TypeOK
<1>1. IInv => TypeOK
  BY DEF IInv
<1>2. QED
  BY InductiveInvariant, <1>1, PTL

(* Index processes of one window never write into one another's file. *)
THEOREM WritersApart == Spec => []OneWriter
<1>1. IInv => OneWriter
  BY DEF IInv
<1>2. QED
  BY InductiveInvariant, <1>1, PTL

(* Provided that the root could be saved, a calm search joins the paths of the index to the
   root of that index, or to none when it cannot read it. *)
THEOREM PathsAreTrue == Spec => PathsTrue
<1> DEFINE Joins ==
      \A s \in Searchers : OpenFiles(s) /\ search[s].calm = "yes" /\ saved = "yes"
          => index.state = "ended" /\ search[s].root \in {index.by, Nobody}
<1>1. IInv => Joins
  BY DEF IInv, Settled, OpenFiles, SearchGoes
<1>2. IInv => [Joins]_vars
  BY <1>1
<1> HIDE DEF Joins
<1>3. Spec => [][Joins]_vars
  BY InductiveInvariant, <1>2, PTL
<1>4. QED
  BY <1>3 DEF PathsTrue, Joins

(* A stop is obeyed by none but the index process it was given for. *)
THEOREM StopsHitOwn == Spec => StopHitsOwn
<1> DEFINE Hits == \A j \in Indexers : StopSeen(j) /\ alone = "yes" => j \in meant
<1>1. IInv => Hits
  BY DEF IInv, OneAtATime, StopSeen, Goes
<1>2. IInv => [Hits]_vars
  BY <1>1
<1> HIDE DEF Hits
<1>3. Spec => [][Hits]_vars
  BY InductiveInvariant, <1>2, PTL
<1>4. QED
  BY <1>3 DEF StopHitsOwn, Hits

LEMMA OnlyAnswers ==
    ASSUME IInv, Next, NEW w \in Windows, shown'[w] # shown[w], quiet = "yes"
    PROVE  shown'[w] # "other"
<1> USE SessionsAssumption, GuiAssumption DEF IInv, TypeOK
<1>1. CASE UNCHANGED shown
  BY <1>1
<1>2. ASSUME NEW v \in Windows, Close(v) PROVE  shown'[w] # "other"
  BY <1>2 DEF Close
<1>3. ASSUME NEW v \in Windows, Clear(v) PROVE  shown'[w] # "other"
  BY <1>3 DEF Clear
<1>4. ASSUME NEW v \in Windows, NEW s \in Searchers, SearchDone(v, s)
      PROVE  shown'[w] # "other"
  <2>1. v = w /\ search[s].phase = "succeeded"
    BY <1>4 DEF SearchDone, SearchGuards
  <2>2. results \in [by : {s}, state : {"whole", "cut"}]
    BY <2>1 DEF OneSearch
  <2>3. Loaded(s) # "other"
    BY <2>2 DEF Loaded
  <2>4. QED
    BY <1>4, <2>1, <2>3 DEF SearchDone
<1>5. ASSUME NEW v \in Windows, NEW j \in Indexers,
             StartIndex(v, j) \/ IndexDone(v, j) \/ StopIndex(v, j)
      PROVE  UNCHANGED shown
  BY <1>5 DEF StartIndex, IndexDone, StopIndex
<1>6. ASSUME NEW v \in Windows, OpenWindow(v) \/ StopReturns(v) PROVE  UNCHANGED shown
  BY <1>6 DEF OpenWindow, StopReturns
<1>7. ASSUME NEW v \in Windows, NEW s \in Searchers, Submit(v, s) PROVE  UNCHANGED shown
  BY <1>7 DEF Submit
<1>8. ASSUME NEW s \in Searchers, SearcherGoesOn(s) \/ FailSearch(s) PROVE  UNCHANGED shown
  BY <1>8, SearchLeaves
<1>9. QED
  BY <1>1, <1>2, <1>3, <1>4, <1>5, <1>6, <1>7, <1>8 DEF Next, WindowStep

(* What a window loads is the answer to the query it asked, whole or cut short by the disk. *)
THEOREM AnswersShown == Spec => ShownIsAnswer
<1> DEFINE Answers == \A w \in Windows :
             shown'[w] # shown[w] /\ quiet = "yes" => shown'[w] # "other"
<1>1. IInv /\ [Next]_vars => [Answers]_vars
  BY OnlyAnswers
<1> HIDE DEF Answers
<1>2. Spec => [][Answers]_vars
  BY InductiveInvariant, <1>1, PTL DEF Spec
<1>3. QED
  BY <1>2 DEF ShownIsAnswer, Answers
=============================================================================
