----------------------------- MODULE MCGuiShell -----------------------------
(* Small instances of GuiShell for TLC.  Processes of one kind, and windows, can stand for
   one another; the symmetry is used where only safety is checked. *)
EXTENDS GuiShell, TLC

MCSymmetry == Permutations(Indexers) \cup Permutations(Windows) \cup Permutations(Searchers)

(* Bound: commands, and index processes beside one another, are followed only as long as
   nothing has been searched.  Neither touches what a search reads or writes but through an
   index process.  All else is followed, searches beside one another too. *)
MCSearchesApart ==
    (alone = "no" \/ \E s \in Senders : sender[s] # "none") =>
        /\ results.state = "none"
        /\ \A s \in Searchers : ~Searching(s)
=============================================================================
