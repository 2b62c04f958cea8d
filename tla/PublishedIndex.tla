--------------------------- MODULE PublishedIndex ---------------------------
(***************************************************************************)
(* What an index process promises its readers, without ids, blocks, batches *)
(* and shared memory: the index is the beginning of what the scanner has    *)
(* reported, it grows by whole files at its end, and it starts afresh only  *)
(* when a new index begins.  While it can be trusted (every write of this   *)
(* index has succeeded) at most Room files are missing from it, and none    *)
(* when the process declares itself done.                                   *)
(***************************************************************************)
EXTENDS Naturals, Sequences

CONSTANTS
    Files,   \* what the scanner may report
    Room     \* how many files may wait to be published

VARIABLES
    scanned,  \* the files reported for this index
    index,    \* the files a reader finds in it
    trust,    \* "yes" while the process that began it lives or ended well, no write failing
    done      \* "yes" once that process has said so

published == <<scanned, index, trust, done>>

Init ==
    /\ scanned = <<>> /\ index = <<>>
    /\ trust = "no" /\ done = "no"

Begin ==
    /\ scanned' = <<>> /\ index' = <<>>
    /\ trust' = "yes" /\ done' = "no"

Scan ==
    /\ done = "no"
    /\ trust = "yes" => Len(scanned) < Len(index) + Room
    /\ \E f \in Files : scanned' = Append(scanned, f)
    /\ UNCHANGED <<index, trust, done>>

Publish ==
    /\ trust = "yes" /\ done = "no"
    /\ \E n \in Len(index)..Len(scanned) : index' = SubSeq(scanned, 1, n)
    /\ UNCHANGED <<scanned, trust, done>>

(* A write fails, or the next process takes over what this one has left. *)
Distrust ==
    /\ trust' = "no" /\ done' = "no"
    /\ UNCHANGED <<scanned, index>>

Finish ==
    /\ done = "no"
    /\ trust = "yes" => index = scanned
    /\ done' = "yes"
    /\ UNCHANGED <<scanned, index, trust>>

Next == Begin \/ Scan \/ Publish \/ Distrust \/ Finish

Spec == Init /\ [][Next]_published
=============================================================================
