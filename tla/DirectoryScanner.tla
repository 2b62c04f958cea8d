-------------------------- MODULE DirectoryScanner --------------------------
(***************************************************************************)
(* fs/DirectoryScanner: the walk over the tree under rootPath, what it      *)
(* reports to onEntry and to onError, and what it keeps to itself.  The     *)
(* tree stands still; any call on it may fail.                              *)
(*                                                                         *)
(* recursive_directory_iterator belongs to the library: a directory's       *)
(* entries come in any order, a link is not followed, a directory that      *)
(* denies access is passed over (skip_permission_denied), and an increment  *)
(* that fails makes it the end iterator.                                    *)
(***************************************************************************)
EXTENDS Naturals, Sequences, SequencesExt, FiniteSets, NameRules

CONSTANTS
    Paths,      \* the entries under the root, each a sequence of names, which are texts
    Kind,       \* [Paths -> {"folder", "file", "folder link", "file link"}]
    Resolved,   \* [Paths -> Seq]: the path from the root with links followed
    MaxFaults   \* bound: calls on the tree that fail in one scan

ASSUME ScannerAssumption ==
    /\ Kind \in [Paths -> {"folder", "file", "folder link", "file link"}]
    /\ \A p \in Paths :
          /\ p \in Seq(Text) \ {<<>>}
          /\ Len(p) > 1 => Front(p) \in Paths /\ Kind[Front(p)] = "folder"
    /\ MaxFaults \in Nat

VARIABLES
    config,      \* config_, the lists of names and extensions in it
    pc,          \* where scan() is
    at,          \* *it
    levels,      \* the entries left in each open directory
    recursion,   \* it.recursion_pending(): "pending" or "disabled"
    reported,    \* the calls of onEntry
    complained,  \* the calls of onError
    denied,      \* history: the directories passed over
    outcome,     \* history: how the loop ended
    faults       \* calls that have failed

iterator == <<at, levels, recursion>>
output == <<reported, complained>>
scan == <<pc, iterator, output, denied, outcome, faults>>

Root == <<>>

isDir(p) == Kind[p] \in {"folder", "folder link"}

EntriesOf(d) == {p \in Paths : Front(p) = d}

Fault == faults < MaxFaults /\ faults' = faults + 1

(* Mutant: the error names the entry without its folder. *)
ComplainOfName(p) ==
    complained' = Append(complained, IF p = Root THEN p ELSE <<Last(p)>>)

Complain(p) == complained' = Append(complained, p)

-----------------------------------------------------------------------------
(* The iterator. *)

(* It moves to an entry left in the deepest open directory that has one, or to the end. *)
MoveTo(open) ==
    LET left == {k \in DOMAIN open : open[k] # {}}
    IN  \/ /\ left = {}
           /\ pc' = "ended" /\ outcome' = "finished"
           /\ UNCHANGED iterator
        \/ \E top \in left : \E p \in open[top] :
              /\ \A k \in left : k <= top
              /\ pc' = "entry"
              /\ at' = p
              /\ levels' = Append(SubSeq(open, 1, top - 1), open[top] \ {p})
              /\ recursion' = "pending"
              /\ UNCHANGED outcome

OpenRoot ==
    /\ pc = "opening"
    /\ MoveTo(<<EntriesOf(Root)>>)
    /\ UNCHANGED <<output, denied, faults>>

RootDenied ==
    /\ pc = "opening"
    /\ Fault
    /\ pc' = "ended" /\ outcome' = "finished"
    /\ denied' = {Root}
    /\ UNCHANGED <<iterator, output>>

RootFails ==
    /\ pc = "opening"
    /\ Fault
    /\ pc' = "ended" /\ outcome' = "failed"
    /\ Complain(Root)
    /\ UNCHANGED <<iterator, reported, denied>>

Descends == Kind[at] = "folder" /\ recursion = "pending"

Advance ==
    /\ pc = "stepping" /\ ~Descends
    /\ MoveTo(levels)
    /\ UNCHANGED <<output, denied, faults>>

Descend ==
    /\ pc = "stepping" /\ Descends
    /\ MoveTo(Append(levels, EntriesOf(at)))
    /\ UNCHANGED <<output, denied, faults>>

FolderDenied ==
    /\ pc = "stepping" /\ Descends
    /\ Fault
    /\ MoveTo(levels)
    /\ denied' = denied \cup {at}
    /\ UNCHANGED output

(* The loop's test comes before its look at ec: the error is never seen. *)
IncrementFails ==
    /\ pc = "stepping"
    /\ Fault
    /\ pc' = "ended" /\ outcome' = "broken"
    /\ UNCHANGED <<iterator, output, denied>>

-----------------------------------------------------------------------------
(* The body of the loop. *)

(* Mutant: the error is not passed on. *)
KindUnknownSilent ==
    /\ pc = "entry"
    /\ Fault
    /\ pc' = "stepping"
    /\ UNCHANGED <<iterator, output, denied, outcome>>

KindUnknown ==
    /\ pc = "entry"
    /\ Fault
    /\ Complain(at)
    /\ pc' = "stepping"
    /\ UNCHANGED <<iterator, reported, denied, outcome>>

(* shouldSkip, when it can tell what the entry is. *)
shouldSkip(lists, p) ==
    \/ isNameExcluded(lists, Last(p), isDir(p))
    \/ ~isDir(p) /\ ~isExtensionAllowed(lists, extension(Last(p)))

Excluded(p) == shouldSkip(config, p)

(* Mutant: an excluded folder is left out, and what is in it is not. *)
SkipAlone ==
    /\ pc = "entry"
    /\ Excluded(at)
    /\ pc' = "stepping"
    /\ UNCHANGED <<iterator, output, denied, outcome, faults>>

Skip ==
    /\ pc = "entry"
    /\ Excluded(at)
    /\ recursion' = IF isDir(at) THEN "disabled" ELSE recursion
    /\ pc' = "stepping"
    /\ UNCHANGED <<at, levels, output, denied, outcome, faults>>

(* The calls that fail for an entry which is kept.  shouldSkip asks for the kind again, and
   keeps an excluded entry only when that fails; no one asks a folder for its size. *)
Failures(p) ==
    {failed \in SUBSET {"kind", "relative", "size"} :
        /\ Excluded(p) => "kind" \in failed
        /\ isDir(p) => "size" \notin failed
        /\ faults + Cardinality(failed) <= MaxFaults}

(* relative() resolves links; when it fails the name stands for the path. *)
RelativePath(p, failed) == IF "relative" \in failed THEN <<Last(p)>> ELSE Resolved[p]

(* onEntry may return false, which ends the loop. *)
Report(relative) ==
    /\ reported' = Append(reported, [path |-> at, relative |-> relative, isDirectory |-> isDir(at)])
    /\ \/ pc' = "stepping" /\ UNCHANGED outcome
       \/ pc' = "ended" /\ outcome' = "stopped"

(* Mutant: a file whose size cannot be read is dropped without a word. *)
EntryDropped ==
    /\ pc = "entry"
    /\ \E failed \in Failures(at) :
         /\ faults' = faults + Cardinality(failed)
         /\ IF "size" \in failed
            THEN pc' = "stepping" /\ UNCHANGED <<reported, outcome>>
            ELSE Report(RelativePath(at, failed))
    /\ UNCHANGED <<iterator, complained, denied>>

(* A file whose size cannot be read is an error and an entry of size 0. *)
Entry ==
    /\ pc = "entry"
    /\ \E failed \in Failures(at) :
         /\ faults' = faults + Cardinality(failed)
         /\ IF "size" \in failed THEN Complain(at) ELSE UNCHANGED complained
         /\ Report(RelativePath(at, failed))
    /\ UNCHANGED <<iterator, denied>>

-----------------------------------------------------------------------------
(* Before scan(). *)
NotBegun ==
    /\ at = Root /\ levels = <<>> /\ recursion = "pending"
    /\ reported = <<>> /\ complained = <<>>
    /\ denied = {} /\ outcome = "none" /\ faults = 0

ScanStep ==
    \/ OpenRoot \/ RootDenied \/ RootFails
    \/ Advance \/ Descend \/ FolderDenied \/ IncrementFails
    \/ KindUnknown \/ Skip \/ Entry

-----------------------------------------------------------------------------
IsReported(p) == \E i \in DOMAIN reported : reported[i].path = p
IsComplained(p) == \E i \in DOMAIN complained : complained[i] = p
Above(p) == {SubSeq(p, 1, n) : n \in 0..(Len(p) - 1)}

(* Every variable holds a value the code can store in it. *)
ScanTypeOK ==
    /\ \A list \in {"excludeDirs", "excludeFiles", "includeExt", "excludeExt"} :
          config[list] = <<>> \/ Head(config[list]) # <<>>
    /\ at \in Paths \cup {Root}
    /\ levels \in Seq(SUBSET Paths)
    /\ recursion \in {"pending", "disabled"}
    /\ \A i \in DOMAIN reported : reported[i].path \in Paths
    /\ \A i \in DOMAIN complained : complained[i] \in Paths \cup {Root}
    /\ denied \subseteq Paths \cup {Root}
    /\ outcome \in {"none", "finished", "failed", "broken", "stopped"}
    /\ faults \in 0..MaxFaults

(* No entry is reported twice, and a folder is reported before what is in it, unless its
   own report was an error: so the tree of the index grows from the root. *)
FoldersFirst ==
    \A i \in DOMAIN reported :
        LET folder == Front(reported[i].path)
        IN  /\ \A j \in DOMAIN reported : reported[j].path = reported[i].path => i = j
            /\ \/ folder = Root \/ IsComplained(folder)
               \/ \E j \in 1..(i - 1) : reported[j].path = folder

(* What ScannedEntry.h says of relativePath: it is the path of the entry from the root. *)
RelativeToRoot == \A i \in DOMAIN reported : reported[i].relative = reported[i].path
=============================================================================
