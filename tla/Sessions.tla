------------------------------ MODULE Sessions ------------------------------
(***************************************************************************)
(* Several index processes of one session beside one another, and the       *)
(* processes that send them a command.  They share the command slot         *)
(* (ipc/SharedMemoryControl in a platform/MappedMemory, which lives while   *)
(* somebody holds it) and the index file.  Of an index process only what    *)
(* the others can tell is left: where it is between two polls, and whether  *)
(* the file it writes to is still the one it began.                         *)
(*                                                                         *)
(* Each index process has a root of its own; the name of the process stands *)
(* for it.  A name is used again once its process is over.                  *)
(***************************************************************************)
EXTENDS Naturals, FiniteSets

CONSTANTS
    Indexers,  \* index processes
    Windows,   \* each sends its commands through a process of its own
    Users,     \* those who run "pause", "resume" or "stop" by hand
    Nobody

Senders == Windows \cup Users

ASSUME SessionsAssumption == Nobody \notin Indexers \cup Windows /\ Windows \cap Users = {}

VARIABLES
    phase,           \* where each index process is
    owner,           \* the window whose worker thread waits for it
    holders,         \* who holds the mapping of the slot
    magic, command,  \* ControlMemoryLayout
    meant,           \* history: the index processes a stop in the slot is for
    sender,          \* the process of a sender
    target,          \* the index process a window wants to stop
    index            \* the file: the process that truncated it last, and its state

slot == <<holders, magic, command, meant>>
sessions == <<phase, owner, slot, sender, target, index>>

Commands == {"Continue", "Pause", "StopGraceful"}

Writing == {"scanning", "polling", "paused", "finishing"}
Phases == {"none", "launched", "mapped", "constructed", "starting", "succeeded", "failed"}
              \cup Writing

Alive(j) == phase[j] \notin {"none", "succeeded", "failed"}

(* Somebody still waits for the process, or it runs. *)
Pending(j) == Alive(j) \/ owner[j] # Nobody

SessionsInit ==
    /\ phase = [j \in Indexers |-> "none"] /\ owner = [j \in Indexers |-> Nobody]
    /\ holders = {} /\ magic = "zero" /\ command = "Continue" /\ meant = {}
    /\ sender = [s \in Senders |-> "none"] /\ target = [s \in Senders |-> Nobody]
    /\ index = [by |-> Nobody, state |-> "none"]

SessionsTypeOK ==
    /\ phase \in [Indexers -> Phases] /\ owner \in [Indexers -> Windows \cup {Nobody}]
    /\ holders \subseteq Indexers \cup Senders
    /\ magic \in {"zero", "FFCT"} /\ command \in Commands /\ meant \subseteq Indexers
    /\ sender \in [Senders -> {"none", "starting", "opened", "sent", "done"}]
    /\ target \in [Senders -> Indexers \cup {Nobody}]
    /\ index \in [by : Indexers \cup {Nobody}, state : {"none", "begun", "ended", "mixed"}]

-----------------------------------------------------------------------------
(* An index process. *)

Goes(j, from, to) == phase[j] = from /\ phase' = [phase EXCEPT ![j] = to]

Launch(j, w) ==
    /\ Goes(j, "none", "launched")
    /\ owner' = [owner EXCEPT ![j] = w]
    /\ meant' = meant \ {j}
    /\ UNCHANGED <<holders, magic, command, sender, target, index>>

(* CreateFileMapping: fresh pages, all zero, or those somebody still holds. *)
MapSlot(j) ==
    /\ Goes(j, "launched", "mapped")
    /\ holders' = holders \cup {j}
    /\ UNCHANGED <<owner, magic, command, meant, sender, target, index>>

(* Mutant: a command that is there stays. *)
ContinueKept == magic' = "FFCT" /\ UNCHANGED <<command, meant, holders>>

WriteContinue == magic' = "FFCT" /\ command' = "Continue" /\ meant' = {} /\ UNCHANGED holders

(* The constructor stores a default layout over whatever is there... *)
InitSlot(j) ==
    /\ Goes(j, "mapped", "constructed")
    /\ WriteContinue
    /\ UNCHANGED <<owner, sender, target, index>>

(* ... and run() resets the command once more. *)
ResetCommand(j) ==
    /\ Goes(j, "constructed", "starting")
    /\ WriteContinue
    /\ UNCHANGED <<owner, sender, target, index>>

OpenNew(j) ==
    /\ Goes(j, "starting", "scanning")
    /\ index' = [by |-> j, state |-> "begun"]
    /\ UNCHANGED <<owner, slot, sender, target>>

(* A block goes to the file of j, or into that of the process that has truncated it since. *)
Write(j) == index' = IF index.by = j THEN index ELSE [index EXCEPT !.state = "mixed"]

(* The commit of a maintenance point; an empty batch writes nothing. *)
Commit(j) ==
    /\ Goes(j, "scanning", "polling")
    /\ Write(j) \/ UNCHANGED index
    /\ UNCHANGED <<owner, slot, sender, target>>

StopSeen(j) ==
    /\ command = "StopGraceful"
    /\ Goes(j, "polling", "finishing") \/ Goes(j, "paused", "finishing")
    /\ UNCHANGED <<owner, slot, sender, target, index>>

PauseSeen(j) ==
    /\ command = "Pause"
    /\ Goes(j, "polling", "paused")
    /\ UNCHANGED <<owner, slot, sender, target, index>>

(* Nothing to obey, or the end of a pause. *)
GoOn(j) ==
    /\ command = "Continue"
    /\ Goes(j, "polling", "scanning") \/ Goes(j, "paused", "scanning")
    /\ UNCHANGED <<owner, slot, sender, target, index>>

ScanEnds(j) ==
    /\ Goes(j, "scanning", "finishing")
    /\ UNCHANGED <<owner, slot, sender, target, index>>

(* x is done with the mapping; the pages go with the last handle. *)
Release(x) ==
    /\ holders' = holders \ {x}
    /\ IF holders' = {} THEN magic' = "zero" /\ command' = "Continue" /\ meant' = {}
                        ELSE UNCHANGED <<magic, command, meant>>

(* The exit code matters to the thread that waits for it. *)
Exit(j, code) ==
    /\ phase' = [phase EXCEPT ![j] = IF owner[j] = Nobody THEN "none" ELSE code]
    /\ Release(j)
    /\ UNCHANGED <<owner, sender, target>>

(* The last commit of shutdown(), and exit code 0. *)
Finish(j) ==
    /\ phase[j] = "finishing"
    /\ IF index = [by |-> j, state |-> "begun"] THEN index' = [index EXCEPT !.state = "ended"]
                                                ELSE Write(j) \/ UNCHANGED index
    /\ Exit(j, "succeeded")

(* CreateProcess fails, the process throws, or it is killed: an exit code other than 0. *)
Fail(j) ==
    /\ Alive(j)
    /\ Exit(j, "failed")
    /\ UNCHANGED index

IndexerGoesOn(j) ==
    \/ MapSlot(j) \/ InitSlot(j) \/ ResetCommand(j) \/ OpenNew(j) \/ Commit(j) \/ StopSeen(j)
    \/ PauseSeen(j) \/ GoOn(j) \/ ScanEnds(j) \/ Finish(j)

-----------------------------------------------------------------------------
(* "pause", "resume" and "stop": open the slot, write, end. *)

SendStarts(s, j) ==
    /\ sender[s] = "none"
    /\ sender' = [sender EXCEPT ![s] = "starting"]
    /\ target' = [target EXCEPT ![s] = j]
    /\ UNCHANGED <<phase, owner, slot, index>>

(* Mutant: the exit code is kept, which no window waits for. *)
SendEndsFailed(s) == sender' = [sender EXCEPT ![s] = "failed"]

(* A window waits for the process, nobody for that of a user. *)
SendEnds(s) == sender' = [sender EXCEPT ![s] = IF s \in Windows THEN "done" ELSE "none"]

OpenSlot(s) ==
    /\ sender[s] = "starting"
    /\ holders # {} /\ magic = "FFCT"
    /\ sender' = [sender EXCEPT ![s] = "opened"]
    /\ holders' = holders \cup {s}
    /\ UNCHANGED <<phase, owner, magic, command, meant, target, index>>

(* No mapping of that name, or one without its magic: an exception, and exit code 1. *)
SlotMissing(s) ==
    /\ sender[s] = "starting"
    /\ holders = {} \/ magic # "FFCT"
    /\ SendEnds(s)
    /\ UNCHANGED <<phase, owner, slot, target, index>>

(* Whom a stop of s is for: its own index process, or all that run. *)
MeantBy(s, c) == IF c # "StopGraceful" THEN {}
                 ELSE IF s \in Windows THEN {target[s]} ELSE {j \in Indexers : Alive(j)}

(* writeCommand. *)
Send(s, c) ==
    /\ sender[s] = "opened"
    /\ s \in Windows => c = "StopGraceful"
    /\ command' = c /\ meant' = MeantBy(s, c)
    /\ sender' = [sender EXCEPT ![s] = "sent"]
    /\ UNCHANGED <<phase, owner, holders, magic, target, index>>

(* The end of the process; a slot that nobody else holds goes with it. *)
SendDone(s) ==
    /\ sender[s] = "sent"
    /\ SendEnds(s)
    /\ Release(s)
    /\ UNCHANGED <<phase, owner, target, index>>

(* CreateProcess fails, or the process is killed. *)
SenderFails(s) ==
    /\ sender[s] \in {"starting", "opened", "sent"}
    /\ SendEnds(s)
    /\ Release(s)
    /\ UNCHANGED <<phase, owner, target, index>>

SenderGoesOn(s) ==
    OpenSlot(s) \/ SlotMissing(s) \/ (\E c \in Commands : Send(s, c)) \/ SendDone(s)

SessionsStep ==
    \/ \E j \in Indexers : IndexerGoesOn(j) \/ Fail(j)
    \/ \E s \in Senders : SenderGoesOn(s) \/ SenderFails(s)
=============================================================================
