-------------------------- MODULE MCStatusChannel --------------------------
(* A small instance of StatusChannel for TLC. *)
EXTENDS StatusChannel

CONSTANTS m1, m2, r1

(* One text is longer than the buffer. *)
MCSize == [m \in Messages |-> IF m = m1 THEN 3 ELSE 1]
=============================================================================
