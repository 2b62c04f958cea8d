------------------------------- MODULE Texts --------------------------------
(* A text is a sequence of symbols.  A symbol stands for a character, or for a word whose
   characters mean nothing one by one: the name of an option, a number. *)
EXTENDS Sequences, Naturals

CONSTANTS
    Symbols,  \* what texts are made of
    Small     \* towlower of the capital symbols

ASSUME SmallAssumption == Small \in [DOMAIN Small -> Symbols]

Text == Seq(Symbols)

(* A loop over what is in v, from left to right: next[state][x] is the state after x. *)
After(next, start, v) ==
    LET state[k \in 0..Len(v)] == IF k = 0 THEN start ELSE next[state[k - 1]][v[k]]
    IN  state[Len(v)]

Lower(v) == [k \in DOMAIN v |-> IF v[k] \in DOMAIN Small THEN Small[v[k]] ELSE v[k]]
=============================================================================
