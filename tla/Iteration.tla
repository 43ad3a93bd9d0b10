------------------------------ MODULE Iteration ----------------------------
(* What a loop over a sequence has come to after each of its turns, as a    *)
(* recursive function on the number of turns.                               *)
EXTENDS Integers, Sequences

SumOf(values) ==
    LET upTo[k \in 0 .. Len(values)] ==
            IF k = 0 THEN 0 ELSE upTo[k - 1] + values[k]
    IN upTo[Len(values)]

(* Where each of the moves leads: a move maps a place to the next one. *)
Walk(start, moves) ==
    LET at[k \in 0 .. Len(moves)] ==
            IF k = 0 THEN start ELSE moves[k][at[k - 1]]
    IN at
============================================================================
