----------------------------- MODULE Traversal -----------------------------
(***************************************************************************)
(* Loops of the code over a sequence, as the state after the last element, *)
(* and the elements of a set in order.                                     *)
(***************************************************************************)
EXTENDS Integers, Sequences, FiniteSets

(* The element of a set that has one: TLC evaluates a bound variable once,  *)
(* and an argument wherever it is used.                                    *)
The(S) == CHOOSE x \in S : TRUE

(* The n-th of a set of numbers, in their order.                           *)
Nth(S, n) == CHOOSE p \in S : Cardinality({q \in S : q < p}) = n - 1

(* The state after body has been run on each element of seq, from start.   *)
After(body(_, _), start, seq) ==
    LET state[i \in 0 .. Len(seq)] ==
            IF i = 0 THEN start
            ELSE The({body(before, element) :
                         before \in {state[i - 1]}, element \in {seq[i]}})
    IN  state[Len(seq)]
=============================================================================
