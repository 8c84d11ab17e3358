------------------------------ MODULE Selections ------------------------------
(***************************************************************************)
(* The elements of a sequence that are in a set, in their order: SelectSeq *)
(* of the standard modules, as a recursive function and with a set for its *)
(* test, so that it can be reasoned about.                                 *)
(***************************************************************************)
EXTENDS Naturals, Sequences

Selected(seq, wanted) ==
    LET of[i \in 0 .. Len(seq)] ==
            IF i = 0 THEN <<>>
            ELSE IF seq[i] \in wanted THEN Append(of[i - 1], seq[i]) ELSE of[i - 1]
    IN  of[Len(seq)]
=============================================================================
