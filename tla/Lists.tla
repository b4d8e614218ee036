------------------------------- MODULE Lists -------------------------------
(***************************************************************************)
(* Vec::retain and Iterator::filter, as a recursive function: the provers  *)
(* have no definition of SelectSeq.                                        *)
(***************************************************************************)
EXTENDS Integers, Sequences

(* The items of a list that are in S, in their order. *)
Kept(items, S) ==
  LET upto[i \in 0..Len(items)] ==
        IF i = 0 THEN <<>>
        ELSE IF items[i] \in S THEN Append(upto[i - 1], items[i]) ELSE upto[i - 1]
  IN upto[Len(items)]
=============================================================================
