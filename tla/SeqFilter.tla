------------------------------ MODULE SeqFilter ------------------------------
(***************************************************************************)
(* std::remove_if with erase, and the loops that copy some elements of a   *)
(* vector: SelectSeq, written as a recursive function and with the set of  *)
(* elements that stay in place of a test, so that the prover can unfold it *)
(* and lemmas can be stated about it.                                      *)
(***************************************************************************)
EXTENDS Integers, Sequences

\* The elements of s that are in K, in their order.
Only(s, K) ==
    LET f[i \in 0..Len(s)] == IF i = 0 THEN <<>>
                              ELSE IF s[i] \in K THEN Append(f[i - 1], s[i]) ELSE f[i - 1]
    IN  f[Len(s)]
=============================================================================
