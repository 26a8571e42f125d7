---------------------------- MODULE MCTokenBucket ----------------------------
(***************************************************************************)
(* A small instance of TokenBucket: calls are interchangeable.             *)
(***************************************************************************)
EXTENDS TokenBucket, TLC

CallSymmetry == Permutations(Call)
=============================================================================
