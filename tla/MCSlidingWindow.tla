--------------------------- MODULE MCSlidingWindow ---------------------------
(***************************************************************************)
(* A small instance of SlidingWindow: calls are interchangeable.           *)
(***************************************************************************)
EXTENDS SlidingWindow, TLC

CallSymmetry == Permutations(Call)
=============================================================================
