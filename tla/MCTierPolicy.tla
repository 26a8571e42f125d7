---------------------------- MODULE MCTierPolicy ----------------------------
(***************************************************************************)
(* A small instance of TierPolicy, with limits at which every step of the  *)
(* rules still makes a difference.                                         *)
(***************************************************************************)
EXTENDS TierPolicy

MCBaseline == [t \in Tier |-> IF t = "free" THEN 11 ELSE 12]
MCFallback == [t \in Tier |-> IF t = "free" THEN 5 ELSE 10]
=============================================================================
