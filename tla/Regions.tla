------------------------------ MODULE Regions ------------------------------
(***************************************************************************)
(* The three regions of the deployment and the sum of one hash             *)
(* rl:global:{tier}:{user}:{window} over them.  The set is fixed in the    *)
(* code (REGIONS of sync/counter.py), so it is no parameter here.          *)
(***************************************************************************)
EXTENDS Naturals

Region == {"us", "eu", "asia"}

\* A hash as the map of its three fields; an absent field counts 0.
Hash == [Region -> Nat]

EmptyHash == [r \in Region |-> 0]

\* What a gateway computes from HGETALL.
Total(h) == h["us"] + h["eu"] + h["asia"]
=============================================================================
