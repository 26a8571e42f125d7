-------------------------- MODULE MCUserOverrides ---------------------------
(***************************************************************************)
(* A small instance of UserOverrides: one user sends to both regions, one  *)
(* to the first only.                                                      *)
(***************************************************************************)
EXTENDS UserOverrides

MCRegions == <<"us", "eu">>
MCHome == [u \in {"u1", "u2"} |-> IF u = "u1" THEN {"us", "eu"} ELSE {"us"}]
MCSums == {30, 150}
MCLimits == {10, 300}
=============================================================================
