------------------------- MODULE MCDashboardControl -------------------------
(***************************************************************************)
(* TLC instance of DashboardControl.                                       *)
(***************************************************************************)
EXTENDS DashboardControl, TLC

\* After the first race nothing more is said until the API restarts.
NoRaceYet == ~raced

MCScenario == {"global_quota_bypass", "product_launch"}
MCSymmetry == Permutations(Sims) \cup Permutations(Agents) \cup Permutations(Thread)
=============================================================================
