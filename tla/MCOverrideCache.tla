--------------------------- MODULE MCOverrideCache ---------------------------
(***************************************************************************)
(* A small instance of OverrideCache: its constants are given in the cfg.  *)
(***************************************************************************)
EXTENDS OverrideCache
=============================================================================
