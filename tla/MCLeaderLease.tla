---------------------------- MODULE MCLeaderLease ---------------------------
(***************************************************************************)
(* LeaderLease for TLC.  No symmetry: the run checks a liveness property.  *)
(***************************************************************************)
EXTENDS LeaderLease
=============================================================================
