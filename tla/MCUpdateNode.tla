---------------------------- MODULE MCUpdateNode ----------------------------
(***************************************************************************)
(* UpdateNode for TLC.                                                     *)
(***************************************************************************)
EXTENDS UpdateNode

TwoVersions   == 1..2
ThreeVersions == 1..3
=============================================================================
