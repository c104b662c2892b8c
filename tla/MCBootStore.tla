----------------------------- MODULE MCBootStore ----------------------------
(***************************************************************************)
(* BootStore for TLC: four releases, a partition that holds three.         *)
(***************************************************************************)
EXTENDS BootStore

ThreeVersions == 1..3
FourVersions  == 1..4
=============================================================================
