------------------------------ MODULE MCWizard ------------------------------
(***************************************************************************)
(* Wizard for TLC: two browsers and the command line, one target disk.     *)
(***************************************************************************)
EXTENDS Wizard

CONSTANTS c1, c2, cli, d1, i1, n1, n2

TwoClients == {c1, c2}
OneDisk    == {d1}
OneImage   == {i1}
TwoNames   == {n1, n2}
=============================================================================
