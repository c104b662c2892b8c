--------------------------- MODULE MCRebootCluster --------------------------
(***************************************************************************)
(* RebootCluster for TLC: two nodes, each with its pod, so that the pod    *)
(* that leads manages its own node and another one.                        *)
(***************************************************************************)
EXTENDS RebootCluster

TwoNodes == 1..2
NodeOne  == {1}
NodeTwo  == {2}

AllPods        == {"managed", "orphan"}
AllAnnotations == {"state", "name", "exec", "status"}
=============================================================================
