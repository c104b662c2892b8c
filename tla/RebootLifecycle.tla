-------------------------- MODULE RebootLifecycle ---------------------------
(***************************************************************************)
(* What the reboot feature promises an operator, without passes, calls or  *)
(* hosts: every node follows the lifecycle of docs/controller.md, and a    *)
(* node is admitted only into a free slot.  RebootCluster implements this  *)
(* as long as one pod holds the lease.                                     *)
(***************************************************************************)
EXTENDS Naturals, FiniteSets

CONSTANTS Nodes, ControlPlane, MaxConcurrent

VARIABLE state       \* the lifecycle state of each node

Busy == {n \in Nodes : state[n] \in {"draining", "rebooting"}}

Init == state = [n \in Nodes |-> "absent"]

Move(n, from, to) ==
    /\ state[n] \in from
    /\ state' = [state EXCEPT ![n] = to]

\* A new request; never for a node whose reboot is under way.
Request(n) == Move(n, {"absent", "completed", "failed"}, "requested")

\* One node takes a free slot; a control-plane node takes them all.
Admit(n) ==
    /\ Cardinality(Busy) < MaxConcurrent
    /\ Busy \cap ControlPlane = {}
    /\ Move(n, {"requested"}, "draining")

Reboot(n)   == Move(n, {"draining"}, "rebooting")
Complete(n) == Move(n, {"rebooting"}, "completed")
Fail(n)     == Move(n, {"draining", "rebooting"}, "failed")

\* DELETE; a drain cannot be interrupted.
Clear(n) == Move(n, {"requested", "rebooting", "completed", "failed"}, "absent")

Next == \E n \in Nodes : \/ Request(n) \/ Admit(n) \/ Reboot(n)
                         \/ Complete(n) \/ Fail(n) \/ Clear(n)

Spec == Init /\ [][Next]_state
=============================================================================
