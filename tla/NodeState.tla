----------------------------- MODULE NodeState ------------------------------
(***************************************************************************)
(* The four reboot annotations of a Node object and the patches that       *)
(* change them (internal/nodestate/state.go), as functions from the fresh  *)
(* node to the patched node.                                               *)
(*                                                                         *)
(* A node record holds what Parse makes of the annotations:                *)
(*   state    the lifecycle state; "absent", "corrupt" (a ParseError) and  *)
(*            "unknown" (well-formed, but none of the five names)          *)
(*   since    order stamp of reboot-state.since                            *)
(*   force    reboot-request.force; FALSE when absent or unparseable       *)
(*   exec     reboot-exec: issue is the order stamp of issuedAt            *)
(*   status   reboot-status: is cordonedPrev set, or is it unreadable?     *)
(*            error and blockedBy are told apart nowhere ("plain")         *)
(*   unsched  spec.unschedulable                                           *)
(* Identifiers, messages and resourceVersion are left out; a patch is      *)
(* applied to the version it was built from or not at all.                 *)
(* The since of the states after draining is never read and is kept at 0.  *)
(***************************************************************************)
EXTENDS Naturals

LifecycleStates ==
    {"requested", "draining", "rebooting", "completed", "failed"}

AllStates == LifecycleStates \cup {"absent", "unknown", "corrupt"}

Exec == [kind : {"absent", "corrupt", "ok"}, boot : Nat, attempt : Nat,
         issue : Nat, confirmed : BOOLEAN]

Status == {"plain", "cordonedPrev", "corrupt"}

Node == [state : AllStates, since : Nat, force : BOOLEAN, exec : Exec,
         status : Status, unsched : BOOLEAN]

NoExec == [kind |-> "absent", boot |-> 0, attempt |-> 0, issue |-> 0,
           confirmed |-> FALSE]

\* A node outside the lifecycle.
IdleNode == [state |-> "absent", since |-> 0, force |-> FALSE,
             exec |-> NoExec, status |-> "plain", unsched |-> FALSE]

\* Mutants of InFlight: rebooting nodes hold no slot; failed ones do.
InFlightDrainingOnly(nd) == nd.state \in {"draining", "corrupt"}
InFlightUntilCleared(nd) == nd.state \in {"draining", "rebooting", "corrupt", "failed"}

\* NodeState.InFlight: the node holds a concurrency slot.
InFlight(nd) == nd.state \in {"draining", "rebooting", "corrupt"}

\* MergeStatus reads a corrupt status as one without fields.
MergeStatus(s) == IF s = "corrupt" THEN "plain" ELSE s

\* AdmissionPatch: a fresh request; exec and status go, the cordon stays.
AdmissionPatch(nd, stamp, force) ==
    [nd EXCEPT !.state = "requested", !.since = stamp, !.force = force,
               !.exec = NoExec, !.status = "plain"]

\* Mutant: the cordon found is not remembered.
ToDrainingPatchForgets(nd, stamp) ==
    [nd EXCEPT !.state = "draining", !.since = stamp,
               !.status = MergeStatus(@), !.unsched = TRUE]

\* ToDrainingPatch: state, cordon and cordonedPrev in one patch.
ToDrainingPatch(nd, stamp) ==
    [nd EXCEPT !.state = "draining",
               !.since = stamp,
               !.status = IF nd.unsched THEN "cordonedPrev" ELSE MergeStatus(@),
               !.unsched = TRUE]

\* Mutant: a state name nobody knows.
ToRebootingPatchMisspelt(nd) == [nd EXCEPT !.state = "reboot", !.since = 0]

ToRebootingPatch(nd) == [nd EXCEPT !.state = "rebooting", !.since = 0]

ToCompletedPatch(nd) == [nd EXCEPT !.state = "completed"]

\* ToFailedPatch: state and error in one patch.
ToFailedPatch(nd) ==
    [nd EXCEPT !.state = "failed", !.since = 0,
               !.status = MergeStatus(@)]

\* StatusPatch of writeBlockedBy.
BlockedByPatch(nd) == [nd EXCEPT !.status = MergeStatus(@)]

\* IssuedExecPatch: the record written just before the reboot command.
IssuedExecPatch(nd, exec) == [nd EXCEPT !.exec = exec]

\* ClearPatch: all four annotations go.
ClearPatch(nd, uncordon) ==
    [IdleNode EXCEPT !.unsched = nd.unsched /\ ~uncordon]

UncordonPatch(nd) == [nd EXCEPT !.unsched = FALSE]

\* The API's cordonedPrevKnownAbsent, and the same test in uncordonRule.
CordonedPrevKnownAbsent(nd) == nd.status = "plain"
=============================================================================
