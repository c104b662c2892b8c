--------------------------- MODULE RebootCluster ----------------------------
(***************************************************************************)
(* The reboot feature (internal/features/reboot) on a cluster: one         *)
(* controller pod per node, each running Engine.Cycle: the leader's        *)
(* orchestrator pass, then the executor for its own node.  The REST API,   *)
(* the operator, kubelet, the hosts and the workload interleave with them  *)
(* at every API call.                                                      *)
(*                                                                         *)
(* PatchTransition (GET, evaluate, PATCH with the read resourceVersion,    *)
(* again on 409) is one atomic read-check-write of the node object; what a *)
(* pod read earlier in its cycle is kept in view/pods/queue and may be     *)
(* stale by then.  The lease is the abstract one of LeaderElection: only   *)
(* the holder starts a cycle, but a cycle may outlive the lease.           *)
(***************************************************************************)
EXTENDS NodeState, FiniteSets

CONSTANTS
    Nodes,           \* nodes, numbered in the order of their names
    ControlPlane,    \* the control-plane nodes
    MaxConcurrent,   \* reboots.max-concurrent
    PauseOnFailure,  \* reboots.on-failure = "pause"
    ForceValues,     \* the values of force that requests use
    Cordoned,        \* the nodes that the operator has cordoned at the start
    Workloads,       \* pods there are to drain: with an owner or without
    Targets,         \* bound on the nodes that requests name
    MaxRequests,     \* bound on admissions by API or update feature
    MaxClears,       \* bound on DELETEs and re-arms
    MaxHandovers,    \* bound on moves of the lease
    MaxFaults,       \* bound on crashes, lost responses, failed calls, blips
    MaxEdits,        \* bound on manual edits by the operator
    CordonStates,    \* the lifecycle states in which the operator cordons
    Corruptions      \* what a hand edit may make unparseable

ASSUME NodesAssumption ==
    /\ Nodes \subseteq Nat /\ IsFiniteSet(Nodes) /\ Nodes # {}
    /\ {ControlPlane, Targets, Cordoned} \subseteq SUBSET Nodes
ASSUME ParametersAssumption ==
    /\ MaxConcurrent \in Nat \ {0}
    /\ PauseOnFailure \in BOOLEAN
    /\ Workloads \subseteq {"managed", "orphan"}
    /\ ForceValues \subseteq BOOLEAN /\ CordonStates \subseteq AllStates
    /\ Corruptions \subseteq {"state", "name", "exec", "status"}
    /\ {MaxRequests, MaxClears, MaxHandovers, MaxFaults, MaxEdits} \subseteq Nat

VARIABLES
    node,        \* the Node objects
    ready,       \* their Ready condition
    drainOver,   \* has drain-timeout passed since the node started draining?
    graceOver,   \* has issue-grace passed since the last reboot-exec record?
    issues,      \* reboot-exec records written so far (clock for issuedAt)
    boot,        \* host boot ID
    command,     \* a reboot command was started on the host and is pending
    workload,    \* the pods of the node that the drain is about
    holder,      \* the node whose pod holds the leader lease
    pc,          \* what the pod of each node is doing
    view,        \* leader: what phase 1 has still to do, from the node list
    podsSeen,    \* leader: nodes with evictable pods in the pod list
    stamp,       \* leader: issues at the time `now` of this cycle
    notReadyAt,  \* leader: notReadyAfter, as a value of issues (0 = never)
    queue,       \* leader: admission candidates of this cycle
    opCordon,    \* history: the operator cordoned the node and wants it so
    past,        \* history of each node, for the properties only
    budget       \* what is left of the bounds

histVars == <<opCordon, past>>
objVars  == <<node, ready, drainOver, graceOver, issues>>
hostVars == <<boot, command, workload>>
podVars  == <<pc, view, podsSeen, stamp, notReadyAt, queue>>
vars     == <<objVars, hostVars, podVars, holder, histVars, budget>>

Steps == {"idle", "pods", "manage", "admit", "patch",
          "issue", "reissue", "confirm", "fail", "command", "down"}

\* outage    has the node been down or NotReady since its last first attempt?
\* begun     has an attempt been recorded since the node was admitted?
\* reboots   reboots by command since the first record after the admission
\* admitted  admissions of other nodes while the node has been failed
Past == [outage : BOOLEAN, begun : BOOLEAN, reboots : Nat, admitted : Nat]

\* A first attempt is recorded; only the first since the admission restarts the
\* count, whatever became of the record.
Recorded(h, isReady) ==
    [h EXCEPT !.outage = ~isReady, !.begun = TRUE, !.reboots = IF h.begun THEN @ ELSE 0]

\* Node n is admitted, as node f of that state sees it.
Admitted(h, state, f, n) ==
    [h EXCEPT !.admitted = IF state = "failed" THEN @ + 1 ELSE 0, !.begun = @ /\ f # n]

\* What manageNode will do for a node, by the state in the node list.
Rules == {"none", "drain", "watch", "uncordon"}
View  == [rule : Rules, since : Nat, force : BOOLEAN, ready : BOOLEAN, issue : Nat,
          confirmed : BOOLEAN]
NoView == [rule |-> "none", since |-> 0, force |-> FALSE, ready |-> FALSE, issue |-> 0,
           confirmed |-> FALSE]

Candidate == [node : Nodes, since : Nat, force : BOOLEAN]

Bounds == {"requests", "clears", "handovers", "faults", "edits"}

TypeOK ==
    /\ node \in [Nodes -> Node]
    /\ ready \in [Nodes -> BOOLEAN]
    /\ drainOver \in [Nodes -> BOOLEAN]
    /\ graceOver \in [Nodes -> BOOLEAN]
    /\ issues \in [Nodes -> Nat]
    /\ boot \in [Nodes -> Nat]
    /\ command \in [Nodes -> BOOLEAN]
    /\ workload \in [Nodes -> {"none", "managed", "orphan", "terminating"}]
    /\ holder \in Nodes
    /\ pc \in [Nodes -> Steps]
    /\ view \in [Nodes -> [Nodes -> View]]
    /\ podsSeen \in [Nodes -> SUBSET Nodes]
    /\ stamp \in [Nodes -> [Nodes -> Nat]]
    /\ notReadyAt \in [Nodes -> [Nodes -> Nat]]
    /\ queue \in [Nodes -> SUBSET Candidate]
    /\ opCordon \in [Nodes -> BOOLEAN]
    /\ past \in [Nodes -> Past]
    /\ budget \in [Bounds -> Nat]

Init ==
    /\ node = [n \in Nodes |-> [IdleNode EXCEPT !.unsched = n \in Cordoned]]
    /\ ready = [n \in Nodes |-> TRUE]
    /\ drainOver = [n \in Nodes |-> FALSE]
    /\ graceOver = [n \in Nodes |-> FALSE]
    /\ issues = [n \in Nodes |-> 0]
    /\ boot = [n \in Nodes |-> 1]
    /\ command = [n \in Nodes |-> FALSE]
    /\ workload \in [Nodes -> IF Workloads = {} THEN {"none"} ELSE Workloads]
    /\ holder \in Nodes
    /\ pc = [n \in Nodes |-> "idle"]
    /\ view = [p \in Nodes |-> [n \in Nodes |-> NoView]]
    /\ podsSeen = [p \in Nodes |-> {}]
    /\ stamp = [p \in Nodes |-> [n \in Nodes |-> 0]]
    /\ notReadyAt = [p \in Nodes |-> [n \in Nodes |-> 0]]
    /\ queue = [p \in Nodes |-> {}]
    /\ opCordon = [n \in Nodes |-> n \in Cordoned]
    /\ past = [n \in Nodes |-> [outage |-> FALSE, begun |-> FALSE, reboots |-> 0, admitted |-> 0]]
    /\ budget = [b \in Bounds |->
          CASE b = "requests" -> MaxRequests [] b = "clears" -> MaxClears
            [] b = "handovers" -> MaxHandovers [] b = "faults" -> MaxFaults
            [] b = "edits" -> MaxEdits]

\* The admissions by the API so far, as a clock for since.
Requests == MaxRequests - budget["requests"]

Spend(b) == budget[b] > 0 /\ budget' = [budget EXCEPT ![b] = @ - 1]

\* The node object n becomes nd.
Patch(n, nd) == node' = [node EXCEPT ![n] = nd]

Goto(p, step) == pc' = [pc EXCEPT ![p] = step]

-----------------------------------------------------------------------------
(***************************************************************************)
(* Phase 1 of runOrchestrator: list, then manage every lifecycle.          *)
(***************************************************************************)
\* uncordonRule: the controller cordoned this node and may uncordon it.
MayUncordon(nd) == nd.unsched /\ CordonedPrevKnownAbsent(nd)

\* buildViews + the dispatch of manageNode.
ViewOf(n) ==
    LET nd == node[n] IN
    CASE nd.state = "draining" ->
            [NoView EXCEPT !.rule = "drain", !.since = nd.since, !.force = nd.force]
      [] nd.state = "rebooting" /\ nd.exec.kind = "ok" ->
            [NoView EXCEPT !.rule = "watch", !.ready = ready[n],
                           !.issue = nd.exec.issue, !.confirmed = nd.exec.confirmed]
      [] nd.state \in {"completed", "failed"} /\ MayUncordon(nd) ->
            [NoView EXCEPT !.rule = "uncordon"]
      [] OTHER -> NoView

\* ListNodes of a cycle that passed Sync and CanDecide.  The pod list that
\* follows matters only to drains, its time only to reboots.
ListNodes(p) ==
    /\ pc[p] = "idle" /\ holder = p
    /\ view' = [view EXCEPT ![p] = [n \in Nodes |-> ViewOf(n)]]
    /\ Goto(p, IF \E n \in Nodes : ViewOf(n).rule \in {"drain", "watch"}
                 THEN "pods" ELSE "manage")
    /\ UNCHANGED <<objVars, hostVars, podsSeen, stamp, notReadyAt, queue, holder, histVars, budget>>

\* Mutant: pods without an owner are taken for undrainable.
EvictableManagedOnly(n) == workload[n] = "managed"

\* evictable: neither terminating nor on the drain's skip list.
Evictable(n) == workload[n] \in {"managed", "orphan"}

\* ListPods (and ListPDBs), then now := f.cfg.Now().
ListPods(p) ==
    /\ pc[p] = "pods"
    /\ podsSeen' = [podsSeen EXCEPT ![p] =
          {n \in Nodes : view[p][n].rule = "drain" /\ Evictable(n)}]
    /\ stamp' = [stamp EXCEPT ![p] =
          [n \in Nodes |-> IF view[p][n].rule = "watch" THEN issues[n] ELSE 0]]
    /\ Goto(p, "manage")
    /\ UNCHANGED <<objVars, hostVars, view, notReadyAt, queue, holder, histVars, budget>>

\* One node of phase 1 is done.
Managed(p, n) ==
    /\ view' = [view EXCEPT ![p][n] = NoView]
    /\ podsSeen' = [podsSeen EXCEPT ![p] = @ \ {n}]
    /\ stamp' = [stamp EXCEPT ![p][n] = 0]
    /\ UNCHANGED <<pc, queue>>

\* Mutant: the fresh state is not looked at.
TransitionUnchecked(n, from, to) == Patch(n, to)

\* transition(): patch only if the fresh state is still `from`.
Transition(n, from, to) ==
    Patch(n, IF node[n].state = from THEN to ELSE node[n])

\* The drain timeout counts from the since that was listed.  A listed drain
\* that a newer one has replaced may or may not be over.
StaleDrain(p, n) == view[p][n].since # node[n].since

\* manageDraining past the drain timeout.
DrainTimedOut(p, n) ==
    /\ pc[p] = "manage" /\ view[p][n].rule = "drain"
    /\ drainOver[n] \/ StaleDrain(p, n)
    /\ Transition(n, "draining", ToFailedPatch(node[n]))
    /\ Managed(p, n)
    /\ UNCHANGED <<ready, drainOver, graceOver, issues, hostVars, notReadyAt, holder, histVars, budget>>

\* manageDraining with no evictable pod in the pod list.
DrainDone(p, n) ==
    /\ pc[p] = "manage" /\ view[p][n].rule = "drain"
    /\ ~drainOver[n] \/ StaleDrain(p, n)
    /\ n \notin podsSeen[p]
    /\ Transition(n, "draining", ToRebootingPatch(node[n]))
    /\ Managed(p, n)
    /\ UNCHANGED <<ready, drainOver, graceOver, issues, hostVars, notReadyAt, holder, histVars, budget>>

\* manageDraining with evictable pods: one round of evictions, and with force
\* of deletions.  An eviction can be denied (429, or backing off from one); a
\* pod without owner is only touched with force.
DrainRound(p, n) ==
    /\ pc[p] = "manage" /\ view[p][n].rule = "drain"
    /\ ~drainOver[n] \/ StaleDrain(p, n)
    /\ n \in podsSeen[p]
    /\ workload' \in
         IF Evictable(n) /\ (workload[n] = "managed" \/ view[p][n].force)
           THEN {[workload EXCEPT ![n] = "terminating"]}
                  \cup (IF view[p][n].force THEN {} ELSE {workload})
           ELSE {workload}
    /\ Managed(p, n)
    /\ UNCHANGED <<objVars, boot, command, notReadyAt, holder, histVars, budget>>

\* runDrain with force: the deletion of a pod fails.
ForceDeleteFailed(p, n) ==
    /\ pc[p] = "manage" /\ view[p][n].rule = "drain"
    /\ ~drainOver[n] \/ StaleDrain(p, n)
    /\ n \in podsSeen[p] /\ view[p][n].force
    /\ Spend("faults")
    /\ workload' \in {workload} \cup
          (IF Evictable(n) THEN {[workload EXCEPT ![n] = "terminating"]} ELSE {})
    /\ Transition(n, "draining", ToFailedPatch(node[n]))
    /\ Managed(p, n)
    /\ UNCHANGED <<ready, drainOver, graceOver, issues, boot, command, notReadyAt, holder,
                   histVars>>

\* Mutant: a NotReady of any earlier attempt counts.
EvidenceOfAnyTime(p, n) == view[p][n].confirmed \/ notReadyAt[p][n] # 0

\* manageRebooting: remember a NotReady seen after issuedAt; complete a Ready
\* node on a confirmation or on such a NotReady.
Evidence(p, n) ==
    \/ view[p][n].confirmed
    \/ notReadyAt[p][n] >= view[p][n].issue

ManageRebooting(p, n) ==
    /\ pc[p] = "manage" /\ view[p][n].rule = "watch"
    /\ IF view[p][n].ready
         THEN /\ IF Evidence(p, n)
                   THEN Transition(n, "rebooting", ToCompletedPatch(node[n]))
                   ELSE UNCHANGED node
              /\ UNCHANGED notReadyAt
         ELSE /\ notReadyAt' = [notReadyAt EXCEPT ![p][n] = stamp[p][n]]
              /\ UNCHANGED node
    /\ Managed(p, n)
    /\ UNCHANGED <<ready, drainOver, graceOver, issues, hostVars, holder, histVars, budget>>

\* uncordon(): re-reads the node, but only for its cordon.
Uncordon(p, n) ==
    /\ pc[p] = "manage" /\ view[p][n].rule = "uncordon"
    /\ Patch(n, UncordonPatch(node[n]))
    /\ Managed(p, n)
    /\ UNCHANGED <<ready, drainOver, graceOver, issues, hostVars, notReadyAt, holder, histVars, budget>>

-----------------------------------------------------------------------------
(***************************************************************************)
(* Phase 2 of runOrchestrator: admission from a fresh node list.           *)
(***************************************************************************)
InFlightNodes == {n \in Nodes : InFlight(node[n])}
PausedNever == FALSE      \* mutant: on-failure is not consulted
Paused        == PauseOnFailure /\ \E n \in Nodes : node[n].state = "failed"
QueueHeld     == \E n \in Nodes : node[n].state = "requested" /\ ~ready[n]
\* Mutant: control planes not counted apart.
SlotFreeAnyRole  == Cardinality(InFlightNodes) < MaxConcurrent

SlotFree      == /\ Cardinality(InFlightNodes) < MaxConcurrent
                 /\ InFlightNodes \cap ControlPlane = {}

\* The candidates, and whether a reboot window is open: a request that is
\* not forced is only served in a window.
Requested == {[node |-> n, since |-> node[n].since, force |-> node[n].force] :
                  n \in {m \in Nodes : node[m].state = "requested"}}

EndPass(p) ==
    /\ Goto(p, "idle")
    /\ queue' = [queue EXCEPT ![p] = {}]

AdmitList(p) ==
    /\ pc[p] = "manage"
    /\ \A n \in Nodes : view[p][n].rule = "none"
    /\ \/ /\ ~Paused /\ ~QueueHeld /\ SlotFree
          /\ Requested # {}
          /\ \E windowOpen \in BOOLEAN :
               LET candidates == {c \in Requested : c.force \/ windowOpen} IN
               IF candidates = {}
                 THEN EndPass(p)
                 ELSE Goto(p, "admit") /\ queue' = [queue EXCEPT ![p] = candidates]
       \/ /\ Paused \/ QueueHeld \/ ~SlotFree \/ Requested = {}
          /\ EndPass(p)
    /\ UNCHANGED <<objVars, hostVars, view, podsSeen, stamp, notReadyAt, holder, histVars, budget>>

\* sortQueue: oldest request, then workers, then by name.
Before(a, b) ==
    \/ a.since < b.since
    \/ a.since = b.since /\ a.node \notin ControlPlane /\ b.node \in ControlPlane
    \/ /\ a.since = b.since
       /\ (a.node \in ControlPlane) = (b.node \in ControlPlane)
       /\ a.node < b.node

First(p) == CHOOSE c \in queue[p] : \A d \in queue[p] \ {c} : Before(c, d)

\* The head is blocked by a PodDisruptionBudget: record it, try the next.
AdmitBlocked(p) ==
    /\ pc[p] = "admit" /\ queue[p] # {}
    /\ ~First(p).force
    /\ LET n == First(p).node IN Transition(n, "requested", BlockedByPatch(node[n]))
    /\ queue' = [queue EXCEPT ![p] = @ \ {First(p)}]
    /\ UNCHANGED <<ready, drainOver, graceOver, issues, hostVars, pc, view, podsSeen,
                   stamp, notReadyAt, holder, histVars, budget>>

\* VerifyOwnership before the admission patch.
AdmitVerify(p) ==
    /\ pc[p] = "admit" /\ queue[p] # {}
    /\ IF holder = p THEN Goto(p, "patch") /\ UNCHANGED queue
                     ELSE EndPass(p)
    /\ UNCHANGED <<objVars, hostVars, view, podsSeen, stamp, notReadyAt, holder, histVars, budget>>

\* The admission patch.  One admission ends the pass; a head that is no longer
\* requested (ErrAbort) is skipped.
AdmitPatch(p) ==
    /\ pc[p] = "patch"
    /\ LET n == First(p).node IN
       IF node[n].state = "requested"
         THEN /\ Patch(n, ToDrainingPatch(node[n], Requests))
              /\ drainOver' = [drainOver EXCEPT ![n] = FALSE]
              /\ past' = [f \in Nodes |-> Admitted(past[f], node[f].state, f, n)]
              /\ EndPass(p)
         ELSE /\ queue' = [queue EXCEPT ![p] = @ \ {First(p)}]
              /\ Goto(p, "admit")
              /\ UNCHANGED <<node, drainOver, past>>
    /\ UNCHANGED <<ready, graceOver, issues, hostVars, view, podsSeen, stamp,
                   notReadyAt, holder, opCordon, budget>>

AdmitNone(p) ==
    /\ pc[p] = "admit" /\ queue[p] = {}
    /\ EndPass(p)
    /\ UNCHANGED <<objVars, hostVars, view, podsSeen, stamp, notReadyAt, holder, histVars, budget>>

\* A call of the pass fails without having been applied: the pass ends.
\* A failed transition or uncordon is only logged; the pass goes on.
PassFails(p) ==
    /\ Spend("faults")
    /\ \/ /\ \/ pc[p] \in {"pods", "admit", "patch"}
             \/ pc[p] = "manage" /\ \A n \in Nodes : view[p][n].rule = "none"
          /\ EndPass(p)
          /\ view' = [view EXCEPT ![p] = [n \in Nodes |-> NoView]]
          /\ UNCHANGED <<podsSeen, stamp>>
       \/ /\ pc[p] = "manage"
          /\ \E n \in Nodes : view[p][n].rule # "none" /\ Managed(p, n)
    /\ UNCHANGED <<objVars, hostVars, notReadyAt, holder, histVars>>

Orchestrate(p) ==
    \/ ListNodes(p) \/ ListPods(p)
    \/ \E n \in Nodes : \/ DrainTimedOut(p, n) \/ DrainDone(p, n) \/ DrainRound(p, n)
                        \/ ManageRebooting(p, n) \/ Uncordon(p, n)
    \/ AdmitList(p) \/ AdmitVerify(p) \/ AdmitPatch(p) \/ AdmitNone(p)

-----------------------------------------------------------------------------
(***************************************************************************)
(* The executor, runLocal: every pod, for its own node.                    *)
(***************************************************************************)
\* Mutant: the boot ID is not compared.
BootAlwaysUnchanged(p) == TRUE

BootUnchanged(p) == node[p].exec.boot = boot[p]

\* The read half of runLocal decides what to do ...
LocalRead(p) ==
    /\ pc[p] = "idle"
    /\ node[p].state = "rebooting"
    /\ LET e == node[p].exec IN
       \/ e.kind = "absent" /\ Goto(p, "issue")
       \/ /\ e.kind = "ok" /\ BootUnchanged(p) /\ e.attempt = 1 /\ ~graceOver[p]
          /\ Goto(p, "reissue")
       \/ e.kind = "ok" /\ BootUnchanged(p) /\ graceOver[p] /\ Goto(p, "fail")
       \/ e.kind = "ok" /\ ~BootUnchanged(p) /\ ~e.confirmed /\ Goto(p, "confirm")
    /\ UNCHANGED <<objVars, hostVars, view, podsSeen, stamp, notReadyAt, queue, holder,
                   histVars, budget>>

\* ... and guardedExecPatch evaluates the guard again on the fresh node.
IssueGuard(p) == node[p].state = "rebooting" /\ node[p].exec.kind = "absent"

ReissueGuard(p) ==
    /\ node[p].state = "rebooting"
    /\ node[p].exec.kind = "ok" /\ node[p].exec.attempt = 1
    /\ BootUnchanged(p) /\ ~graceOver[p]

\* Mutant: the guard of the re-issue is reused for the confirmation.
ConfirmGuardOfReissue(p) ==
    /\ node[p].state = "rebooting"
    /\ node[p].exec.kind = "ok" /\ BootUnchanged(p)

ConfirmGuard(p) ==
    /\ node[p].state = "rebooting"
    /\ node[p].exec.kind = "ok" /\ ~node[p].exec.confirmed

\* The guards of re-issue and confirm dereference the parsed reboot-exec: they
\* panic when it has gone while the node is rebooting, and the container dies.
ExecVanished(p) == node[p].state = "rebooting" /\ node[p].exec.kind = "absent"

\* A record of attempt k with a fresh issuedAt.
Record(p, k) ==
    /\ issues' = [issues EXCEPT ![p] = @ + 1]
    /\ graceOver' = [graceOver EXCEPT ![p] = FALSE]
    /\ Patch(p, IssuedExecPatch(node[p],
          [kind |-> "ok", boot |-> boot[p], attempt |-> k, issue |-> issues[p] + 1,
           confirmed |-> FALSE]))
    /\ past' = [past EXCEPT ![p] = IF k = 1 THEN Recorded(@, ready[p]) ELSE @]
    /\ UNCHANGED <<ready, drainOver>>

\* Issue or re-issue: the record first, the command only after the patch was
\* seen to succeed.
IssuePatch(p) ==
    /\ \/ pc[p] = "issue" /\ IssueGuard(p) /\ Record(p, 1)
       \/ pc[p] = "reissue" /\ ReissueGuard(p) /\ Record(p, 2)
    /\ \/ Goto(p, "command") /\ UNCHANGED budget
       \/ Goto(p, "idle") /\ Spend("faults")     \* the response is lost
    /\ UNCHANGED <<hostVars, view, podsSeen, stamp, notReadyAt, queue, holder, opCordon>>

ConfirmPatch(p) ==
    /\ pc[p] = "confirm" /\ ConfirmGuard(p)
    /\ Patch(p, IssuedExecPatch(node[p], [node[p].exec EXCEPT !.confirmed = TRUE]))
    /\ Goto(p, "idle")
    /\ UNCHANGED <<ready, drainOver, graceOver, issues, hostVars, view, podsSeen, stamp,
                   notReadyAt, queue, holder, histVars, budget>>

\* localFailed, if the node is still rebooting.
LocalFailed(p) ==
    /\ pc[p] = "fail"
    /\ Transition(p, "rebooting", ToFailedPatch(node[p]))
    /\ Goto(p, "idle")
    /\ UNCHANGED <<ready, drainOver, graceOver, issues, hostVars, view, podsSeen, stamp,
                   notReadyAt, queue, holder, histVars, budget>>

\* The precondition went away, or the call failed: nothing is written.
LocalAbort(p) ==
    /\ \/ pc[p] = "issue" /\ ~IssueGuard(p) /\ UNCHANGED budget
       \/ pc[p] = "reissue" /\ ~ReissueGuard(p) /\ ~ExecVanished(p) /\ UNCHANGED budget
       \/ pc[p] = "confirm" /\ ~ConfirmGuard(p) /\ ~ExecVanished(p) /\ UNCHANGED budget
       \/ pc[p] \in {"issue", "reissue", "confirm", "fail"} /\ Spend("faults")
    /\ Goto(p, "idle")
    /\ UNCHANGED <<objVars, hostVars, view, podsSeen, stamp, notReadyAt, queue, holder, histVars>>

\* issueReboot: the command starts ...
CommandStarts(p) ==
    /\ pc[p] = "command"
    /\ command' = [command EXCEPT ![p] = TRUE]
    /\ Goto(p, "idle")
    /\ UNCHANGED <<objVars, boot, workload, view, podsSeen, stamp, notReadyAt, queue,
                   holder, histVars, budget>>

\* ... or cannot be started: the node fails.
CommandFails(p) ==
    /\ pc[p] = "command"
    /\ Spend("faults")
    /\ Goto(p, "fail")
    /\ UNCHANGED <<objVars, hostVars, view, podsSeen, stamp, notReadyAt, queue, holder, histVars>>

\* The container restarts with empty memory, in the middle of anything.
Forget(p, step) ==
    /\ Goto(p, step)
    /\ view' = [view EXCEPT ![p] = [n \in Nodes |-> NoView]]
    /\ podsSeen' = [podsSeen EXCEPT ![p] = {}]
    /\ stamp' = [stamp EXCEPT ![p] = [n \in Nodes |-> 0]]
    /\ notReadyAt' = [notReadyAt EXCEPT ![p] = [n \in Nodes |-> 0]]
    /\ queue' = [queue EXCEPT ![p] = {}]

\* The guard of a re-issue or a confirmation meets no reboot-exec.
Panic(p) ==
    /\ pc[p] \in {"reissue", "confirm"} /\ ExecVanished(p)
    /\ Forget(p, "idle")
    /\ UNCHANGED <<objVars, hostVars, holder, histVars, budget>>

PodCrash(p) ==
    /\ pc[p] # "down"
    /\ Spend("faults")
    /\ Forget(p, "idle")
    /\ UNCHANGED <<objVars, hostVars, holder, histVars>>

Execute(p) ==
    \/ LocalRead(p) \/ IssuePatch(p) \/ ConfirmPatch(p) \/ LocalFailed(p)
    \/ LocalAbort(p) \/ CommandStarts(p) \/ Panic(p)

-----------------------------------------------------------------------------
(***************************************************************************)
(* The REST API, the update feature's writes, and the operator.            *)
(***************************************************************************)
ReRequestable(nd) == nd.state \in {"absent", "completed", "failed"}

\* A new request.  Requests of one second share their since.
Request(n, force) ==
    /\ n \in Targets
    /\ Spend("requests")
    /\ \E since \in {Requests + 1} \cup
                     {k \in {Requests} : \E m \in Nodes : node[m].state = "requested"
                                                      /\ node[m].since = k} :
          Patch(n, AdmissionPatch(node[n], since, force))
    /\ UNCHANGED <<ready, drainOver, graceOver, issues, hostVars, podVars, holder, histVars>>

\* POST /reboots for one node (admit).
PostReboot(n, force) ==
    /\ ready[n] /\ ReRequestable(node[n])
    /\ Request(n, force)

\* The update feature's EnqueueControllerBuild, by the node's own pod.
EnqueueUpdate(n) ==
    /\ pc[n] # "down" /\ node[n].state = "absent"
    /\ Request(n, FALSE)

\* DELETE /reboots/{node}.
DeleteReboot(n) ==
    /\ node[n].state \notin {"absent", "draining"}
    /\ Spend("clears")
    /\ Patch(n, ClearPatch(node[n],
          /\ node[n].state \in {"rebooting", "completed", "failed"}
          /\ CordonedPrevKnownAbsent(node[n])))
    /\ UNCHANGED <<ready, drainOver, graceOver, issues, hostVars, podVars, holder, histVars>>

\* RearmBuild: the update feature clears a completed node.
Rearm(n) ==
    /\ pc[n] # "down"
    /\ node[n].state = "completed"
    /\ Spend("clears")
    /\ Patch(n, ClearPatch(node[n], FALSE))
    /\ UNCHANGED <<ready, drainOver, graceOver, issues, hostVars, podVars, holder, histVars>>

\* kubectl cordon / uncordon.
OperatorCordon(n) ==
    /\ ~node[n].unsched /\ node[n].state \in CordonStates
    /\ Spend("edits")
    /\ Patch(n, [node[n] EXCEPT !.unsched = TRUE])
    /\ opCordon' = [opCordon EXCEPT ![n] = TRUE]
    /\ UNCHANGED <<ready, drainOver, graceOver, issues, hostVars, podVars, holder, past>>

OperatorUncordon(n) ==
    /\ opCordon[n] /\ node[n].unsched /\ node[n].state \in CordonStates
    /\ Spend("edits")
    /\ Patch(n, UncordonPatch(node[n]))
    /\ opCordon' = [opCordon EXCEPT ![n] = FALSE]
    /\ UNCHANGED <<ready, drainOver, graceOver, issues, hostVars, podVars, holder, past>>

\* A hand edit leaves one of the annotations unparseable.
OperatorCorrupts(n) ==
    /\ node[n].state # "absent"
    /\ Spend("edits")
    /\ \/ "state" \in Corruptions /\ Patch(n, [node[n] EXCEPT !.state = "corrupt"])
       \/ "name" \in Corruptions /\ Patch(n, [node[n] EXCEPT !.state = "unknown"])
       \/ /\ "exec" \in Corruptions
          /\ Patch(n, [node[n] EXCEPT !.exec = [NoExec EXCEPT !.kind = "corrupt"]])
       \/ /\ "status" \in Corruptions
          /\ Patch(n, [node[n] EXCEPT !.status = "corrupt"])
    /\ UNCHANGED <<ready, drainOver, graceOver, issues, hostVars, podVars, holder, histVars>>

-----------------------------------------------------------------------------
(***************************************************************************)
(* Time, hosts, kubelet, scheduler, lease.                                 *)
(***************************************************************************)
DrainTimeout(n) ==
    /\ node[n].state = "draining" /\ ~drainOver[n]
    /\ drainOver' = [drainOver EXCEPT ![n] = TRUE]
    /\ UNCHANGED <<node, ready, graceOver, issues, hostVars, podVars, holder, histVars, budget>>

GraceExpires(n) ==
    /\ node[n].state = "rebooting" /\ node[n].exec.kind = "ok" /\ ~graceOver[n]
    /\ graceOver' = [graceOver EXCEPT ![n] = TRUE]
    /\ UNCHANGED <<node, ready, drainOver, issues, hostVars, podVars, holder, histVars, budget>>

\* The host goes down: the reboot command takes effect, or the power fails.
HostDown(n) ==
    /\ pc[n] # "down"
    /\ \/ command[n] /\ UNCHANGED budget
       \/ ~command[n] /\ Spend("faults")
    /\ command' = [command EXCEPT ![n] = FALSE]
    /\ past' = [past EXCEPT ![n].outage = TRUE,
                            ![n].reboots = @ + (IF command[n] THEN 1 ELSE 0)]
    /\ Forget(n, "down")
    /\ UNCHANGED <<objVars, boot, workload, holder, opCordon>>

HostBoot(n) ==
    /\ pc[n] = "down"
    /\ Goto(n, "idle")
    /\ boot' = [boot EXCEPT ![n] = @ + 1]
    /\ UNCHANGED <<objVars, command, workload, view, podsSeen, stamp, notReadyAt, queue,
                   holder, histVars, budget>>

\* The command was started and nothing happens.
CommandIgnored(n) ==
    /\ command[n]
    /\ Spend("faults")
    /\ command' = [command EXCEPT ![n] = FALSE]
    /\ UNCHANGED <<objVars, boot, workload, podVars, holder, histVars>>

\* The Ready condition follows the host, and now and then does not.
NodeNotReady(n) ==
    /\ ready[n]
    /\ \/ pc[n] = "down" /\ UNCHANGED budget
       \/ pc[n] # "down" /\ Spend("faults")
    /\ ready' = [ready EXCEPT ![n] = FALSE]
    /\ past' = [past EXCEPT ![n].outage = TRUE]
    /\ UNCHANGED <<node, drainOver, graceOver, issues, hostVars, podVars, holder, opCordon>>

NodeReady(n) ==
    /\ ~ready[n] /\ pc[n] # "down"
    /\ ready' = [ready EXCEPT ![n] = TRUE]
    /\ UNCHANGED <<node, drainOver, graceOver, issues, hostVars, podVars, holder, histVars, budget>>

\* A terminating pod goes; the scheduler places pods on schedulable nodes.
PodGone(n) ==
    /\ workload[n] = "terminating"
    /\ workload' = [workload EXCEPT ![n] = "none"]
    /\ UNCHANGED <<objVars, boot, command, podVars, holder, histVars, budget>>

PodArrives(n) ==
    /\ workload[n] = "none" /\ ~node[n].unsched
    /\ \E w \in Workloads : workload' = [workload EXCEPT ![n] = w]
    /\ UNCHANGED <<objVars, boot, command, podVars, holder, histVars, budget>>

\* LeaderElection: the former holder starts no further cycle, but the pass it
\* is in goes on.
LeaseMoves(p) ==
    /\ p # holder /\ pc[p] # "down"
    /\ Spend("handovers")
    /\ holder' = p
    /\ UNCHANGED <<objVars, hostVars, podVars, histVars>>

Environment(n) ==
    \/ \E force \in ForceValues : PostReboot(n, force)
    \/ EnqueueUpdate(n) \/ DeleteReboot(n) \/ Rearm(n)
    \/ OperatorCordon(n) \/ OperatorUncordon(n) \/ OperatorCorrupts(n)
    \/ DrainTimeout(n) \/ GraceExpires(n)
    \/ HostDown(n) \/ HostBoot(n) \/ CommandIgnored(n)
    \/ NodeNotReady(n) \/ NodeReady(n)
    \/ PodGone(n) \/ PodArrives(n)
    \/ LeaseMoves(n)

Next ==
    \E p \in Nodes :
        \/ Orchestrate(p) \/ AdmitBlocked(p) \/ PassFails(p)
        \/ \E n \in Nodes : ForceDeleteFailed(p, n)
        \/ Execute(p) \/ CommandFails(p) \/ PodCrash(p)
        \/ Environment(p)

Spec == Init /\ [][Next]_vars

\* Engine.Run cycles for ever, each cycle runs the pass (on the leader) and the
\* executor, and every call returns; a host that went down boots and becomes
\* Ready; evicted pods go; the timeouts pass.
FairSpec ==
    /\ Spec
    /\ \A p \in Nodes :
         /\ WF_vars(Orchestrate(p)) /\ SF_vars(Execute(p))
         /\ WF_vars(HostBoot(p)) /\ WF_vars(NodeReady(p)) /\ WF_vars(PodGone(p))
         /\ WF_vars(DrainTimeout(p)) /\ WF_vars(GraceExpires(p))
-----------------------------------------------------------------------------
(***************************************************************************)
(* Properties.                                                             *)
(***************************************************************************)
Busy == {n \in Nodes : node[n].state \in {"draining", "rebooting"}}

\* While the lease stays with one pod, no more than max-concurrent nodes drain
\* or reboot at a time, and no more than one control-plane node, although the
\* counts come from a list read before the admission patch.
SlotLimit ==
    /\ Cardinality(Busy) <= MaxConcurrent
    /\ Cardinality(Busy \cap ControlPlane) <= 1

\* With on-failure = "pause" and one pod leading, nobody is admitted while a node
\* is failed, except by the pass that looked before the failure.  That pass saw
\* the node in flight, so it admits only beside a worker and to a further slot.
PauseRespected ==
    PauseOnFailure =>
        \A n \in Nodes :
            node[n].state = "failed" =>
                past[n].admitted <= IF MaxConcurrent > 1 /\ n \notin ControlPlane THEN 1 ELSE 0

\* A node that is told to reboot runs no pod the drain should have removed:
\* none was missed by the pod list and none arrived since.
DrainedBeforeReboot ==
    \A n \in Nodes :
        node[n].state = "rebooting" =>
            node[n].unsched /\ workload[n] \in {"none", "terminating"}

\* A node is completed only if it was down or NotReady since its reboot was
\* recorded: no evidence of an earlier reboot, or of none, is accepted.
CompletedMeansOutage ==
    \A n \in Nodes : node[n].state = "completed" => past[n].outage

\* One request reboots the host at most once, whatever crashes, lost responses,
\* re-issues and hand edits happen on the way.  Reboots are counted from the
\* first record after the admission, in whatever attempt: a command left over
\* from a request that was deleted counts for that one.
OneRebootPerRequest == \A n \in Nodes : past[n].reboots <= 1

\* A node the operator cordoned stays cordoned until the operator uncordons it.
OperatorCordonKept == \A n \in Nodes : opCordon[n] => node[n].unsched

\* A lifecycle under way ends: no drain and no reboot hangs for ever.
LifecycleEnds == \A n \in Nodes : n \in Busy ~> n \notin Busy

\* With on-failure = "continue", a forced request is served or withdrawn.
ForcedRequestServed ==
    \A n \in Nodes :
        (node[n].state = "requested" /\ node[n].force)
            ~> ~(node[n].state = "requested" /\ node[n].force)

\* The pass, the executor and the API together implement the lifecycle of the
\* documentation, with its limits checked at the moment of the admission.
Lifecycle == INSTANCE RebootLifecycle
                WITH state <- [n \in Nodes |-> node[n].state]
ImplementsLifecycle == Lifecycle!Spec

\* Even with a deposed pod still at work no node leaves the lifecycle: what the
\* two pods do to one node are legal transitions of one machine.  Only the
\* slots are overdrawn, by one per handover, and the control planes' too.
RelaxedLifecycle == INSTANCE RebootLifecycle
                       WITH state <- [n \in Nodes |-> node[n].state],
                            MaxConcurrent <- MaxConcurrent + MaxHandovers,
                            ControlPlane <- {}
ImplementsRelaxedLifecycle == RelaxedLifecycle!Spec

\* Statements of the documentation and the comments that the code does not keep
\* (README.md, known disagreements).

\* docs/controller.md:106: cordonedPrev is recorded only for a node the operator
\* had cordoned before the drain.
CordonedPrevTruthful ==
    \A n \in Nodes : node[n].status = "cordonedPrev" => opCordon[n]

\* orchestrator.go:108, "Lease re-validated before every transition patch": a pod
\* that is no longer the lease holder transitions no node in phase 1.
DeposedLeaderStops ==
    [][ \A p \in Nodes :
          pc[p] = "manage" /\ holder # p /\ view'[p] # view[p]
              => \A n \in Nodes : node'[n].state = node[n].state ]_vars

\* docs/controller.md:198: with on-failure = "continue", a drain that times out
\* proceeds to reboot.
ContinueProceeds ==
    [][ ~PauseOnFailure =>
          \A n \in Nodes :
              node[n].state = "draining" => node'[n].state # "failed" ]_node

\* drain.go:50: a pod that is terminating "still counts until it disappears".
TerminatingPodsAwaited ==
    \A n \in Nodes : node[n].state = "rebooting" => workload[n] = "none"

\* The controller uncordons after the lifecycle, never during it (uncordonRule:
\* "on failed/completed").
BusyStaysCordoned ==
    [][ \A n \in Nodes : n \in Busy /\ n \in Busy' /\ node[n].unsched
                            => node'[n].unsched ]_node
=============================================================================
