----------------------------- MODULE UpdateNode -----------------------------
(***************************************************************************)
(* The update feature on one node (internal/features/update,               *)
(* internal/nodestate/update.go): the local pod's cycle (RunLocal) over    *)
(* the node's annotations and its boot partition (BootStore).  Every API   *)
(* call and every partition session is a step of its own, so an operator's *)
(* pin, a nodectl session, a crash or a reboot fits between any two.       *)
(*                                                                         *)
(* The reboot feature is seen from here through the node's reboot-state:   *)
(* RebootCluster models it in full.                                        *)
(***************************************************************************)
EXTENDS BootStore

CONSTANTS
    None,           \* no next-kernel annotation; in applied: not known yet is Unknown
    Unknown,        \* pod start: the bootloader was not reconciled yet
    Malformed,      \* a next-kernel value that is no version
    Empty,          \* next-kernel present with an empty value
    Indexed,        \* versions the release index lists at first
    MaxOccurrences, \* bound on the occurrences of updates.windows
    MaxEdits,       \* bound on what operators and publishers do
    MaxHands        \* bound on nodectl sessions and files removed by hand

ASSUME UpdateNodeAssumption ==
    /\ Cardinality({None, Unknown, Malformed, Empty, Broken}) = 5
    /\ {None, Unknown, Malformed, Empty} \cap Versions = {}
    /\ Indexed \subseteq Versions
    /\ MaxOccurrences \in Nat /\ MaxEdits \in Nat /\ MaxHands \in Nat

VARIABLES
    goal,       \* annotation next-kernel
    claimed,    \* annotation update-last-check: the newest occurrence checked
    state,      \* annotation reboot-state
    index,      \* versions in the signed release index
    occ,        \* the newest occurrence of updates.windows
    open,       \* is that window still open (within its grace)?
    pod,        \* the local pod
    edits,
    hands,      \* works of others on the partition: nodectl, removed files
    checked,    \* (history) occurrences whose check was started
    news        \* (history) did anything change since the host came up?

nodeVars == <<goal, claimed, state>>
podVars  == <<pod, checked>>
envVars  == <<index, occ, open, edits, hands>>
vars     == <<storeVars, nodeVars, podVars, envVars, news>>

BadGoals == {Malformed, Empty}
Goals    == Versions \cup BadGoals \cup {None}
States   == {"absent", "requested", "rebooting", "rebooted", "completed", "failed"}

Steps == {"idle", "scan", "bootstrap", "flavor", "reconcile", "fresh", "reconciled", "window",
          "claim", "check", "plan", "restage", "restaged", "stage", "staged", "anchor",
          "adopt", "adopted", "converge", "converged", "safe", "correct", "corrected",
          "rearm", "reread", "enqueue", "ensured", "request"}

\* The pod's memory: what survives a cycle is the flavor and the goal the
\* bootloader was last reconciled to.  (history) hands: at EnsureBootGoal.
FreshPod == [pc |-> "idle", ret |-> "idle", applied |-> Unknown, flavor |-> FALSE,
             goal |-> None, state |-> "absent", claimed |-> 0, occ |-> 0, open |-> FALSE,
             local |-> {}, sums |-> {}, aim |-> None, dirty |-> FALSE, hands |-> 0]

Pod == [pc : Steps, ret : {"idle", "window", "reread"},
        applied : Versions \cup {None, Unknown}, flavor : BOOLEAN, goal : Goals,
        state : States, claimed : 0..MaxOccurrences, occ : 0..MaxOccurrences,
        open : BOOLEAN, local : SUBSET Versions, sums : SUBSET Versions,
        aim : Goals, dirty : BOOLEAN, hands : 0..MaxHands]

Init ==
    /\ StoreInit
    /\ goal = None /\ claimed = 0 /\ state = "absent"
    /\ index = Indexed /\ occ = 0 /\ open = FALSE
    /\ pod = FreshPod /\ checked = {}
    /\ edits = 0 /\ hands = 0 /\ news = TRUE

-----------------------------------------------------------------------------
(* The pod's steps.                                                        *)

At(pc)   == pod.pc = pc /\ up
Goto(pc) == pod' = [pod EXCEPT !.pc = pc]
Keep     == UNCHANGED <<nodeVars, envVars, checked, news>>
Local    == Keep /\ UNCHANGED storeVars         \* a step of memory, or a read
Fault    == faults < MaxFaults /\ faults' = faults + 1
StoreButFaults == <<file, boot, menu, running, loader, up, sess, cut>>

\* A read of the API or a scan of the partition fails: nothing is learnt.
ReadFails(pc) == Goto(pc) /\ Keep /\ Fault /\ UNCHANGED StoreButFaults

\* What a session returned; consuming it closes the session.
Returned(pc, outcomes) == At(pc) /\ sess["pod"].at = "done" /\ sess["pod"].outcome \in outcomes
Consume == Finish("pod") /\ Keep
Failures == {"failed", "absent"}

\* A conditional read-modify-write of the node: done, refused by its guard on
\* the fresh node, failed, or done with the response lost.
Write(guard, effect, onDone, onNot) ==
    \/ guard /\ effect /\ onDone /\ UNCHANGED storeVars
    \/ ~guard /\ UNCHANGED <<nodeVars, news>> /\ onNot /\ UNCHANGED storeVars
    \/ Fault /\ UNCHANGED <<nodeVars, news>> /\ onNot /\ UNCHANGED StoreButFaults
    \/ Fault /\ guard /\ effect /\ onNot /\ UNCHANGED StoreButFaults

SetGoal(g) == goal' = g /\ news' = TRUE /\ UNCHANGED <<claimed, state>>
Enter(pc)    == Goto(pc) /\ UNCHANGED <<envVars, checked>>
EnterDirty(pc) == pod' = [pod EXCEPT !.pc = pc, !.dirty = TRUE] /\ UNCHANGED <<envVars, checked>>

NewestOf(S) == CHOOSE v \in S : \A w \in S : w <= v
SafeTarget(S) == IF running \in S THEN running ELSE IF S = {} THEN None ELSE NewestOf(S)

\* RunLocal reads the node, the configuration and the clock.
BeginCycle ==
    /\ At("idle")
    /\ pod' = [pod EXCEPT !.pc = IF goal = None THEN "scan" ELSE "flavor",
                          !.goal = goal, !.state = state, !.claimed = claimed,
                          !.occ = occ, !.open = open, !.dirty = FALSE, !.hands = 0]
    /\ Local

\* bootstrap: anchor the running version, or the newest local one.  The scan
\* takes no lock.
BootstrapScan ==
    /\ At("scan")
    /\ \/ /\ pod' = [pod EXCEPT !.aim = SafeTarget(Present),
                                !.pc = IF Present = {} THEN "flavor" ELSE "bootstrap"]
          /\ Local
       \/ ReadFails("flavor")

Bootstrap ==
    /\ At("bootstrap")
    /\ Write(goal = None, SetGoal(pod.aim), EnterDirty("flavor"), Enter("flavor"))

\* flavorOf: from the staged files, once per pod; an empty partition, or one that
\* cannot be scanned, ends the cycle.
Flavor ==
    /\ At("flavor")
    /\ \/ /\ pod' = [pod EXCEPT !.flavor = pod.flavor \/ Present # {},
                                !.pc = IF pod.flavor \/ Present # {} THEN "reconcile" ELSE "idle"]
          /\ Local
       \/ ~pod.flavor /\ ReadFails("idle")

-----------------------------------------------------------------------------
(* reconcileBootloader.                                                    *)

\* Mutant of Value: a malformed annotation is read as none at all.
ValueTolerant(g) == IF g \in BadGoals THEN None ELSE g

\* Both an absent and an empty annotation read as "".
Value(g) == IF g = Empty THEN None ELSE g
Steady == pod.applied # Unknown /\ ~pod.dirty /\ Value(pod.goal) = pod.applied

Reconcile == At("reconcile") /\ Goto(IF Steady THEN "window" ELSE "fresh") /\ Local

\* The fresh read: nothing to apply, a malformed goal, or a goal to point at.
ReconcileFresh ==
    /\ At("fresh")
    /\ \/ /\ Value(goal) = None
          /\ pod' = [pod EXCEPT !.pc = "window", !.applied = None]
          /\ Local
       \/ /\ goal = Malformed
          /\ pod' = [pod EXCEPT !.pc = "safe", !.ret = "window", !.aim = goal]
          /\ Local
       \/ /\ goal \in Versions
          /\ pod' = [pod EXCEPT !.pc = "reconciled", !.aim = goal]
          /\ EnsureBootGoal("pod", goal) /\ Keep
       \/ ReadFails("window")

\* Mutant of GoalMoved: the first goal a pod sees counts as a change.
GoalMovedAtStart == pod.applied # pod.aim

\* Re-arming rides on a goal that moved, or on a default that was moved; a goal
\* whose file is still to come is only remembered.
GoalMoved == pod.applied # Unknown /\ pod.applied # pod.aim
Reconciled ==
    \/ /\ Returned("reconciled", {"ok", "repointed"})
       /\ pod' = [pod EXCEPT !.applied = pod.aim, !.ret = "window",
                    !.pc = IF GoalMoved \/ sess["pod"].outcome = "repointed" THEN "rearm" ELSE "window"]
       /\ Consume
    \/ Returned("reconciled", {"absent"}) /\ Consume
       /\ pod' = [pod EXCEPT !.applied = pod.aim, !.pc = "window"]
    \/ Returned("reconciled", {"failed"}) /\ Goto("window") /\ Consume

\* rearmIfCompleted
Rearm ==
    /\ At("rearm")
    /\ Write(state = "completed", state' = "absent" /\ UNCHANGED <<goal, claimed, news>>,
             EnterDirty(pod.ret), Enter(pod.ret))

-----------------------------------------------------------------------------
(* The window, the claim and the check.  The view is read again when an    *)
(* earlier step wrote; if that read fails the old view is used.            *)

View == IF pod.dirty THEN <<goal, state, claimed>> ELSE <<pod.goal, pod.state, pod.claimed>>

ClaimFrom(seen) == IF pod.open /\ seen < pod.occ THEN "claim" ELSE "reread"
Window ==
    /\ At("window")
    /\ \/ /\ pod' = [pod EXCEPT !.goal = View[1], !.state = View[2], !.claimed = View[3],
                                !.pc = ClaimFrom(View[3])]
          /\ Local
       \/ pod.dirty /\ ReadFails(ClaimFrom(pod.claimed))

\* Mutants of Claim: a failed claim does not stop the check; the claim is off by one.
ClaimBestEffort ==
    /\ At("claim")
    /\ Write(claimed < pod.occ, claimed' = pod.occ /\ UNCHANGED <<goal, state, news>>,
             Enter("check"), Enter("check"))
ClaimNext ==
    /\ At("claim")
    /\ Write(claimed < pod.occ, claimed' = pod.occ + 1 /\ UNCHANGED <<goal, state, news>>,
             Enter("check"), Enter("reread"))

ClaimGuard == claimed < pod.occ
Claim ==
    /\ At("claim")
    /\ Write(ClaimGuard, claimed' = pod.occ /\ UNCHANGED <<goal, state, news>>,
             Enter("check"), Enter("reread"))

\* doCheck: the verified index, or an error that changes nothing.
Check ==
    /\ At("check")
    /\ checked' = checked \cup {pod.occ}
    /\ UNCHANGED <<nodeVars, envVars, news>>
    /\ \/ pod' = [pod EXCEPT !.pc = "plan", !.sums = index] /\ UNCHANGED storeVars
       \/ Goto("reread") /\ Fault /\ UNCHANGED StoreButFaults

-----------------------------------------------------------------------------
(* maybeStage.                                                             *)

HeldGoal  == pod.goal # None /\ pod.goal # running
Latest    == NewestOf(pod.sums)
Available == pod.sums # {} /\ Latest > running

\* What the scan S of the partition calls for: correct or stage again an
\* anchored version without a file; adopt the newest release, local already;
\* put the default back on a held goal, which owns it; stage the newest release.
PinMissing(S) == pod.goal \in Versions \ {running} /\ pod.goal \notin S
Adoptable(S)  == pod.goal = running /\ Available /\ Latest \in S
Strayed(S)    == /\ HeldGoal /\ Available /\ pod.goal # Latest
                 /\ pod.goal \in S /\ \E v \in S : v > pod.goal
NewRelease(S) == ~HeldGoal /\ Available /\ Latest \notin S

PlanFor(S) ==
    CASE PinMissing(S) /\ pod.goal \notin pod.sums -> "safe"
      [] PinMissing(S) /\ pod.goal \in pod.sums    -> "restage"
      [] Adoptable(S)  -> "adopt"
      [] Strayed(S)    -> "converge"
      [] NewRelease(S) -> "stage"
      [] OTHER         -> "reread"

Plan ==
    /\ At("plan")
    /\ \/ /\ pod' = [pod EXCEPT !.pc = PlanFor(Present), !.ret = "reread",
                                !.aim = IF pod.goal \in Versions THEN pod.goal ELSE None]
          /\ Local
       \/ ReadFails("reread")

\* A pod step that opens a session; the answer is consumed by a later step.
Open(pc, next) == At(pc) /\ Goto(next) /\ Keep

Restage == Open("restage", "restaged") /\ Stage("pod", pod.goal)
Restaged ==
    \/ Returned("restaged", {"ok"}) /\ Goto("rearm") /\ Consume
    \/ Returned("restaged", Failures) /\ Goto("reread") /\ Consume

Converge == Open("converge", "converged") /\ EnsureBootGoal("pod", pod.goal)
Converged ==
    \/ Returned("converged", {"repointed"}) /\ Goto("rearm") /\ Consume
    \/ Returned("converged", Failures \cup {"ok"}) /\ Goto("reread") /\ Consume

StageLatest == Open("stage", "staged") /\ Stage("pod", Latest)
Staged ==
    \/ Returned("staged", {"ok"}) /\ Goto("anchor") /\ Consume
    \/ Returned("staged", Failures) /\ Goto("reread") /\ Consume

\* Mutant of AnchorGuard: the anchor is written whatever the fresh node holds.
AnchorAlways == TRUE

\* PrecondQuiescent, on the fresh node.
AnchorGuard == goal \in {None, running}
Anchor ==
    /\ At("anchor")
    /\ Write(AnchorGuard, SetGoal(Latest), EnterDirty("rearm"), Enter("reread"))

\* anchor, then EnsureBootGoal, whose errors are only logged.
Adopt ==
    /\ At("adopt")
    /\ Write(AnchorGuard, SetGoal(Latest), EnterDirty("adopted"), Enter("reread"))
Adopted ==
    \/ Open("adopted", "adopted") /\ EnsureBootGoal("pod", Latest)
    \/ Returned("adopted", Failures \cup {"ok", "repointed"}) /\ Goto("rearm") /\ Consume

-----------------------------------------------------------------------------
(* applySafeState: correct the goal pod.aim.                               *)

SafeScan ==
    /\ At("safe")
    /\ \/ pod' = [pod EXCEPT !.pc = "correct", !.local = Present] /\ Local
       \/ ReadFails(pod.ret)

CorrectGuard == goal = pod.aim
Correct ==
    /\ At("correct")
    /\ LET target == SafeTarget(pod.local) IN
       Write(CorrectGuard, SetGoal(target),
             /\ pod' = [pod EXCEPT !.dirty = TRUE, !.local = {}, !.aim = target,
                                   !.applied = IF target = None THEN None ELSE pod.applied,
                                   !.pc = IF target = None THEN pod.ret ELSE "corrected"]
             /\ UNCHANGED <<envVars, checked>>,
             pod' = [pod EXCEPT !.pc = pod.ret, !.local = {}] /\ UNCHANGED <<envVars, checked>>)

Corrected ==
    \/ Open("corrected", "corrected") /\ EnsureBootGoal("pod", pod.aim)
    \/ /\ Returned("corrected", {"ok", "repointed"}) /\ Consume
       /\ pod' = [pod EXCEPT !.pc = "rearm", !.applied = pod.aim]
    \/ Returned("corrected", Failures) /\ Goto(pod.ret) /\ Consume

-----------------------------------------------------------------------------
(* maybeEnqueue.                                                           *)

\* The second read; if it fails the cycle ends.
Reread ==
    /\ At("reread")
    /\ \/ /\ pod' = [pod EXCEPT !.goal = View[1], !.state = View[2], !.claimed = View[3],
                                !.pc = "enqueue", !.sums = {}]
          /\ Local
       \/ pod.dirty /\ ReadFails("idle")

\* Mutant of Eligible: enqueueing is gated by updates.windows.
EligibleInWindow == pod.goal \in Versions \ {running} /\ pod.state = "absent" /\ pod.open

Eligible == pod.goal \in Versions \ {running} /\ pod.state = "absent"
\* Not eligible, or the reboots window is closed: a choice.
Enqueue ==
    /\ At("enqueue") /\ Keep
    /\ \/ /\ Eligible /\ EnsureBootGoal("pod", pod.goal)
          /\ pod' = [pod EXCEPT !.pc = "ensured", !.hands = hands]
       \/ Goto("idle") /\ UNCHANGED storeVars

\* Mutant of Ensured: a goal whose file is missing is no failure.
EnsuredAbsentToo ==
    \/ Returned("ensured", {"ok", "repointed", "absent"}) /\ Goto("request") /\ Consume
    \/ Returned("ensured", {"failed"}) /\ Goto("idle") /\ Consume

Ensured ==
    \/ Returned("ensured", {"ok", "repointed"}) /\ Goto("request") /\ Consume
    \/ Returned("ensured", Failures) /\ Goto("idle") /\ Consume

\* EnqueueControllerBuild, on the fresh node.
RequestGuard == state = "absent" /\ goal = pod.goal /\ goal # running
RequestReboot ==
    /\ At("request")
    /\ Write(RequestGuard, state' = "requested" /\ UNCHANGED <<goal, claimed, news>>,
             Enter("idle"), Enter("idle"))

-----------------------------------------------------------------------------
(* Everybody else.                                                         *)

Others == UNCHANGED <<pod, checked, goal, claimed, index, occ, open>>
Touched == news' = (news \/ file' # file \/ boot' # boot)

\* The steps of an open session, and its failures.
PodSession == /\ SessionStep("pod") \/ IOError("pod")
              /\ Others /\ Touched /\ UNCHANGED <<state, edits, hands>>
CliSession == /\ SessionStep("cli") \/ IOError("cli") \/ Finish("cli") \/ Killed("cli")
              /\ Others /\ Touched /\ UNCHANGED <<state, edits, hands>>
ByHand     == /\ hands < MaxHands /\ hands' = hands + 1
              /\ Others /\ UNCHANGED <<state, edits>>
CliStart   == ByHand /\ Cli /\ Touched
\* rm takes no lock.
FileRemoved ==
    /\ ByHand /\ up
    /\ \E v \in Present : file' = Without({v})
    /\ news' = TRUE
    /\ UNCHANGED <<boot, menu, running, loader, up, sess, cut, faults>>

\* The pod restarts: its memory and its session are gone.
PodCrash ==
    /\ up /\ pod # FreshPod /\ pod' = FreshPod
    /\ \/ Killed("pod")
       \/ sess["pod"].at = "idle" /\ Fault /\ UNCHANGED StoreButFaults
    /\ Touched /\ UNCHANGED <<nodeVars, envVars, checked>>

\* The reboot feature: it reboots a requested node and completes it once it is
\* back, or gives up.
HostRestart ==
    /\ \/ state = "requested" /\ state' = "rebooting" /\ HostDown({}) /\ UNCHANGED faults
       \/ PowerLoss /\ UNCHANGED state
    /\ pod' = FreshPod
    /\ UNCHANGED <<goal, claimed, envVars, checked, news>>
Reboots ==
    /\ \/ state = "rebooting" /\ up /\ state' = "completed"
       \/ state \in {"requested", "rebooting"} /\ state' = "failed"
    /\ Others /\ UNCHANGED <<storeVars, edits, hands, news>>

Edit == edits < MaxEdits /\ edits' = edits + 1

\* The host comes up on the default, or on what an operator picks at the
\* console: always, when the default does not boot.
HostUp ==
    /\ \/ BootDefault /\ UNCHANGED edits
       \/ ConsoleBoot /\ IF boot \in Versions /\ file[boot] = "whole" THEN Edit ELSE UNCHANGED edits
    /\ news' = FALSE
    /\ Others /\ UNCHANGED <<state, hands>>

\* An operator pins, or posts or deletes a reboot; a publisher adds or withdraws
\* a release.
Operator ==
    /\ Edit /\ UNCHANGED <<podVars, claimed, occ, open, hands>>
    /\ \/ \E g \in Goals : SetGoal(g) /\ UNCHANGED <<storeVars, index>>
       \/ /\ state' \in {"requested", "absent"}
          /\ state \notin {"requested", "rebooting", state'}
          /\ UNCHANGED <<storeVars, goal, index, news>>
       \/ /\ \E v \in Versions : index' \in {index \cup {v}, index \ {v}}
          /\ UNCHANGED <<storeVars, goal, state, news>>

\* updates.windows: an occurrence begins, its grace ends.
WindowsPass ==
    /\ \/ occ < MaxOccurrences /\ occ' = occ + 1 /\ open' = TRUE
       \/ open /\ open' = FALSE /\ UNCHANGED occ
    /\ UNCHANGED <<storeVars, nodeVars, podVars, index, edits, hands, news>>

PodStep ==
    \/ BeginCycle \/ BootstrapScan \/ Bootstrap \/ Flavor
    \/ Reconcile \/ ReconcileFresh \/ Reconciled \/ Rearm
    \/ Window \/ Claim \/ Check \/ Plan
    \/ Restage \/ Restaged \/ Converge \/ Converged \/ StageLatest \/ Staged
    \/ Anchor \/ Adopt \/ Adopted
    \/ SafeScan \/ Correct \/ Corrected
    \/ Reread \/ Enqueue \/ Ensured \/ RequestReboot

Next ==
    \/ PodStep \/ PodSession \/ PodCrash
    \/ CliStart \/ CliSession \/ FileRemoved
    \/ HostRestart \/ HostUp \/ Reboots
    \/ Operator \/ WindowsPass

Spec == Init /\ [][Next]_vars

\* Calls return and the ticker fires (engine.go), nodectl ends, a host that is
\* down is brought up, and the reboots window opens again and again.
Fairness ==
    /\ WF_vars(PodStep \/ PodSession) /\ WF_vars(CliSession) /\ WF_vars(HostUp)
    /\ SF_vars(Enqueue /\ pod'.pc = "ensured")
FairSpec == Spec /\ Fairness

-----------------------------------------------------------------------------
(* Properties.                                                             *)

\* Every variable stays in its domain.
TypeOK ==
    /\ StoreTypeOK
    /\ goal \in Goals /\ claimed \in 0..MaxOccurrences /\ state \in States
    /\ index \subseteq Versions /\ occ \in 0..MaxOccurrences /\ open \in BOOLEAN
    /\ pod \in Pod
    /\ edits \in 0..MaxEdits /\ hands \in 0..MaxHands
    /\ checked \subseteq 0..MaxOccurrences /\ news \in BOOLEAN

\* enqueue.go, "the ordering invariant": when the pod asks for a reboot, the
\* goal has its kernel and is the default -- whatever was pinned, corrected,
\* crashed or interrupted before, unless somebody else worked on the partition
\* after EnsureBootGoal.
EnqueuedBootable ==
    [][/\ pod.pc = "request" /\ pod' # pod /\ pod.hands = hands
       /\ state = "absent" /\ state' = "requested"
       => file[goal] # "absent" /\ boot = goal]_vars

\* PLAN.md 3.4 decision 34: "a no-op observation -- pod start rediscovering the
\* applied goal -- never re-arms": a completed reboot is re-armed only when the
\* goal, the default or a kernel changed since the host came up.
NoAutoRetry ==
    [][state = "completed" /\ state' = "absent" /\ pod' # pod => news]_vars

\* Writer discipline (nodestate/update.go): no step of the pod replaces a
\* well-formed pin but the running version's, or one that the index verified in
\* this cycle does not list.
PinKept ==
    [][goal' # goal /\ pod' # pod /\ goal \notin BadGoals
       => goal \in {None, running} \/ (goal = pod.aim /\ goal \notin pod.sums)]_vars

\* Decision 21: claimed before fetching, an occurrence is checked at most once,
\* across failed calls, lost answers and pod restarts.
OneCheckPerOccurrence ==
    [][pod.pc = "check" /\ pod' # pod /\ pod' # FreshPod => pod.occ \notin checked]_vars

\* PLAN.md 3.10 path 1: a malformed goal is corrected, unless no kernel is left.
MalformedCorrected ==
    goal = Malformed ~> goal # Malformed \/ \A v \in Versions : file[v] # "whole"

\* An eligible node is put in the reboot queue.
EligibleEnqueued ==
    \A v \in Versions :
        goal = v /\ v # running /\ file[v] # "absent" /\ state = "absent"
        ~> \/ goal # v \/ running = v \/ file[v] = "absent" \/ state # "absent"
           \/ \A w \in Versions : file[w] # "whole"
=============================================================================
