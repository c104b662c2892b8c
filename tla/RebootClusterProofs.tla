------------------------- MODULE RebootClusterProofs ------------------------
(***************************************************************************)
(* Proofs about RebootCluster for every set of nodes, every limit and      *)
(* every bound on requests, faults and edits.                              *)
(***************************************************************************)
EXTENDS RebootCluster, FiniteSetTheorems, TLAPS

USE NodesAssumption, ParametersAssumption

-----------------------------------------------------------------------------
(* Node objects and patches.                                               *)

LEMMA NoExecType == NoExec \in Exec /\ NoExec.kind = "absent"
  BY DEF NoExec, Exec

LEMMA IdleNodeType == IdleNode \in Node
  BY NoExecType DEF IdleNode, Node, AllStates, Status

\* A patch of a node object is a node object.
LEMMA PatchTypes ==
    ASSUME NEW nd \in Node
    PROVE  /\ \A s \in Nat, f \in BOOLEAN : AdmissionPatch(nd, s, f) \in Node
           /\ \A s \in Nat : ToDrainingPatch(nd, s) \in Node
           /\ ToRebootingPatch(nd) \in Node /\ ToCompletedPatch(nd) \in Node
           /\ ToFailedPatch(nd) \in Node /\ BlockedByPatch(nd) \in Node
           /\ \A e \in Exec : IssuedExecPatch(nd, e) \in Node
           /\ \A b \in BOOLEAN : ClearPatch(nd, b) \in Node
           /\ UncordonPatch(nd) \in Node
  <1>1. \A s \in Nat, f \in BOOLEAN : AdmissionPatch(nd, s, f) \in Node
    BY NoExecType DEF AdmissionPatch, Node, AllStates, LifecycleStates, Status
  <1>2. \A s \in Nat : ToDrainingPatch(nd, s) \in Node
    BY DEF ToDrainingPatch, MergeStatus, Node, AllStates, LifecycleStates, Status
  <1>3. ToRebootingPatch(nd) \in Node /\ ToCompletedPatch(nd) \in Node
    BY DEF ToRebootingPatch, ToCompletedPatch, Node, AllStates, LifecycleStates
  <1>4. ToFailedPatch(nd) \in Node /\ BlockedByPatch(nd) \in Node
    BY DEF ToFailedPatch, BlockedByPatch, MergeStatus, Node, AllStates, LifecycleStates, Status
  <1>5. \A e \in Exec : IssuedExecPatch(nd, e) \in Node
    BY DEF IssuedExecPatch, Node
  <1>6. \A b \in BOOLEAN : ClearPatch(nd, b) \in Node
    BY IdleNodeType DEF ClearPatch, Node
  <1>7. UncordonPatch(nd) \in Node
    BY DEF UncordonPatch, Node
  <1> QED
    BY <1>1, <1>2, <1>3, <1>4, <1>5, <1>6, <1>7

LEMMA NoViewType == NoView \in View
  BY DEF NoView, View, Rules

LEMMA ViewOfType ==
    ASSUME TypeOK, NEW n \in Nodes
    PROVE  ViewOf(n) \in View
  <1>1. node[n] \in Node /\ ready[n] \in BOOLEAN
    BY DEF TypeOK
  <1>2. node[n].exec \in Exec /\ node[n].since \in Nat /\ node[n].force \in BOOLEAN
    BY <1>1 DEF Node
  <1>3. node[n].exec.issue \in Nat /\ node[n].exec.confirmed \in BOOLEAN
    BY <1>2 DEF Exec
  <1>4. [NoView EXCEPT !.rule = "drain", !.since = node[n].since, !.force = node[n].force] \in View
    BY <1>2, NoViewType DEF View, Rules
  <1>5. [NoView EXCEPT !.rule = "watch", !.ready = ready[n], !.issue = node[n].exec.issue,
                       !.confirmed = node[n].exec.confirmed] \in View
    BY <1>1, <1>3, NoViewType DEF View, Rules
  <1>6. [NoView EXCEPT !.rule = "uncordon"] \in View
    BY NoViewType DEF View, Rules
  <1> QED
    BY <1>4, <1>5, <1>6, NoViewType DEF ViewOf
-----------------------------------------------------------------------------
(* Types.  The four groups of variables are dealt with one at a time.      *)

\* TypeOK is not inductive alone: the stamp of a request is a number because
\* no more requests are left than there were.
TypeInv == TypeOK /\ budget["requests"] <= MaxRequests

ObjTypes  == /\ node \in [Nodes -> Node] /\ ready \in [Nodes -> BOOLEAN]
             /\ drainOver \in [Nodes -> BOOLEAN] /\ graceOver \in [Nodes -> BOOLEAN]
             /\ issues \in [Nodes -> Nat]
HostTypes == /\ boot \in [Nodes -> Nat] /\ command \in [Nodes -> BOOLEAN]
             /\ workload \in [Nodes -> {"none", "managed", "orphan", "terminating"}]
PodTypes  == /\ pc \in [Nodes -> Steps] /\ view \in [Nodes -> [Nodes -> View]]
             /\ podsSeen \in [Nodes -> SUBSET Nodes]
             /\ stamp \in [Nodes -> [Nodes -> Nat]]
             /\ notReadyAt \in [Nodes -> [Nodes -> Nat]]
             /\ queue \in [Nodes -> SUBSET Candidate]
Allowance == budget \in [Bounds -> Nat] /\ budget["requests"] <= MaxRequests
RestTypes == /\ holder \in Nodes /\ opCordon \in [Nodes -> BOOLEAN]
             /\ past \in [Nodes -> Past] /\ Allowance

LEMMA TypeGroups == /\ TypeInv <=> ObjTypes /\ HostTypes /\ PodTypes /\ RestTypes
                    /\ TypeInv' <=> (ObjTypes /\ HostTypes /\ PodTypes /\ RestTypes)'
  BY DEF TypeInv, Allowance, TypeOK, ObjTypes, HostTypes, PodTypes, RestTypes

LEMMA SpendType ==
    ASSUME Allowance, NEW b \in Bounds, Spend(b)
    PROVE  Allowance'
  BY DEF Spend, Allowance, Bounds

LEMMA PatchType ==
    ASSUME node \in [Nodes -> Node], NEW n, NEW nd, nd \in Node \/ n \notin Nodes, Patch(n, nd)
    PROVE  node' \in [Nodes -> Node]
  BY DEF Patch

LEMMA TransitionType ==
    ASSUME node \in [Nodes -> Node], NEW n \in Nodes, NEW from, NEW nd \in Node,
           Transition(n, from, nd)
    PROVE  node' \in [Nodes -> Node]
  BY PatchType DEF Transition

LEMMA GotoType ==
    ASSUME pc \in [Nodes -> Steps], NEW p, NEW s \in Steps, Goto(p, s)
    PROVE  pc' \in [Nodes -> Steps]
  BY DEF Goto

LEMMA ManagedType ==
    ASSUME PodTypes, NEW p \in Nodes, NEW n \in Nodes, Managed(p, n),
           notReadyAt' \in [Nodes -> [Nodes -> Nat]]
    PROVE  PodTypes'
  <1>1. view' \in [Nodes -> [Nodes -> View]]
    BY NoViewType DEF PodTypes, Managed
  <1>2. podsSeen' \in [Nodes -> SUBSET Nodes]
    BY DEF PodTypes, Managed
  <1>3. stamp' \in [Nodes -> [Nodes -> Nat]]
    BY DEF PodTypes, Managed
  <1> QED
    BY <1>1, <1>2, <1>3 DEF PodTypes, Managed

LEMMA ForgetType ==
    ASSUME PodTypes, NEW p \in Nodes, NEW s \in Steps, Forget(p, s)
    PROVE  PodTypes'
  <1>1. pc' \in [Nodes -> Steps]
    BY DEF PodTypes, Forget, Goto
  <1>2. view' \in [Nodes -> [Nodes -> View]]
    BY NoViewType DEF PodTypes, Forget
  <1>3. podsSeen' \in [Nodes -> SUBSET Nodes] /\ queue' \in [Nodes -> SUBSET Candidate]
    BY DEF PodTypes, Forget
  <1>4. stamp' \in [Nodes -> [Nodes -> Nat]] /\ notReadyAt' \in [Nodes -> [Nodes -> Nat]]
    BY DEF PodTypes, Forget
  <1> QED
    BY <1>1, <1>2, <1>3, <1>4 DEF PodTypes

LEMMA EndPassType ==
    ASSUME PodTypes, NEW p \in Nodes, EndPass(p)
    PROVE  pc' \in [Nodes -> Steps] /\ queue' \in [Nodes -> SUBSET Candidate]
  BY DEF PodTypes, EndPass, Goto, Steps

\* What the history keeps.
LEMMA RecordedEffect ==
    ASSUME NEW h \in Past, NEW r \in BOOLEAN
    PROVE  /\ Recorded(h, r) \in Past
           /\ Recorded(h, r).outage = ~r /\ Recorded(h, r).begun
           /\ Recorded(h, r).admitted = h.admitted
           /\ ~h.begun => Recorded(h, r).reboots = 0
  <1>. DEFINE k == IF h.begun THEN h.reboots ELSE 0
  <1>1. k \in Nat /\ (~h.begun => k = 0)
    BY DEF Past
  <1>2. Recorded(h, r) = [h EXCEPT !.outage = ~r, !.begun = TRUE, !.reboots = k]
    BY DEF Recorded
  <1>. HIDE DEF k
  <1> QED
    BY <1>1, <1>2 DEF Past

LEMMA AdmittedType ==
    ASSUME NEW h \in Past, NEW state, NEW f, NEW n
    PROVE  Admitted(h, state, f, n) \in Past
  <1>. DEFINE k == IF state = "failed" THEN h.admitted + 1 ELSE 0
              g == h.begun /\ f # n
  <1>1. k \in Nat /\ g \in BOOLEAN
    BY DEF Past
  <1>2. Admitted(h, state, f, n) = [h EXCEPT !.admitted = k, !.begun = g]
    BY DEF Admitted
  <1>. HIDE DEF k, g
  <1> QED
    BY <1>1, <1>2 DEF Past

\* What an admission leaves in the history of a node.
Noted(n, m) ==
    /\ past'[n].outage = past[n].outage /\ past'[n].reboots = past[n].reboots
    /\ past'[n].admitted = IF node[n].state = "failed" THEN past[n].admitted + 1 ELSE 0
    /\ past'[n].begun => past[n].begun
    /\ n = m => ~past'[n].begun

LEMMA AdmitPatchNotes ==
    ASSUME TypeInv, NEW q \in Nodes, NEW n \in Nodes, AdmitPatch(q)
    PROVE  (past' = past /\ node' = node) \/ (EndPass(q) /\ Noted(n, First(q).node))
  <1>. DEFINE m == First(q).node
              k == IF node[n].state = "failed" THEN past[n].admitted + 1 ELSE 0
              g == past[n].begun /\ n # m
  <1>1. CASE node[m].state = "requested"
    <2>1. EndPass(q) /\ past' = [f \in Nodes |-> Admitted(past[f], node[f].state, f, m)]
      BY <1>1 DEF AdmitPatch
    <2>2. past'[n] = [past[n] EXCEPT !.admitted = k, !.begun = g]
      BY <2>1 DEF Admitted
    <2>3. past[n] \in Past
      BY DEF TypeInv, TypeOK
    <2>4. /\ past'[n].outage = past[n].outage /\ past'[n].reboots = past[n].reboots
          /\ past'[n].admitted = k /\ past'[n].begun = g
      <3> HIDE DEF k, g
      <3> QED
        BY <2>2, <2>3 DEF Past
    <2>5. (g => past[n].begun) /\ (n = m => ~g)
      OBVIOUS
    <2>6. (past'[n].begun => past[n].begun) /\ (n = m => ~past'[n].begun)
      <3> HIDE DEF g
      <3> QED
        BY <2>4, <2>5
    <2> QED
      BY <2>1, <2>4, <2>6 DEF Noted
  <1>2. CASE node[m].state # "requested"
    BY <1>2 DEF AdmitPatch
  <1> QED
    BY <1>1, <1>2

\* A record of a reboot-exec.
LEMMA RecordType ==
    ASSUME TypeInv, NEW p \in Nodes, NEW k \in Nat, Record(p, k)
    PROVE  ObjTypes' /\ past' \in [Nodes -> Past]
  <1>. DEFINE e == [kind |-> "ok", boot |-> boot[p], attempt |-> k, issue |-> issues[p] + 1,
                    confirmed |-> FALSE]
  <1>0. boot[p] \in Nat /\ issues[p] \in Nat /\ node[p] \in Node
    BY DEF TypeInv, TypeOK
  <1>1. e \in Exec /\ node[p] \in Node
    BY <1>0 DEF Exec
  <1>2. Patch(p, IssuedExecPatch(node[p], e))
    BY DEF Record
  <1>. HIDE DEF e
  <1>3. IssuedExecPatch(node[p], e) \in Node
    BY <1>1, PatchTypes
  <1>4. node' \in [Nodes -> Node]
    BY <1>2, <1>3, PatchType DEF TypeInv, TypeOK
  <1>5. past' \in [Nodes -> Past]
    <2>1. past[p] \in Past /\ ready[p] \in BOOLEAN
      BY DEF TypeInv, TypeOK
    <2>2. Recorded(past[p], ready[p]) \in Past
      BY <2>1, RecordedEffect
    <2>3. past \in [Nodes -> Past]
      BY DEF TypeInv, TypeOK
    <2>4. CASE k = 1
      <3>1. past' = [past EXCEPT ![p] = Recorded(past[p], ready[p])]
        BY <2>4 DEF Record
      <3> QED
        BY <2>2, <2>3, <3>1
    <2>5. CASE k # 1
      <3>1. past' = [past EXCEPT ![p] = past[p]]
        BY <2>5 DEF Record
      <3> QED
        BY <2>1, <2>3, <3>1
    <2> QED
      BY <2>4, <2>5
  <1>6. /\ ready' = ready /\ drainOver' = drainOver
        /\ issues' = [issues EXCEPT ![p] = @ + 1]
        /\ graceOver' = [graceOver EXCEPT ![p] = FALSE]
    BY DEF Record
  <1>7. ObjTypes
    BY DEF TypeInv, TypeOK, ObjTypes
  <1> QED
    BY <1>0, <1>4, <1>5, <1>6, <1>7 DEF ObjTypes

LEMMA FirstPhaseTypes ==
    ASSUME TypeInv, NEW p \in Nodes, NEW n \in Nodes,
           \/ DrainTimedOut(p, n) \/ DrainDone(p, n) \/ DrainRound(p, n)
           \/ ForceDeleteFailed(p, n) \/ ManageRebooting(p, n) \/ Uncordon(p, n)
    PROVE  TypeInv'
  <1>1. /\ ObjTypes /\ HostTypes /\ PodTypes /\ RestTypes /\ node[n] \in Node
        /\ Allowance /\ node \in [Nodes -> Node]
    BY TypeGroups DEF TypeInv, TypeOK, RestTypes
  <1>2. /\ ToFailedPatch(node[n]) \in Node /\ ToRebootingPatch(node[n]) \in Node
        /\ ToCompletedPatch(node[n]) \in Node /\ UncordonPatch(node[n]) \in Node
    BY <1>1, PatchTypes
  <1>3. notReadyAt' \in [Nodes -> [Nodes -> Nat]]
    BY <1>1 DEF DrainTimedOut, DrainDone, DrainRound, ForceDeleteFailed, ManageRebooting, Uncordon,
                PodTypes
  <1>4. PodTypes'
    <2>1. Managed(p, n)
      BY DEF DrainTimedOut, DrainDone, DrainRound, ForceDeleteFailed, ManageRebooting, Uncordon
    <2> QED
      BY <1>1, <1>3, <2>1, ManagedType
  <1>5. node' \in [Nodes -> Node]
    <2>1. CASE DrainTimedOut(p, n) \/ ForceDeleteFailed(p, n)
      BY <2>1, <1>1, <1>2, TransitionType DEF DrainTimedOut, ForceDeleteFailed
    <2>2. CASE DrainDone(p, n)
      BY <2>2, <1>1, <1>2, TransitionType DEF DrainDone
    <2>3. CASE DrainRound(p, n)
      BY <2>3, <1>1 DEF DrainRound, objVars
    <2>4. CASE ManageRebooting(p, n)
      BY <2>4, <1>1, <1>2, TransitionType DEF ManageRebooting
    <2>5. CASE Uncordon(p, n)
      BY <2>5, <1>1, <1>2, PatchType DEF Uncordon
    <2> QED
      BY <2>1, <2>2, <2>3, <2>4, <2>5
  <1>6. ObjTypes'
    BY <1>1, <1>5 DEF DrainTimedOut, DrainDone, DrainRound, ForceDeleteFailed, ManageRebooting,
                      Uncordon, ObjTypes, objVars
  <1>7. HostTypes'
    BY <1>1 DEF DrainTimedOut, DrainDone, DrainRound, ForceDeleteFailed, ManageRebooting,
                Uncordon, HostTypes, hostVars
  <1>8. RestTypes'
    <2>1. Allowance'
      BY <1>1, SpendType DEF DrainTimedOut, DrainDone, DrainRound, ForceDeleteFailed,
                             ManageRebooting, Uncordon, Bounds, Allowance
    <2> QED
      BY <1>1, <2>1 DEF DrainTimedOut, DrainDone, DrainRound, ForceDeleteFailed, ManageRebooting,
                        Uncordon, RestTypes, histVars
  <1> QED
    BY <1>4, <1>6, <1>7, <1>8, TypeGroups

LEMMA CandidateType ==
    ASSUME TypeInv
    PROVE  Requested \in SUBSET Candidate
  BY DEF TypeInv, TypeOK, Requested, Candidate, Node

LEMMA PassTypes ==
    ASSUME TypeInv, NEW p \in Nodes,
           \/ ListNodes(p) \/ ListPods(p) \/ AdmitList(p) \/ AdmitBlocked(p)
           \/ AdmitVerify(p) \/ AdmitPatch(p) \/ AdmitNone(p) \/ PassFails(p)
    PROVE  TypeInv'
  <1>1. ObjTypes /\ HostTypes /\ PodTypes /\ RestTypes
    BY TypeGroups
  <1>2. CASE ListNodes(p)
    <2>1. view' \in [Nodes -> [Nodes -> View]]
      BY <1>2, ViewOfType DEF ListNodes, TypeInv, TypeOK
    <2>2. pc' \in [Nodes -> Steps]
      BY <1>1, <1>2, GotoType DEF ListNodes, PodTypes, Steps
    <2> QED
      BY <1>2, <2>1, <2>2 DEF ListNodes, TypeInv, TypeOK, objVars, hostVars, histVars
  <1>3. CASE ListPods(p)
    <2>1. podsSeen' \in [Nodes -> SUBSET Nodes]
      BY <1>3 DEF ListPods, TypeInv, TypeOK
    <2>2. stamp' \in [Nodes -> [Nodes -> Nat]]
      BY <1>3 DEF ListPods, TypeInv, TypeOK
    <2>3. pc' \in [Nodes -> Steps]
      BY <1>1, <1>3, GotoType DEF ListPods, PodTypes, Steps
    <2> QED
      BY <1>3, <2>1, <2>2, <2>3 DEF ListPods, TypeInv, TypeOK, objVars, hostVars, histVars
  <1>4. CASE AdmitList(p)
    <2>1. pc' \in [Nodes -> Steps] /\ queue' \in [Nodes -> SUBSET Candidate]
      <3>1. CASE EndPass(p)
        BY <1>1, <3>1, EndPassType
      <3>2. CASE \E w \in BOOLEAN : /\ Goto(p, "admit")
                                    /\ queue' = [queue EXCEPT ![p] = {c \in Requested : c.force \/ w}]
        <4>1. pc' \in [Nodes -> Steps]
          BY <1>1, <3>2, GotoType DEF PodTypes, Steps
        <4>2. queue' \in [Nodes -> SUBSET Candidate]
          BY <1>1, <3>2, CandidateType DEF PodTypes
        <4> QED
          BY <4>1, <4>2
      <3> QED
        BY <1>4, <3>1, <3>2 DEF AdmitList
    <2> QED
      BY <1>4, <2>1 DEF AdmitList, TypeInv, TypeOK, objVars, hostVars, histVars
  <1>5. CASE AdmitBlocked(p)
    <2>1. node' \in [Nodes -> Node]
      <3>. DEFINE n == First(p).node
      <3>1. Patch(n, IF node[n].state = "requested" THEN BlockedByPatch(node[n]) ELSE node[n])
        BY <1>5 DEF AdmitBlocked, Transition
      <3>2. n \in Nodes => node[n] \in Node /\ BlockedByPatch(node[n]) \in Node
        BY PatchTypes DEF TypeInv, TypeOK
      <3>. HIDE DEF n
      <3> QED
        BY <3>1, <3>2, PatchType DEF TypeInv, TypeOK
    <2>2. queue' \in [Nodes -> SUBSET Candidate]
      BY <1>5 DEF AdmitBlocked, TypeInv, TypeOK
    <2> QED
      BY <1>5, <2>1, <2>2 DEF AdmitBlocked, TypeInv, TypeOK, hostVars, histVars
  <1>6. CASE AdmitVerify(p)
    <2>1. pc' \in [Nodes -> Steps] /\ queue' \in [Nodes -> SUBSET Candidate]
      BY <1>1, <1>6, EndPassType, GotoType DEF AdmitVerify, PodTypes, Steps
    <2> QED
      BY <1>6, <2>1 DEF AdmitVerify, TypeInv, TypeOK, objVars, hostVars, histVars
  <1>7. CASE AdmitPatch(p)
    <2>. DEFINE n == First(p).node
                patched == ToDrainingPatch(node[n], Requests)
    <2>1. pc' \in [Nodes -> Steps] /\ queue' \in [Nodes -> SUBSET Candidate]
      <3>1. CASE EndPass(p)
        BY <1>1, <3>1, EndPassType
      <3>2. CASE queue' = [queue EXCEPT ![p] = @ \ {First(p)}] /\ Goto(p, "admit")
        <4>1. pc' \in [Nodes -> Steps]
          BY <1>1, <3>2, GotoType DEF PodTypes, Steps
        <4>2. queue' \in [Nodes -> SUBSET Candidate]
          BY <1>1, <3>2 DEF PodTypes
        <4> QED
          BY <4>1, <4>2
      <3> QED
        BY <1>7, <3>1, <3>2 DEF AdmitPatch
    <2>2. node' \in [Nodes -> Node]
      <3>1. n \in Nodes => patched \in Node
        <4>1. Requests \in Nat
          BY DEF Requests, TypeInv, TypeOK, Bounds
        <4> QED
          BY <4>1, PatchTypes DEF TypeInv, TypeOK
      <3>2. Patch(n, patched) \/ node' = node
        BY <1>7 DEF AdmitPatch
      <3>. HIDE DEF n, patched
      <3> QED
        BY <3>1, <3>2, PatchType DEF TypeInv, TypeOK
    <2>3. drainOver' \in [Nodes -> BOOLEAN]
      BY <1>7 DEF AdmitPatch, TypeInv, TypeOK
    <2>4. past' \in [Nodes -> Past]
      <3>. DEFINE G(f) == Admitted(past[f], node[f].state, f, n)
      <3>1. ASSUME NEW f \in Nodes PROVE G(f) \in Past
        <4>1. past[f] \in Past
          BY DEF TypeInv, TypeOK
        <4> QED
          BY <4>1, AdmittedType
      <3>2. past' = past \/ past' = [f \in Nodes |-> G(f)]
        BY <1>7 DEF AdmitPatch
      <3>. HIDE DEF G
      <3> QED
        BY <3>1, <3>2 DEF TypeInv, TypeOK
    <2> QED
      BY <1>7, <2>1, <2>2, <2>3, <2>4 DEF AdmitPatch, TypeInv, TypeOK, hostVars
  <1>8. CASE AdmitNone(p)
    BY <1>1, <1>8, EndPassType DEF AdmitNone, TypeInv, TypeOK, objVars, hostVars, histVars
  <1>9. CASE PassFails(p)
    <2>1. Allowance'
      BY <1>1, <1>9, SpendType DEF PassFails, RestTypes, Bounds
    <2>2. PodTypes'
      <3>1. notReadyAt' \in [Nodes -> [Nodes -> Nat]]
        BY <1>9 DEF PassFails, TypeInv, TypeOK
      <3>2. CASE \E n \in Nodes : Managed(p, n)
        BY <1>1, <3>1, <3>2, ManagedType
      <3>3. CASE EndPass(p) /\ view' = [view EXCEPT ![p] = [n \in Nodes |-> NoView]]
                    /\ UNCHANGED <<podsSeen, stamp>>
        <4>1. view' \in [Nodes -> [Nodes -> View]]
          BY <3>3, NoViewType DEF TypeInv, TypeOK
        <4> QED
          BY <1>1, <3>1, <3>3, <4>1, EndPassType DEF PodTypes
      <3> QED
        BY <1>9, <3>2, <3>3 DEF PassFails
    <2> QED
      BY <1>1, <1>9, <2>1, <2>2, TypeGroups
      DEF PassFails, ObjTypes, HostTypes, RestTypes, objVars, hostVars, histVars
  <1> QED
    BY <1>2, <1>3, <1>4, <1>5, <1>6, <1>7, <1>8, <1>9
\* The executor, and the ways in which it stops.
LEMMA ExecuteTypes ==
    ASSUME TypeInv, NEW p \in Nodes, Execute(p) \/ CommandFails(p) \/ PodCrash(p)
    PROVE  TypeInv'
  <1>1. ObjTypes /\ HostTypes /\ PodTypes /\ RestTypes /\ Allowance
    BY TypeGroups DEF RestTypes
  <1>2. CASE LocalRead(p)
    <2>1. pc' \in [Nodes -> Steps]
      BY <1>1, <1>2, GotoType DEF LocalRead, PodTypes, Steps
    <2> QED
      BY <1>2, <2>1 DEF LocalRead, TypeInv, TypeOK, objVars, hostVars, histVars
  <1>3. CASE IssuePatch(p)
    <2>1. Allowance' /\ pc' \in [Nodes -> Steps]
      BY <1>1, <1>3, SpendType, GotoType DEF IssuePatch, PodTypes, Steps, Bounds, Allowance
    <2>2. ObjTypes' /\ past' \in [Nodes -> Past]
      BY <1>3, RecordType DEF IssuePatch
    <2> QED
      BY <1>1, <1>3, <2>1, <2>2, TypeGroups DEF IssuePatch, HostTypes, PodTypes, RestTypes, hostVars
  <1>4. CASE ConfirmPatch(p)
    <2>. DEFINE e == [node[p].exec EXCEPT !.confirmed = TRUE]
    <2>0. node[p] \in Node /\ node[p].exec \in Exec
      BY DEF TypeInv, TypeOK, Node
    <2>1. e \in Exec /\ node[p] \in Node
      BY <2>0 DEF Exec
    <2>2. Patch(p, IssuedExecPatch(node[p], e))
      BY <1>4 DEF ConfirmPatch
    <2>. HIDE DEF e
    <2>3. node' \in [Nodes -> Node]
      BY <2>1, <2>2, PatchTypes, PatchType DEF TypeInv, TypeOK
    <2>4. pc' \in [Nodes -> Steps]
      BY <1>1, <1>4, GotoType DEF ConfirmPatch, PodTypes, Steps
    <2> QED
      BY <1>4, <2>3, <2>4 DEF ConfirmPatch, TypeInv, TypeOK, hostVars, histVars
  <1>5. CASE LocalFailed(p)
    <2>1. node' \in [Nodes -> Node]
      BY <1>5, PatchTypes, TransitionType DEF LocalFailed, TypeInv, TypeOK
    <2>2. pc' \in [Nodes -> Steps]
      BY <1>1, <1>5, GotoType DEF LocalFailed, PodTypes, Steps
    <2> QED
      BY <1>5, <2>1, <2>2 DEF LocalFailed, TypeInv, TypeOK, hostVars, histVars
  <1>6. CASE LocalAbort(p)
    <2>1. Allowance'
      BY <1>1, <1>6, SpendType DEF LocalAbort, Bounds, Allowance
    <2>2. pc' \in [Nodes -> Steps]
      BY <1>1, <1>6, GotoType DEF LocalAbort, PodTypes, Steps
    <2> QED
      BY <1>6, <2>1, <2>2 DEF LocalAbort, TypeInv, TypeOK, Allowance, objVars, hostVars, histVars
  <1>7. CASE CommandStarts(p)
    <2>1. pc' \in [Nodes -> Steps]
      BY <1>1, <1>7, GotoType DEF CommandStarts, PodTypes, Steps
    <2> QED
      BY <1>7, <2>1 DEF CommandStarts, TypeInv, TypeOK, objVars, histVars
  <1>8. CASE CommandFails(p)
    <2>1. Allowance' /\ pc' \in [Nodes -> Steps]
      BY <1>1, <1>8, SpendType, GotoType DEF CommandFails, PodTypes, Steps, Bounds
    <2> QED
      BY <1>8, <2>1 DEF CommandFails, TypeInv, TypeOK, Allowance, objVars, hostVars, histVars
  <1>9. CASE Panic(p)
    <2>1. PodTypes'
      BY <1>1, <1>9, ForgetType DEF Panic, Steps
    <2> QED
      BY <1>1, <1>9, <2>1, TypeGroups
      DEF Panic, ObjTypes, HostTypes, RestTypes, Allowance, objVars, hostVars, histVars
  <1>10. CASE PodCrash(p)
    <2>1. PodTypes' /\ Allowance'
      BY <1>1, <1>10, SpendType, ForgetType DEF PodCrash, Steps, Bounds
    <2> QED
      BY <1>1, <1>10, <2>1, TypeGroups
      DEF PodCrash, ObjTypes, HostTypes, RestTypes, objVars, hostVars, histVars
  <1> QED
    BY <1>2, <1>3, <1>4, <1>5, <1>6, <1>7, <1>8, <1>9, <1>10 DEF Execute

\* The API and the operator.
LEMMA RequestTypes ==
    ASSUME TypeInv, NEW n \in Nodes,
           \/ \E force \in ForceValues : PostReboot(n, force)
           \/ EnqueueUpdate(n) \/ DeleteReboot(n) \/ Rearm(n)
           \/ OperatorCordon(n) \/ OperatorUncordon(n) \/ OperatorCorrupts(n)
    PROVE  TypeInv'
  <1>1. /\ ObjTypes /\ HostTypes /\ PodTypes /\ RestTypes /\ Allowance
        /\ node \in [Nodes -> Node] /\ node[n] \in Node
    BY TypeGroups DEF RestTypes, ObjTypes
  <1>2. Allowance'
    <2>1. \E b \in Bounds : Spend(b)
      BY DEF PostReboot, EnqueueUpdate, Request, DeleteReboot, Rearm, OperatorCordon,
             OperatorUncordon, OperatorCorrupts, Bounds
    <2> QED
      BY <1>1, <2>1, SpendType
  <1>3. opCordon' \in [Nodes -> BOOLEAN]
    BY DEF PostReboot, EnqueueUpdate, Request, DeleteReboot, Rearm, OperatorCordon,
           OperatorUncordon, OperatorCorrupts, TypeInv, TypeOK, histVars
  <1>4. \E nd \in Node : Patch(n, nd)
    <2>1. CASE \E force \in BOOLEAN : Request(n, force)
      <3>1. Requests \in Nat
        BY DEF Requests, TypeInv, TypeOK, Bounds
      <3>2. PICK force \in BOOLEAN, since \in Nat : Patch(n, AdmissionPatch(node[n], since, force))
        BY <2>1, <3>1 DEF Request
      <3> QED
        BY <1>1, <3>2, PatchTypes
    <2>2. CASE DeleteReboot(n)
      <3>1. \E b \in BOOLEAN : Patch(n, ClearPatch(node[n], b))
        BY <2>2 DEF DeleteReboot
      <3> QED
        BY <1>1, <3>1, PatchTypes
    <2>3. CASE Rearm(n)
      BY <1>1, <2>3, PatchTypes DEF Rearm
    <2>4. CASE OperatorCordon(n)
      <3>1. [node[n] EXCEPT !.unsched = TRUE] \in Node
        BY <1>1 DEF Node
      <3> QED
        BY <2>4, <3>1 DEF OperatorCordon
    <2>5. CASE OperatorUncordon(n)
      BY <1>1, <2>5, PatchTypes DEF OperatorUncordon
    <2>6. CASE OperatorCorrupts(n)
      <3>1. /\ [node[n] EXCEPT !.state = "corrupt"] \in Node
            /\ [node[n] EXCEPT !.state = "unknown"] \in Node
        BY <1>1 DEF Node, AllStates
      <3>2. [NoExec EXCEPT !.kind = "corrupt"] \in Exec
        BY NoExecType DEF Exec
      <3>3. [node[n] EXCEPT !.exec = [NoExec EXCEPT !.kind = "corrupt"]] \in Node
        BY <1>1, <3>2 DEF Node
      <3>4. [node[n] EXCEPT !.status = "corrupt"] \in Node
        BY <1>1 DEF Node, Status
      <3> QED
        BY <2>6, <3>1, <3>3, <3>4 DEF OperatorCorrupts
    <2> QED
      BY <2>1, <2>2, <2>3, <2>4, <2>5, <2>6 DEF PostReboot, EnqueueUpdate
  <1>5. node' \in [Nodes -> Node]
    BY <1>1, <1>4, PatchType
  <1>6. /\ UNCHANGED <<ready, drainOver, graceOver, issues, past>>
        /\ UNCHANGED <<hostVars, podVars, holder>>
    BY DEF PostReboot, EnqueueUpdate, Request, DeleteReboot, Rearm, OperatorCordon,
           OperatorUncordon, OperatorCorrupts, histVars
  <1> QED
    BY <1>1, <1>2, <1>3, <1>5, <1>6, TypeGroups
    DEF ObjTypes, HostTypes, PodTypes, RestTypes, hostVars, podVars

\* Time, hosts and kubelet.
LEMMA HostStepTypes ==
    ASSUME TypeInv, NEW n \in Nodes,
           \/ DrainTimeout(n) \/ GraceExpires(n)
           \/ HostDown(n) \/ HostBoot(n) \/ CommandIgnored(n)
           \/ NodeNotReady(n) \/ NodeReady(n)
           \/ PodGone(n) \/ PodArrives(n) \/ LeaseMoves(n)
    PROVE  TypeInv'
  <1>1. ObjTypes /\ HostTypes /\ PodTypes /\ RestTypes /\ Allowance
    BY TypeGroups DEF RestTypes
  <1>2. Allowance'
    BY <1>1, SpendType
    DEF DrainTimeout, GraceExpires, HostDown, HostBoot, CommandIgnored, NodeNotReady, NodeReady,
        PodGone, PodArrives, LeaseMoves, Bounds, Allowance
  <1>3. ObjTypes'
    BY <1>1
    DEF DrainTimeout, GraceExpires, HostDown, HostBoot, CommandIgnored, NodeNotReady, NodeReady,
        PodGone, PodArrives, LeaseMoves, ObjTypes, objVars
  <1>4. HostTypes'
    <2>1. workload' \in [Nodes -> {"none", "managed", "orphan", "terminating"}]
      <3>1. CASE PodGone(n)
        BY <1>1, <3>1 DEF PodGone, HostTypes
      <3>2. CASE PodArrives(n)
        BY <1>1, <3>2 DEF PodArrives, HostTypes
      <3>3. CASE UNCHANGED workload
        BY <1>1, <3>3 DEF HostTypes
      <3> QED
        BY <3>1, <3>2, <3>3
        DEF DrainTimeout, GraceExpires, HostDown, HostBoot, CommandIgnored, NodeNotReady, NodeReady,
            LeaseMoves, hostVars
    <2>2. boot' \in [Nodes -> Nat]
      BY <1>1
      DEF DrainTimeout, GraceExpires, HostDown, HostBoot, CommandIgnored, NodeNotReady, NodeReady,
          PodGone, PodArrives, LeaseMoves, HostTypes, hostVars
    <2>3. command' \in [Nodes -> BOOLEAN]
      BY <1>1
      DEF DrainTimeout, GraceExpires, HostDown, HostBoot, CommandIgnored, NodeNotReady, NodeReady,
          PodGone, PodArrives, LeaseMoves, HostTypes, hostVars
    <2> QED
      BY <2>1, <2>2, <2>3 DEF HostTypes
  <1>5. PodTypes'
    <2>1. CASE HostDown(n)
      BY <1>1, <2>1, ForgetType DEF HostDown, Steps
    <2>2. CASE HostBoot(n)
      BY <1>1, <2>2, GotoType DEF HostBoot, Steps, PodTypes
    <2>3. CASE UNCHANGED podVars
      BY <1>1, <2>3 DEF PodTypes, podVars
    <2> QED
      BY <2>1, <2>2, <2>3
      DEF DrainTimeout, GraceExpires, CommandIgnored, NodeNotReady, NodeReady, PodGone, PodArrives,
          LeaseMoves
  <1>6. past' \in [Nodes -> Past]
    <2>0. past[n] \in Past
      BY DEF TypeInv, TypeOK
    <2>1. CASE HostDown(n)
      <3>. DEFINE q == [past[n] EXCEPT !.outage = TRUE,
                                       !.reboots = @ + (IF command[n] THEN 1 ELSE 0)]
      <3>1. q \in Past
        <4>. DEFINE k == past[n].reboots + (IF command[n] THEN 1 ELSE 0)
        <4>1. k \in Nat
          BY <2>0 DEF Past
        <4>2. q = [past[n] EXCEPT !.outage = TRUE, !.reboots = k]
          OBVIOUS
        <4>. HIDE DEF k, q
        <4> QED
          BY <2>0, <4>1, <4>2 DEF Past
      <3>2. past' = [past EXCEPT ![n] = q]
        BY <2>1 DEF HostDown, TypeInv, TypeOK
      <3> QED
        BY <3>1, <3>2 DEF TypeInv, TypeOK
    <2>2. CASE NodeNotReady(n)
      BY <2>0, <2>2 DEF NodeNotReady, TypeInv, TypeOK, Past
    <2>3. CASE UNCHANGED past
      BY <2>3 DEF TypeInv, TypeOK
    <2> QED
      BY <2>1, <2>2, <2>3
      DEF DrainTimeout, GraceExpires, HostBoot, CommandIgnored, NodeReady, PodGone, PodArrives,
          LeaseMoves, histVars
  <1>7. holder' \in Nodes /\ opCordon' \in [Nodes -> BOOLEAN]
    BY <1>1
    DEF DrainTimeout, GraceExpires, HostDown, HostBoot, CommandIgnored, NodeNotReady, NodeReady,
        PodGone, PodArrives, LeaseMoves, RestTypes, histVars
  <1> QED
    BY <1>2, <1>3, <1>4, <1>5, <1>6, <1>7, TypeGroups DEF RestTypes

LEMMA InitialNode ==
    ASSUME Init, NEW n \in Nodes
    PROVE  /\ node[n].state = "absent" /\ node[n].exec = NoExec /\ node[n].status = "plain"
           /\ node[n].unsched <=> n \in Cordoned
  BY DEF Init, IdleNode

LEMMA TypeInvInit == Init => TypeInv
  <1> SUFFICES ASSUME Init PROVE TypeInv
    OBVIOUS
  <1>1. node \in [Nodes -> Node]
    <2>1. ASSUME NEW n \in Nodes PROVE [IdleNode EXCEPT !.unsched = n \in Cordoned] \in Node
      <3>1. \A b \in BOOLEAN : [IdleNode EXCEPT !.unsched = b] \in Node
        BY IdleNodeType DEF Node
      <3>2. (n \in Cordoned) \in BOOLEAN
        OBVIOUS
      <3> QED
        BY <3>1, <3>2, Zenon
    <2> QED
      BY <2>1 DEF Init
  <1>2. budget \in [Bounds -> Nat] /\ budget["requests"] <= MaxRequests
    BY DEF Init, Bounds
  <1>3. past \in [Nodes -> Past] /\ pc \in [Nodes -> Steps]
    BY DEF Init, Past, Steps
  <1>4. view \in [Nodes -> [Nodes -> View]]
    BY NoViewType DEF Init
  <1>5. workload \in [Nodes -> {"none", "managed", "orphan", "terminating"}]
    BY DEF Init
  <1>6. ObjTypes
    BY <1>1 DEF Init, ObjTypes
  <1>7. HostTypes
    BY <1>5 DEF Init, HostTypes
  <1>8. PodTypes
    BY <1>3, <1>4 DEF Init, PodTypes
  <1>9. opCordon \in [Nodes -> BOOLEAN]
    <2>1. \A n \in Nodes : (n \in Cordoned) \in BOOLEAN
      OBVIOUS
    <2> QED
      BY <2>1 DEF Init
  <1> QED
    BY <1>2, <1>3, <1>6, <1>7, <1>8, <1>9, TypeGroups DEF Init, RestTypes, Allowance

LEMMA TypeInvNext == TypeInv /\ [Next]_vars => TypeInv'
  <1> SUFFICES ASSUME TypeInv, [Next]_vars PROVE TypeInv'
    OBVIOUS
  <1>1. CASE UNCHANGED vars
    BY <1>1 DEF TypeInv, TypeOK, vars, objVars, hostVars, podVars, histVars
  <1>2. CASE Next
    BY <1>2, FirstPhaseTypes, PassTypes, ExecuteTypes, RequestTypes, HostStepTypes
    DEF Next, Orchestrate, Environment
  <1> QED
    BY <1>1, <1>2

\* Type correctness: the annotations stay values that Parse can return, and what
\* a pod remembers of its pass stays what the pass can have read.
THEOREM ClusterTypeCorrect == Spec => []TypeOK
  <1>1. TypeInv => TypeOK
    BY DEF TypeInv
  <1> QED
    BY <1>1, TypeInvInit, TypeInvNext, PTL DEF Spec

LEMMA TypeInvariant == Spec => []TypeInv
  BY TypeInvInit, TypeInvNext, PTL DEF Spec
-----------------------------------------------------------------------------
(***************************************************************************)
(* Who changes what.  Every later proof goes by the writers of the         *)
(* variables its invariant speaks of.                                      *)
(***************************************************************************)
\* A step of the leader's pass or of the environment that leaves n's object as
\* it is does not appear below; the others are named for what they write.
DrainFails(p, n) ==
    /\ DrainTimedOut(p, n) \/ ForceDeleteFailed(p, n)
    /\ node[n].state = "draining" /\ node'[n] = ToFailedPatch(node[n])
Drains(p, n) ==
    /\ DrainDone(p, n)
    /\ node[n].state = "draining" /\ node'[n] = ToRebootingPatch(node[n])
Completes(p, n) ==
    /\ ManageRebooting(p, n) /\ view[p][n].ready /\ Evidence(p, n)
    /\ node[n].state = "rebooting" /\ node'[n] = ToCompletedPatch(node[n])
Uncordons(p, n) == Uncordon(p, n) /\ node'[n] = UncordonPatch(node[n])
Blocks(p, n) ==
    /\ AdmitBlocked(p)
    /\ node[n].state = "requested" /\ node'[n] = BlockedByPatch(node[n])
Admits(p, n) ==
    /\ AdmitPatch(p) /\ pc'[p] = "idle" /\ node[n].state = "requested"
    /\ node'[n] = ToDrainingPatch(node[n], Requests)
Records(n) ==
    /\ IssuePatch(n) /\ node[n].state = "rebooting" /\ node[n].exec.kind \in {"absent", "ok"}
    /\ \E k \in Nat : node'[n] = IssuedExecPatch(node[n],
           [kind |-> "ok", boot |-> boot[n], attempt |-> k, issue |-> issues[n] + 1,
            confirmed |-> FALSE])
Confirms(n) ==
    /\ ConfirmPatch(n)
    /\ node'[n] = IssuedExecPatch(node[n], [node[n].exec EXCEPT !.confirmed = TRUE])
FailsLocally(n) ==
    /\ LocalFailed(n)
    /\ node[n].state = "rebooting" /\ node'[n] = ToFailedPatch(node[n])
Requests_(n) ==
    /\ (\E force \in ForceValues : PostReboot(n, force)) \/ EnqueueUpdate(n)
    /\ ReRequestable(node[n])
    /\ \E since \in Nat, force \in BOOLEAN : node'[n] = AdmissionPatch(node[n], since, force)
Clears(n) ==
    /\ DeleteReboot(n) \/ Rearm(n)
    /\ node[n].state \notin {"absent", "draining"}
    /\ \/ node'[n] = ClearPatch(node[n], FALSE)
       \/ /\ node[n].state \in {"rebooting", "completed", "failed"}
          /\ CordonedPrevKnownAbsent(node[n]) /\ node'[n] = ClearPatch(node[n], TRUE)
Cordons(n)   == OperatorCordon(n) /\ node'[n] = [node[n] EXCEPT !.unsched = TRUE]
Releases(n)  == OperatorUncordon(n) /\ node'[n] = UncordonPatch(node[n])
Corrupts(n)  ==
    /\ OperatorCorrupts(n)
    /\ \/ "state" \in Corruptions /\ node'[n] = [node[n] EXCEPT !.state = "corrupt"]
       \/ "name" \in Corruptions /\ node'[n] = [node[n] EXCEPT !.state = "unknown"]
       \/ /\ "exec" \in Corruptions
          /\ node'[n] = [node[n] EXCEPT !.exec = [NoExec EXCEPT !.kind = "corrupt"]]
       \/ "status" \in Corruptions /\ node'[n] = [node[n] EXCEPT !.status = "corrupt"]

PassWrites(p, n) ==
    \/ DrainFails(p, n) \/ Drains(p, n) \/ Completes(p, n) \/ Uncordons(p, n)
    \/ Blocks(p, n) \/ Admits(p, n)
OtherWrites(n) ==
    \/ Records(n) \/ Confirms(n) \/ FailsLocally(n) \/ Requests_(n) \/ Clears(n)
    \/ Cordons(n) \/ Releases(n) \/ Corrupts(n)

\* Only n's object is written.
WroteOnly(n) == \A m \in Nodes : m # n => node'[m] = node[m]

LEMMA PatchEffect ==
    ASSUME node \in [Nodes -> Node], NEW m, NEW nd, Patch(m, nd),
           NEW n \in Nodes, node'[n] # node[n]
    PROVE  n = m /\ WroteOnly(n) /\ node'[n] = nd
  BY DEF Patch, WroteOnly

\* Every change of a node object has one of these authors.
LEMMA NodeWriters ==
    ASSUME TypeInv, Next, NEW n \in Nodes, node'[n] # node[n]
    PROVE  WroteOnly(n) /\ ((\E p \in Nodes : PassWrites(p, n)) \/ OtherWrites(n))
  <1>1. PICK p \in Nodes :
            \/ Orchestrate(p) \/ AdmitBlocked(p) \/ PassFails(p)
            \/ \E m \in Nodes : ForceDeleteFailed(p, m)
            \/ Execute(p) \/ CommandFails(p) \/ PodCrash(p)
            \/ Environment(p)
    BY DEF Next
  <1>2. node \in [Nodes -> Node]
    BY DEF TypeInv, TypeOK
  <1>3. CASE \E m \in Nodes : DrainTimedOut(p, m) \/ ForceDeleteFailed(p, m)
    <2>1. PICK m \in Nodes : DrainTimedOut(p, m) \/ ForceDeleteFailed(p, m)
      BY <1>3
    <2>2. Transition(m, "draining", ToFailedPatch(node[m]))
      BY <2>1 DEF DrainTimedOut, ForceDeleteFailed
    <2>3. n = m /\ WroteOnly(n) /\ node[n].state = "draining" /\ node'[n] = ToFailedPatch(node[n])
      BY <1>2, <2>2 DEF Transition, Patch, WroteOnly
    <2> QED
      BY <2>1, <2>3 DEF PassWrites, DrainFails
  <1>4. CASE \E m \in Nodes : DrainDone(p, m)
    <2>1. PICK m \in Nodes : DrainDone(p, m)
      BY <1>4
    <2>2. n = m /\ WroteOnly(n) /\ node[n].state = "draining" /\ node'[n] = ToRebootingPatch(node[n])
      BY <1>2, <2>1 DEF DrainDone, Transition, Patch, WroteOnly
    <2> QED
      BY <2>1, <2>2 DEF PassWrites, Drains
  <1>5. CASE \E m \in Nodes : ManageRebooting(p, m)
    <2>1. PICK m \in Nodes : ManageRebooting(p, m)
      BY <1>5
    <2>2. /\ view[p][m].ready /\ Evidence(p, m)
          /\ Transition(m, "rebooting", ToCompletedPatch(node[m]))
      BY <1>2, <2>1 DEF ManageRebooting
    <2>3. /\ n = m /\ WroteOnly(n) /\ node[n].state = "rebooting"
          /\ node'[n] = ToCompletedPatch(node[n])
      BY <1>2, <2>2 DEF Transition, Patch, WroteOnly
    <2> QED
      BY <2>1, <2>2, <2>3 DEF PassWrites, Completes
  <1>6. CASE \E m \in Nodes : Uncordon(p, m)
    <2>1. PICK m \in Nodes : Uncordon(p, m)
      BY <1>6
    <2>2. n = m /\ WroteOnly(n) /\ node'[n] = UncordonPatch(node[n])
      BY <1>2, <2>1 DEF Uncordon, Patch, WroteOnly
    <2> QED
      BY <2>1, <2>2 DEF PassWrites, Uncordons
  <1>7. CASE AdmitBlocked(p)
    <2>. DEFINE m == First(p).node
    <2>1. Transition(m, "requested", BlockedByPatch(node[m]))
      BY <1>7 DEF AdmitBlocked
    <2>. HIDE DEF m
    <2>2. WroteOnly(n) /\ node[n].state = "requested" /\ node'[n] = BlockedByPatch(node[n])
      BY <1>2, <2>1 DEF Transition, Patch, WroteOnly
    <2> QED
      BY <1>7, <2>2 DEF PassWrites, Blocks
  <1>8. CASE AdmitPatch(p)
    <2>. DEFINE m == First(p).node
    <2>1. /\ node[m].state = "requested" /\ Patch(m, ToDrainingPatch(node[m], Requests))
          /\ EndPass(p)
      BY <1>8 DEF AdmitPatch
    <2>. HIDE DEF m
    <2>2. /\ WroteOnly(n) /\ node[n].state = "requested"
          /\ node'[n] = ToDrainingPatch(node[n], Requests)
      BY <1>2, <2>1 DEF Patch, WroteOnly
    <2>3. pc'[p] = "idle"
      BY <2>1 DEF EndPass, Goto, TypeInv, TypeOK
    <2> QED
      BY <1>8, <2>2, <2>3 DEF PassWrites, Admits
  <1>9. CASE IssuePatch(p)
    <2>1. PICK k \in Nat : Record(p, k) /\ (IssueGuard(p) \/ ReissueGuard(p))
      BY <1>9 DEF IssuePatch
    <2>. DEFINE e(m) == [kind |-> "ok", boot |-> boot[m], attempt |-> k,
                         issue |-> issues[m] + 1, confirmed |-> FALSE]
    <2>2. n = p /\ WroteOnly(n) /\ node'[n] = IssuedExecPatch(node[n], e(n))
      <3>1. Patch(p, IssuedExecPatch(node[p], e(p)))
        BY <2>1 DEF Record
      <3>. HIDE DEF e
      <3>2. n = p /\ WroteOnly(n) /\ node'[n] = IssuedExecPatch(node[p], e(p))
        BY <1>2, <3>1, PatchEffect
      <3> QED
        BY <3>2
    <2>3. node[n].state = "rebooting" /\ node[n].exec.kind \in {"absent", "ok"}
      BY <2>1, <2>2 DEF IssueGuard, ReissueGuard
    <2> QED
      BY <1>9, <2>2, <2>3 DEF OtherWrites, Records
  <1>10. CASE ConfirmPatch(p)
    <2>1. /\ n = p /\ WroteOnly(n)
          /\ node'[n] = IssuedExecPatch(node[n], [node[n].exec EXCEPT !.confirmed = TRUE])
      <3>. DEFINE e(m) == [node[m].exec EXCEPT !.confirmed = TRUE]
      <3>1. Patch(p, IssuedExecPatch(node[p], e(p)))
        BY <1>10 DEF ConfirmPatch
      <3>. HIDE DEF e
      <3>2. n = p /\ WroteOnly(n) /\ node'[n] = IssuedExecPatch(node[p], e(p))
        BY <1>2, <3>1, PatchEffect
      <3>3. node'[n] = IssuedExecPatch(node[n], e(n))
        BY <3>2
      <3> QED
        BY <3>2, <3>3 DEF e
    <2> QED
      BY <1>10, <2>1 DEF OtherWrites, Confirms
  <1>11. CASE LocalFailed(p)
    <2>1. /\ n = p /\ WroteOnly(n) /\ node[n].state = "rebooting"
          /\ node'[n] = ToFailedPatch(node[n])
      BY <1>2, <1>11 DEF LocalFailed, Transition, Patch, WroteOnly
    <2> QED
      BY <1>11, <2>1 DEF OtherWrites, FailsLocally
  <1>12. CASE (\E force \in ForceValues : PostReboot(p, force)) \/ EnqueueUpdate(p)
    <2>1. PICK force \in BOOLEAN : Request(p, force)
      BY <1>12 DEF PostReboot, EnqueueUpdate
    <2>2. Requests \in Nat
      BY DEF Requests, TypeInv, TypeOK, Bounds
    <2>3. PICK since \in Nat : Patch(p, AdmissionPatch(node[p], since, force))
      BY <2>1, <2>2 DEF Request
    <2>4. n = p /\ WroteOnly(n) /\ node'[n] = AdmissionPatch(node[n], since, force)
      BY <1>2, <2>3 DEF Patch, WroteOnly
    <2>5. ReRequestable(node[n])
      BY <1>12, <2>4 DEF PostReboot, EnqueueUpdate, ReRequestable
    <2> QED
      BY <1>12, <2>4, <2>5 DEF OtherWrites, Requests_
  <1>13. CASE DeleteReboot(p)
    <2>. DEFINE b == /\ node[p].state \in {"rebooting", "completed", "failed"}
                     /\ CordonedPrevKnownAbsent(node[p])
    <2>1. Patch(p, ClearPatch(node[p], b)) /\ node[p].state \notin {"absent", "draining"}
      BY <1>13 DEF DeleteReboot
    <2>2. \/ /\ b = TRUE /\ CordonedPrevKnownAbsent(node[p])
             /\ node[p].state \in {"rebooting", "completed", "failed"}
          \/ b = FALSE
      OBVIOUS
    <2>. HIDE DEF b
    <2>3. n = p /\ WroteOnly(n) /\ node'[n] = ClearPatch(node[n], b)
      BY <1>2, <2>1 DEF Patch, WroteOnly
    <2> QED
      BY <1>13, <2>1, <2>2, <2>3 DEF OtherWrites, Clears
  <1>14. CASE Rearm(p)
    <2>1. n = p /\ WroteOnly(n) /\ node'[n] = ClearPatch(node[n], FALSE)
      <3>. DEFINE cleared(m) == ClearPatch(node[m], FALSE)
      <3>1. Patch(p, cleared(p))
        BY <1>14 DEF Rearm
      <3>. HIDE DEF cleared
      <3>2. n = p /\ WroteOnly(n) /\ node'[n] = cleared(p)
        BY <1>2, <3>1, PatchEffect
      <3>3. node'[n] = cleared(n)
        BY <3>2
      <3> QED
        BY <3>2, <3>3 DEF cleared
    <2>2. node[n].state \notin {"absent", "draining"}
      BY <1>14, <2>1 DEF Rearm
    <2>3. Rearm(n)
      BY <1>14, <2>1
    <2>4. Clears(n)
      BY <2>1, <2>2, <2>3 DEF Clears
    <2> QED
      BY <2>1, <2>4 DEF OtherWrites
  <1>15. CASE OperatorCordon(p)
    <2>1. n = p /\ WroteOnly(n) /\ node'[n] = [node[n] EXCEPT !.unsched = TRUE]
      <3>. DEFINE cordoned(m) == [node[m] EXCEPT !.unsched = TRUE]
      <3>1. Patch(p, cordoned(p))
        BY <1>15 DEF OperatorCordon
      <3>. HIDE DEF cordoned
      <3>2. n = p /\ WroteOnly(n) /\ node'[n] = cordoned(p)
        BY <1>2, <3>1, PatchEffect
      <3>3. node'[n] = cordoned(n)
        BY <3>2
      <3> QED
        BY <3>2, <3>3 DEF cordoned
    <2> QED
      BY <1>15, <2>1 DEF OtherWrites, Cordons
  <1>16. CASE OperatorUncordon(p)
    <2>1. n = p /\ WroteOnly(n) /\ node'[n] = UncordonPatch(node[n])
      BY <1>2, <1>16 DEF OperatorUncordon, Patch, WroteOnly
    <2> QED
      BY <1>16, <2>1 DEF OtherWrites, Releases
  <1>17. CASE OperatorCorrupts(p)
    <2>1. n = p /\ WroteOnly(n)
      BY <1>2, <1>17 DEF OperatorCorrupts, Patch, WroteOnly
    <2> QED
      BY <1>2, <1>17, <2>1 DEF OtherWrites, Corrupts, OperatorCorrupts, Patch
  <1>18. CASE UNCHANGED node
    BY <1>18
  <1>19. CASE Orchestrate(p) \/ PassFails(p)
    BY <1>3, <1>4, <1>5, <1>6, <1>8, <1>18, <1>19
    DEF Orchestrate, ListNodes, ListPods, DrainRound, AdmitList, AdmitVerify, AdmitNone, PassFails,
        objVars
  <1>20. CASE Execute(p) \/ CommandFails(p) \/ PodCrash(p)
    BY <1>9, <1>10, <1>11, <1>18, <1>20
    DEF Execute, LocalRead, LocalAbort, CommandStarts, Panic, CommandFails, PodCrash, objVars
  <1>21. CASE Environment(p)
    BY <1>12, <1>13, <1>14, <1>15, <1>16, <1>17, <1>18, <1>21
    DEF Environment, DrainTimeout, GraceExpires, HostDown, HostBoot, CommandIgnored, NodeNotReady,
        NodeReady, PodGone, PodArrives, LeaseMoves, objVars
  <1> QED
    BY <1>1, <1>3, <1>7, <1>19, <1>20, <1>21
\* The flow of a pod: the pass, the executor, and what stops either.
PassFlow(p) ==
    \/ ListNodes(p) /\ pc[p] = "idle" /\ pc'[p] \in {"pods", "manage"}
    \/ ListPods(p) /\ pc[p] = "pods" /\ pc'[p] = "manage"
    \/ AdmitList(p) /\ pc[p] = "manage" /\ pc'[p] = "admit"
    \/ AdmitVerify(p) /\ pc[p] = "admit" /\ pc'[p] = "patch"
    \/ AdmitPatch(p) /\ pc[p] = "patch" /\ pc'[p] = "admit"
ExecutorFlow(p) ==
    \/ LocalRead(p) /\ pc[p] = "idle" /\ pc'[p] \in {"issue", "reissue", "fail", "confirm"}
    \/ IssuePatch(p) /\ pc[p] \in {"issue", "reissue"} /\ pc'[p] = "command"
    \/ CommandFails(p) /\ pc[p] = "command" /\ pc'[p] = "fail"
HostFlow(p) ==
    \/ HostDown(p) /\ pc[p] # "down" /\ pc'[p] = "down"
    \/ HostBoot(p) /\ pc[p] = "down" /\ pc'[p] = "idle"
    \/ pc[p] # "down" /\ pc'[p] = "idle"

LEMMA GotoEffect ==
    ASSUME TypeInv, NEW q \in Nodes, NEW s, Goto(q, s), NEW p \in Nodes
    PROVE  pc'[p] = IF p = q THEN s ELSE pc[p]
  BY DEF Goto, TypeInv, TypeOK

LEMMA PodFlow ==
    ASSUME TypeInv, Next, NEW p \in Nodes
    PROVE  pc'[p] = pc[p] \/ PassFlow(p) \/ ExecutorFlow(p) \/ HostFlow(p)
  <1>1. PICK q \in Nodes :
            \/ Orchestrate(q) \/ AdmitBlocked(q) \/ PassFails(q)
            \/ \E m \in Nodes : ForceDeleteFailed(q, m)
            \/ Execute(q) \/ CommandFails(q) \/ PodCrash(q)
            \/ Environment(q)
    BY DEF Next
  <1>2. CASE UNCHANGED pc
    BY <1>2
  <1>3. CASE q # p
    <2>1. CASE \E s : Goto(q, s)
      BY <1>3, <2>1, GotoEffect
    <2>2. CASE Orchestrate(q) \/ AdmitBlocked(q) \/ PassFails(q) \/ \E m \in Nodes : ForceDeleteFailed(q, m)
      BY <1>2, <2>1, <2>2
      DEF Orchestrate, ListNodes, ListPods, AdmitList, AdmitBlocked, AdmitVerify, AdmitPatch,
          AdmitNone, PassFails, ForceDeleteFailed, DrainTimedOut, DrainDone, DrainRound,
          ManageRebooting, Uncordon, Managed, EndPass
    <2>3. CASE Execute(q) \/ CommandFails(q) \/ PodCrash(q)
      BY <2>1, <2>3
      DEF Execute, LocalRead, IssuePatch, ConfirmPatch, LocalFailed, LocalAbort, CommandStarts,
          Panic, CommandFails, PodCrash, Forget
    <2>4. CASE Environment(q)
      BY <1>2, <2>1, <2>4
      DEF Environment, PostReboot, EnqueueUpdate, Request, DeleteReboot, Rearm, OperatorCordon,
          OperatorUncordon, OperatorCorrupts, DrainTimeout, GraceExpires, HostDown, HostBoot,
          CommandIgnored, NodeNotReady, NodeReady, PodGone, PodArrives, LeaseMoves, podVars, Forget
    <2> QED
      BY <1>1, <2>2, <2>3, <2>4
  <1>4. CASE q = p
    <2>1. CASE Orchestrate(q)
      <3>1. CASE ListNodes(p) \/ ListPods(p) \/ AdmitList(p)
        BY <3>1, GotoEffect DEF ListNodes, ListPods, AdmitList, EndPass, PassFlow, HostFlow
      <3>2. CASE AdmitVerify(p) \/ AdmitPatch(p) \/ AdmitNone(p)
        BY <3>2, GotoEffect DEF AdmitVerify, AdmitPatch, AdmitNone, EndPass, PassFlow, HostFlow
      <3> QED
        BY <1>2, <1>4, <2>1, <3>1, <3>2
        DEF Orchestrate, DrainTimedOut, DrainDone, DrainRound, ManageRebooting, Uncordon, Managed
    <2>2. CASE AdmitBlocked(q) \/ PassFails(q) \/ \E m \in Nodes : ForceDeleteFailed(q, m)
      BY <1>2, <1>4, <2>2, GotoEffect
      DEF AdmitBlocked, PassFails, ForceDeleteFailed, Managed, EndPass, HostFlow
    <2>3. CASE Execute(q) \/ CommandFails(q) \/ PodCrash(q)
      <3>1. CASE LocalRead(p) \/ IssuePatch(p) \/ CommandFails(p)
        BY <3>1, GotoEffect DEF LocalRead, IssuePatch, CommandFails, ExecutorFlow, HostFlow
      <3>2. CASE ConfirmPatch(p) \/ LocalFailed(p) \/ LocalAbort(p) \/ CommandStarts(p)
        BY <3>2, GotoEffect DEF ConfirmPatch, LocalFailed, LocalAbort, CommandStarts, HostFlow
      <3>3. CASE Panic(p) \/ PodCrash(p)
        BY <3>3, GotoEffect DEF Panic, PodCrash, Forget, HostFlow
      <3> QED
        BY <1>4, <2>3, <3>1, <3>2, <3>3 DEF Execute
    <2>4. CASE Environment(q)
      <3>1. CASE HostDown(p) \/ HostBoot(p)
        BY <3>1, GotoEffect DEF HostDown, HostBoot, Forget, HostFlow
      <3> QED
        BY <1>2, <1>4, <2>4, <3>1
        DEF Environment, PostReboot, EnqueueUpdate, Request, DeleteReboot, Rearm, OperatorCordon,
            OperatorUncordon, OperatorCorrupts, DrainTimeout, GraceExpires,
            CommandIgnored, NodeNotReady, NodeReady, PodGone, PodArrives, LeaseMoves, podVars
    <2> QED
      BY <1>1, <2>1, <2>2, <2>3, <2>4
  <1> QED
    BY <1>3, <1>4

\* What an action leaves alone, for the variables of a host.
LEMMA HostWriters ==
    ASSUME TypeInv, Next, NEW n \in Nodes
    PROVE  /\ boot'[n] = boot[n] \/ (HostBoot(n) /\ boot'[n] = boot[n] + 1)
           /\ command'[n] = command[n] \/ CommandStarts(n) \/ command'[n] = FALSE
           /\ past'[n].reboots = past[n].reboots \/ IssuePatch(n) \/ HostDown(n)
           /\ issues'[n] = issues[n] \/ IssuePatch(n)
  <1>1. PICK q \in Nodes :
            \/ Orchestrate(q) \/ AdmitBlocked(q) \/ PassFails(q)
            \/ \E m \in Nodes : ForceDeleteFailed(q, m)
            \/ Execute(q) \/ CommandFails(q) \/ PodCrash(q)
            \/ Environment(q)
    BY DEF Next
  <1>. DEFINE Same == UNCHANGED <<boot, command, past, issues>>
              Goal == /\ boot'[n] = boot[n] \/ (HostBoot(n) /\ boot'[n] = boot[n] + 1)
                      /\ command'[n] = command[n] \/ CommandStarts(n) \/ command'[n] = FALSE
                      /\ past'[n].reboots = past[n].reboots \/ IssuePatch(n) \/ HostDown(n)
                      /\ issues'[n] = issues[n] \/ IssuePatch(n)
  <1>2. Same => Goal
    OBVIOUS
  <1>3. AdmitPatch(q) => Goal
    <2>1. ASSUME AdmitPatch(q) PROVE Goal
      <3>1. UNCHANGED <<boot, command, issues>>
        BY <2>1 DEF AdmitPatch, hostVars
      <3>2. past'[n].reboots = past[n].reboots
        <4>1. past' = past \/ Noted(n, First(q).node)
          BY <2>1, AdmitPatchNotes
        <4> QED
          BY <4>1 DEF Noted
      <3> QED
        BY <3>1, <3>2
    <2> QED
      BY <2>1
  <1>4. IssuePatch(q) => Goal
    <2>1. ASSUME IssuePatch(q) PROVE Goal
      <3>1. UNCHANGED <<boot, command>>
        BY <2>1 DEF IssuePatch, hostVars
      <3>2. q # n => past'[n] = past[n] /\ issues'[n] = issues[n]
        BY <2>1 DEF IssuePatch, Record, TypeInv, TypeOK
      <3> QED
        BY <2>1, <3>1, <3>2
    <2> QED
      BY <2>1
  <1>5. CommandStarts(q) \/ CommandIgnored(q) => Goal
    <2>1. ASSUME CommandStarts(q) \/ CommandIgnored(q) PROVE Goal
      <3>1. UNCHANGED <<boot, past, issues>>
        BY <2>1 DEF CommandStarts, CommandIgnored, objVars, histVars
      <3>2. command'[n] = command[n] \/ CommandStarts(n) \/ command'[n] = FALSE
        BY <2>1 DEF CommandStarts, CommandIgnored, TypeInv, TypeOK
      <3> QED
        BY <3>1, <3>2
    <2> QED
      BY <2>1
  <1>6. HostDown(q) \/ HostBoot(q) => Goal
    <2>1. ASSUME HostDown(q) PROVE Goal
      <3>1. UNCHANGED <<boot, issues>>
        BY <2>1 DEF HostDown, objVars
      <3>2. q # n => past'[n] = past[n]
        BY <2>1 DEF HostDown, TypeInv, TypeOK
      <3>3. command'[n] = command[n] \/ command'[n] = FALSE
        BY <2>1 DEF HostDown, TypeInv, TypeOK
      <3> QED
        BY <2>1, <3>1, <3>2, <3>3
    <2>2. ASSUME HostBoot(q) PROVE Goal
      <3>1. UNCHANGED <<command, past, issues>>
        BY <2>2 DEF HostBoot, objVars, histVars
      <3>2. boot'[n] = IF q = n THEN boot[n] + 1 ELSE boot[n]
        BY <2>2 DEF HostBoot, TypeInv, TypeOK
      <3> QED
        BY <2>2, <3>1, <3>2
    <2> QED
      BY <2>1, <2>2
  <1>7. NodeNotReady(q) => Goal
    <2>1. ASSUME NodeNotReady(q) PROVE Goal
      <3>1. UNCHANGED <<boot, command, issues>>
        BY <2>1 DEF NodeNotReady, hostVars
      <3>2. past'[n].reboots = past[n].reboots
        BY <2>1 DEF NodeNotReady, TypeInv, TypeOK, Past
      <3> QED
        BY <3>1, <3>2
    <2> QED
      BY <2>1
  <1>8. CASE Orchestrate(q) \/ AdmitBlocked(q) \/ PassFails(q) \/ \E m \in Nodes : ForceDeleteFailed(q, m)
    <2>1. AdmitPatch(q) \/ Same
      BY <1>8
      DEF Orchestrate, ListNodes, ListPods, AdmitList, AdmitBlocked, AdmitVerify, AdmitPatch,
          AdmitNone, PassFails, ForceDeleteFailed, DrainTimedOut, DrainDone, DrainRound,
          ManageRebooting, Uncordon, objVars, hostVars, histVars
    <2> QED
      BY <1>2, <1>3, <2>1
  <1>9. CASE Execute(q) \/ CommandFails(q) \/ PodCrash(q)
    <2>1. IssuePatch(q) \/ CommandStarts(q) \/ Same
      BY <1>9
      DEF Execute, LocalRead, ConfirmPatch, LocalFailed, LocalAbort, Panic, CommandFails, PodCrash,
          objVars, hostVars, histVars
    <2> QED
      BY <1>2, <1>4, <1>5, <2>1
  <1>10. CASE Environment(q)
    <2>1. CommandIgnored(q) \/ HostDown(q) \/ HostBoot(q) \/ NodeNotReady(q) \/ Same
      BY <1>10
      DEF Environment, PostReboot, EnqueueUpdate, Request, DeleteReboot, Rearm, OperatorCordon,
          OperatorUncordon, OperatorCorrupts, DrainTimeout, GraceExpires, NodeReady, PodGone,
          PodArrives, LeaseMoves, objVars, hostVars, histVars
    <2> QED
      BY <1>2, <1>5, <1>6, <1>7, <2>1
  <1> QED
    BY <1>1, <1>8, <1>9, <1>10

\* A reboot-exec is dropped, or the node's own executor wrote it.
LEMMA ExecWriters ==
    ASSUME TypeInv, Next, NEW n \in Nodes
    PROVE  \/ node'[n].exec = node[n].exec \/ node'[n].exec.kind # "ok"
           \/ Records(n) \/ Confirms(n)
  <1>0. node[n] \in Node
    BY DEF TypeInv, TypeOK
  <1>1. CASE node'[n] = node[n]
    BY <1>1
  <1>2. CASE \E p \in Nodes : PassWrites(p, n)
    <2>1. PICK p \in Nodes : PassWrites(p, n)
      BY <1>2
    <2>2. CASE DrainFails(p, n) \/ Drains(p, n) \/ Completes(p, n)
      BY <1>0, <2>2
      DEF DrainFails, Drains, Completes, ToFailedPatch, ToRebootingPatch, ToCompletedPatch, Node
    <2>3. CASE Uncordons(p, n) \/ Blocks(p, n)
      BY <1>0, <2>3 DEF Uncordons, Blocks, UncordonPatch, BlockedByPatch, Node
    <2>4. CASE Admits(p, n)
      BY <1>0, <2>4 DEF Admits, ToDrainingPatch, Node
    <2> QED
      BY <2>1, <2>2, <2>3, <2>4 DEF PassWrites
  <1>3. CASE FailsLocally(n) \/ Cordons(n) \/ Releases(n)
    BY <1>0, <1>3 DEF FailsLocally, Cordons, Releases, ToFailedPatch, UncordonPatch, Node
  <1>4. CASE Requests_(n) \/ Clears(n)
    <2>1. node'[n].exec = NoExec
      BY <1>0, <1>4 DEF Requests_, Clears, AdmissionPatch, ClearPatch, IdleNode, Node
    <2> QED
      BY <2>1, NoExecType
  <1>5. CASE Corrupts(n)
    <2>1. [NoExec EXCEPT !.kind = "corrupt"].kind = "corrupt"
      BY DEF NoExec
    <2>2. \/ node'[n].exec = node[n].exec
          \/ node'[n].exec = [NoExec EXCEPT !.kind = "corrupt"]
      BY <1>0, <1>5 DEF Corrupts, Node
    <2> QED
      BY <2>1, <2>2
  <1> QED
    BY <1>1, <1>2, <1>3, <1>4, <1>5, NodeWriters DEF OtherWrites
-----------------------------------------------------------------------------
(***************************************************************************)
(* What happened to a node.                                                *)
(***************************************************************************)
\* An admission by p, as the history counts it for n.
Counts(p, n) ==
    AdmitPatch(p) /\ pc'[p] = "idle" /\ Noted(n, First(p).node)

LEMMA PastWriters ==
    ASSUME TypeInv, Next, NEW n \in Nodes
    PROVE  \/ past'[n] = past[n]
           \/ HostDown(n) \/ NodeNotReady(n)
           \/ IssuePatch(n)
           \/ \E p \in Nodes : Counts(p, n)
  <1>1. PICK q \in Nodes :
            \/ Orchestrate(q) \/ AdmitBlocked(q) \/ PassFails(q)
            \/ \E m \in Nodes : ForceDeleteFailed(q, m)
            \/ Execute(q) \/ CommandFails(q) \/ PodCrash(q)
            \/ Environment(q)
    BY DEF Next
  <1>2. CASE AdmitPatch(q)
    <2>1. CASE past' = past
      BY <2>1
    <2>2. CASE Noted(n, First(q).node) /\ EndPass(q)
      <3>1. pc'[q] = "idle"
        BY <2>2, GotoEffect DEF EndPass
      <3> QED
        BY <1>2, <2>2, <3>1 DEF Counts
    <2> QED
      BY <1>2, <2>1, <2>2, AdmitPatchNotes
  <1>3. CASE HostDown(q) \/ NodeNotReady(q) \/ IssuePatch(q)
    <2>1. CASE q = n
      BY <1>3, <2>1
    <2>2. CASE q # n
      <3>1. past'[n] = past[n]
        BY <1>3, <2>2 DEF HostDown, NodeNotReady, IssuePatch, Record, TypeInv, TypeOK
      <3> QED
        BY <3>1
    <2> QED
      BY <2>1, <2>2
  <1>4. CASE past' = past
    BY <1>4
  <1>5. CASE Orchestrate(q) \/ AdmitBlocked(q) \/ PassFails(q) \/ \E m \in Nodes : ForceDeleteFailed(q, m)
    BY <1>2, <1>4, <1>5
    DEF Orchestrate, ListNodes, ListPods, AdmitList, AdmitBlocked, AdmitVerify,
        AdmitNone, PassFails, ForceDeleteFailed, DrainTimedOut, DrainDone, DrainRound,
        ManageRebooting, Uncordon, histVars
  <1>6. CASE Execute(q) \/ CommandFails(q) \/ PodCrash(q)
    BY <1>3, <1>4, <1>6
    DEF Execute, LocalRead, ConfirmPatch, LocalFailed, LocalAbort, CommandStarts, Panic,
        CommandFails, PodCrash, histVars
  <1>7. CASE Environment(q)
    BY <1>3, <1>4, <1>7
    DEF Environment, PostReboot, EnqueueUpdate, Request, DeleteReboot, Rearm, OperatorCordon,
        OperatorUncordon, OperatorCorrupts, DrainTimeout, GraceExpires, HostBoot, CommandIgnored,
        NodeReady, PodGone, PodArrives, LeaseMoves, histVars
  <1> QED
    BY <1>1, <1>5, <1>6, <1>7

-----------------------------------------------------------------------------
(***************************************************************************)
(* One reboot per request: the executor of a node, its host and the        *)
(* command that is pending there.                                          *)
(***************************************************************************)
\* A command is pending, or about to be given, only for an attempt that has not
\* rebooted the host; and a host that still has the recorded boot ID has not been
\* rebooted by the attempt, unless it is just going down.
Attempt(n) ==
    /\ command[n] \/ pc[n] = "command" => past[n].reboots = 0
    /\ node[n].exec.kind = "ok" => node[n].exec.boot <= boot[n]
    /\ node[n].exec.kind = "ok" /\ BootUnchanged(n) /\ pc[n] # "down" => past[n].reboots = 0
    /\ past[n].reboots <= 1

\* Once an attempt is recorded the node does not come back to a point where a
\* first attempt is recorded, but by a new admission.
Begun(n) ==
    past[n].begun => /\ node[n].state # "draining"
                     /\ node[n].state = "rebooting" => node[n].exec.kind # "absent"

AttemptInv == \A n \in Nodes : Attempt(n) /\ Begun(n)

\* The objects as far as the executor's record goes.
LEMMA ObjectTypes ==
    ASSUME TypeInv, NEW n \in Nodes
    PROVE  /\ node[n] \in Node /\ node[n].exec \in Exec /\ past[n] \in Past
           /\ node[n].exec.boot \in Nat /\ node[n].exec.issue \in Nat
           /\ boot[n] \in Nat /\ issues[n] \in Nat /\ past[n].reboots \in Nat
           /\ past[n].admitted \in Nat
           /\ command[n] \in BOOLEAN /\ ready[n] \in BOOLEAN /\ past[n].outage \in BOOLEAN
  BY DEF TypeInv, TypeOK, Node, Exec, Past

LEMMA BegunKept ==
    ASSUME TypeInv, Next, NEW n \in Nodes, Begun(n)
    PROVE  Begun(n)'
  <1>0. node[n] \in Node /\ node[n].exec \in Exec /\ past[n] \in Past
    BY ObjectTypes
  <1>1. CASE IssuePatch(n)
    <2>1. node[n].state = "rebooting"
      BY <1>1 DEF IssuePatch, IssueGuard, ReissueGuard
    <2>2. node'[n].state = node[n].state /\ node'[n].exec.kind = "ok"
      BY <1>0, <1>1 DEF IssuePatch, Record, Patch, IssuedExecPatch, Node, TypeInv, TypeOK
    <2> QED
      BY <2>1, <2>2 DEF Begun
  <1>2. ASSUME NEW p \in Nodes, Admits(p, n) PROVE ~past'[n].begun
    <2>1. node'[n] # node[n]
      BY <1>0, <1>2 DEF Admits, ToDrainingPatch, Node
    <2>2. n = First(p).node /\ node[First(p).node].state = "requested"
      BY <1>2, <2>1, PatchEffect DEF Admits, AdmitPatch, TypeInv, TypeOK
    <2>3. Noted(n, First(p).node)
      BY <1>2, <2>1, AdmitPatchNotes DEF Admits
    <2> QED
      BY <2>2, <2>3 DEF Noted
  <1>3. past'[n].begun => past[n].begun \/ IssuePatch(n)
    <2>1. ASSUME HostDown(n) \/ NodeNotReady(n) PROVE past'[n].begun = past[n].begun
      BY <1>0, <2>1 DEF HostDown, NodeNotReady, Past, TypeInv, TypeOK
    <2>2. ASSUME NEW p \in Nodes, Counts(p, n) PROVE past'[n].begun => past[n].begun
      BY <2>2 DEF Counts, Noted
    <2> QED
      BY <2>1, <2>2, PastWriters
  <1>4. CASE node'[n] = node[n]
    BY <1>1, <1>3, <1>4 DEF Begun
  <1>5. CASE past[n].begun /\ past'[n].begun /\ ~IssuePatch(n) /\ node'[n] # node[n]
    <2>1. (\E p \in Nodes : PassWrites(p, n)) \/ OtherWrites(n)
      BY <1>5, NodeWriters
    <2>2. node[n].state # "draining" /\ (node[n].state = "rebooting" => node[n].exec.kind # "absent")
      BY <1>5 DEF Begun
    <2>3. CASE \E p \in Nodes : PassWrites(p, n)
      <3>1. PICK p \in Nodes : PassWrites(p, n)
        BY <2>3
      <3>2. Completes(p, n) \/ Uncordons(p, n) \/ Blocks(p, n)
        BY <1>2, <1>5, <2>2, <3>1 DEF PassWrites, DrainFails, Drains
      <3> QED
        BY <1>0, <2>2, <3>2
        DEF Completes, Uncordons, Blocks, ToCompletedPatch, UncordonPatch, BlockedByPatch, Node, Begun
    <2>4. CASE FailsLocally(n) \/ Cordons(n) \/ Releases(n)
      <3>1. \/ node'[n].state = "failed"
            \/ node'[n].state = node[n].state /\ node'[n].exec = node[n].exec
        BY <1>0, <2>4 DEF FailsLocally, Cordons, Releases, ToFailedPatch, UncordonPatch, Node
      <3> QED
        BY <2>2, <3>1 DEF Begun
    <2>5. CASE Requests_(n) \/ Clears(n)
      <3>1. CASE Requests_(n)
        <4>1. node'[n].state = "requested"
          BY <1>0, <3>1 DEF Requests_, AdmissionPatch, Node
        <4> QED
          BY <4>1 DEF Begun
      <3>2. CASE Clears(n)
        <4>1. node'[n].state = "absent"
          BY <3>2 DEF Clears, ClearPatch, IdleNode
        <4> QED
          BY <4>1 DEF Begun
      <3> QED
        BY <2>5, <3>1, <3>2
    <2>6. CASE Confirms(n)
      <3>1. node'[n].exec.kind = node[n].exec.kind /\ node'[n].state = node[n].state
        BY <1>0, <2>6 DEF Confirms, IssuedExecPatch, Node, Exec
      <3> QED
        BY <2>2, <3>1 DEF Begun
    <2>7. CASE Corrupts(n)
      <3>1. [NoExec EXCEPT !.kind = "corrupt"].kind = "corrupt"
        BY DEF NoExec
      <3>2. \/ node'[n].state \in {"corrupt", "unknown"}
            \/ node'[n].exec.kind = "corrupt" /\ node'[n].state = node[n].state
            \/ node'[n].exec = node[n].exec /\ node'[n].state = node[n].state
        BY <1>0, <2>7, <3>1 DEF Corrupts, Node
      <3> QED
        BY <2>2, <3>2 DEF Begun
    <2>8. ~Records(n)
      BY <1>5 DEF Records
    <2> QED
      BY <2>1, <2>3, <2>4, <2>5, <2>6, <2>7, <2>8 DEF OtherWrites
  <1> QED
    BY <1>1, <1>3, <1>4, <1>5 DEF Begun

LEMMA AttemptKept ==
    ASSUME TypeInv, TypeInv', Next, NEW n \in Nodes, Attempt(n), Begun(n)
    PROVE  Attempt(n)'
  <1>1. /\ node[n].exec.boot \in Nat /\ boot[n] \in Nat /\ past[n].reboots \in Nat
        /\ node[n] \in Node /\ node[n].exec \in Exec /\ past[n] \in Past
        /\ command[n] \in BOOLEAN
    BY ObjectTypes
  <1>2. CASE IssuePatch(n)
    <2>1. boot'[n] = boot[n] /\ command'[n] = command[n] /\ pc[n] \in {"issue", "reissue"}
      BY <1>2 DEF IssuePatch, hostVars
    <2>2. node'[n].exec.boot = boot[n]
      BY <1>1, <1>2 DEF IssuePatch, Record, Patch, IssuedExecPatch, Node, TypeInv, TypeOK
    <2>3. past'[n].reboots = 0
      <3>1. CASE IssueGuard(n) /\ Record(n, 1)
        <4>1. past'[n] = Recorded(past[n], ready[n]) /\ ready[n] \in BOOLEAN
          BY <3>1 DEF Record, TypeInv, TypeOK
        <4>2. ~past[n].begun
          BY <1>1, <3>1 DEF IssueGuard, Begun, Past
        <4>3. past[n] \in Past
          BY <1>1
        <4> QED
          BY <4>1, <4>2, <4>3, RecordedEffect
      <3>2. CASE ReissueGuard(n) /\ Record(n, 2)
        <4>1. past'[n] = past[n]
          BY <3>2 DEF Record, TypeInv, TypeOK
        <4> QED
          BY <2>1, <3>2, <4>1 DEF ReissueGuard, Attempt
      <3> QED
        BY <1>2, <3>1, <3>2 DEF IssuePatch
    <2> QED
      BY <1>1, <2>1, <2>2, <2>3 DEF Attempt
  <1>3. CASE HostDown(n)
    <2>1. node'[n] = node[n] /\ boot'[n] = boot[n] /\ command'[n] = FALSE /\ pc'[n] = "down"
      BY <1>3 DEF HostDown, Forget, Goto, objVars, TypeInv, TypeOK
    <2>2. past'[n].reboots = past[n].reboots + (IF command[n] THEN 1 ELSE 0)
      BY <1>1, <1>3 DEF HostDown, TypeInv, TypeOK, Past
    <2>3. past'[n].reboots <= 1
      <3>1. CASE command[n] = TRUE
        BY <2>2, <3>1 DEF Attempt
      <3>2. CASE command[n] = FALSE
        BY <1>1, <2>2, <3>2 DEF Attempt
      <3> QED
        BY <1>1, <3>1, <3>2
    <2> QED
      BY <2>1, <2>3 DEF Attempt
  <1>4. CASE HostBoot(n)
    <2>1. /\ node'[n] = node[n] /\ command'[n] = command[n] /\ past'[n] = past[n]
          /\ boot'[n] = boot[n] + 1 /\ pc'[n] = "idle"
      BY <1>4 DEF HostBoot, Goto, objVars, histVars, TypeInv, TypeOK
    <2>2. BootUnchanged(n)' => node[n].exec.boot = boot[n] + 1
      BY <2>1 DEF BootUnchanged
    <2> QED
      BY <1>1, <2>1, <2>2 DEF Attempt
  <1>5. CASE ~IssuePatch(n) /\ ~HostDown(n) /\ ~HostBoot(n)
    <2>1. boot'[n] = boot[n] /\ past'[n].reboots = past[n].reboots
      BY <1>5, HostWriters
    <2>2. pc'[n] = "command" => pc[n] = "command"
      BY <1>5, PodFlow DEF PassFlow, ExecutorFlow, HostFlow
    <2>3. pc'[n] # "down" => pc[n] # "down"
      BY <1>5, PodFlow DEF PassFlow, ExecutorFlow, HostFlow
    <2>4. command'[n] => command[n] \/ pc[n] = "command"
      BY HostWriters DEF CommandStarts
    <2>5. node'[n].exec.kind = "ok" => node[n].exec.kind = "ok" /\ node'[n].exec.boot = node[n].exec.boot
      <3>1. CASE Confirms(n)
        <4>1. node'[n].exec = [node[n].exec EXCEPT !.confirmed = TRUE] /\ node[n].exec.kind = "ok"
          BY <1>1, <3>1 DEF Confirms, ConfirmPatch, ConfirmGuard, IssuedExecPatch, Node
        <4> QED
          BY <1>1, <4>1 DEF Exec
      <3> QED
        BY <1>5, <3>1, ExecWriters DEF Records
    <2> QED
      BY <1>1, <2>1, <2>2, <2>3, <2>4, <2>5 DEF Attempt, BootUnchanged
  <1> QED
    BY <1>2, <1>3, <1>4, <1>5

LEMMA AttemptInvariant == Spec => []AttemptInv
  <1>1. Init => AttemptInv
    <2>1. ASSUME Init, NEW n \in Nodes PROVE Attempt(n) /\ Begun(n)
      <3>1. node[n].exec.kind # "ok"
        BY <2>1, InitialNode, NoExecType
      <3>2. ~command[n] /\ pc[n] = "idle" /\ past[n].reboots = 0 /\ ~past[n].begun
        BY <2>1 DEF Init
      <3> QED
        BY <3>1, <3>2 DEF Attempt, Begun
    <2> QED
      BY <2>1 DEF AttemptInv
  <1>2. TypeInv /\ AttemptInv /\ [Next]_vars => AttemptInv'
    <2>1. ASSUME TypeInv, AttemptInv, [Next]_vars PROVE AttemptInv'
      <3>1. CASE UNCHANGED vars
        BY <2>1, <3>1
        DEF AttemptInv, Attempt, Begun, BootUnchanged, vars, objVars, hostVars, podVars, histVars
      <3>2. CASE Next
        BY <2>1, <3>2, TypeInvNext, AttemptKept, BegunKept DEF AttemptInv
      <3> QED
        BY <2>1, <3>1, <3>2
    <2> QED
      BY <2>1
  <1> QED
    BY <1>1, <1>2, TypeInvariant, PTL DEF Spec

\* PLAN.md D2, "one reboot only": a request reboots its host at most once, with any number of
\* leaders, crashes, lost responses, re-issues, hand edits and admissions.
THEOREM HostRebootedOnce == Spec => []OneRebootPerRequest
  <1>1. AttemptInv => OneRebootPerRequest
    BY DEF AttemptInv, Attempt, OneRebootPerRequest
  <1> QED
    BY <1>1, AttemptInvariant, PTL
-----------------------------------------------------------------------------
(***************************************************************************)
(* The lease, and what a pod has read for its pass.                        *)
(***************************************************************************)
LEMMA SpendEffect ==
    ASSUME TypeInv, NEW b \in Bounds, b # "handovers", Spend(b)
    PROVE  budget'["handovers"] = budget["handovers"]
  BY DEF Spend, TypeInv, TypeOK, Bounds

LEMMA LeaseWriters ==
    ASSUME TypeInv, Next
    PROVE  \/ holder' = holder /\ budget'["handovers"] = budget["handovers"]
           \/ \E p \in Nodes : LeaseMoves(p)
  <1>1. PICK q \in Nodes :
            \/ Orchestrate(q) \/ AdmitBlocked(q) \/ PassFails(q)
            \/ \E m \in Nodes : ForceDeleteFailed(q, m)
            \/ Execute(q) \/ CommandFails(q) \/ PodCrash(q)
            \/ Environment(q)
    BY DEF Next
  <1>2. {"requests", "clears", "faults", "edits"} \subseteq Bounds
    BY DEF Bounds
  <1>3. \A b \in {"requests", "clears", "faults", "edits"} :
            Spend(b) => budget'["handovers"] = budget["handovers"]
    BY <1>2, SpendEffect
  <1>4. CASE Orchestrate(q) \/ AdmitBlocked(q) \/ PassFails(q) \/ \E m \in Nodes : ForceDeleteFailed(q, m)
    BY <1>3, <1>4
    DEF Orchestrate, ListNodes, ListPods, AdmitList, AdmitBlocked, AdmitVerify, AdmitPatch,
        AdmitNone, PassFails, ForceDeleteFailed, DrainTimedOut, DrainDone, DrainRound,
        ManageRebooting, Uncordon
  <1>5. CASE Execute(q) \/ CommandFails(q) \/ PodCrash(q)
    BY <1>3, <1>5
    DEF Execute, LocalRead, IssuePatch, ConfirmPatch, LocalFailed, LocalAbort, CommandStarts,
        Panic, CommandFails, PodCrash
  <1>6. CASE Environment(q)
    BY <1>3, <1>6
    DEF Environment, PostReboot, EnqueueUpdate, Request, DeleteReboot, Rearm, OperatorCordon,
        OperatorUncordon, OperatorCorrupts, DrainTimeout, GraceExpires, HostDown, HostBoot,
        CommandIgnored, NodeNotReady, NodeReady, PodGone, PodArrives
  <1> QED
    BY <1>1, <1>4, <1>5, <1>6

\* A view comes from the list at the start of a pass, and is only cleared after
\* that; the pods and the time belong to it.
Listed(p, n)   == ListNodes(p) /\ view'[p][n] = ViewOf(n)
SawNothing(p)  == \A n \in Nodes : view'[p][n].rule = "none"

LEMMA ManagedEffect ==
    ASSUME TypeInv, NEW q \in Nodes, NEW m \in Nodes, Managed(q, m), NEW p \in Nodes, NEW n \in Nodes
    PROVE  /\ view'[p][n] = IF p = q /\ n = m THEN NoView ELSE view[p][n]
           /\ pc'[p] = pc[p]
  BY DEF Managed, TypeInv, TypeOK

LEMMA ForgetEffect ==
    ASSUME TypeInv, NEW q \in Nodes, NEW s, Forget(q, s), NEW p \in Nodes
    PROVE  /\ \A n \in Nodes : view'[p][n] = IF p = q THEN NoView ELSE view[p][n]
           /\ \A n \in Nodes : notReadyAt'[p][n] = IF p = q THEN 0 ELSE notReadyAt[p][n]
           /\ \A n \in Nodes : stamp'[p][n] = IF p = q THEN 0 ELSE stamp[p][n]
           /\ pc'[p] = IF p = q THEN s ELSE pc[p]
  BY DEF Forget, Goto, TypeInv, TypeOK

LEMMA NoViewRule == NoView.rule = "none"
  BY DEF NoView

LEMMA ViewWriters ==
    ASSUME TypeInv, Next, NEW p \in Nodes
    PROVE  /\ \A n \in Nodes : view'[p][n] = view[p][n] \/ view'[p][n] = NoView \/ Listed(p, n)
           /\ \/ pc'[p] \in {"pods", "manage"} \/ pc[p] \notin {"pods", "manage"}
              \/ SawNothing(p)
  <1>. DEFINE Goal == /\ \A n \in Nodes : \/ view'[p][n] = view[p][n] \/ view'[p][n] = NoView
                                          \/ Listed(p, n)
                      /\ \/ pc'[p] \in {"pods", "manage"} \/ pc[p] \notin {"pods", "manage"}
                         \/ SawNothing(p)
  <1>1. PICK q \in Nodes :
            \/ Orchestrate(q) \/ AdmitBlocked(q) \/ PassFails(q)
            \/ \E m \in Nodes : ForceDeleteFailed(q, m)
            \/ Execute(q) \/ CommandFails(q) \/ PodCrash(q)
            \/ Environment(q)
    BY DEF Next
  <1>2. view' = view /\ pc'[p] = pc[p] => Goal
    OBVIOUS
  <1>3. view' = view /\ pc[p] \notin {"pods", "manage"} => Goal
    OBVIOUS
  <1>4. (\E m \in Nodes : Managed(q, m)) => Goal
    BY ManagedEffect
  <1>5. ASSUME NEW s, Forget(q, s) PROVE Goal
    <2>1. CASE p = q
      BY <1>5, <2>1, ForgetEffect, NoViewRule DEF SawNothing
    <2>2. CASE p # q
      <3>1. (\A n \in Nodes : view'[p][n] = view[p][n]) /\ pc'[p] = pc[p]
        <4>1. \A n \in Nodes : view'[p][n] = IF p = q THEN NoView ELSE view[p][n]
          BY <1>5, ForgetEffect
        <4>2. pc'[p] = IF p = q THEN s ELSE pc[p]
          BY <1>5, ForgetEffect
        <4> QED
          BY <2>2, <4>1, <4>2
      <3> QED
        BY <3>1
    <2> QED
      BY <2>1, <2>2
  <1>6. ASSUME NEW s, Goto(q, s), view' = view, pc[q] \notin {"pods", "manage"} PROVE Goal
    <2>1. pc'[p] = IF p = q THEN s ELSE pc[p]
      BY <1>6, GotoEffect
    <2> QED
      BY <1>6, <2>1
  <1>7. CASE Orchestrate(q) \/ AdmitBlocked(q) \/ PassFails(q) \/ \E m \in Nodes : ForceDeleteFailed(q, m)
    <2>1. CASE ListNodes(q)
      <3>1. \A n \in Nodes : view'[p][n] = IF p = q THEN ViewOf(n) ELSE view[p][n]
        BY <2>1 DEF ListNodes, TypeInv, TypeOK
      <3>2. pc'[p] = pc[p] \/ (p = q /\ pc'[p] \in {"pods", "manage"})
        <4>. DEFINE some == \E m \in Nodes : ViewOf(m).rule \in {"drain", "watch"}
        <4>1. Goto(q, IF some THEN "pods" ELSE "manage")
          BY <2>1 DEF ListNodes
        <4>. HIDE DEF some
        <4>2. Goto(q, "pods") \/ Goto(q, "manage")
          BY <4>1
        <4> QED
          BY <4>2, GotoEffect
      <3> QED
        BY <2>1, <3>1, <3>2 DEF Listed
    <2>2. CASE ListPods(q)
      <3>1. view' = view /\ (pc'[p] = pc[p] \/ pc'[p] = "manage")
        BY <2>2, GotoEffect DEF ListPods
      <3> QED
        BY <3>1
    <2>3. CASE AdmitList(q)
      <3>1. view' = view /\ (p = q => \A n \in Nodes : view[p][n].rule = "none")
        BY <2>3 DEF AdmitList
      <3>2. p # q => pc'[p] = pc[p]
        BY <2>3, GotoEffect DEF AdmitList, EndPass
      <3> QED
        BY <3>1, <3>2 DEF SawNothing
    <2>4. CASE AdmitVerify(q) \/ AdmitPatch(q) \/ AdmitNone(q)
      <3>1. view' = view /\ pc[q] \notin {"pods", "manage"} /\ \E s : Goto(q, s) \/ pc' = pc
        BY <2>4 DEF AdmitVerify, AdmitPatch, AdmitNone, EndPass
      <3> QED
        BY <1>2, <1>6, <3>1
    <2>5. CASE PassFails(q)
      <3>1. CASE \E m \in Nodes : Managed(q, m)
        BY <1>4, <3>1
      <3>2. CASE EndPass(q) /\ view' = [view EXCEPT ![q] = [n \in Nodes |-> NoView]]
        <4>1. \A n \in Nodes : view'[p][n] = IF p = q THEN NoView ELSE view[p][n]
          BY <3>2 DEF TypeInv, TypeOK
        <4>2. p # q => pc'[p] = pc[p]
          BY <3>2, GotoEffect DEF EndPass
        <4> QED
          BY <4>1, <4>2, NoViewRule DEF SawNothing
      <3> QED
        BY <2>5, <3>1, <3>2 DEF PassFails
    <2>6. CASE AdmitBlocked(q)
      BY <1>2, <2>6 DEF AdmitBlocked
    <2> QED
      BY <1>4, <1>7, <2>1, <2>2, <2>3, <2>4, <2>5, <2>6
      DEF Orchestrate, ForceDeleteFailed, DrainTimedOut, DrainDone, DrainRound, ManageRebooting,
          Uncordon
  <1>8. CASE Execute(q) \/ CommandFails(q) \/ PodCrash(q)
    <2>1. CASE Panic(q) \/ PodCrash(q)
      BY <1>5, <2>1 DEF Panic, PodCrash
    <2>2. CASE \/ LocalRead(q) \/ IssuePatch(q) \/ ConfirmPatch(q) \/ LocalFailed(q)
               \/ LocalAbort(q) \/ CommandStarts(q) \/ CommandFails(q)
      <3>1. view' = view /\ pc[q] \notin {"pods", "manage"} /\ \E s : Goto(q, s)
        BY <2>2
        DEF LocalRead, IssuePatch, ConfirmPatch, LocalFailed, LocalAbort, CommandStarts, CommandFails
      <3> QED
        BY <1>6, <3>1
    <2> QED
      BY <1>8, <2>1, <2>2 DEF Execute
  <1>9. CASE Environment(q)
    <2>1. CASE HostDown(q)
      BY <1>5, <2>1 DEF HostDown
    <2>2. CASE HostBoot(q)
      <3>1. view' = view /\ pc[q] \notin {"pods", "manage"} /\ \E s : Goto(q, s)
        BY <2>2 DEF HostBoot
      <3> QED
        BY <1>6, <3>1
    <2> QED
      BY <1>2, <1>9, <2>1, <2>2
      DEF Environment, PostReboot, EnqueueUpdate, Request, DeleteReboot, Rearm, OperatorCordon,
          OperatorUncordon, OperatorCorrupts, DrainTimeout, GraceExpires, CommandIgnored,
          NodeNotReady, NodeReady, PodGone, PodArrives, LeaseMoves, podVars
  <1> QED
    BY <1>1, <1>7, <1>8, <1>9
-----------------------------------------------------------------------------
(***************************************************************************)
(* Slots.  A pod that has found a free slot has not taken it yet: it       *)
(* counts like a busy node.  Without a handover only the holder is in a    *)
(* pass; every handover may leave one more pod in its pass.                *)
(***************************************************************************)
PassSteps == {"pods", "manage", "admit", "patch"}

Passing   == {p \in Nodes : pc[p] \in PassSteps}
Admitting == {p \in Nodes : pc[p] \in {"admit", "patch"}}
Deposed   == Passing \ {holder}
Handovers == MaxHandovers - budget["handovers"]

SlotInv ==
    /\ Cardinality(Deposed) <= Handovers
    /\ Cardinality(Busy) + Cardinality(Admitting) <= MaxConcurrent + Handovers

\* What a step does to the state of n.
StateMove(n) ==
    \/ node[n].state = "draining" /\ node'[n].state \in {"failed", "rebooting"}
    \/ node[n].state = "rebooting" /\ node'[n].state \in {"completed", "failed"}
    \/ \E p \in Nodes : Admits(p, n) /\ node'[n].state = "draining"
    \/ ReRequestable(node[n]) /\ node'[n].state = "requested"
    \/ node[n].state \notin {"absent", "draining"} /\ node'[n].state = "absent"
    \/ "state" \in Corruptions /\ node'[n].state = "corrupt"
    \/ "name" \in Corruptions /\ node'[n].state = "unknown"

LEMMA StateWriters ==
    ASSUME TypeInv, Next, NEW n \in Nodes, node'[n].state # node[n].state
    PROVE  WroteOnly(n) /\ StateMove(n)
  <1>0. node[n] \in Node
    BY DEF TypeInv, TypeOK
  <1>1. WroteOnly(n) /\ ((\E p \in Nodes : PassWrites(p, n)) \/ OtherWrites(n))
    BY NodeWriters
  <1>2. CASE \E p \in Nodes : DrainFails(p, n) \/ Drains(p, n)
    BY <1>0, <1>1, <1>2 DEF DrainFails, Drains, ToFailedPatch, ToRebootingPatch, StateMove, Node
  <1>3. CASE (\E p \in Nodes : Completes(p, n)) \/ FailsLocally(n)
    BY <1>0, <1>1, <1>3 DEF Completes, FailsLocally, ToCompletedPatch, ToFailedPatch, StateMove, Node
  <1>4. CASE \E p \in Nodes : Uncordons(p, n) \/ Blocks(p, n)
    BY <1>0, <1>4 DEF Uncordons, Blocks, UncordonPatch, BlockedByPatch, Node
  <1>5. CASE \E p \in Nodes : Admits(p, n)
    <2>1. PICK p \in Nodes : Admits(p, n)
      BY <1>5
    <2>2. node'[n].state = "draining"
      BY <1>0, <2>1 DEF Admits, ToDrainingPatch, Node
    <2> QED
      BY <1>1, <2>1, <2>2 DEF StateMove
  <1>6. CASE Records(n) \/ Confirms(n) \/ Cordons(n) \/ Releases(n)
    <2>1. \/ \E e : node'[n] = IssuedExecPatch(node[n], e)
          \/ \E b : node'[n] = [node[n] EXCEPT !.unsched = b]
      BY <1>6 DEF Records, Confirms, Cordons, Releases, UncordonPatch
    <2> QED
      BY <1>0, <2>1 DEF IssuedExecPatch, Node
  <1>7. CASE Requests_(n)
    BY <1>0, <1>1, <1>7 DEF Requests_, AdmissionPatch, StateMove, Node
  <1>8. CASE Clears(n)
    BY <1>0, <1>1, <1>8 DEF Clears, ClearPatch, IdleNode, StateMove
  <1>9. CASE Corrupts(n)
    BY <1>0, <1>1, <1>9 DEF Corrupts, StateMove, Node
  <1> QED
    BY <1>1, <1>2, <1>3, <1>4, <1>5, <1>6, <1>7, <1>8, <1>9 DEF PassWrites, OtherWrites

LEMMA BusyWriters ==
    ASSUME TypeInv, Next
    PROVE  \/ Busy' \subseteq Busy
           \/ \E p, n \in Nodes : Admits(p, n) /\ Busy' \subseteq Busy \cup {n}
  <1>1. ASSUME NEW n \in Busy', n \notin Busy
        PROVE  WroteOnly(n) /\ \E p \in Nodes : Admits(p, n)
    <2>1. n \in Nodes /\ node'[n].state \in {"draining", "rebooting"} /\ node'[n].state # node[n].state
      BY <1>1 DEF Busy
    <2>2. WroteOnly(n) /\ StateMove(n)
      BY <2>1, StateWriters
    <2> QED
      BY <1>1, <2>1, <2>2 DEF StateMove, Busy
  <1>2. CASE Busy' \subseteq Busy
    BY <1>2
  <1>3. CASE \E n \in Busy' : n \notin Busy
    <2>1. PICK n \in Busy' : n \notin Busy
      BY <1>3
    <2>2. n \in Nodes
      BY DEF Busy
    <2>3. Busy' \subseteq Busy \cup {n}
      BY <1>1, <2>1 DEF Busy, WroteOnly
    <2> QED
      BY <1>1, <2>1, <2>2, <2>3
  <1> QED
    BY <1>2, <1>3

\* A pod joins those in a pass only as the holder, and those that admit only after
\* it has counted; no two do at a time.
LEMMA PassWriters ==
    ASSUME TypeInv, Next
    PROVE  /\ Passing' \subseteq Passing \cup {holder}
           /\ \/ Admitting' \subseteq Admitting
              \/ \E p \in Nodes : AdmitList(p) /\ pc'[p] = "admit" /\ Admitting' \subseteq Admitting \cup {p}
  <1>1. ASSUME NEW p \in Passing' PROVE p \in Passing \cup {holder}
    <2>1. p \in Nodes /\ pc'[p] \in PassSteps
      BY DEF Passing
    <2> QED
      BY <2>1, PodFlow DEF Passing, PassSteps, PassFlow, ExecutorFlow, HostFlow, ListNodes
  <1>2. ASSUME NEW p \in Admitting', p \notin Admitting
        PROVE  p \in Nodes /\ AdmitList(p) /\ pc'[p] = "admit"
    <2>1. p \in Nodes /\ pc'[p] \in {"admit", "patch"} /\ pc[p] \notin {"admit", "patch"}
      BY <1>2 DEF Admitting
    <2> QED
      BY <2>1, PodFlow DEF PassFlow, ExecutorFlow, HostFlow
  <1>3. CASE \E p \in Admitting' : p \notin Admitting
    <2>1. PICK p \in Admitting' : p \notin Admitting
      BY <1>3
    <2>2. p \in Nodes /\ AdmitList(p) /\ pc'[p] = "admit"
      BY <1>2, <2>1
    <2>3. \A q \in Nodes : q # p => pc'[q] = pc[q]
      BY <2>2, GotoEffect DEF AdmitList, EndPass
    <2>4. Admitting' \subseteq Admitting \cup {p}
      BY <2>3 DEF Admitting
    <2> QED
      BY <1>1, <2>2, <2>4
  <1> QED
    BY <1>1, <1>3

LEMMA SetsFinite ==
    /\ \A S \in SUBSET Nodes : IsFiniteSet(S) /\ Cardinality(S) \in Nat
    /\ \A S, T \in SUBSET Nodes : S \subseteq T => Cardinality(S) <= Cardinality(T)
    /\ \A S \in SUBSET Nodes, x \in Nodes : Cardinality(S \cup {x}) <= Cardinality(S) + 1
    /\ \A S \in SUBSET Nodes : \A x \in S : Cardinality(S \ {x}) = Cardinality(S) - 1
  <1>1. \A S \in SUBSET Nodes : IsFiniteSet(S) /\ Cardinality(S) \in Nat
    BY FS_Subset, FS_CardinalityType
  <1>2. \A S, T \in SUBSET Nodes : S \subseteq T => Cardinality(S) <= Cardinality(T)
    BY <1>1, FS_Subset
  <1>3. \A S \in SUBSET Nodes, x \in Nodes : Cardinality(S \cup {x}) <= Cardinality(S) + 1
    <2> TAKE S \in SUBSET Nodes, x \in Nodes
    <2>1. IsFiniteSet(S) /\ Cardinality(S) \in Nat
      BY <1>1
    <2>2. Cardinality(S \cup {x}) = IF x \in S THEN Cardinality(S) ELSE Cardinality(S) + 1
      BY <2>1, FS_AddElement
    <2> QED
      BY <2>1, <2>2
  <1>4. \A S \in SUBSET Nodes : \A x \in S : Cardinality(S \ {x}) = Cardinality(S) - 1
    BY <1>1, FS_RemoveElement
  <1> QED
    BY <1>1, <1>2, <1>3, <1>4

LEMMA SlotInvNext == TypeInv /\ SlotInv /\ [Next]_vars => SlotInv'
  <1> SUFFICES ASSUME TypeInv, SlotInv, [Next]_vars PROVE SlotInv'
    OBVIOUS
  <1>1. TypeInv'
    BY TypeInvNext
  <1>2. /\ {Busy, Passing, Admitting, Deposed} \subseteq SUBSET Nodes
        /\ {Busy', Passing', Admitting', Deposed'} \subseteq SUBSET Nodes
        /\ holder \in Nodes /\ Handovers \in Int /\ MaxConcurrent \in Nat
        /\ Admitting \subseteq Passing
    BY DEF Busy, Passing, Admitting, Deposed, Handovers, TypeInv, TypeOK, Bounds, PassSteps
  <1>3. CASE UNCHANGED vars
    BY <1>3 DEF SlotInv, Busy, Passing, Admitting, Deposed, Handovers, vars, objVars, podVars
  <1>4. CASE \E p \in Nodes : LeaseMoves(p)
    <2>1. PICK p \in Nodes : LeaseMoves(p)
      BY <1>4
    <2>2. Handovers' = Handovers + 1
      BY <2>1 DEF LeaseMoves, Spend, Handovers, TypeInv, TypeOK, Bounds
    <2>3. Busy' = Busy /\ Admitting' = Admitting /\ Passing' = Passing
      BY <2>1 DEF LeaseMoves, Busy, Admitting, Passing, objVars, podVars
    <2>4. Deposed' \subseteq Deposed \cup {holder}
      BY <2>3 DEF Deposed
    <2>5. Cardinality(Deposed') <= Cardinality(Deposed) + 1
      <3>1. Deposed \cup {holder} \in SUBSET Nodes
        BY <1>2
      <3>2. Cardinality(Deposed') <= Cardinality(Deposed \cup {holder})
        BY <1>2, <2>4, <3>1, SetsFinite
      <3>3. /\ Cardinality(Deposed \cup {holder}) <= Cardinality(Deposed) + 1
            /\ Cardinality(Deposed) \in Nat /\ Cardinality(Deposed') \in Nat
            /\ Cardinality(Deposed \cup {holder}) \in Nat
        BY <1>2, <3>1, SetsFinite
      <3> QED
        BY <3>2, <3>3
    <2>6. Cardinality(Deposed) \in Nat /\ Cardinality(Deposed') \in Nat
          /\ Cardinality(Busy) \in Nat /\ Cardinality(Admitting) \in Nat
      BY <1>2, SetsFinite
    <2> QED
      BY <1>2, <2>2, <2>3, <2>5, <2>6 DEF SlotInv
  <1>5. CASE Next /\ holder' = holder /\ budget'["handovers"] = budget["handovers"]
    <2>1. Handovers' = Handovers
      BY <1>5 DEF Handovers
    <2>2. Cardinality(Deposed') <= Handovers'
      <3>1. Deposed' \subseteq Deposed
        BY <1>5, PassWriters DEF Deposed
      <3>2. /\ Cardinality(Deposed') <= Cardinality(Deposed)
            /\ Cardinality(Deposed) \in Nat /\ Cardinality(Deposed') \in Nat
        BY <1>2, <3>1, SetsFinite
      <3> QED
        BY <1>2, <2>1, <3>2 DEF SlotInv
    <2>3. /\ Cardinality(Busy) \in Nat /\ Cardinality(Admitting) \in Nat
          /\ Cardinality(Busy') \in Nat /\ Cardinality(Admitting') \in Nat
          /\ Cardinality(Deposed) \in Nat
      BY <1>2, SetsFinite
    <2>4. CASE \E p \in Nodes : AdmitList(p) /\ pc'[p] = "admit" /\ Admitting' \subseteq Admitting \cup {p}
      <3>1. PICK p \in Nodes : AdmitList(p) /\ pc'[p] = "admit" /\ Admitting' \subseteq Admitting \cup {p}
        BY <2>4
      <3>2. pc[p] = "manage" /\ Cardinality(InFlightNodes) < MaxConcurrent /\ Busy' = Busy
        <4>1. pc[p] = "manage" /\ Busy' = Busy
          BY <3>1 DEF AdmitList, Busy, objVars
        <4>2. ~EndPass(p)
          BY <3>1, GotoEffect DEF EndPass
        <4>3. SlotFree
          BY <3>1, <4>2 DEF AdmitList
        <4> QED
          BY <4>1, <4>3 DEF SlotFree
      <3>3. Cardinality(Busy) < MaxConcurrent
        <4>1. Busy \subseteq InFlightNodes /\ InFlightNodes \in SUBSET Nodes
          BY DEF Busy, InFlightNodes, InFlight
        <4>2. Cardinality(Busy) <= Cardinality(InFlightNodes) /\ Cardinality(InFlightNodes) \in Nat
          BY <1>2, <4>1, SetsFinite
        <4> QED
          BY <1>2, <2>3, <3>2, <4>2
      <3>4. Cardinality(Admitting) <= Handovers
        <4>1. p \notin Admitting /\ p \in Passing
          BY <3>2 DEF Admitting, Passing, PassSteps
        <4>2. CASE p = holder
          <5>1. Admitting \subseteq Deposed
            BY <1>2, <4>1, <4>2 DEF Deposed
          <5>2. Cardinality(Admitting) <= Cardinality(Deposed)
            BY <1>2, <5>1, SetsFinite
          <5> QED
            BY <1>2, <2>3, <5>2 DEF SlotInv
        <4>3. CASE p # holder
          <5>1. p \in Deposed /\ Deposed \ {p} \in SUBSET Nodes
            BY <1>2, <4>1, <4>3 DEF Deposed
          <5>2. Admitting \subseteq (Deposed \ {p}) \cup {holder}
            BY <1>2, <4>1 DEF Deposed
          <5>3. (Deposed \ {p}) \cup {holder} \in SUBSET Nodes
            BY <1>2, <5>1
          <5>4. Cardinality(Deposed \ {p}) = Cardinality(Deposed) - 1
            BY <1>2, <5>1, SetsFinite
          <5>5. Cardinality((Deposed \ {p}) \cup {holder}) <= Cardinality(Deposed \ {p}) + 1
            BY <1>2, <5>1, SetsFinite
          <5>6. Cardinality(Admitting) <= Cardinality((Deposed \ {p}) \cup {holder})
            BY <1>2, <5>2, <5>3, SetsFinite
          <5>7. Cardinality((Deposed \ {p}) \cup {holder}) \in Nat
            BY <5>3, SetsFinite
          <5> QED
            BY <1>2, <2>3, <5>4, <5>5, <5>6, <5>7 DEF SlotInv
        <4> QED
          BY <4>2, <4>3
      <3>5. Cardinality(Admitting') <= Cardinality(Admitting) + 1
        <4>1. Admitting \cup {p} \in SUBSET Nodes
          BY <1>2
        <4>2. Cardinality(Admitting') <= Cardinality(Admitting \cup {p})
          BY <1>2, <3>1, <4>1, SetsFinite
        <4>3. /\ Cardinality(Admitting \cup {p}) <= Cardinality(Admitting) + 1
              /\ Cardinality(Admitting \cup {p}) \in Nat
          BY <1>2, <4>1, SetsFinite
        <4> QED
          BY <2>3, <4>2, <4>3
      <3>6. Cardinality(Busy') + Cardinality(Admitting') <= MaxConcurrent + Handovers
        BY <1>2, <2>3, <3>2, <3>3, <3>4, <3>5
      <3> QED
        BY <2>1, <2>2, <3>6 DEF SlotInv
    <2>5. CASE Admitting' \subseteq Admitting /\ Busy' \subseteq Busy
      <3>1. /\ Cardinality(Admitting') <= Cardinality(Admitting)
            /\ Cardinality(Busy') <= Cardinality(Busy)
        BY <1>2, <2>5, SetsFinite
      <3>2. Cardinality(Busy') + Cardinality(Admitting') <= MaxConcurrent + Handovers
        BY <1>2, <2>3, <3>1 DEF SlotInv
      <3> QED
        BY <2>1, <2>2, <3>2 DEF SlotInv
    <2>6. CASE /\ Admitting' \subseteq Admitting
               /\ \E p, n \in Nodes : Admits(p, n) /\ Busy' \subseteq Busy \cup {n}
      <3>1. PICK p \in Nodes, n \in Nodes : Admits(p, n) /\ Busy' \subseteq Busy \cup {n}
        BY <2>6
      <3>2. p \in Admitting /\ p \notin Admitting'
        BY <3>1 DEF Admits, AdmitPatch, Admitting
      <3>3. Cardinality(Admitting') <= Cardinality(Admitting) - 1
        <4>1. Admitting' \subseteq Admitting \ {p} /\ Admitting \ {p} \in SUBSET Nodes
          BY <1>2, <2>6, <3>2
        <4>2. Cardinality(Admitting') <= Cardinality(Admitting \ {p})
          BY <1>2, <4>1, SetsFinite
        <4>3. Cardinality(Admitting \ {p}) = Cardinality(Admitting) - 1
          BY <1>2, <3>2, SetsFinite
        <4> QED
          BY <4>2, <4>3
      <3>4. Cardinality(Busy') <= Cardinality(Busy) + 1
        <4>1. Busy \cup {n} \in SUBSET Nodes
          BY <1>2
        <4>2. Cardinality(Busy') <= Cardinality(Busy \cup {n})
          BY <1>2, <3>1, <4>1, SetsFinite
        <4>3. /\ Cardinality(Busy \cup {n}) <= Cardinality(Busy) + 1
              /\ Cardinality(Busy \cup {n}) \in Nat
          BY <1>2, <4>1, SetsFinite
        <4> QED
          BY <2>3, <4>2, <4>3
      <3>5. Cardinality(Busy') + Cardinality(Admitting') <= MaxConcurrent + Handovers
        BY <1>2, <2>3, <3>3, <3>4 DEF SlotInv
      <3> QED
        BY <2>1, <2>2, <3>5 DEF SlotInv
    <2> QED
      BY <1>5, <2>4, <2>5, <2>6, BusyWriters, PassWriters
  <1> QED
    BY <1>3, <1>4, <1>5, LeaseWriters
LEMMA SlotInvInit == Init => SlotInv
  <1> SUFFICES ASSUME Init PROVE SlotInv
    OBVIOUS
  <1>1. Busy = {} /\ Admitting = {} /\ Deposed = {}
    BY InitialNode DEF Init, Busy, Admitting, Deposed, Passing, PassSteps
  <1>2. Handovers = 0
    BY DEF Init, Handovers, Bounds
  <1>3. Cardinality({}) = 0
    BY FS_EmptySet
  <1> QED
    BY <1>1, <1>2, <1>3 DEF SlotInv

LEMMA SlotInvariant == Spec => []SlotInv
  BY SlotInvInit, SlotInvNext, TypeInvariant, PTL DEF Spec

\* A pod that admits has a slot to spare.
LEMMA AdmitterHasSlot ==
    ASSUME TypeInv, SlotInv, NEW p \in Admitting
    PROVE  Cardinality(Busy) < MaxConcurrent + Handovers
  <1>1. Busy \in SUBSET Nodes /\ Admitting \in SUBSET Nodes
    BY DEF Busy, Admitting
  <1>2. /\ Cardinality(Busy) \in Nat /\ Cardinality(Admitting) \in Nat
        /\ Cardinality(Admitting) - 1 = Cardinality(Admitting \ {p})
    BY <1>1, SetsFinite
  <1>3. Cardinality(Admitting \ {p}) \in Nat
    BY <1>1, SetsFinite
  <1>4. MaxConcurrent \in Nat /\ Handovers \in Int
    BY DEF Handovers, TypeInv, TypeOK, Bounds
  <1> QED
    BY <1>2, <1>3, <1>4 DEF SlotInv

\* The slots are overdrawn by at most one per handover so far.
SlotsWithHandovers == Cardinality(Busy) <= MaxConcurrent + Handovers

\* max-concurrent, whatever the number of leaders: a deposed pod that is still in
\* its pass admits at most one node more than there are slots.
THEOREM SlotsOverdrawnByHandovers == Spec => []SlotsWithHandovers
  <1>1. TypeInv /\ SlotInv => SlotsWithHandovers
    <2>1. ASSUME TypeInv, SlotInv PROVE SlotsWithHandovers
      <3>1. Busy \in SUBSET Nodes /\ Admitting \in SUBSET Nodes
        BY DEF Busy, Admitting
      <3>2. /\ Cardinality(Busy) \in Nat /\ Cardinality(Admitting) \in Nat
            /\ MaxConcurrent \in Nat /\ Handovers \in Int
        BY <2>1, <3>1, SetsFinite DEF Handovers, TypeInv, TypeOK, Bounds
      <3> QED
        BY <2>1, <3>2 DEF SlotInv, SlotsWithHandovers
    <2> QED
      BY <2>1
  <1> QED
    BY <1>1, SlotInvariant, TypeInvariant, PTL

-----------------------------------------------------------------------------
(* One leader: no handover ever happens.                                   *)

LeaderInv ==
    /\ \A p \in Nodes : pc[p] \in PassSteps => p = holder
    /\ budget["handovers"] = 0

LEMMA LeaderInvariant ==
    ASSUME MaxHandovers = 0
    PROVE  Spec => []LeaderInv
  <1>1. TypeInv /\ SlotInv => LeaderInv
    <2> SUFFICES ASSUME TypeInv, SlotInv PROVE LeaderInv
      OBVIOUS
    <2>1. Deposed \in SUBSET Nodes /\ budget["handovers"] \in Nat
      BY DEF Deposed, Passing, TypeInv, TypeOK, Bounds
    <2>2. Cardinality(Deposed) \in Nat /\ IsFiniteSet(Deposed)
      BY <2>1, SetsFinite
    <2>3. budget["handovers"] = 0 /\ Cardinality(Deposed) = 0
      BY <2>1, <2>2 DEF SlotInv, Handovers
    <2>4. Deposed = {}
      BY <2>2, <2>3, FS_EmptySet
    <2> QED
      BY <2>3, <2>4 DEF LeaderInv, Deposed, Passing
  <1> QED
    BY <1>1, SlotInvariant, TypeInvariant, PTL

\* The lease does not move.
LEMMA HolderKept ==
    ASSUME TypeInv, LeaderInv, Next
    PROVE  holder' = holder
  BY LeaseWriters DEF LeaderInv, LeaseMoves, Spend, TypeInv, TypeOK, Bounds

\* A pod that admits has counted no control-plane node, and nobody else admits.
ControlPlaneInv ==
    /\ (\E p \in Nodes : pc[p] \in {"admit", "patch"}) => Busy \cap ControlPlane = {}
    /\ Cardinality(Busy \cap ControlPlane) <= 1

LEMMA ControlPlaneInvInit == Init => ControlPlaneInv
  <1>1. ASSUME Init PROVE Busy \cap ControlPlane = {}
    BY <1>1, InitialNode DEF Busy
  <1> QED
    BY <1>1, FS_EmptySet DEF ControlPlaneInv

LEMMA ControlPlaneInvNext ==
    TypeInv /\ LeaderInv /\ ControlPlaneInv /\ [Next]_vars => ControlPlaneInv'
  <1> SUFFICES ASSUME TypeInv, LeaderInv, ControlPlaneInv, [Next]_vars PROVE ControlPlaneInv'
    OBVIOUS
  <1>1. CASE UNCHANGED vars
    BY <1>1 DEF ControlPlaneInv, Busy, vars, objVars, podVars
  <1>2. CASE Next
    <2>1. CASE \E p, n \in Nodes : Admits(p, n) /\ Busy' \subseteq Busy \cup {n}
      <3>1. PICK p \in Nodes, n \in Nodes : Admits(p, n) /\ Busy' \subseteq Busy \cup {n}
        BY <2>1
      <3>2. pc[p] = "patch" /\ pc'[p] = "idle" /\ \A q \in Nodes : q # p => pc'[q] = pc[q]
        BY <3>1, GotoEffect DEF Admits, AdmitPatch, EndPass
      <3>3. ~\E q \in Nodes : pc'[q] \in {"admit", "patch"}
        BY <3>2 DEF LeaderInv, PassSteps
      <3>4. Busy' \cap ControlPlane \subseteq {n}
        BY <3>1, <3>2 DEF ControlPlaneInv
      <3>5. Cardinality(Busy' \cap ControlPlane) <= 1
        <4>1. Cardinality({n}) = 1 /\ IsFiniteSet({n})
          BY FS_Singleton
        <4> QED
          BY <3>4, <4>1, FS_Subset
      <3> QED
        BY <3>3, <3>5 DEF ControlPlaneInv
    <2>2. CASE Busy' \subseteq Busy
      <3>1. Cardinality(Busy' \cap ControlPlane) <= 1
        <4>1. /\ Busy \cap ControlPlane \in SUBSET Nodes /\ Busy' \cap ControlPlane \in SUBSET Nodes
              /\ Busy' \cap ControlPlane \subseteq Busy \cap ControlPlane
          BY <2>2 DEF Busy
        <4>2. Cardinality(Busy' \cap ControlPlane) <= Cardinality(Busy \cap ControlPlane)
          BY <4>1, SetsFinite
        <4>3. /\ Cardinality(Busy' \cap ControlPlane) \in Nat
              /\ Cardinality(Busy \cap ControlPlane) \in Nat
          BY <4>1, SetsFinite
        <4> QED
          BY <4>2, <4>3 DEF ControlPlaneInv
      <3>2. ASSUME NEW p \in Nodes, pc'[p] \in {"admit", "patch"}
            PROVE  Busy' \cap ControlPlane = {}
        <4>1. CASE pc[p] \in {"admit", "patch"}
          BY <2>2, <4>1 DEF ControlPlaneInv
        <4>2. CASE pc[p] \notin {"admit", "patch"}
          <5>1. AdmitList(p) /\ pc'[p] = "admit"
            BY <1>2, <3>2, <4>2, PodFlow DEF PassFlow, ExecutorFlow, HostFlow
          <5>2. ~EndPass(p)
            BY <5>1, GotoEffect DEF EndPass
          <5>3. SlotFree
            BY <5>1, <5>2 DEF AdmitList
          <5>4. Busy \subseteq InFlightNodes
            BY DEF Busy, InFlightNodes, InFlight
          <5> QED
            BY <2>2, <5>3, <5>4 DEF SlotFree
        <4> QED
          BY <4>1, <4>2
      <3> QED
        BY <3>1, <3>2 DEF ControlPlaneInv
    <2> QED
      BY <1>2, <2>1, <2>2, BusyWriters
  <1> QED
    BY <1>1, <1>2

\* PLAN.md, "Cap on concurrent control-plane reboots: 1": with one leader, never more than
\* max-concurrent nodes drain or reboot, nor more than one control-plane node,
\* although the leader counts from a list it read before its admission patch.
THEOREM OneLeaderKeepsSlots ==
    ASSUME MaxHandovers = 0
    PROVE  Spec => []SlotLimit
  <1>1. TypeInv /\ SlotsWithHandovers /\ LeaderInv /\ ControlPlaneInv => SlotLimit
    <2>1. ASSUME TypeInv, SlotsWithHandovers, LeaderInv, ControlPlaneInv PROVE SlotLimit
      <3>1. Handovers = 0
        BY <2>1 DEF Handovers, LeaderInv
      <3> QED
        BY <2>1, <3>1 DEF SlotsWithHandovers, ControlPlaneInv, SlotLimit
    <2> QED
      BY <2>1
  <1> QED
    BY <1>1, ControlPlaneInvInit, ControlPlaneInvNext, LeaderInvariant, SlotsOverdrawnByHandovers,
       TypeInvariant, PTL DEF Spec
-----------------------------------------------------------------------------
(***************************************************************************)
(* RebootCluster implements RebootLifecycle.  A hand edit that makes the   *)
(* state unreadable leaves the lifecycle, so there is none here.           *)
(***************************************************************************)
States == [n \in Nodes |-> node[n].state]

\* Without such edits every state is one the code writes.
ReadableInv == \A n \in Nodes : node[n].state \in LifecycleStates \cup {"absent"}

LEMMA ReadableInvariant ==
    ASSUME Corruptions \cap {"state", "name"} = {}
    PROVE  Spec => []ReadableInv
  <1>1. Init => ReadableInv
    BY InitialNode DEF ReadableInv
  <1>2. TypeInv /\ ReadableInv /\ [Next]_vars => ReadableInv'
    <2> SUFFICES ASSUME TypeInv, ReadableInv, [Next]_vars, NEW n \in Nodes
                 PROVE  node'[n].state \in LifecycleStates \cup {"absent"}
      BY DEF ReadableInv
    <2>1. CASE node'[n].state = node[n].state
      BY <2>1 DEF ReadableInv
    <2>2. CASE node'[n].state # node[n].state
      <3>1. Next
        BY <2>2 DEF vars, objVars
      <3>2. StateMove(n)
        BY <2>2, <3>1, StateWriters
      <3> QED
        BY <3>2 DEF StateMove, LifecycleStates
    <2> QED
      BY <2>1, <2>2
  <1> QED
    BY <1>1, <1>2, TypeInvariant, PTL DEF Spec

\* One step moves at most one node, along the lifecycle.
LifecycleMove(n) ==
    \/ node[n].state \in {"absent", "completed", "failed"} /\ node'[n].state = "requested"
    \/ \E p \in Nodes : /\ Admits(p, n)
                        /\ node[n].state = "requested" /\ node'[n].state = "draining"
    \/ node[n].state = "draining" /\ node'[n].state = "rebooting"
    \/ node[n].state = "rebooting" /\ node'[n].state = "completed"
    \/ node[n].state \in {"draining", "rebooting"} /\ node'[n].state = "failed"
    \/ /\ node[n].state \in {"requested", "rebooting", "completed", "failed"}
       /\ node'[n].state = "absent"

LEMMA StatesStep ==
    ASSUME Corruptions \cap {"state", "name"} = {}, TypeInv, ReadableInv, [Next]_vars
    PROVE  \/ UNCHANGED States
           \/ \E n \in Nodes : /\ LifecycleMove(n)
                               /\ States' = [States EXCEPT ![n] = node'[n].state]
  <1>1. CASE \A n \in Nodes : node'[n].state = node[n].state
    BY <1>1 DEF States
  <1>2. CASE \E n \in Nodes : node'[n].state # node[n].state
    <2>1. PICK n \in Nodes : node'[n].state # node[n].state
      BY <1>2
    <2>2. Next
      BY <2>1 DEF vars, objVars
    <2>3. WroteOnly(n) /\ StateMove(n)
      BY <2>1, <2>2, StateWriters
    <2>4. LifecycleMove(n)
      BY <2>1, <2>3
      DEF StateMove, LifecycleMove, ReRequestable, ReadableInv, LifecycleStates, Admits
    <2>5. States' = [States EXCEPT ![n] = node'[n].state]
      BY <2>3 DEF States, WroteOnly
    <2> QED
      BY <2>4, <2>5
  <1> QED
    BY <1>1, <1>2

\* The abstract specification counts as this one does.
LEMMA SameCardinality ==
    \A S : /\ Lifecycle!Cardinality(S) = Cardinality(S)
           /\ RelaxedLifecycle!Cardinality(S) = Cardinality(S)
  BY Zenon DEF Lifecycle!Cardinality, RelaxedLifecycle!Cardinality, Cardinality

\* The lifecycle of docs/controller.md with its limits, as long as one pod leads.
THEOREM LifecycleImplemented ==
    ASSUME MaxHandovers = 0, Corruptions \cap {"state", "name"} = {}
    PROVE  Spec => ImplementsLifecycle
  <1>1. Init => Lifecycle!Init
    BY InitialNode DEF Lifecycle!Init
  <1>2. TypeInv /\ ReadableInv /\ SlotInv /\ LeaderInv /\ ControlPlaneInv /\ [Next]_vars
        => [Lifecycle!Next]_States
    <2> SUFFICES ASSUME TypeInv, ReadableInv, SlotInv, LeaderInv, ControlPlaneInv, [Next]_vars
                 PROVE  [Lifecycle!Next]_States
      OBVIOUS
    <2>1. ASSUME NEW n \in Nodes, LifecycleMove(n),
                 States' = [States EXCEPT ![n] = node'[n].state]
          PROVE  Lifecycle!Next
      <3>. DEFINE Admission == /\ \E p \in Nodes : Admits(p, n)
                               /\ node[n].state = "requested" /\ node'[n].state = "draining"
      <3>1. Lifecycle!Busy = Busy
        BY DEF Lifecycle!Busy, Busy
      <3>2. ASSUME NEW p \in Nodes, Admits(p, n)
            PROVE  Cardinality(Busy) < MaxConcurrent /\ Busy \cap ControlPlane = {}
        <4>1. p \in Admitting
          BY <3>2 DEF Admits, AdmitPatch, Admitting
        <4>2. Cardinality(Busy) < MaxConcurrent + Handovers
          BY <4>1, AdmitterHasSlot
        <4> QED
          BY <4>1, <4>2 DEF Admitting, ControlPlaneInv, LeaderInv, Handovers
      <3>3. States[n] = node[n].state
        BY DEF States
      <3>4. ASSUME NEW from, NEW to, node[n].state \in from, node'[n].state = to
            PROVE  Lifecycle!Move(n, from, to)
        BY <2>1, <3>3, <3>4 DEF Lifecycle!Move, States
      <3>5. CASE Admission
        <4>1. Lifecycle!Move(n, {"requested"}, "draining")
          BY <3>4, <3>5
        <4>2. Lifecycle!Admit(n)
          BY <3>1, <3>2, <3>5, <4>1, SameCardinality DEF Lifecycle!Admit
        <4> QED
          BY <4>2 DEF Lifecycle!Next
      <3>6. CASE ~Admission
        <4>1. \/ Lifecycle!Request(n) \/ Lifecycle!Reboot(n) \/ Lifecycle!Complete(n)
              \/ Lifecycle!Fail(n) \/ Lifecycle!Clear(n)
          BY <2>1, <3>4, <3>6
          DEF LifecycleMove, Lifecycle!Request, Lifecycle!Reboot, Lifecycle!Complete, Lifecycle!Fail, Lifecycle!Clear
        <4> QED
          BY <4>1 DEF Lifecycle!Next
      <3> QED
        BY <3>5, <3>6
    <2> QED
      BY <2>1, StatesStep
  <1> QED
    BY <1>1, <1>2, ControlPlaneInvInit, ControlPlaneInvNext, LeaderInvariant, SlotInvariant, ReadableInvariant,
       TypeInvariant, PTL DEF Spec, ImplementsLifecycle, Lifecycle!Spec, States

\* The same lifecycle for any number of handovers, each of which may overdraw the
\* slots by one: a deposed pod breaks limits, never the lifecycle of a node.
THEOREM RelaxedLifecycleImplemented ==
    ASSUME Corruptions \cap {"state", "name"} = {}
    PROVE  Spec => ImplementsRelaxedLifecycle
  <1>1. Init => RelaxedLifecycle!Init
    BY InitialNode DEF RelaxedLifecycle!Init
  <1>2. TypeInv /\ ReadableInv /\ SlotInv /\ [Next]_vars => [RelaxedLifecycle!Next]_States
    <2> SUFFICES ASSUME TypeInv, ReadableInv, SlotInv, [Next]_vars
                 PROVE  [RelaxedLifecycle!Next]_States
      OBVIOUS
    <2>1. ASSUME NEW n \in Nodes, LifecycleMove(n),
                 States' = [States EXCEPT ![n] = node'[n].state]
          PROVE  RelaxedLifecycle!Next
      <3>. DEFINE Admission == /\ \E p \in Nodes : Admits(p, n)
                               /\ node[n].state = "requested" /\ node'[n].state = "draining"
      <3>1. RelaxedLifecycle!Busy = Busy
        BY DEF RelaxedLifecycle!Busy, Busy
      <3>2. ASSUME NEW p \in Nodes, Admits(p, n)
            PROVE  Cardinality(Busy) < MaxConcurrent + MaxHandovers
        <4>1. p \in Admitting
          BY <3>2 DEF Admits, AdmitPatch, Admitting
        <4>2. Cardinality(Busy) < MaxConcurrent + Handovers
          BY <4>1, AdmitterHasSlot
        <4>3. Handovers \in Int /\ Handovers <= MaxHandovers
          BY DEF Handovers, TypeInv, TypeOK, Bounds
        <4>4. Cardinality(Busy) \in Nat
          BY SetsFinite DEF Busy
        <4> QED
          BY <4>2, <4>3, <4>4
      <3>3. States[n] = node[n].state
        BY DEF States
      <3>4. ASSUME NEW from, NEW to, node[n].state \in from, node'[n].state = to
            PROVE  RelaxedLifecycle!Move(n, from, to)
        BY <2>1, <3>3, <3>4 DEF RelaxedLifecycle!Move, States
      <3>5. CASE Admission
        <4>1. RelaxedLifecycle!Move(n, {"requested"}, "draining")
          BY <3>4, <3>5
        <4>2. RelaxedLifecycle!Admit(n)
          BY <3>1, <3>2, <3>5, <4>1, SameCardinality DEF RelaxedLifecycle!Admit
        <4> QED
          BY <4>2 DEF RelaxedLifecycle!Next
      <3>6. CASE ~Admission
        <4>1. \/ RelaxedLifecycle!Request(n) \/ RelaxedLifecycle!Reboot(n) \/ RelaxedLifecycle!Complete(n)
              \/ RelaxedLifecycle!Fail(n) \/ RelaxedLifecycle!Clear(n)
          BY <2>1, <3>4, <3>6
          DEF LifecycleMove, RelaxedLifecycle!Request, RelaxedLifecycle!Reboot, RelaxedLifecycle!Complete, RelaxedLifecycle!Fail, RelaxedLifecycle!Clear
        <4> QED
          BY <4>1 DEF RelaxedLifecycle!Next
      <3> QED
        BY <3>5, <3>6
    <2> QED
      BY <2>1, StatesStep
  <1> QED
    BY <1>1, <1>2, SlotInvariant, ReadableInvariant, TypeInvariant,
       PTL DEF Spec, ImplementsRelaxedLifecycle, RelaxedLifecycle!Spec, States
-----------------------------------------------------------------------------
(***************************************************************************)
(* The pause on a failure, under one leader.  A pass that is admitting     *)
(* looked before the failure, when the node was still in flight: so the    *)
(* node is a worker and there was a second slot.                           *)
(***************************************************************************)
Pause(n) ==
    /\ n \in Busy => past[n].admitted = 0
    /\ PauseOnFailure /\ node[n].state = "failed" =>
          /\ past[n].admitted <= IF MaxConcurrent > 1 /\ n \notin ControlPlane THEN 1 ELSE 0
          /\ Admitting # {} => /\ past[n].admitted = 0
                               /\ MaxConcurrent > 1 /\ n \notin ControlPlane

PauseInv == \A n \in Nodes : Pause(n)

\* Who admits beside a busy node found a second slot and no control-plane node.
LEMMA BusyBesideAdmitter ==
    ASSUME MaxHandovers = 0, TypeInv, SlotInv, LeaderInv, ControlPlaneInv,
           NEW n \in Busy, Admitting # {}
    PROVE  MaxConcurrent > 1 /\ n \notin ControlPlane
  <1>1. PICK p \in Admitting : TRUE
    OBVIOUS
  <1>2. Cardinality(Busy) < MaxConcurrent
    BY <1>1, AdmitterHasSlot DEF Handovers, LeaderInv
  <1>3. Cardinality(Busy) \in Nat /\ Cardinality(Busy) # 0
    <2>1. Busy \in SUBSET Nodes
      BY DEF Busy
    <2> QED
      BY <2>1, SetsFinite, FS_EmptySet
  <1>4. n \notin ControlPlane
    BY <1>1 DEF Admitting, ControlPlaneInv
  <1> QED
    BY <1>2, <1>3, <1>4

LEMMA PauseKept ==
    ASSUME MaxHandovers = 0, TypeInv, SlotInv, LeaderInv, ControlPlaneInv, Next,
           NEW n \in Nodes, Pause(n)
    PROVE  Pause(n)'
  <1>0. past[n] \in Past /\ past[n].admitted \in Nat
    BY ObjectTypes
  <1>1. PauseOnFailure /\ node[n].state = "failed" /\ Admitting' # {} => Admitting # {}
    <2>1. ASSUME NEW p \in Nodes, AdmitList(p), pc'[p] = "admit" PROVE ~Paused
      <3>1. ~EndPass(p)
        BY <2>1, GotoEffect DEF EndPass
      <3> QED
        BY <2>1, <3>1 DEF AdmitList
    <2> QED
      BY <2>1, PassWriters DEF Paused
  <1>2. CASE \E p \in Nodes : Counts(p, n)
    <2>1. PICK p \in Nodes : Counts(p, n)
      BY <1>2
    <2>2. p \in Admitting /\ Admitting' = {}
      <3>1. pc[p] = "patch" /\ \A q \in Nodes : q # p => pc'[q] = pc[q]
        BY <2>1, GotoEffect DEF Counts, AdmitPatch, EndPass
      <3> QED
        BY <2>1, <3>1 DEF Counts, Admitting, LeaderInv, PassSteps
    <2>3. past'[n].admitted = IF node[n].state = "failed" THEN past[n].admitted + 1 ELSE 0
      BY <2>1 DEF Counts, Noted
    <2>4. node[n].state = "failed" => node'[n] = node[n]
      <3>1. ASSUME node'[n] # node[n] PROVE node[n].state = "requested"
        BY <2>1, <3>1, PatchEffect DEF Counts, AdmitPatch, TypeInv, TypeOK
      <3> QED
        BY <3>1
    <2>5. CASE node[n].state = "failed"
      BY <1>0, <2>2, <2>3, <2>4, <2>5 DEF Pause, Busy
    <2>6. CASE node[n].state # "failed"
      BY <2>2, <2>3, <2>6 DEF Pause
    <2> QED
      BY <2>5, <2>6
  <1>3. CASE ~\E p \in Nodes : Counts(p, n)
    <2>1. past'[n].admitted = past[n].admitted
      <3>1. CASE HostDown(n) \/ NodeNotReady(n)
        BY <1>0, <3>1 DEF HostDown, NodeNotReady, Past, TypeInv, TypeOK
      <3>2. CASE IssuePatch(n)
        <4>1. \/ past'[n] = past[n]
              \/ past'[n] = Recorded(past[n], ready[n])
          BY <3>2 DEF IssuePatch, Record, TypeInv, TypeOK
        <4>2. ready[n] \in BOOLEAN
          BY DEF TypeInv, TypeOK
        <4> QED
          BY <1>0, <4>1, <4>2, RecordedEffect
      <3> QED
        BY <1>3, <3>1, <3>2, PastWriters
    <2>2. CASE node'[n].state = node[n].state
      <3>1. n \in Busy' <=> n \in Busy
        BY <2>2 DEF Busy
      <3> QED
        BY <1>1, <2>1, <2>2, <3>1 DEF Pause
    <2>3. CASE node'[n].state # node[n].state
      <3>1. StateMove(n)
        BY <2>3, StateWriters
      <3>2. ASSUME n \in Busy' PROVE past'[n].admitted = 0
        <4>1. CASE n \in Busy
          BY <2>1, <4>1 DEF Pause
        <4>2. CASE n \notin Busy
          <5>1. PICK p \in Nodes : Admits(p, n)
            BY <3>1, <3>2, <4>2 DEF StateMove, Busy
          <5>2. node'[n] # node[n]
            BY <2>3
          <5>3. Counts(p, n)
            <6>1. AdmitPatch(p) /\ pc'[p] = "idle"
              BY <5>1 DEF Admits
            <6>2. Noted(n, First(p).node)
              <7>1. node' # node
                BY <5>2
              <7> QED
                BY <6>1, <7>1, AdmitPatchNotes
            <6> QED
              BY <6>1, <6>2 DEF Counts
          <5> QED
            BY <1>3, <5>3
        <4> QED
          BY <4>1, <4>2
      <3>3. ASSUME PauseOnFailure, node'[n].state = "failed"
            PROVE  /\ past'[n].admitted = 0
                   /\ Admitting' # {} => MaxConcurrent > 1 /\ n \notin ControlPlane
        <4>1. n \in Busy
          BY <2>3, <3>1, <3>3 DEF StateMove, Busy
        <4>2. Admitting' # {} => Admitting # {}
          <5>1. ASSUME NEW p \in Nodes, AdmitList(p) PROVE FALSE
            BY <2>3, <5>1 DEF AdmitList, objVars
          <5> QED
            BY <5>1, PassWriters
        <4> QED
          BY <2>1, <4>1, <4>2, BusyBesideAdmitter DEF Pause
      <3> QED
        BY <3>2, <3>3 DEF Pause
    <2> QED
      BY <2>2, <2>3
  <1> QED
    BY <1>2, <1>3

\* docs/controller.md:198, on-failure = "pause": with one leader nobody is admitted
\* while a node is failed, but for the one admission of a pass that had looked
\* before, and that one only beside a worker and into a second slot.
THEOREM PauseHolds ==
    ASSUME MaxHandovers = 0
    PROVE  Spec => []PauseRespected
  <1>1. Init => PauseInv
    <2>1. ASSUME Init, NEW n \in Nodes PROVE Pause(n)
      BY <2>1, InitialNode DEF Pause, Busy
    <2> QED
      BY <2>1 DEF PauseInv
  <1>2. TypeInv /\ SlotInv /\ LeaderInv /\ ControlPlaneInv /\ PauseInv /\ [Next]_vars => PauseInv'
    <2> SUFFICES ASSUME TypeInv, SlotInv, LeaderInv, ControlPlaneInv, PauseInv, [Next]_vars
                 PROVE  PauseInv'
      OBVIOUS
    <2>1. CASE UNCHANGED vars
      BY <2>1 DEF PauseInv, Pause, Busy, Admitting, vars, objVars, podVars, histVars
    <2>2. CASE Next
      BY <2>2, PauseKept DEF PauseInv
    <2> QED
      BY <2>1, <2>2
  <1>3. PauseInv => PauseRespected
    BY DEF PauseInv, Pause, PauseRespected
  <1> QED
    BY <1>1, <1>2, <1>3, ControlPlaneInvInit, ControlPlaneInvNext, LeaderInvariant, SlotInvariant,
       TypeInvariant, PTL DEF Spec
-----------------------------------------------------------------------------
(***************************************************************************)
(* Evidence of an outage, under one leader.  While a pod still has to look *)
(* at a rebooting node it does not admit, so no new attempt begins that    *)
(* the view or the remembered NotReady could be mistaken for.              *)
(***************************************************************************)
\* A pod that is not in phase 1 has nothing left to do there.
ViewInv == \A p \in Nodes : pc[p] \notin {"pods", "manage"} => \A n \in Nodes : view[p][n].rule = "none"

LEMMA ViewInvariant == Spec => []ViewInv
  <1>1. Init => ViewInv
    BY NoViewRule DEF Init, ViewInv
  <1>2. TypeInv /\ ViewInv /\ [Next]_vars => ViewInv'
    <2> SUFFICES ASSUME TypeInv, ViewInv, [Next]_vars PROVE ViewInv'
      OBVIOUS
    <2>1. CASE UNCHANGED vars
      BY <2>1 DEF ViewInv, vars, podVars
    <2>2. CASE Next
      <3> SUFFICES ASSUME NEW p \in Nodes, pc'[p] \notin {"pods", "manage"}, NEW n \in Nodes
                   PROVE  view'[p][n].rule = "none"
        BY DEF ViewInv
      <3>1. CASE SawNothing(p)
        BY <3>1 DEF SawNothing
      <3>2. CASE ~SawNothing(p)
        <4>1. pc[p] \notin {"pods", "manage"}
          BY <2>2, <3>2, ViewWriters
        <4>2. ~Listed(p, n)
          <5>1. pc'[p] = pc[p] \/ PassFlow(p) \/ ExecutorFlow(p) \/ HostFlow(p)
            BY <2>2, PodFlow
          <5>2. ASSUME ListNodes(p) PROVE FALSE
            <6>1. pc' = [pc EXCEPT ![p] = IF \E m \in Nodes : ViewOf(m).rule \in {"drain", "watch"}
                                            THEN "pods" ELSE "manage"]
              BY <5>2 DEF ListNodes, Goto
            <6>2. pc'[p] \in {"pods", "manage"}
              BY <6>1 DEF TypeInv, TypeOK
            <6> QED
              BY <6>2
          <5> QED
            BY <5>2 DEF Listed
        <4>3. view'[p][n] = view[p][n] \/ view'[p][n] = NoView
          BY <2>2, <4>2, ViewWriters
        <4> QED
          BY <4>1, <4>3, NoViewRule DEF ViewInv
      <3> QED
        BY <3>1, <3>2
    <2> QED
      BY <2>1, <2>2
  <1> QED
    BY <1>1, <1>2, TypeInvariant, PTL DEF Spec

\* What a pod has still to do for a node rules out a new attempt there.
Rule(p, n) ==
    /\ view[p][n].rule = "watch" =>
          /\ node[n].state # "draining"
          /\ ~(node[n].state = "rebooting" /\ node[n].exec.kind = "absent")
    /\ view[p][n].rule = "uncordon" => node[n].state \notin {"draining", "rebooting"}

RuleInv == \A p, n \in Nodes : Rule(p, n)

LEMMA ViewOfRule ==
    ASSUME NEW n \in Nodes
    PROVE  /\ ViewOf(n).rule = "watch" =>
                 /\ node[n].state = "rebooting" /\ node[n].exec.kind = "ok"
                 /\ ViewOf(n).ready = ready[n] /\ ViewOf(n).issue = node[n].exec.issue
                 /\ ViewOf(n).confirmed = node[n].exec.confirmed
           /\ ViewOf(n).rule = "uncordon" =>
                 node[n].state \in {"completed", "failed"} /\ MayUncordon(node[n])
           /\ ViewOf(n).rule = "drain" <=> node[n].state = "draining"
  <1>1. CASE node[n].state = "draining"
    BY <1>1 DEF ViewOf, NoView
  <1>2. CASE node[n].state = "rebooting" /\ node[n].exec.kind = "ok"
    BY <1>2 DEF ViewOf, NoView
  <1>3. CASE node[n].state \in {"completed", "failed"} /\ MayUncordon(node[n])
    BY <1>3 DEF ViewOf, NoView
  <1>4. CASE /\ node[n].state # "draining"
             /\ ~(node[n].state = "rebooting" /\ node[n].exec.kind = "ok")
             /\ ~(node[n].state \in {"completed", "failed"} /\ MayUncordon(node[n]))
    BY <1>4 DEF ViewOf, NoView
  <1> QED
    BY <1>1, <1>2, <1>3, <1>4

\* Only dropping the annotations makes a node without reboot-exec.
LEMMA ExecAbsent ==
    ASSUME TypeInv, Next, NEW n \in Nodes,
           node'[n].state = "rebooting", node'[n].exec.kind = "absent"
    PROVE  node[n].state = "draining" \/ (node[n].state = "rebooting" /\ node[n].exec.kind = "absent")
  <1>0. node[n] \in Node
    BY DEF TypeInv, TypeOK
  <1>1. CASE node'[n].state # node[n].state
    BY <1>1, StateWriters DEF StateMove
  <1>2. CASE node'[n].state = node[n].state
    <2>1. CASE node'[n] = node[n]
      BY <2>1
    <2>2. CASE \E p \in Nodes : PassWrites(p, n)
      BY <1>0, <2>2
      DEF PassWrites, DrainFails, Drains, Completes, Uncordons, Blocks, Admits, ToFailedPatch,
          ToRebootingPatch, ToCompletedPatch, UncordonPatch, BlockedByPatch, ToDrainingPatch, Node
    <2>3. CASE FailsLocally(n) \/ Cordons(n) \/ Releases(n)
      <3>1. node'[n].exec = node[n].exec
        BY <1>0, <2>3 DEF FailsLocally, Cordons, Releases, ToFailedPatch, UncordonPatch, Node
      <3> QED
        BY <1>2, <3>1
    <2>4. CASE Requests_(n) \/ Clears(n)
      BY <1>0, <2>4 DEF Requests_, Clears, AdmissionPatch, ClearPatch, IdleNode, Node
    <2>5. CASE Corrupts(n)
      <3>1. [NoExec EXCEPT !.kind = "corrupt"].kind = "corrupt"
        BY DEF NoExec
      <3>2. \/ node'[n].exec = node[n].exec
            \/ node'[n].exec = [NoExec EXCEPT !.kind = "corrupt"]
        BY <1>0, <2>5 DEF Corrupts, Node
      <3> QED
        BY <1>2, <3>1, <3>2
    <2>6. CASE Records(n)
      BY <1>0, <2>6 DEF Records, IssuedExecPatch, Node
    <2>7. CASE Confirms(n)
      <3>1. node'[n].exec = [node[n].exec EXCEPT !.confirmed = TRUE] /\ node[n].exec \in Exec
        BY <1>0, <2>7 DEF Confirms, IssuedExecPatch, Node
      <3>2. node'[n].exec.kind = node[n].exec.kind
        BY <3>1 DEF Exec
      <3> QED
        BY <1>2, <3>2
    <2> QED
      BY <2>1, <2>2, <2>3, <2>4, <2>5, <2>6, <2>7, NodeWriters DEF OtherWrites
  <1> QED
    BY <1>1, <1>2

\* A node that a pass has still to manage is not admitted by anybody.
LEMMA ManagedNotAdmitted ==
    ASSUME TypeInv, LeaderInv, ViewInv, NEW p \in Nodes, NEW n \in Nodes,
           view[p][n].rule # "none", NEW q \in Nodes, NEW m \in Nodes, Admits(q, m)
    PROVE  FALSE
  BY DEF LeaderInv, ViewInv, Admits, AdmitPatch, PassSteps

LEMMA RuleInvNext == TypeInv /\ LeaderInv /\ ViewInv /\ RuleInv /\ [Next]_vars => RuleInv'
  <1> SUFFICES ASSUME TypeInv, LeaderInv, ViewInv, RuleInv, [Next]_vars,
                      NEW p \in Nodes, NEW n \in Nodes
               PROVE  Rule(p, n)'
    BY DEF RuleInv
  <1>0. Rule(p, n)
    BY DEF RuleInv
  <1>1. CASE UNCHANGED vars
    BY <1>0, <1>1 DEF Rule, vars, objVars, podVars
  <1>2. CASE Next
    <2>1. CASE Listed(p, n)
      <3>1. node' = node /\ view'[p][n] = ViewOf(n)
        BY <2>1 DEF Listed, ListNodes, objVars
      <3> QED
        BY <3>1, ViewOfRule DEF Rule
    <2>2. CASE view'[p][n] = NoView
      BY <2>2, NoViewRule DEF Rule
    <2>3. CASE view'[p][n] = view[p][n]
      <3>1. ASSUME view[p][n].rule = "watch"
            PROVE  /\ node'[n].state # "draining"
                   /\ ~(node'[n].state = "rebooting" /\ node'[n].exec.kind = "absent")
        <4>1. ASSUME node'[n].state = "draining" PROVE FALSE
          BY <1>0, <1>2, <3>1, <4>1, StateWriters, ManagedNotAdmitted DEF StateMove, Rule
        <4>2. ~(node'[n].state = "rebooting" /\ node'[n].exec.kind = "absent")
          BY <1>0, <1>2, <3>1, ExecAbsent DEF Rule
        <4> QED
          BY <4>1, <4>2
      <3>2. ASSUME view[p][n].rule = "uncordon", node'[n].state \in {"draining", "rebooting"}
            PROVE  FALSE
        BY <1>0, <1>2, <3>2, StateWriters, ManagedNotAdmitted DEF StateMove, Rule
      <3> QED
        BY <2>3, <3>1, <3>2 DEF Rule
    <2> QED
      BY <1>2, <2>1, <2>2, <2>3, ViewWriters
  <1> QED
    BY <1>1, <1>2

LEMMA RuleInvariant ==
    ASSUME MaxHandovers = 0
    PROVE  Spec => []RuleInv
  <1>1. Init => RuleInv
    BY NoViewRule DEF Init, RuleInv, Rule
  <1> QED
    BY <1>1, RuleInvNext, ViewInvariant, LeaderInvariant, TypeInvariant, PTL DEF Spec
\* The remembered NotReady of a node and the time of a cycle are times of its
\* records; the first is only written for a node seen not ready.
LEMMA MemoryWriters ==
    ASSUME TypeInv, Next, NEW p \in Nodes, NEW n \in Nodes
    PROVE  /\ \/ stamp'[p][n] = stamp[p][n] \/ stamp'[p][n] = 0
              \/ stamp'[p][n] = issues[n] /\ issues'[n] = issues[n]
           /\ \/ notReadyAt'[p][n] = notReadyAt[p][n] \/ notReadyAt'[p][n] = 0
              \/ /\ view[p][n].rule = "watch" /\ ~view[p][n].ready
                 /\ notReadyAt'[p][n] = stamp[p][n] /\ view'[p][n] = NoView
  <1>. DEFINE Goal == /\ \/ stamp'[p][n] = stamp[p][n] \/ stamp'[p][n] = 0
                         \/ stamp'[p][n] = issues[n] /\ issues'[n] = issues[n]
                      /\ \/ notReadyAt'[p][n] = notReadyAt[p][n] \/ notReadyAt'[p][n] = 0
                         \/ /\ view[p][n].rule = "watch" /\ ~view[p][n].ready
                            /\ notReadyAt'[p][n] = stamp[p][n] /\ view'[p][n] = NoView
  <1>1. PICK q \in Nodes :
            \/ Orchestrate(q) \/ AdmitBlocked(q) \/ PassFails(q)
            \/ \E m \in Nodes : ForceDeleteFailed(q, m)
            \/ Execute(q) \/ CommandFails(q) \/ PodCrash(q)
            \/ Environment(q)
    BY DEF Next
  <1>2. stamp' = stamp /\ notReadyAt' = notReadyAt => Goal
    OBVIOUS
  <1>3. ASSUME NEW m \in Nodes, Managed(q, m) PROVE stamp'[p][n] = stamp[p][n] \/ stamp'[p][n] = 0
    BY <1>3 DEF Managed, TypeInv, TypeOK
  <1>4. (\E m \in Nodes : Managed(q, m)) /\ notReadyAt' = notReadyAt => Goal
    BY <1>3
  <1>5. (\E s : Forget(q, s)) => Goal
    BY ForgetEffect
  <1>6. CASE ListPods(q)
    <2>1. stamp'[p][n] = stamp[p][n] \/ stamp'[p][n] = 0 \/ stamp'[p][n] = issues[n]
      BY <1>6 DEF ListPods, TypeInv, TypeOK
    <2>2. notReadyAt' = notReadyAt /\ issues' = issues
      BY <1>6 DEF ListPods, objVars
    <2> QED
      BY <2>1, <2>2
  <1>7. CASE \E m \in Nodes : ManageRebooting(q, m)
    <2>1. PICK m \in Nodes : ManageRebooting(q, m)
      BY <1>7
    <2>2. Managed(q, m)
      BY <2>1 DEF ManageRebooting
    <2>3. CASE UNCHANGED notReadyAt
      BY <1>4, <2>2, <2>3
    <2>4. CASE ~view[q][m].ready /\ notReadyAt' = [notReadyAt EXCEPT ![q][m] = stamp[q][m]]
      <3>1. notReadyAt'[p][n] = IF p = q /\ n = m THEN stamp[q][m] ELSE notReadyAt[p][n]
        BY <2>4 DEF TypeInv, TypeOK
      <3>2. view'[p][n] = IF p = q /\ n = m THEN NoView ELSE view[p][n]
        BY <2>2 DEF Managed, TypeInv, TypeOK
      <3>3. view[q][m].rule = "watch"
        BY <2>1 DEF ManageRebooting
      <3>4. stamp'[p][n] = stamp[p][n] \/ stamp'[p][n] = 0
        BY <1>3, <2>2
      <3>5. CASE p = q /\ n = m
        <4>1. notReadyAt'[p][n] = stamp[p][n] /\ view'[p][n] = NoView
          BY <3>1, <3>2, <3>5
        <4>2. view[p][n].rule = "watch" /\ ~view[p][n].ready
          BY <2>4, <3>3, <3>5
        <4> QED
          BY <3>4, <4>1, <4>2
      <3>6. CASE ~(p = q /\ n = m)
        <4>1. notReadyAt'[p][n] = notReadyAt[p][n]
          BY <3>1, <3>6
        <4> QED
          BY <3>4, <4>1
      <3> QED
        BY <3>5, <3>6
    <2> QED
      BY <2>1, <2>3, <2>4 DEF ManageRebooting
  <1>8. CASE Orchestrate(q) \/ AdmitBlocked(q) \/ PassFails(q) \/ \E m \in Nodes : ForceDeleteFailed(q, m)
    BY <1>2, <1>4, <1>6, <1>7, <1>8
    DEF Orchestrate, ListNodes, AdmitList, AdmitBlocked, AdmitVerify, AdmitPatch,
        AdmitNone, PassFails, ForceDeleteFailed, DrainTimedOut, DrainDone, DrainRound, Uncordon
  <1>9. CASE Execute(q) \/ CommandFails(q) \/ PodCrash(q)
    BY <1>2, <1>5, <1>9
    DEF Execute, LocalRead, IssuePatch, ConfirmPatch, LocalFailed, LocalAbort, CommandStarts,
        Panic, CommandFails, PodCrash
  <1>10. CASE Environment(q)
    BY <1>2, <1>5, <1>10
    DEF Environment, PostReboot, EnqueueUpdate, Request, DeleteReboot, Rearm, OperatorCordon,
        OperatorUncordon, OperatorCorrupts, DrainTimeout, GraceExpires, HostDown, HostBoot,
        CommandIgnored, NodeNotReady, NodeReady, PodGone, PodArrives, LeaseMoves, podVars
  <1> QED
    BY <1>1, <1>8, <1>9, <1>10

LEMMA ReadyWriters ==
    ASSUME TypeInv, Next, NEW n \in Nodes, ready[n], ~ready'[n]
    PROVE  NodeNotReady(n)
  <1>1. PICK q \in Nodes :
            \/ Orchestrate(q) \/ AdmitBlocked(q) \/ PassFails(q)
            \/ \E m \in Nodes : ForceDeleteFailed(q, m)
            \/ Execute(q) \/ CommandFails(q) \/ PodCrash(q)
            \/ Environment(q)
    BY DEF Next
  <1>2. CASE ready' = ready
    BY <1>2
  <1>3. CASE NodeNotReady(q) \/ NodeReady(q)
    <2>1. q = n /\ ~NodeReady(q)
      BY <1>3 DEF NodeNotReady, NodeReady, TypeInv, TypeOK
    <2> QED
      BY <1>3, <2>1
  <1>4. CASE Orchestrate(q) \/ AdmitBlocked(q) \/ PassFails(q) \/ \E m \in Nodes : ForceDeleteFailed(q, m)
    BY <1>2, <1>4
    DEF Orchestrate, ListNodes, ListPods, AdmitList, AdmitBlocked, AdmitVerify, AdmitPatch,
        AdmitNone, PassFails, ForceDeleteFailed, DrainTimedOut, DrainDone, DrainRound,
        ManageRebooting, Uncordon, objVars
  <1>5. CASE Execute(q) \/ CommandFails(q) \/ PodCrash(q)
    BY <1>2, <1>5
    DEF Execute, LocalRead, IssuePatch, Record, ConfirmPatch, LocalFailed, LocalAbort,
        CommandStarts, Panic, CommandFails, PodCrash, objVars
  <1>6. CASE Environment(q)
    BY <1>2, <1>3, <1>6
    DEF Environment, PostReboot, EnqueueUpdate, Request, DeleteReboot, Rearm, OperatorCordon,
        OperatorUncordon, OperatorCorrupts, DrainTimeout, GraceExpires, HostDown, HostBoot,
        CommandIgnored, PodGone, PodArrives, LeaseMoves, objVars
  <1> QED
    BY <1>1, <1>4, <1>5, <1>6

\* The first attempt forgets what was, unless the node is not ready right now.
StartsAttempt(n) ==
    /\ IssuePatch(n) /\ pc[n] = "issue" /\ IssueGuard(n) /\ Record(n, 1)
    /\ past'[n].outage = ~ready[n]

LEMMA OutageWriters ==
    ASSUME TypeInv, Next, NEW n \in Nodes
    PROVE  /\ past'[n].outage = past[n].outage \/ past'[n].outage = TRUE \/ StartsAttempt(n)
           /\ HostDown(n) \/ NodeNotReady(n) => past'[n].outage = TRUE
  <1>0. past[n] \in Past
    BY ObjectTypes
  <1>1. ASSUME HostDown(n) PROVE past'[n].outage = TRUE
    <2>1. past'[n] = [past[n] EXCEPT !.outage = TRUE,
                                     !.reboots = @ + (IF command[n] THEN 1 ELSE 0)]
      BY <1>1 DEF HostDown, TypeInv, TypeOK
    <2> QED
      BY <1>0, <2>1 DEF Past
  <1>2. ASSUME NodeNotReady(n) PROVE past'[n].outage = TRUE
    BY <1>0, <1>2 DEF NodeNotReady, TypeInv, TypeOK, Past
  <1>3. ASSUME IssuePatch(n) PROVE past'[n].outage = past[n].outage \/ StartsAttempt(n)
    <2>1. CASE pc[n] = "issue" /\ IssueGuard(n) /\ Record(n, 1)
      <3>1. past'[n] = Recorded(past[n], ready[n]) /\ ready[n] \in BOOLEAN
        BY <2>1 DEF Record, TypeInv, TypeOK
      <3>2. past'[n].outage = ~ready[n]
        BY <1>0, <3>1, RecordedEffect
      <3> QED
        BY <1>3, <2>1, <3>2 DEF StartsAttempt
    <2>2. CASE Record(n, 2)
      BY <2>2 DEF Record, TypeInv, TypeOK
    <2> QED
      BY <1>3, <2>1, <2>2 DEF IssuePatch
  <1>4. ASSUME NEW p \in Nodes, Counts(p, n) PROVE past'[n].outage = past[n].outage
    BY <1>4 DEF Counts, Noted
  <1> QED
    BY <1>1, <1>2, <1>3, <1>4, PastWriters
\* Only the leader's pass completes a node.
LEMMA CompletionWriters ==
    ASSUME TypeInv, Next, NEW n \in Nodes, node'[n].state = "completed", node[n].state # "completed"
    PROVE  \E p \in Nodes : Completes(p, n)
  <1>0. node[n] \in Node
    BY DEF TypeInv, TypeOK
  <1>1. (\E p \in Nodes : PassWrites(p, n)) \/ OtherWrites(n)
    BY NodeWriters
  <1>2. node[n].state = "rebooting"
    BY <1>0, StateWriters DEF StateMove
  <1>3. CASE \E p \in Nodes : DrainFails(p, n) \/ Drains(p, n) \/ Blocks(p, n) \/ Admits(p, n)
    BY <1>2, <1>3 DEF DrainFails, Drains, Blocks, Admits
  <1>4. CASE (\E p \in Nodes : Uncordons(p, n)) \/ Releases(n) \/ Cordons(n)
    BY <1>0, <1>4 DEF Uncordons, Releases, Cordons, UncordonPatch, Node
  <1>5. CASE Records(n) \/ Confirms(n)
    <2>1. \E e : node'[n] = IssuedExecPatch(node[n], e)
      BY <1>5 DEF Records, Confirms
    <2> QED
      BY <1>0, <2>1 DEF IssuedExecPatch, Node
  <1>6. CASE FailsLocally(n)
    BY <1>0, <1>6 DEF FailsLocally, ToFailedPatch, Node
  <1>7. CASE Requests_(n) \/ Clears(n)
    BY <1>0, <1>7 DEF Requests_, Clears, AdmissionPatch, ClearPatch, IdleNode, Node
  <1>8. CASE Corrupts(n)
    BY <1>0, <1>8 DEF Corrupts, Node
  <1> QED
    BY <1>1, <1>3, <1>4, <1>5, <1>6, <1>7, <1>8 DEF PassWrites, OtherWrites

\* What the leader p knows of n holds no outage that there was not.
Sight(p, n) ==
    /\ stamp[p][n] <= issues[n] /\ notReadyAt[p][n] <= issues[n]
    /\ node[n].exec.kind = "ok" /\ ~past[n].outage => notReadyAt[p][n] < node[n].exec.issue
    /\ view[p][n].rule = "watch" /\ ~past[n].outage => view[p][n].ready /\ ~Evidence(p, n)

\* While there was no outage since the attempt began, the node is up, has the boot
\* ID of the record, and nobody has confirmed or is about to.
Outage(n) ==
    /\ ~past[n].outage => ready[n] /\ pc[n] # "down"
    /\ pc[n] = "confirm" => past[n].outage
    /\ node[n].exec.kind = "ok" /\ ~past[n].outage =>
          BootUnchanged(n) /\ ~node[n].exec.confirmed
    /\ node[n].state = "completed" => past[n].outage

OutageInv == \A n \in Nodes : Outage(n) /\ \A p \in Nodes : Sight(p, n)

\* A new record, of the first attempt or the second.
LEMMA RecordEffect ==
    ASSUME TypeInv, NEW n \in Nodes, NEW k \in {1, 2}, Record(n, k)
    PROVE  /\ node'[n].exec = [kind |-> "ok", boot |-> boot[n], attempt |-> k,
                               issue |-> issues[n] + 1, confirmed |-> FALSE]
           /\ node'[n].state = node[n].state
           /\ issues'[n] = issues[n] + 1
           /\ ready' = ready
           /\ past'[n].outage = IF k = 1 THEN ~ready[n] ELSE past[n].outage
  <1>. DEFINE e == [kind |-> "ok", boot |-> boot[n], attempt |-> k,
                    issue |-> issues[n] + 1, confirmed |-> FALSE]
  <1>1. node[n] \in Node /\ past[n] \in Past
    BY ObjectTypes
  <1>2. node'[n] = IssuedExecPatch(node[n], e)
    BY DEF Record, Patch, TypeInv, TypeOK
  <1>3. node'[n].exec = e /\ node'[n].state = node[n].state
    <2> HIDE DEF e
    <2> QED
      BY <1>1, <1>2 DEF IssuedExecPatch, Node
  <1>4. past'[n] = (IF k = 1 THEN Recorded(past[n], ready[n]) ELSE past[n]) /\ ready[n] \in BOOLEAN
    BY DEF Record, TypeInv, TypeOK
  <1>5. past'[n].outage = IF k = 1 THEN ~ready[n] ELSE past[n].outage
    BY <1>1, <1>4, RecordedEffect
  <1>6. issues'[n] = issues[n] + 1 /\ ready' = ready
    BY DEF Record, TypeInv, TypeOK
  <1> QED
    BY <1>3, <1>5, <1>6
\* The steps at which an attempt begins, or goes on.
LEMMA OutageAtRecord ==
    ASSUME TypeInv, RuleInv, OutageInv, Next, NEW n \in Nodes, IssuePatch(n)
    PROVE  Outage(n)' /\ \A p \in Nodes : Sight(p, n)'
  <1>. DEFINE e(k) == [kind |-> "ok", boot |-> boot[n], attempt |-> k,
                       issue |-> issues[n] + 1, confirmed |-> FALSE]
  <1>1. PICK k \in {1, 2} :
            /\ Record(n, k)
            /\ k = 1 => IssueGuard(n)
            /\ k = 2 => ReissueGuard(n)
    BY DEF IssuePatch
  <1>2. /\ node'[n].exec = e(k) /\ node'[n].state = node[n].state
        /\ issues'[n] = issues[n] + 1 /\ ready' = ready
        /\ past'[n].outage = IF k = 1 THEN ~ready[n] ELSE past[n].outage
    BY <1>1, RecordEffect
  <1>3. boot' = boot /\ view' = view /\ stamp' = stamp /\ notReadyAt' = notReadyAt
    BY DEF IssuePatch, hostVars
  <1>4. pc'[n] \in {"command", "idle"}
    BY GotoEffect DEF IssuePatch
  <1>5. node[n].state = "rebooting" /\ (k = 1 => node[n].exec.kind = "absent")
    BY <1>1 DEF IssueGuard, ReissueGuard
  <1>6. ~past'[n].outage => ready[n] /\ (k = 2 => ~past[n].outage)
    <2>1. CASE k = 1
      <3>1. Record(n, 1)
        BY <1>1, <2>1
      <3>2. past'[n] = Recorded(past[n], ready[n]) /\ past[n] \in Past /\ ready[n] \in BOOLEAN
        BY <3>1, ObjectTypes DEF Record, TypeInv, TypeOK
      <3>3. past'[n].outage = ~ready[n]
        BY <3>2, RecordedEffect
      <3>4. ~past'[n].outage => ready[n]
        BY <3>3, Zenon
      <3> QED
        BY <2>1, <3>4
    <2>2. CASE k = 2
      <3>1. past'[n].outage = past[n].outage
        BY <1>2, <2>2
      <3> QED
        BY <3>1 DEF OutageInv, Outage
    <2> QED
      BY <2>1, <2>2
  <1>7. Outage(n)'
    BY <1>2, <1>3, <1>4, <1>5, <1>6 DEF Outage, BootUnchanged
  <1>8. ASSUME NEW p \in Nodes PROVE Sight(p, n)'
    <2>0. stamp[p][n] <= issues[n] /\ notReadyAt[p][n] <= issues[n]
      BY DEF OutageInv, Sight
    <2>1. stamp[p][n] \in Nat /\ notReadyAt[p][n] \in Nat /\ issues[n] \in Nat
      BY DEF TypeInv, TypeOK
    <2>2. k = 1 => view[p][n].rule # "watch"
      BY <1>5 DEF RuleInv, Rule
    <2>3. view[p][n].rule = "watch" /\ ~past'[n].outage => view[p][n].ready /\ ~Evidence(p, n)
      BY <1>6, <2>2 DEF OutageInv, Sight
    <2>4. Evidence(p, n)' <=> Evidence(p, n)
      BY <1>3 DEF Evidence
    <2> QED
      BY <1>2, <1>3, <2>0, <2>1, <2>3, <2>4 DEF Sight
  <1> QED
    BY <1>7, <1>8

\* Every other step keeps the outage or brings one.
LEMMA OutageElsewhere ==
    ASSUME TypeInv, OutageInv, Next, NEW n \in Nodes, ~IssuePatch(n)
    PROVE  Outage(n)' /\ \A p \in Nodes : Sight(p, n)'
  <1>1. Outage(n) /\ \A p \in Nodes : Sight(p, n)
    BY DEF OutageInv
  <1>2. issues'[n] = issues[n] /\ (boot'[n] = boot[n] \/ HostBoot(n))
    BY HostWriters
  <1>3. /\ past'[n].outage = past[n].outage \/ past'[n].outage = TRUE
        /\ HostDown(n) \/ NodeNotReady(n) => past'[n].outage = TRUE
    BY OutageWriters DEF StartsAttempt
  <1>4. node'[n].exec = node[n].exec \/ node'[n].exec.kind # "ok" \/ Confirms(n)
    BY ExecWriters DEF Records
  <1>5. ~past'[n].outage => ~past[n].outage
    BY <1>3
  <1>6. ~past'[n].outage => ready'[n] /\ pc'[n] # "down"
    <2> SUFFICES ASSUME ~past'[n].outage PROVE ready'[n] /\ pc'[n] # "down"
      OBVIOUS
    <2>1. ready[n] /\ pc[n] # "down" /\ ~HostDown(n) /\ ~NodeNotReady(n)
      BY <1>1, <1>3, <1>5 DEF Outage
    <2>2. pc'[n] # "down"
      BY <2>1, PodFlow DEF PassFlow, ExecutorFlow, HostFlow
    <2> QED
      BY <2>1, <2>2, ReadyWriters
  <1>7. ASSUME pc'[n] = "confirm" PROVE past'[n].outage
    <2>1. CASE pc[n] = "confirm"
      BY <1>1, <1>5, <2>1 DEF Outage
    <2>2. CASE LocalRead(n)
      <3>1. \A s : Goto(n, s) => s = "confirm"
        BY <1>7, GotoEffect
      <3>2. node[n].exec.kind = "ok" /\ ~BootUnchanged(n)
        BY <2>2, <3>1 DEF LocalRead
      <3> QED
        BY <1>1, <1>5, <3>2 DEF Outage
    <2> QED
      BY <1>7, <2>1, <2>2, PodFlow DEF PassFlow, ExecutorFlow, HostFlow
  <1>8. ASSUME node'[n].exec.kind = "ok", ~past'[n].outage
        PROVE  /\ node'[n].exec = node[n].exec /\ boot'[n] = boot[n]
               /\ BootUnchanged(n) /\ ~node[n].exec.confirmed /\ node[n].exec.kind = "ok"
    <2>1. ~past[n].outage /\ pc[n] # "down" /\ pc[n] # "confirm"
      BY <1>1, <1>5, <1>8 DEF Outage
    <2>2. ~Confirms(n) /\ ~HostBoot(n)
      BY <2>1 DEF Confirms, ConfirmPatch, HostBoot
    <2>3. node'[n].exec = node[n].exec /\ boot'[n] = boot[n]
      BY <1>2, <1>4, <1>8, <2>2
    <2> QED
      BY <1>1, <1>8, <2>1, <2>3 DEF Outage
  <1>9. ASSUME node'[n].state = "completed" PROVE past'[n].outage
    <2>1. CASE node[n].state = "completed"
      BY <1>1, <1>5, <2>1 DEF Outage
    <2>2. CASE node[n].state # "completed"
      <3>1. PICK p \in Nodes : Completes(p, n)
        BY <1>9, <2>2, CompletionWriters
      <3>2. view[p][n].rule = "watch" /\ Evidence(p, n)
        BY <3>1 DEF Completes, ManageRebooting
      <3> QED
        BY <1>1, <1>5, <3>2 DEF Sight
    <2> QED
      BY <2>1, <2>2
  <1>10. Outage(n)'
    BY <1>6, <1>7, <1>8, <1>9 DEF Outage, BootUnchanged
  <1>11. ASSUME NEW p \in Nodes PROVE Sight(p, n)'
    <2>0. /\ stamp[p][n] \in Nat /\ notReadyAt[p][n] \in Nat /\ issues[n] \in Nat
          /\ node[n].exec.issue \in Nat /\ Sight(p, n)
      BY <1>1, ObjectTypes DEF TypeInv, TypeOK
    <2>1. /\ stamp'[p][n] = stamp[p][n] \/ stamp'[p][n] = 0 \/ stamp'[p][n] = issues[n]
          /\ \/ notReadyAt'[p][n] = notReadyAt[p][n] \/ notReadyAt'[p][n] = 0
             \/ /\ view[p][n].rule = "watch" /\ ~view[p][n].ready
                /\ notReadyAt'[p][n] = stamp[p][n] /\ view'[p][n] = NoView
      BY MemoryWriters
    <2>2. stamp'[p][n] <= issues'[n] /\ notReadyAt'[p][n] <= issues'[n]
      BY <1>2, <2>0, <2>1 DEF Sight
    <2>3. ~past'[n].outage =>
              \/ notReadyAt'[p][n] = notReadyAt[p][n] \/ notReadyAt'[p][n] = 0
      BY <1>5, <2>0, <2>1 DEF Sight
    <2>4. node'[n].exec.kind = "ok" /\ ~past'[n].outage => notReadyAt'[p][n] < node'[n].exec.issue
      BY <1>5, <1>8, <2>0, <2>3 DEF Sight
    <2>5. ASSUME view'[p][n].rule = "watch", ~past'[n].outage
          PROVE  view'[p][n].ready /\ ~Evidence(p, n)'
      <3>1. CASE view'[p][n] = view[p][n]
        <4>1. view[p][n].ready /\ ~view[p][n].confirmed /\ ~(notReadyAt[p][n] >= view[p][n].issue)
          BY <1>5, <2>0, <2>5, <3>1 DEF Sight, Evidence
        <4>2. view[p][n].issue \in Nat
          BY DEF TypeInv, TypeOK, View
        <4>3. ~(notReadyAt'[p][n] >= view[p][n].issue)
          BY <2>0, <2>3, <2>5, <4>1, <4>2
        <4> QED
          BY <3>1, <4>1, <4>3 DEF Evidence
      <3>2. CASE view'[p][n] = NoView
        BY <2>5, <3>2, NoViewRule
      <3>3. CASE Listed(p, n)
        <4>1. /\ view'[p][n] = ViewOf(n) /\ notReadyAt' = notReadyAt
              /\ node' = node
          BY <3>3 DEF Listed, ListNodes, objVars
        <4>2. /\ node[n].exec.kind = "ok" /\ ViewOf(n).ready = ready[n]
              /\ ViewOf(n).issue = node[n].exec.issue
              /\ ViewOf(n).confirmed = node[n].exec.confirmed
          BY <2>5, <4>1, ViewOfRule
        <4>3. ready[n] /\ ~node[n].exec.confirmed /\ notReadyAt[p][n] < node[n].exec.issue
          BY <1>1, <1>5, <2>0, <2>5, <4>2 DEF Outage, Sight
        <4> QED
          BY <2>0, <4>1, <4>2, <4>3 DEF Evidence
      <3> QED
        BY <3>1, <3>2, <3>3, ViewWriters
    <2> QED
      BY <2>2, <2>4, <2>5 DEF Sight
  <1> QED
    BY <1>10, <1>11

\* With one pod leading, a node is completed only on the evidence of an outage since
\* its reboot was recorded (manageRebooting: a boot ID confirmed by the executor, or a
\* NotReady seen after issuedAt): never on what was seen of an earlier attempt.
THEOREM CompletedAfterOutage ==
    ASSUME MaxHandovers = 0
    PROVE  Spec => []CompletedMeansOutage
  <1>1. Init => OutageInv
    <2> SUFFICES ASSUME Init, NEW n \in Nodes, NEW p \in Nodes PROVE Outage(n) /\ Sight(p, n)
      BY NodesAssumption DEF OutageInv
    <2>1. node[n].state = "absent" /\ node[n].exec = NoExec
      BY InitialNode
    <2>2. /\ ready[n] /\ pc[n] = "idle" /\ issues[n] = 0 /\ view[p][n] = NoView
          /\ stamp[p][n] = 0 /\ notReadyAt[p][n] = 0
      BY DEF Init
    <2> QED
      BY <2>1, <2>2, NoViewRule, NoExecType DEF Outage, Sight
  <1>2. TypeInv /\ RuleInv /\ OutageInv /\ [Next]_vars => OutageInv'
    <2> SUFFICES ASSUME TypeInv, RuleInv, OutageInv, [Next]_vars, NEW n \in Nodes
                 PROVE  Outage(n)' /\ \A p \in Nodes : Sight(p, n)'
      BY DEF OutageInv
    <2>1. CASE UNCHANGED vars
      BY <2>1 DEF OutageInv, Outage, Sight, Evidence, BootUnchanged, vars, objVars, podVars,
                  hostVars, histVars
    <2>2. CASE Next
      BY <2>2, OutageAtRecord, OutageElsewhere
    <2> QED
      BY <2>1, <2>2
  <1>3. OutageInv => CompletedMeansOutage
    BY DEF OutageInv, Outage, CompletedMeansOutage
  <1> QED
    BY <1>1, <1>2, <1>3, RuleInvariant, TypeInvariant, PTL DEF Spec
-----------------------------------------------------------------------------
(***************************************************************************)
(* The drain, under one leader: no pod is missed, none comes back.         *)
(***************************************************************************)
\* Who uncordons a node.
LEMMA UncordonWriters ==
    ASSUME TypeInv, Next, NEW n \in Nodes, node[n].unsched, ~node'[n].unsched
    PROVE  \/ \E p \in Nodes : Uncordons(p, n)
           \/ Releases(n)
           \/ /\ Clears(n) /\ CordonedPrevKnownAbsent(node[n])
              /\ node[n].state \in {"rebooting", "completed", "failed"}
              /\ node'[n] = ClearPatch(node[n], TRUE)
  <1>0. node[n] \in Node
    BY DEF TypeInv, TypeOK
  <1>1. (\E p \in Nodes : PassWrites(p, n)) \/ OtherWrites(n)
    BY NodeWriters
  <1>2. CASE \E p \in Nodes : DrainFails(p, n) \/ Drains(p, n) \/ Completes(p, n) \/ Blocks(p, n)
    BY <1>0, <1>2
    DEF DrainFails, Drains, Completes, Blocks, ToFailedPatch, ToRebootingPatch, ToCompletedPatch,
        BlockedByPatch, Node
  <1>3. CASE \E p \in Nodes : Admits(p, n)
    BY <1>0, <1>3 DEF Admits, ToDrainingPatch, Node
  <1>4. CASE Records(n) \/ Confirms(n)
    <2>1. \E e : node'[n] = IssuedExecPatch(node[n], e)
      BY <1>4 DEF Records, Confirms
    <2> QED
      BY <1>0, <2>1 DEF IssuedExecPatch, Node
  <1>5. CASE FailsLocally(n) \/ Cordons(n)
    BY <1>0, <1>5 DEF FailsLocally, Cordons, ToFailedPatch, Node
  <1>6. CASE Requests_(n)
    BY <1>0, <1>6 DEF Requests_, AdmissionPatch, Node
  <1>7. CASE Clears(n)
    <2>1. ClearPatch(node[n], FALSE).unsched = (node[n].unsched /\ ~FALSE)
      BY DEF ClearPatch, IdleNode
    <2> QED
      BY <1>7, <2>1 DEF Clears
  <1>8. CASE Corrupts(n)
    BY <1>0, <1>8 DEF Corrupts, Node
  <1> QED
    BY <1>1, <1>2, <1>3, <1>4, <1>5, <1>6, <1>7, <1>8 DEF PassWrites, OtherWrites

\* Only the leader's drain makes a node reboot.
LEMMA RebootingWriters ==
    ASSUME TypeInv, Next, NEW n \in Nodes, node'[n].state = "rebooting", node[n].state # "rebooting"
    PROVE  \E p \in Nodes : Drains(p, n)
  <1>0. node[n] \in Node
    BY DEF TypeInv, TypeOK
  <1>1. (\E p \in Nodes : PassWrites(p, n)) \/ OtherWrites(n)
    BY NodeWriters
  <1>2. node[n].state = "draining"
    BY StateWriters DEF StateMove
  <1>3. CASE \E p \in Nodes : DrainFails(p, n) \/ Completes(p, n) \/ Blocks(p, n) \/ Admits(p, n)
    BY <1>0, <1>2, <1>3 DEF DrainFails, ToFailedPatch, Completes, Blocks, Admits, Node
  <1>4. CASE (\E p \in Nodes : Uncordons(p, n)) \/ Releases(n) \/ Cordons(n)
    BY <1>0, <1>2, <1>4 DEF Uncordons, Releases, Cordons, UncordonPatch, Node
  <1>5. CASE Records(n) \/ FailsLocally(n) \/ Requests_(n) \/ Clears(n)
    BY <1>2, <1>5 DEF Records, FailsLocally, Requests_, ReRequestable, Clears
  <1>6. CASE Confirms(n)
    BY <1>2, <1>6 DEF Confirms, ConfirmPatch, ConfirmGuard
  <1>7. CASE Corrupts(n)
    BY <1>0, <1>2, <1>7 DEF Corrupts, Node
  <1> QED
    BY <1>1, <1>3, <1>4, <1>5, <1>6, <1>7 DEF PassWrites, OtherWrites

\* Pods on their way out, or gone.
Drained == {"none", "terminating"}

LEMMA WorkloadWriters ==
    ASSUME TypeInv, Next, NEW n \in Nodes
    PROVE  workload'[n] = workload[n] \/ workload'[n] \in Drained \/ PodArrives(n)
  <1>1. PICK q \in Nodes :
            \/ Orchestrate(q) \/ AdmitBlocked(q) \/ PassFails(q)
            \/ \E m \in Nodes : ForceDeleteFailed(q, m)
            \/ Execute(q) \/ CommandFails(q) \/ PodCrash(q)
            \/ Environment(q)
    BY DEF Next
  <1>2. CASE workload' = workload
    BY <1>2
  <1>3. CASE \E m \in Nodes : DrainRound(q, m) \/ ForceDeleteFailed(q, m)
    <2>1. PICK m \in Nodes : DrainRound(q, m) \/ ForceDeleteFailed(q, m)
      BY <1>3
    <2>2. workload' = workload \/ workload' = [workload EXCEPT ![m] = "terminating"]
      BY <2>1 DEF DrainRound, ForceDeleteFailed
    <2> QED
      BY <2>2 DEF Drained, TypeInv, TypeOK
  <1>4. CASE PodGone(q) \/ PodArrives(q)
    <2>1. CASE q = n
      BY <1>4, <2>1 DEF PodGone, Drained, TypeInv, TypeOK
    <2>2. CASE q # n
      BY <1>4, <2>2 DEF PodGone, PodArrives, TypeInv, TypeOK
    <2> QED
      BY <2>1, <2>2
  <1>5. CASE Orchestrate(q) \/ AdmitBlocked(q) \/ PassFails(q) \/ \E m \in Nodes : ForceDeleteFailed(q, m)
    BY <1>2, <1>3, <1>5
    DEF Orchestrate, ListNodes, ListPods, AdmitList, AdmitBlocked, AdmitVerify, AdmitPatch,
        AdmitNone, PassFails, DrainTimedOut, DrainDone, ManageRebooting, Uncordon, hostVars
  <1>6. CASE Execute(q) \/ CommandFails(q) \/ PodCrash(q)
    BY <1>2, <1>6
    DEF Execute, LocalRead, IssuePatch, ConfirmPatch, LocalFailed, LocalAbort,
        CommandStarts, Panic, CommandFails, PodCrash, hostVars
  <1>7. CASE Environment(q)
    BY <1>2, <1>4, <1>7
    DEF Environment, PostReboot, EnqueueUpdate, Request, DeleteReboot, Rearm, OperatorCordon,
        OperatorUncordon, OperatorCorrupts, DrainTimeout, GraceExpires, HostDown, HostBoot,
        CommandIgnored, NodeNotReady, NodeReady, LeaseMoves, hostVars
  <1> QED
    BY <1>1, <1>5, <1>6, <1>7

\* The pods of a node are forgotten only with the rest of what is to do for it.
LEMMA PodsWriters ==
    ASSUME TypeInv, Next, NEW p \in Nodes, NEW n \in Nodes, n \in podsSeen[p], n \notin podsSeen'[p]
    PROVE  ListPods(p) \/ view'[p][n] = NoView
  <1>1. PICK q \in Nodes :
            \/ Orchestrate(q) \/ AdmitBlocked(q) \/ PassFails(q)
            \/ \E m \in Nodes : ForceDeleteFailed(q, m)
            \/ Execute(q) \/ CommandFails(q) \/ PodCrash(q)
            \/ Environment(q)
    BY DEF Next
  <1>2. CASE podsSeen' = podsSeen
    BY <1>2
  <1>3. CASE \E m \in Nodes : Managed(q, m)
    <2>1. PICK m \in Nodes : Managed(q, m)
      BY <1>3
    <2>2. p = q /\ n = m
      BY <2>1 DEF Managed, TypeInv, TypeOK
    <2> QED
      BY <2>1, <2>2 DEF Managed, TypeInv, TypeOK
  <1>4. CASE \E s : Forget(q, s)
    <2>1. p = q
      BY <1>4 DEF Forget, TypeInv, TypeOK
    <2> QED
      BY <1>4, <2>1, ForgetEffect
  <1>5. CASE ListPods(q)
    <2>1. p = q
      BY <1>5 DEF ListPods, TypeInv, TypeOK
    <2> QED
      BY <1>5, <2>1
  <1>6. CASE Orchestrate(q) \/ AdmitBlocked(q) \/ PassFails(q) \/ \E m \in Nodes : ForceDeleteFailed(q, m)
    BY <1>2, <1>3, <1>5, <1>6
    DEF Orchestrate, ListNodes, AdmitList, AdmitBlocked, AdmitVerify, AdmitPatch,
        AdmitNone, PassFails, ForceDeleteFailed, DrainTimedOut, DrainDone, DrainRound,
        ManageRebooting, Uncordon
  <1>7. CASE Execute(q) \/ CommandFails(q) \/ PodCrash(q)
    BY <1>2, <1>4, <1>7
    DEF Execute, LocalRead, IssuePatch, ConfirmPatch, LocalFailed, LocalAbort,
        CommandStarts, Panic, CommandFails, PodCrash
  <1>8. CASE Environment(q)
    BY <1>2, <1>4, <1>8
    DEF Environment, PostReboot, EnqueueUpdate, Request, DeleteReboot, Rearm, OperatorCordon,
        OperatorUncordon, OperatorCorrupts, DrainTimeout, GraceExpires, HostDown, HostBoot,
        CommandIgnored, NodeNotReady, NodeReady, PodGone, PodArrives, LeaseMoves, podVars
  <1> QED
    BY <1>1, <1>6, <1>7, <1>8
\* A node in flight is cordoned, so no pod comes; and a pod list that shows a
\* draining node empty stays true until the leader acts on it.
Drain(n) ==
    /\ n \in Busy => node[n].unsched
    /\ node[n].state = "rebooting" => workload[n] \in Drained
    /\ \A p \in Nodes :
          /\ pc[p] = "manage" /\ view[p][n].rule = "drain" /\ n \notin podsSeen[p]
          /\ node[n].state = "draining"
          => workload[n] \in Drained

DrainInv == \A n \in Nodes : Drain(n)

\* The leader does not uncordon a node in flight; the operator does if
\* CordonStates lets him.
LEMMA BusyCordoned ==
    ASSUME CordonStates \cap {"draining", "rebooting"} = {},
           TypeInv, RuleInv, Next, NEW n \in Nodes, n \in Busy => node[n].unsched, n \in Busy'
    PROVE  node'[n].unsched
  <1>0. node[n] \in Node /\ node'[n].state \in {"draining", "rebooting"}
    BY DEF TypeInv, TypeOK, Busy
  <1>1. CASE n \in Busy
    <2> SUFFICES ASSUME ~node'[n].unsched PROVE FALSE
      OBVIOUS
    <2>1. node[n].unsched /\ node[n].state \in {"draining", "rebooting"}
      BY <1>1 DEF Busy
    <2>2. CASE \E p \in Nodes : Uncordons(p, n)
      BY <2>1, <2>2 DEF Uncordons, Uncordon, RuleInv, Rule
    <2>3. CASE Releases(n)
      BY <2>1, <2>3 DEF Releases, OperatorUncordon
    <2>4. CASE node'[n] = ClearPatch(node[n], TRUE)
      BY <1>0, <2>4 DEF ClearPatch, IdleNode
    <2> QED
      BY <2>1, <2>2, <2>3, <2>4, UncordonWriters
  <1>2. CASE n \notin Busy
    <2>1. node[n].state \notin {"draining", "rebooting"}
      BY <1>2 DEF Busy
    <2>2. PICK p \in Nodes : Admits(p, n)
      BY <1>0, <2>1, StateWriters DEF StateMove
    <2> QED
      BY <1>0, <2>2 DEF Admits, ToDrainingPatch, Node
  <1> QED
    BY <1>1, <1>2

LEMMA DrainKept ==
    ASSUME CordonStates \cap {"draining", "rebooting"} = {},
           TypeInv, LeaderInv, ViewInv, RuleInv, DrainInv, Next, NEW n \in Nodes
    PROVE  Drain(n)'
  <1>0. Drain(n)
    BY DEF DrainInv
  <1>1. n \in Busy' => node'[n].unsched
    BY <1>0, BusyCordoned DEF Drain
  <1>2. ASSUME n \in Busy, workload[n] \in Drained PROVE workload'[n] \in Drained
    BY <1>0, <1>2, WorkloadWriters DEF Drain, PodArrives
  <1>3. ASSUME node'[n].state = "rebooting" PROVE workload'[n] \in Drained
    <2>1. CASE node[n].state = "rebooting"
      BY <1>0, <1>2, <2>1 DEF Drain, Busy
    <2>2. CASE node[n].state # "rebooting"
      <3>1. PICK p \in Nodes : Drains(p, n)
        BY <1>3, <2>2, RebootingWriters
      <3>2. /\ pc[p] = "manage" /\ view[p][n].rule = "drain" /\ n \notin podsSeen[p]
            /\ node[n].state = "draining"
        BY <3>1 DEF Drains, DrainDone
      <3> QED
        BY <1>0, <1>2, <3>2 DEF Drain, Busy
    <2> QED
      BY <2>1, <2>2
  <1>4. ASSUME NEW p \in Nodes, pc'[p] = "manage", view'[p][n].rule = "drain",
               n \notin podsSeen'[p], node'[n].state = "draining"
        PROVE  workload'[n] \in Drained
    <2>1. CASE ListPods(p)
      <3>1. view'[p] = view[p] /\ workload' = workload
            /\ podsSeen'[p] = {m \in Nodes : view[p][m].rule = "drain" /\ Evictable(m)}
        BY <2>1 DEF ListPods, hostVars, TypeInv, TypeOK
      <3>2. ~Evictable(n) /\ workload[n] \in {"none", "managed", "orphan", "terminating"}
        BY <1>4, <3>1 DEF TypeInv, TypeOK
      <3> QED
        BY <3>1, <3>2 DEF Evictable, Drained
    <2>2. CASE ListNodes(p)
      <3>1. /\ view'[p][n] = ViewOf(n)
            /\ Goto(p, IF \E m \in Nodes : ViewOf(m).rule \in {"drain", "watch"}
                         THEN "pods" ELSE "manage")
        BY <2>2 DEF ListNodes, TypeInv, TypeOK
      <3>2. Goto(p, "pods")
        BY <1>4, <3>1
      <3> QED
        BY <1>4, <3>2, GotoEffect
    <2>3. CASE ~ListPods(p) /\ ~ListNodes(p)
      <3>1. pc[p] = "manage"
        BY <1>4, <2>3, PodFlow DEF PassFlow, ExecutorFlow, HostFlow
      <3>2. view'[p][n] = view[p][n]
        BY <1>4, <2>3, ViewWriters, NoViewRule DEF Listed
      <3>3. n \notin podsSeen[p]
        BY <1>4, <2>3, PodsWriters, NoViewRule
      <3>4. node[n].state = "draining"
        <4>1. ~\E q \in Nodes : Admits(q, n)
          BY <1>4, <3>2, ManagedNotAdmitted
        <4> QED
          BY <1>4, <4>1, StateWriters DEF StateMove
      <3> QED
        BY <1>0, <1>2, <1>4, <3>1, <3>2, <3>3, <3>4 DEF Drain, Busy
    <2> QED
      BY <2>1, <2>2, <2>3
  <1> QED
    BY <1>1, <1>3, <1>4 DEF Drain

\* With one pod leading, and an operator who leaves the nodes in flight cordoned, a
\* node that is told to reboot is cordoned and runs no pod that the drain should have
\* removed (manageDraining: the pod list of the cycle had none to evict).
THEOREM RebootAfterDrain ==
    ASSUME MaxHandovers = 0, CordonStates \cap {"draining", "rebooting"} = {}
    PROVE  Spec => []DrainedBeforeReboot
  <1>1. Init => DrainInv
    <2> SUFFICES ASSUME Init, NEW n \in Nodes PROVE Drain(n)
      BY DEF DrainInv
    <2>1. node[n].state = "absent"
      BY InitialNode
    <2> QED
      BY <2>1 DEF Drain, Busy
  <1>2. TypeInv /\ LeaderInv /\ ViewInv /\ RuleInv /\ DrainInv /\ [Next]_vars => DrainInv'
    <2> SUFFICES ASSUME TypeInv, LeaderInv, ViewInv, RuleInv, DrainInv, [Next]_vars,
                        NEW n \in Nodes
                 PROVE  Drain(n)'
      BY DEF DrainInv
    <2>1. CASE UNCHANGED vars
      BY <2>1 DEF DrainInv, Drain, Busy, vars, objVars, podVars, hostVars
    <2>2. CASE Next
      BY <2>2, DrainKept
    <2> QED
      BY <2>1, <2>2
  <1>3. DrainInv => DrainedBeforeReboot
    BY DEF DrainInv, Drain, Busy, Drained, DrainedBeforeReboot
  <1> QED
    BY <1>1, <1>2, <1>3, RuleInvariant, ViewInvariant, LeaderInvariant, TypeInvariant, PTL DEF Spec
-----------------------------------------------------------------------------
(***************************************************************************)
(* The operator's cordon.                                                  *)
(***************************************************************************)
\* No step gives anything back to the bounds.
LEMMA BudgetFalls ==
    ASSUME TypeInv, Next, NEW b \in Bounds
    PROVE  budget'[b] <= budget[b]
  <1>1. PICK q \in Nodes :
            \/ Orchestrate(q) \/ AdmitBlocked(q) \/ PassFails(q)
            \/ \E m \in Nodes : ForceDeleteFailed(q, m)
            \/ Execute(q) \/ CommandFails(q) \/ PodCrash(q)
            \/ Environment(q)
    BY DEF Next
  <1>2. budget[b] \in Nat
    BY DEF TypeInv, TypeOK
  <1>3. UNCHANGED budget => budget'[b] <= budget[b]
    BY <1>2
  <1>4. (\E c : Spend(c)) => budget'[b] <= budget[b]
    BY <1>2 DEF Spend, TypeInv, TypeOK
  <1>5. CASE Orchestrate(q) \/ AdmitBlocked(q) \/ PassFails(q) \/ \E m \in Nodes : ForceDeleteFailed(q, m)
    BY <1>3, <1>4, <1>5
    DEF Orchestrate, ListNodes, ListPods, AdmitList, AdmitBlocked, AdmitVerify, AdmitPatch,
        AdmitNone, PassFails, ForceDeleteFailed, DrainTimedOut, DrainDone, DrainRound,
        ManageRebooting, Uncordon
  <1>6. CASE Execute(q) \/ CommandFails(q) \/ PodCrash(q)
    BY <1>3, <1>4, <1>6
    DEF Execute, LocalRead, IssuePatch, ConfirmPatch, LocalFailed, LocalAbort, CommandStarts,
        Panic, CommandFails, PodCrash
  <1>7. CASE Environment(q)
    BY <1>3, <1>4, <1>7
    DEF Environment, PostReboot, EnqueueUpdate, Request, DeleteReboot, Rearm, OperatorCordon,
        OperatorUncordon, OperatorCorrupts, DrainTimeout, GraceExpires, HostDown, HostBoot,
        CommandIgnored, NodeNotReady, NodeReady, PodGone, PodArrives, LeaseMoves
  <1> QED
    BY <1>1, <1>5, <1>6, <1>7

LEMMA ClearsInvariant == Spec => [](budget["clears"] <= MaxClears)
  <1>1. Init => budget["clears"] <= MaxClears
    BY ParametersAssumption DEF Init, Bounds
  <1>2. TypeInv /\ budget["clears"] <= MaxClears /\ [Next]_vars => (budget["clears"] <= MaxClears)'
    <2> SUFFICES ASSUME TypeInv, TypeInv', budget["clears"] <= MaxClears, [Next]_vars
                 PROVE  budget'["clears"] <= MaxClears
      BY TypeInvNext
    <2>1. /\ "clears" \in Bounds /\ MaxClears \in Nat
          /\ budget["clears"] \in Nat /\ budget'["clears"] \in Nat
      BY ParametersAssumption DEF Bounds, TypeInv, TypeOK
    <2>2. budget'["clears"] <= budget["clears"]
      BY <2>1, BudgetFalls DEF vars
    <2> QED
      BY <2>1, <2>2
  <1> QED
    BY <1>1, <1>2, TypeInvariant, PTL DEF Spec

\* The operator's wish is changed by the operator.
LEMMA WishWriters ==
    ASSUME TypeInv, Next, NEW n \in Nodes
    PROVE  \/ opCordon'[n] = opCordon[n] /\ ~OperatorUncordon(n)
           \/ OperatorCordon(n) /\ node'[n] = [node[n] EXCEPT !.unsched = TRUE]
           \/ OperatorUncordon(n) /\ opCordon'[n] = FALSE
  <1>1. PICK q \in Nodes :
            \/ Orchestrate(q) \/ AdmitBlocked(q) \/ PassFails(q)
            \/ \E m \in Nodes : ForceDeleteFailed(q, m)
            \/ Execute(q) \/ CommandFails(q) \/ PodCrash(q)
            \/ Environment(q)
    BY DEF Next
  <1>2. OperatorUncordon(n) => opCordon'[n] = FALSE
    BY DEF OperatorUncordon, TypeInv, TypeOK
  <1>3. CASE opCordon' = opCordon
    BY <1>2, <1>3
  <1>4. CASE OperatorCordon(q) \/ OperatorUncordon(q)
    <2>1. CASE q = n
      BY <1>2, <1>4, <2>1 DEF OperatorCordon, Patch, TypeInv, TypeOK
    <2>2. CASE q # n
      <3>1. opCordon'[n] = opCordon[n]
        BY <1>4, <2>2 DEF OperatorCordon, OperatorUncordon, TypeInv, TypeOK
      <3> QED
        BY <1>2, <3>1
    <2> QED
      BY <2>1, <2>2
  <1>5. CASE Orchestrate(q) \/ AdmitBlocked(q) \/ PassFails(q) \/ \E m \in Nodes : ForceDeleteFailed(q, m)
    BY <1>3, <1>5
    DEF Orchestrate, ListNodes, ListPods, AdmitList, AdmitBlocked, AdmitVerify, AdmitPatch,
        AdmitNone, PassFails, ForceDeleteFailed, DrainTimedOut, DrainDone, DrainRound,
        ManageRebooting, Uncordon, histVars
  <1>6. CASE Execute(q) \/ CommandFails(q) \/ PodCrash(q)
    BY <1>3, <1>6
    DEF Execute, LocalRead, IssuePatch, ConfirmPatch, LocalFailed, LocalAbort, CommandStarts,
        Panic, CommandFails, PodCrash, histVars
  <1>7. CASE Environment(q)
    BY <1>3, <1>4, <1>7
    DEF Environment, PostReboot, EnqueueUpdate, Request, DeleteReboot, Rearm,
        OperatorCorrupts, DrainTimeout, GraceExpires, HostDown, HostBoot,
        CommandIgnored, NodeNotReady, NodeReady, PodGone, PodArrives, LeaseMoves, histVars
  <1> QED
    BY <1>1, <1>5, <1>6, <1>7
\* From the admission on, the operator's cordon is on record as cordonedPrev; and
\* what the leader is about to uncordon is not the operator's, nor can it become so.
Owned == {"draining", "rebooting", "completed", "failed"}

Cordon(n) ==
    /\ opCordon[n] => node[n].unsched
    /\ opCordon[n] /\ node[n].state \in Owned => node[n].status = "cordonedPrev"
    /\ \A p \in Nodes : view[p][n].rule = "uncordon" =>
          /\ ~opCordon[n]
          /\ CordonStates # {} => node[n].unsched

CordonInv == \A n \in Nodes : Cordon(n)

\* The operator cordons, if at all, nodes that are not in the controller's hands;
\* then nobody clears a lifecycle, and one pod leads.
Quiet == CordonStates # {} => LeaderInv /\ ViewInv /\ budget["clears"] = 0

\* The record of the operator's cordon outlives every patch of the lifecycle.
LEMMA RecordKept ==
    ASSUME "status" \notin Corruptions, CordonStates \cap Owned = {},
           TypeInv, Next, NEW n \in Nodes, Cordon(n), opCordon'[n], node'[n].state \in Owned
    PROVE  node'[n].status = "cordonedPrev"
  <1>0. node[n] \in Node
    BY DEF TypeInv, TypeOK
  <1>1. (opCordon[n] /\ ~OperatorUncordon(n)) \/ Cordons(n)
    BY WishWriters DEF Cordons
  <1>2. ~Cordons(n)
    <2> SUFFICES ASSUME Cordons(n) PROVE FALSE
      OBVIOUS
    <2>1. node[n].state \in CordonStates /\ node'[n].state = node[n].state
      BY <1>0 DEF Cordons, OperatorCordon, Node
    <2> QED
      BY <2>1
  <1>3. opCordon[n] /\ ~OperatorUncordon(n) /\ node[n].unsched
    BY <1>1, <1>2 DEF Cordon
  <1>4. node[n].state \in Owned => node[n].status = "cordonedPrev"
    BY <1>3 DEF Cordon
  <1>5. CASE node'[n] = node[n]
    BY <1>4, <1>5
  <1>6. CASE (\E p \in Nodes : DrainFails(p, n)) \/ FailsLocally(n)
    BY <1>0, <1>4, <1>6 DEF DrainFails, FailsLocally, ToFailedPatch, MergeStatus, Owned, Node
  <1>7. CASE \E p \in Nodes : Drains(p, n) \/ Completes(p, n)
    <2>1. node[n].state \in Owned
      BY <1>7 DEF Drains, Completes, Owned
    <2>2. node'[n] = ToRebootingPatch(node[n]) \/ node'[n] = ToCompletedPatch(node[n])
      BY <1>7 DEF Drains, Completes
    <2>3. node'[n].status = node[n].status
      BY <1>0, <2>2 DEF ToRebootingPatch, ToCompletedPatch, Node
    <2> QED
      BY <1>4, <2>1, <2>3
  <1>8. CASE \E p \in Nodes : Uncordons(p, n)
    BY <1>0, <1>4, <1>8 DEF Uncordons, UncordonPatch, Node
  <1>9. CASE \E p \in Nodes : Blocks(p, n)
    BY <1>0, <1>9 DEF Blocks, BlockedByPatch, Owned, Node
  <1>10. CASE \E p \in Nodes : Admits(p, n)
    BY <1>0, <1>3, <1>10 DEF Admits, ToDrainingPatch, Node
  <1>11. CASE Records(n) \/ Confirms(n)
    <2>1. \E e : node'[n] = IssuedExecPatch(node[n], e)
      BY <1>11 DEF Records, Confirms
    <2> QED
      BY <1>0, <1>4, <2>1 DEF IssuedExecPatch, Node
  <1>12. CASE Requests_(n) \/ Clears(n)
    <2>1. CASE Requests_(n)
      <3>1. PICK since \in Nat, force \in BOOLEAN : node'[n] = AdmissionPatch(node[n], since, force)
        BY <2>1 DEF Requests_
      <3>2. node'[n].state = "requested"
        BY <1>0, <3>1 DEF AdmissionPatch, Node
      <3> QED
        BY <3>2 DEF Owned
    <2>2. CASE Clears(n)
      <3>1. node'[n].state = "absent"
        BY <2>2 DEF Clears, ClearPatch, IdleNode
      <3> QED
        BY <3>1 DEF Owned
    <2> QED
      BY <1>12, <2>1, <2>2
  <1>13. CASE Releases(n)
    BY <1>3, <1>13 DEF Releases
  <1>14. CASE Corrupts(n)
    BY <1>0, <1>4, <1>14 DEF Corrupts, Owned, Node
  <1> QED
    BY <1>2, <1>5, <1>6, <1>7, <1>8, <1>9, <1>10, <1>11, <1>12, <1>13, <1>14, NodeWriters
    DEF PassWrites, OtherWrites

LEMMA CordonKept ==
    ASSUME "status" \notin Corruptions, CordonStates \cap Owned = {},
           TypeInv, Quiet, CordonInv, Next, NEW n \in Nodes
    PROVE  Cordon(n)'
  <1>0. Cordon(n)
    BY DEF CordonInv
  <1>1. ASSUME opCordon'[n] PROVE node'[n].unsched
    <2>1. CASE OperatorCordon(n) /\ node'[n] = [node[n] EXCEPT !.unsched = TRUE]
      BY <2>1 DEF TypeInv, TypeOK, Node
    <2>2. CASE opCordon[n] /\ ~OperatorUncordon(n)
      <3>1. node[n].unsched /\ (node[n].state \in Owned => node[n].status = "cordonedPrev")
        BY <1>0, <2>2 DEF Cordon
      <3>2. ~\E p \in Nodes : Uncordons(p, n)
        BY <1>0, <2>2 DEF Cordon, Uncordons, Uncordon
      <3>3. ~Releases(n)
        BY <2>2 DEF Releases
      <3>4. ~(node[n].state \in {"rebooting", "completed", "failed"} /\ CordonedPrevKnownAbsent(node[n]))
        BY <3>1 DEF CordonedPrevKnownAbsent, Owned
      <3> QED
        BY <3>1, <3>2, <3>3, <3>4, UncordonWriters
    <2> QED
      BY <1>1, <2>1, <2>2, WishWriters
  <1>2. opCordon'[n] /\ node'[n].state \in Owned => node'[n].status = "cordonedPrev"
    BY <1>0, RecordKept
  <1>3. ASSUME NEW p \in Nodes, view'[p][n].rule = "uncordon"
        PROVE  ~opCordon'[n] /\ (CordonStates # {} => node'[n].unsched)
    <2>1. CASE Listed(p, n)
      <3>1. node' = node /\ opCordon' = opCordon /\ view'[p][n] = ViewOf(n)
        BY <2>1 DEF Listed, ListNodes, objVars, histVars
      <3>2. node[n].state \in {"completed", "failed"} /\ MayUncordon(node[n])
        BY <1>3, <3>1, ViewOfRule
      <3>3. ~opCordon[n] /\ node[n].unsched
        BY <1>0, <3>2 DEF Cordon, MayUncordon, CordonedPrevKnownAbsent, Owned
      <3> QED
        BY <3>1, <3>3
    <2>2. CASE view'[p][n] = view[p][n] /\ view'[p][n] # NoView
      <3>1. ~opCordon[n] /\ (CordonStates # {} => node[n].unsched)
        BY <1>0, <1>3, <2>2 DEF Cordon
      <3>2. ~OperatorCordon(n)
        BY <3>1 DEF OperatorCordon
      <3>3. ~opCordon'[n]
        BY <3>1, <3>2, WishWriters
      <3>4. ASSUME CordonStates # {} PROVE node'[n].unsched
        <4>1. LeaderInv /\ ViewInv /\ budget["clears"] = 0
          BY <3>4 DEF Quiet
        <4>2. ASSUME NEW q \in Nodes, Uncordons(q, n) PROVE FALSE
          <5>1. pc[q] = "manage" /\ Managed(q, n)
            BY <4>2 DEF Uncordons, Uncordon
          <5>2. pc[p] \in {"pods", "manage"}
            BY <1>3, <2>2, <4>1 DEF ViewInv
          <5>3. p = q
            BY <4>1, <5>1, <5>2 DEF LeaderInv, PassSteps
          <5>4. view'[p][n] = NoView
            BY <5>1, <5>3 DEF Managed, TypeInv, TypeOK
          <5> QED
            BY <2>2, <5>4
        <4>3. ~Releases(n)
          BY <3>1 DEF Releases, OperatorUncordon
        <4>4. ~Clears(n)
          BY <4>1 DEF Clears, DeleteReboot, Rearm, Spend
        <4> QED
          BY <3>1, <3>4, <4>2, <4>3, <4>4, UncordonWriters
      <3> QED
        BY <3>3, <3>4
    <2>3. CASE view'[p][n] = NoView
      BY <1>3, <2>3, NoViewRule
    <2> QED
      BY <2>1, <2>2, <2>3, ViewWriters
  <1> QED
    BY <1>1, <1>2, <1>3 DEF Cordon

\* A node that the operator has cordoned stays so until he uncordons it (uncordonRule
\* leaves a node with cordonedPrev alone), if he cordons nodes that are not in the
\* controller's hands and their status stays readable.  Cordons made while the
\* controller runs need one leader and no DELETE besides: after either has uncordoned
\* the node, an uncordon that was decided before may still be on its way.
THEOREM OperatorCordonRespected ==
    ASSUME "status" \notin Corruptions, CordonStates \cap Owned = {},
           CordonStates # {} => MaxClears = 0 /\ MaxHandovers = 0
    PROVE  Spec => []OperatorCordonKept
  <1>1. Init => CordonInv
    <2> SUFFICES ASSUME Init, NEW n \in Nodes PROVE Cordon(n)
      BY DEF CordonInv
    <2>1. node[n].state = "absent" /\ (node[n].unsched <=> n \in Cordoned)
      BY InitialNode
    <2>2. (opCordon[n] <=> n \in Cordoned) /\ \A p \in Nodes : view[p][n].rule = "none"
      BY NoViewRule DEF Init
    <2> QED
      BY <2>1, <2>2 DEF Cordon, Owned
  <1>2. TypeInv /\ Quiet /\ CordonInv /\ [Next]_vars => CordonInv'
    <2> SUFFICES ASSUME TypeInv, Quiet, CordonInv, [Next]_vars, NEW n \in Nodes PROVE Cordon(n)'
      BY DEF CordonInv
    <2>1. CASE UNCHANGED vars
      BY <2>1 DEF CordonInv, Cordon, vars, objVars, podVars, histVars
    <2>2. CASE Next
      BY <2>2, CordonKept
    <2> QED
      BY <2>1, <2>2
  <1>3. Spec => []Quiet
    <2>1. CASE CordonStates = {}
      <3>1. Quiet
        BY <2>1 DEF Quiet
      <3> QED
        BY <3>1, PTL
    <2>2. CASE CordonStates # {}
      <3>1. MaxClears = 0 /\ MaxHandovers = 0
        BY <2>2
      <3>2. TypeInv /\ LeaderInv /\ ViewInv /\ budget["clears"] <= MaxClears => Quiet
        BY <3>1 DEF Quiet, TypeInv, TypeOK, Bounds
      <3>3. Spec => []LeaderInv
        BY <3>1, LeaderInvariant
      <3> QED
        BY <3>2, <3>3, ViewInvariant, ClearsInvariant, TypeInvariant, PTL
    <2> QED
      BY <2>1, <2>2
  <1>4. CordonInv => OperatorCordonKept
    BY DEF CordonInv, Cordon, OperatorCordonKept
  <1> QED
    BY <1>1, <1>2, <1>3, <1>4, TypeInvariant, PTL DEF Spec
=============================================================================
