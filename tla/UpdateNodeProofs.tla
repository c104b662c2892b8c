--------------------------- MODULE UpdateNodeProofs -------------------------
(***************************************************************************)
(* Proofs about UpdateNode for every set of versions, every capacity and   *)
(* every number of faults, edits and occurrences.  The partition keeps     *)
(* BootStore's SpaceInv through every step of the node, an operator's hand *)
(* on the files included.                                                  *)
(***************************************************************************)
EXTENDS UpdateNode, BootStoreProofs

USE BootStoreAssumption, UpdateNodeAssumption

-----------------------------------------------------------------------------
(* The newest of a set of versions.                                        *)

LEMMA NewestExists ==
    ASSUME NEW S \in SUBSET Versions, S # {}
    PROVE  \E m \in S : \A w \in S : w <= m
  <1> DEFINE Unbounded == {T \in SUBSET Versions : T # {} /\ ~\E m \in T : \A w \in T : w <= m}
  <1>1. Unbounded = {}
    <2> SUFFICES ASSUME Unbounded # {} PROVE FALSE
      OBVIOUS
    <2>1. IsWellFoundedOn(StrictSubsetOrdering(Versions), FiniteSubsetsOf(Versions))
      BY FS_StrictSubsetOrderingWellFounded
    <2>2. Unbounded \subseteq FiniteSubsetsOf(Versions)
      <3>1. FiniteSubsetsOf(Versions) = SUBSET Versions
        BY FS_FiniteSubsetsOfFinite
      <3> QED
        BY <3>1
    <2>3. PICK T \in Unbounded : \A U \in Unbounded : ~(<<U, T>> \in StrictSubsetOrdering(Versions))
      <3> HIDE DEF Unbounded
      <3> QED
        BY <2>1, <2>2, WFMin
    <2>4. PICK x \in T : x \in Nat
      OBVIOUS
    <2>5. T \ {x} # {}
      <3>1. ASSUME T \ {x} = {} PROVE \A w \in T : w <= x
        BY <2>4, <3>1
      <3> QED
        BY <2>4, <3>1
    <2>6. T \ {x} \notin Unbounded
      <3>1. <<T \ {x}, T>> \in (SUBSET Versions) \X (SUBSET Versions)
        OBVIOUS
      <3>2. <<T \ {x}, T>> \in StrictSubsetOrdering(Versions)
        BY <3>1, <2>4 DEF StrictSubsetOrdering
      <3> QED
        BY <2>3, <3>2
    <2>7. PICK m \in T \ {x} : \A w \in T \ {x} : w <= m
      BY <2>5, <2>6
    <2>8. m \in Nat
      BY <2>7
    <2>9. CASE x <= m
      BY <2>7, <2>9
    <2>10. CASE m <= x
      <3>1. \A w \in T : w \in Nat
        OBVIOUS
      <3>2. \A w \in T : w <= x
        BY <2>4, <2>7, <2>8, <2>10, <3>1
      <3> QED
        BY <2>4, <3>2
    <2> QED
      BY <2>4, <2>8, <2>9, <2>10
  <1> QED
    BY <1>1

LEMMA NewestOfType ==
    ASSUME NEW S \in SUBSET Versions, S # {}
    PROVE  NewestOf(S) \in S /\ \A w \in S : w <= NewestOf(S)
  BY NewestExists DEF NewestOf

LEMMA SafeTargetType ==
    ASSUME NEW S \in SUBSET Versions, running \in Versions
    PROVE  SafeTarget(S) \in Versions \cup {None} /\ (S # {} => SafeTarget(S) \in S)
  BY NewestOfType DEF SafeTarget
-----------------------------------------------------------------------------
(* Types.                                                                  *)

\* The pod's memory, and what a step is about is a version where the partition
\* is asked for one.
NodeTypes ==
    /\ goal \in Goals /\ claimed \in 0..MaxOccurrences /\ state \in States
    /\ index \subseteq Versions /\ occ \in 0..MaxOccurrences /\ open \in BOOLEAN
    /\ pod \in Pod
    /\ edits \in 0..MaxEdits /\ hands \in 0..MaxHands
    /\ checked \subseteq 0..MaxOccurrences /\ news \in BOOLEAN

PodAims ==
    /\ pod.pc \in {"reconciled", "corrected"} => pod.aim \in Versions
    /\ pod.pc \in {"restage", "converge"} => pod.goal \in Versions
    /\ pod.pc \in {"stage", "staged", "anchor", "adopt", "adopted"} => pod.sums # {}

NodeInv == SpaceInv /\ NodeTypes /\ PodAims

LEMMA LatestType ==
    ASSUME NodeTypes, pod.sums # {}
    PROVE  Latest \in Versions
  BY NewestOfType DEF NodeTypes, Pod, Latest

\* The partition may lose a fault's worth, or nothing.
StoreIdle == UNCHANGED storeVars \/ (Fault /\ UNCHANGED StoreButFaults)

LEMMA IdleIsHand ==
    ASSUME StoreIdle
    PROVE  HandNext \/ UNCHANGED storeVars
  BY DEF StoreIdle, Fault, StoreButFaults, HandNext, OtherFault

\* The steps of the pod that write the node or only think: the partition stays.
ThinkStep ==
    \/ BeginCycle \/ BootstrapScan \/ Bootstrap \/ Flavor \/ Reconcile \/ Rearm
    \/ Window \/ Claim \/ Check \/ Plan \/ Anchor \/ Adopt \/ SafeScan \/ Correct
    \/ Reread \/ RequestReboot

LEMMA ThinkIdle == ThinkStep => StoreIdle
  BY DEF ThinkStep, BeginCycle, BootstrapScan, Bootstrap, Flavor, Reconcile, Rearm, Window, Claim,
         Check, Plan, Anchor, Adopt, SafeScan, Correct, Reread, RequestReboot, Write, Local, StoreIdle, ReadFails
\* A step of the pod's control moves pc, and may note that it wrote; another
\* one takes over what it read.
LEMMA PodGoto ==
    ASSUME pod \in Pod, NEW pc \in Steps
    PROVE  /\ [pod EXCEPT !.pc = pc] \in Pod
           /\ [pod EXCEPT !.pc = pc, !.dirty = TRUE] \in Pod
  BY DEF Pod

LEMMA PodForgets ==
    ASSUME pod \in Pod, NEW pc \in Steps
    PROVE  /\ [pod EXCEPT !.pc = pc, !.applied = None] \in Pod
           /\ [pod EXCEPT !.pc = pc, !.applied = None].pc = pc
  BY DEF Pod

LEMMA PodReads ==
    ASSUME pod \in Pod, NEW pc \in Steps, NEW g \in Goals, NEW st \in States,
           NEW c \in 0..MaxOccurrences
    PROVE  [pod EXCEPT !.goal = g, !.state = st, !.claimed = c, !.pc = pc] \in Pod
  BY DEF Pod

LEMMA PodRereads ==
    ASSUME pod \in Pod, NEW pc \in Steps, NEW g \in Goals, NEW st \in States,
           NEW c \in 0..MaxOccurrences
    PROVE  [pod EXCEPT !.goal = g, !.state = st, !.claimed = c, !.pc = pc, !.sums = {}] \in Pod
  BY DEF Pod

LEMMA PodBegins ==
    ASSUME pod \in Pod, NEW pc \in Steps, NEW g \in Goals, NEW st \in States,
           NEW c \in 0..MaxOccurrences, NEW o \in 0..MaxOccurrences, NEW w \in BOOLEAN
    PROVE  [pod EXCEPT !.pc = pc, !.goal = g, !.state = st, !.claimed = c, !.occ = o,
                       !.open = w, !.dirty = FALSE, !.hands = 0] \in Pod
  <1> DEFINE q == [pod EXCEPT !.pc = pc, !.goal = g, !.state = st, !.claimed = c]
             r == [q EXCEPT !.occ = o, !.open = w, !.dirty = FALSE, !.hands = 0]
  <1>1. q \in Pod
    BY DEF Pod
  <1>2. r \in Pod
    <2>1. 0 \in 0..MaxHands
      OBVIOUS
    <2> HIDE DEF q
    <2> QED
      BY <1>1, <2>1 DEF Pod
  <1>3. r = [pod EXCEPT !.pc = pc, !.goal = g, !.state = st, !.claimed = c, !.occ = o,
                        !.open = w, !.dirty = FALSE, !.hands = 0]
    BY Zenon
  <1> QED
    BY <1>2, <1>3

LEMMA PodPlans ==
    ASSUME pod \in Pod, NEW pc \in Steps, NEW g \in Goals, NEW r \in {"window", "reread"}
    PROVE  [pod EXCEPT !.pc = pc, !.ret = r, !.aim = g] \in Pod
  BY DEF Pod

LEMMA PodSums ==
    ASSUME pod \in Pod, NEW pc \in Steps, NEW S \in SUBSET Versions
    PROVE  [pod EXCEPT !.pc = pc, !.sums = S] \in Pod
  BY DEF Pod

LEMMA PodLocal ==
    ASSUME pod \in Pod, NEW pc \in Steps, NEW S \in SUBSET Versions
    PROVE  [pod EXCEPT !.pc = pc, !.local = S] \in Pod
  BY DEF Pod

LEMMA PodCorrects ==
    ASSUME pod \in Pod, NEW pc \in Steps, NEW g \in Goals, NEW v \in Versions \cup {None, Unknown}
    PROVE  [pod EXCEPT !.dirty = TRUE, !.local = {}, !.aim = g, !.applied = v, !.pc = pc] \in Pod
  BY DEF Pod

\* After a write: on the way that was asked for, the rest of the memory kept.
LEMMA EnterEffect ==
    ASSUME pod \in Pod, NEW pc \in Steps, Enter(pc) \/ EnterDirty(pc)
    PROVE  /\ pod' \in Pod /\ pod'.pc = pc
           /\ pod'.goal = pod.goal /\ pod'.aim = pod.aim /\ pod'.sums = pod.sums
           /\ pod'.applied = pod.applied /\ pod'.occ = pod.occ /\ pod'.hands = pod.hands
           /\ UNCHANGED <<envVars, checked>>
  <1>1. pod' \in Pod
    BY PodGoto DEF Enter, EnterDirty, Goto
  <1>2. pod'.pc = pc
    BY DEF Enter, EnterDirty, Goto, Pod
  <1>3. \A d \in BOOLEAN : pod' = [pod EXCEPT !.pc = pc, !.dirty = d] =>
            /\ pod'.goal = pod.goal /\ pod'.aim = pod.aim /\ pod'.sums = pod.sums
            /\ pod'.applied = pod.applied /\ pod'.occ = pod.occ /\ pod'.hands = pod.hands
    BY DEF Pod
  <1>4. pod' = [pod EXCEPT !.pc = pc] =>
            /\ pod'.goal = pod.goal /\ pod'.aim = pod.aim /\ pod'.sums = pod.sums
            /\ pod'.applied = pod.applied /\ pod'.occ = pod.occ /\ pod'.hands = pod.hands
    BY DEF Pod
  <1> QED
    BY <1>1, <1>2, <1>3, <1>4 DEF Enter, EnterDirty, Goto

LEMMA FreshPodType == FreshPod \in Pod /\ FreshPod.pc = "idle"
  BY DEF FreshPod, Pod, Steps, States, Goals, BadGoals

LEMMA NodeInvThink ==
    ASSUME NodeInv, ThinkStep
    PROVE  NodeTypes' /\ PodAims'
  <1> USE DEF NodeInv
  <1>0. NodeTypes /\ PodAims /\ pod \in Pod /\ running \in Versions
    BY DEF SpaceInv, LockInv, StoreTypeOK, NodeTypes
  <1>1. Present \subseteq Versions
    BY DEF Present
  <1> USE DEF At, Goto, Keep, Local, Write, SetGoal
  <1>17. ASSUME NEW pc \in {"flavor", "idle", "window", "reread", "claim"}, ReadFails(pc)
         PROVE  NodeTypes' /\ PodAims'
    <2>1. pc \in Steps
      BY DEF Steps
    <2>2. pod' \in Pod /\ pod'.pc = pc
      BY <1>0, <1>17, <2>1, PodGoto DEF ReadFails, Pod
    <2> QED
      BY <1>0, <1>17, <2>2 DEF ReadFails, NodeTypes, PodAims, nodeVars, envVars
  <1>2. CASE BeginCycle
    <2>1. pod' \in Pod
      <3>1. goal \in Goals /\ state \in States /\ claimed \in 0..MaxOccurrences
            /\ occ \in 0..MaxOccurrences /\ open \in BOOLEAN
        BY <1>0 DEF NodeTypes
      <3>2. (IF goal = None THEN "scan" ELSE "flavor") \in Steps
        BY DEF Steps
      <3> QED
        BY <1>0, <1>2, <3>1, <3>2, PodBegins DEF BeginCycle
    <2>2. pod'.pc \in {"scan", "flavor"}
      BY <1>0, <1>2 DEF BeginCycle, Pod
    <2> QED
      BY <1>0, <1>2, <2>1, <2>2 DEF BeginCycle, NodeTypes, PodAims, nodeVars, envVars
  <1>3. CASE BootstrapScan
    <2>0. CASE ReadFails("flavor")
      BY <1>17, <2>0
    <2> SUFFICES ASSUME ~ReadFails("flavor") PROVE NodeTypes' /\ PodAims'
      BY <2>0
    <2>1. SafeTarget(Present) \in Goals
      BY <1>0, <1>1, SafeTargetType DEF Goals
    <2> DEFINE next == IF Present = {} THEN "flavor" ELSE "bootstrap"
               aim == SafeTarget(Present)
    <2>4. pod' = [pod EXCEPT !.aim = aim, !.pc = next]
      BY <1>3 DEF BootstrapScan
    <2>5. next \in {"bootstrap", "flavor"}
      OBVIOUS
    <2> HIDE DEF next, aim
    <2>2. pod' \in Pod
      BY <1>0, <2>1, <2>4, <2>5 DEF Pod, Steps, aim
    <2>3. pod'.pc \in {"bootstrap", "flavor"}
      BY <1>0, <2>4, <2>5 DEF Pod
    <2> QED
      BY <1>0, <1>3, <2>2, <2>3 DEF BootstrapScan, NodeTypes, PodAims, nodeVars, envVars
  <1>4. CASE Bootstrap
    <2>1. pod' \in Pod /\ pod'.pc = "flavor" /\ UNCHANGED <<envVars, checked>>
      <3>1. Enter("flavor") \/ EnterDirty("flavor")
        BY <1>4 DEF Bootstrap
      <3> QED
        BY <1>0, <3>1, EnterEffect DEF Steps
    <2>2. pod.aim \in Goals
      BY <1>0 DEF Pod
    <2>3. goal' \in Goals /\ UNCHANGED <<claimed, state>> /\ news' \in BOOLEAN
      BY <1>0, <1>4, <2>2 DEF Bootstrap, NodeTypes, nodeVars
    <2> QED
      BY <1>0, <2>1, <2>3 DEF NodeTypes, PodAims, envVars
  <1>5. CASE Flavor
    <2>0. CASE ReadFails("idle")
      BY <1>17, <2>0
    <2> SUFFICES ASSUME ~ReadFails("idle") PROVE NodeTypes' /\ PodAims'
      BY <2>0
    <2> DEFINE known == pod.flavor \/ Present # {}
               next == IF known THEN "reconcile" ELSE "idle"
    <2>2. pod' = [pod EXCEPT !.flavor = known, !.pc = next]
      BY <1>5 DEF Flavor
    <2>3. known \in BOOLEAN /\ next \in {"reconcile", "idle"}
      BY <1>0 DEF Pod
    <2> HIDE DEF known, next
    <2>1. pod' \in Pod /\ pod'.pc \in {"reconcile", "idle"}
      BY <1>0, <2>2, <2>3 DEF Pod, Steps
    <2> QED
      BY <1>0, <1>5, <2>1 DEF Flavor, NodeTypes, PodAims, nodeVars, envVars
  <1>6. CASE Reconcile
    <2>1. pod' \in Pod /\ pod'.pc \in {"window", "fresh"}
      BY <1>0, <1>6 DEF Reconcile, Pod, Steps
    <2> QED
      BY <1>0, <1>6, <2>1 DEF Reconcile, NodeTypes, PodAims, nodeVars, envVars
  <1>7. CASE Rearm
    <2>1. pod.ret \in {"idle", "window", "reread"} /\ {"idle", "window", "reread"} \subseteq Steps
      BY <1>0 DEF Pod, Steps
    <2>2. pod' \in Pod /\ pod'.pc = pod.ret /\ UNCHANGED <<envVars, checked>>
      <3>1. Enter(pod.ret) \/ EnterDirty(pod.ret)
        BY <1>7 DEF Rearm
      <3> QED
        BY <1>0, <2>1, <3>1, EnterEffect
    <2>3. state' \in States /\ UNCHANGED <<goal, claimed, news>>
      BY <1>0, <1>7 DEF Rearm, NodeTypes, nodeVars, States
    <2> QED
      BY <1>0, <2>1, <2>2, <2>3 DEF NodeTypes, PodAims, envVars
  <1>8. CASE Window
    <2> DEFINE old == ClaimFrom(pod.claimed)
    <2>0. CASE ReadFails(old)
      BY <1>17, <2>0 DEF ClaimFrom
    <2> SUFFICES ASSUME ~ReadFails(old) PROVE NodeTypes' /\ PodAims'
      BY <2>0
    <2>1. View[1] \in Goals /\ View[2] \in States /\ View[3] \in 0..MaxOccurrences
      BY <1>0 DEF View, NodeTypes, Pod
    <2>2. pod' \in Pod
      <3>1. ClaimFrom(View[3]) \in Steps
        BY DEF ClaimFrom, Steps
      <3> QED
        <4>1. pod' = [pod EXCEPT !.goal = View[1], !.state = View[2], !.claimed = View[3],
                                 !.pc = ClaimFrom(View[3])]
          BY <1>8 DEF Window
        <4> QED
          BY <1>0, <2>1, <3>1, <4>1, PodReads
    <2>3. pod'.pc \in {"claim", "reread"}
      BY <1>0, <1>8 DEF Window, ClaimFrom, Pod
    <2> QED
      BY <1>0, <1>8, <2>2, <2>3 DEF Window, NodeTypes, PodAims, nodeVars, envVars
  <1>9. CASE Claim
    <2>1. pod' \in Pod /\ pod'.pc \in {"check", "reread"} /\ UNCHANGED <<envVars, checked>>
      <3>1. Enter("check") \/ Enter("reread")
        BY <1>9 DEF Claim
      <3> QED
        BY <1>0, <3>1, EnterEffect DEF Steps
    <2>2. pod.occ \in 0..MaxOccurrences
      BY <1>0 DEF Pod
    <2>3. claimed' \in 0..MaxOccurrences /\ UNCHANGED <<goal, state, news>>
      BY <1>0, <1>9, <2>2 DEF Claim, NodeTypes, nodeVars
    <2> QED
      BY <1>0, <2>1, <2>3 DEF NodeTypes, PodAims, envVars
  <1>10. CASE Check
    <2>1. pod' \in Pod /\ pod'.pc \in {"plan", "reread"}
      <3>1. index \in SUBSET Versions /\ {"plan", "reread"} \subseteq Steps
        BY <1>0 DEF NodeTypes, Steps
      <3>2. pod' \in {[pod EXCEPT !.pc = "plan", !.sums = index], [pod EXCEPT !.pc = "reread"]}
        BY <1>10 DEF Check
      <3>3. [pod EXCEPT !.pc = "plan", !.sums = index] \in Pod
        BY <1>0, <3>1, PodSums
      <3>4. [pod EXCEPT !.pc = "reread"] \in Pod
        BY <1>0, <3>1, PodGoto
      <3> QED
        BY <1>0, <3>2, <3>3, <3>4 DEF Pod
    <2>2. pod.occ \in 0..MaxOccurrences
      BY <1>0 DEF Pod
    <2>3. checked' \subseteq 0..MaxOccurrences /\ UNCHANGED <<nodeVars, envVars, news>>
      BY <1>0, <1>10, <2>2 DEF Check, NodeTypes
    <2> QED
      BY <1>0, <2>1, <2>3 DEF NodeTypes, PodAims, nodeVars, envVars
  <1>11. CASE Plan
    <2>0. CASE ReadFails("reread")
      BY <1>17, <2>0
    <2> SUFFICES ASSUME ~ReadFails("reread") PROVE NodeTypes' /\ PodAims'
      BY <2>0
    <2>1. PlanFor(Present) \in {"safe", "restage", "adopt", "converge", "stage", "reread"}
      BY DEF PlanFor
    <2>2. /\ PlanFor(Present) = "restage" => pod.goal \in Versions
          /\ PlanFor(Present) = "converge" => pod.goal \in Versions
          /\ PlanFor(Present) \in {"adopt", "stage"} => pod.sums # {}
      BY <1>1 DEF PlanFor, PinMissing, Strayed, Adoptable, NewRelease, Available
    <2>3. pod' \in Pod
      <3>1. PlanFor(Present) \in Steps
        BY <2>1 DEF Steps
      <3>2. (IF pod.goal \in Versions THEN pod.goal ELSE None) \in Goals
        BY DEF Goals
      <3> QED
        <4>1. pod' = [pod EXCEPT !.pc = PlanFor(Present), !.ret = "reread",
                                 !.aim = IF pod.goal \in Versions THEN pod.goal ELSE None]
          BY <1>11 DEF Plan
        <4> QED
          BY <1>0, <3>1, <3>2, <4>1, PodPlans
    <2>4. pod'.pc = PlanFor(Present) /\ pod'.goal = pod.goal /\ pod'.sums = pod.sums
      BY <1>0, <1>11 DEF Plan, Pod
    <2> QED
      BY <1>0, <1>11, <2>1, <2>2, <2>3, <2>4 DEF Plan, NodeTypes, PodAims, nodeVars, envVars
  <1>12. CASE Anchor \/ Adopt
    <2>1. Latest \in Versions
      BY <1>0, <1>12, LatestType DEF Anchor, Adopt, PodAims
    <2>2. pod' \in Pod /\ pod'.pc \in {"rearm", "adopted", "reread"} /\ pod'.sums = pod.sums
          /\ UNCHANGED <<envVars, checked>>
      <3>1. EnterDirty("rearm") \/ EnterDirty("adopted") \/ Enter("reread")
        BY <1>12 DEF Anchor, Adopt
      <3> QED
        BY <1>0, <3>1, EnterEffect DEF Steps
    <2>3. goal' \in Goals /\ UNCHANGED <<claimed, state>> /\ news' \in BOOLEAN
      BY <1>0, <1>12, <2>1 DEF Anchor, Adopt, NodeTypes, nodeVars, Goals
    <2>4. pod.sums # {}
      BY <1>0, <1>12 DEF Anchor, Adopt, PodAims
    <2> QED
      BY <1>0, <2>2, <2>3, <2>4 DEF NodeTypes, PodAims, envVars
  <1>13. CASE SafeScan
    <2>0. CASE ReadFails(pod.ret)
      BY <1>0, <1>17, <2>0 DEF Pod
    <2> SUFFICES ASSUME ~ReadFails(pod.ret) PROVE NodeTypes' /\ PodAims'
      BY <2>0
    <2>2. pod' = [pod EXCEPT !.pc = "correct", !.local = Present]
      <3>1. (pod' = [pod EXCEPT !.pc = "correct", !.local = Present] /\ Local) \/ ReadFails(pod.ret)
        BY <1>13 DEF SafeScan
      <3> QED
        BY <3>1
    <2>3. "correct" \in Steps
      BY DEF Steps
    <2>1. pod' \in Pod /\ pod'.pc = "correct"
      BY <1>0, <1>1, <2>2, <2>3, PodLocal DEF Pod
    <2> QED
      BY <1>0, <1>13, <2>1 DEF SafeScan, NodeTypes, PodAims, nodeVars, envVars
  <1>14. CASE Correct
    <2> DEFINE target == SafeTarget(pod.local)
    <2>1. target \in Versions \cup {None}
      BY <1>0, SafeTargetType DEF Pod
    <2>2. pod.ret \in {"idle", "window", "reread"} /\ {"idle", "window", "reread"} \subseteq Steps
      BY <1>0 DEF Pod, Steps
    <2> HIDE DEF target
    <2>3. \/ pod' = [pod EXCEPT !.dirty = TRUE, !.local = {}, !.aim = target,
                                !.applied = IF target = None THEN None ELSE pod.applied,
                                !.pc = IF target = None THEN pod.ret ELSE "corrected"]
          \/ pod' = [pod EXCEPT !.pc = pod.ret, !.local = {}]
      BY <1>14 DEF Correct, target
    <2>4. pod' \in Pod
      <3>1. target \in Goals /\ (IF target = None THEN None ELSE pod.applied) \in Versions \cup {None, Unknown}
        BY <1>0, <2>1 DEF Goals, Pod
      <3>2. (IF target = None THEN pod.ret ELSE "corrected") \in Steps
        BY <2>2 DEF Steps
      <3>3. [pod EXCEPT !.pc = pod.ret, !.local = {}] \in Pod
        BY <1>0, <2>2, PodLocal
      <3>4. [pod EXCEPT !.dirty = TRUE, !.local = {}, !.aim = target,
                        !.applied = IF target = None THEN None ELSE pod.applied,
                        !.pc = IF target = None THEN pod.ret ELSE "corrected"] \in Pod
        BY <1>0, <3>1, <3>2, PodCorrects
      <3> QED
        BY <2>3, <3>3, <3>4
    <2>5. pod'.pc \in {"idle", "window", "reread"} \/ (pod'.pc = "corrected" /\ pod'.aim \in Versions)
      BY <1>0, <2>1, <2>2, <2>3 DEF Pod
    <2>6. goal' \in Goals /\ UNCHANGED <<claimed, state, envVars, checked>> /\ news' \in BOOLEAN
      BY <1>0, <1>14, <2>1 DEF Correct, NodeTypes, nodeVars, Goals, target
    <2> QED
      BY <1>0, <2>4, <2>5, <2>6 DEF NodeTypes, PodAims, envVars
  <1>15. CASE Reread
    <2>0. CASE ReadFails("idle")
      BY <1>17, <2>0
    <2> SUFFICES ASSUME ~ReadFails("idle") PROVE NodeTypes' /\ PodAims'
      BY <2>0
    <2>1. View[1] \in Goals /\ View[2] \in States /\ View[3] \in 0..MaxOccurrences
      BY <1>0 DEF View, NodeTypes, Pod
    <2>2. pod' \in Pod
      <3>1. {"enqueue", "idle"} \subseteq Steps
        BY DEF Steps
      <3>2. [pod EXCEPT !.goal = View[1], !.state = View[2], !.claimed = View[3],
                        !.pc = "enqueue", !.sums = {}] \in Pod
        BY <1>0, <2>1, <3>1, PodRereads
      <3>3. [pod EXCEPT !.pc = "idle"] \in Pod
        BY <1>0, <3>1, PodGoto
      <3> QED
        BY <1>15, <3>2, <3>3 DEF Reread
    <2>3. pod'.pc \in {"enqueue", "idle"}
      BY <1>0, <1>15 DEF Reread, Pod
    <2> QED
      BY <1>0, <1>15, <2>2, <2>3 DEF Reread, NodeTypes, PodAims, nodeVars, envVars
  <1>16. CASE RequestReboot
    <2>1. pod' \in Pod /\ pod'.pc = "idle" /\ UNCHANGED <<envVars, checked>>
      <3>1. Enter("idle")
        BY <1>16 DEF RequestReboot
      <3> QED
        BY <1>0, <3>1, EnterEffect DEF Steps
    <2>2. state' \in States /\ UNCHANGED <<goal, claimed, news>>
      BY <1>0, <1>16 DEF RequestReboot, NodeTypes, nodeVars, States
    <2> QED
      BY <1>0, <2>1, <2>2 DEF NodeTypes, PodAims, envVars
  <1> QED
    BY <1>2, <1>3, <1>4, <1>5, <1>6, <1>7, <1>8, <1>9, <1>10, <1>11, <1>12, <1>13, <1>14, <1>15,
       <1>16 DEF ThinkStep
LEMMA GotoEffect ==
    ASSUME pod \in Pod, NEW pc \in Steps, Goto(pc)
    PROVE  /\ pod' \in Pod /\ pod'.pc = pc
           /\ pod'.goal = pod.goal /\ pod'.aim = pod.aim /\ pod'.sums = pod.sums
           /\ pod'.applied = pod.applied /\ pod'.occ = pod.occ /\ pod'.hands = pod.hands
  <1>1. pod' \in Pod
    BY PodGoto DEF Goto
  <1> QED
    BY <1>1 DEF Goto, Pod

\* A failed read moves the pod on, and that is all.
LEMMA ReadFailsEffect ==
    ASSUME pod \in Pod, NEW pc \in Steps, ReadFails(pc)
    PROVE  /\ Goto(pc) /\ UNCHANGED <<nodeVars, envVars, checked, news>> /\ StoreIdle
           /\ pod' \in Pod /\ pod'.pc = pc
           /\ pod'.goal = pod.goal /\ pod'.aim = pod.aim /\ pod'.sums = pod.sums
           /\ pod'.applied = pod.applied /\ pod'.occ = pod.occ /\ pod'.hands = pod.hands
  BY GotoEffect DEF ReadFails, Keep, StoreIdle

\* The steps of the pod around a session of the partition: it opens one, or
\* takes over what one returned.
AskStep ==
    \/ ReconcileFresh \/ Reconciled \/ Restage \/ Restaged \/ Converge \/ Converged
    \/ StageLatest \/ Staged \/ Adopted \/ Corrected \/ Enqueue \/ Ensured

LEMMA AskHand ==
    ASSUME NodeTypes, PodAims, AskStep
    PROVE  HandNext \/ UNCHANGED storeVars
  <1> USE DEF At, Returned, Consume, Open
  <1>1. (\E v \in Versions : Stage("pod", v) \/ EnsureBootGoal("pod", v)) \/ Finish("pod") \/ StoreIdle
        => HandNext \/ UNCHANGED storeVars
    BY IdleIsHand DEF HandNext, StoreNext, Actors
  <1>2. (pod.pc \in {"stage", "staged", "anchor", "adopt", "adopted"}) => Latest \in Versions
    BY LatestType DEF PodAims
  <1>3. CASE ReconcileFresh
    BY <1>1, <1>3 DEF ReconcileFresh, StoreIdle, ReadFails, Local
  <1>4. CASE Restage \/ Converge
    BY <1>1, <1>4 DEF Restage, Converge, PodAims
  <1>5. CASE StageLatest \/ Adopted
    BY <1>1, <1>2, <1>5 DEF StageLatest, Adopted
  <1>6. CASE Corrected
    BY <1>1, <1>6 DEF Corrected, PodAims
  <1>7. CASE Enqueue
    BY <1>1, <1>7 DEF Enqueue, Eligible, StoreIdle
  <1>8. CASE Reconciled \/ Restaged \/ Converged \/ Staged \/ Ensured
    BY <1>1, <1>8 DEF Reconciled, Restaged, Converged, Staged, Ensured
  <1> QED
    BY <1>3, <1>4, <1>5, <1>6, <1>7, <1>8 DEF AskStep

LEMMA NodeInvAsk ==
    ASSUME NodeInv, AskStep
    PROVE  NodeTypes' /\ PodAims'
  <1> USE DEF NodeInv
  <1>0. NodeTypes /\ PodAims /\ pod \in Pod
    BY DEF NodeTypes
  <1>1. Keep
    BY DEF AskStep, ReconcileFresh, Reconciled, Restage, Restaged, Converge, Converged, StageLatest,
           Staged, Adopted, Corrected, Enqueue, Ensured, Consume, Open, Local, ReadFails
  <1>2. SUFFICES pod' \in Pod /\ PodAims'
    BY <1>0, <1>1 DEF Keep, NodeTypes, nodeVars, envVars
  <1> USE DEF Goto, Open, Returned, Consume, At
  <1>3. ASSUME NEW pc \in Steps \ {"reconciled", "corrected", "restage", "converge", "stage", "staged",
                                   "anchor", "adopt", "adopted"},
               Goto(pc)
        PROVE  pod' \in Pod /\ PodAims'
    <2>1. pod' \in Pod /\ pod'.pc = pc
      BY <1>0, <1>3, PodGoto DEF Pod
    <2> QED
      BY <2>1 DEF PodAims
  <1>4. ASSUME NEW pc \in {"staged", "anchor", "adopted"}, Goto(pc),
               pod.pc \in {"stage", "staged", "adopted"}
        PROVE  pod' \in Pod /\ PodAims'
    <2>1. pod' \in Pod /\ pod'.pc = pc /\ pod'.sums = pod.sums
      BY <1>0, <1>4, GotoEffect DEF Steps
    <2> QED
      BY <1>0, <1>4, <2>1 DEF PodAims
  <1>5. CASE ReconcileFresh
    <2>1. CASE Value(goal) = None /\ pod' = [pod EXCEPT !.pc = "window", !.applied = None]
      <3>1. "window" \in Steps
        BY DEF Steps
      <3>2. pod' \in Pod /\ pod'.pc = "window"
        BY <1>0, <2>1, <3>1, PodForgets
      <3> QED
        BY <3>2 DEF PodAims
    <2>2. CASE goal = Malformed /\ pod' = [pod EXCEPT !.pc = "safe", !.ret = "window", !.aim = goal]
      BY <1>0, <2>2 DEF Pod, Steps, PodAims, NodeTypes
    <2>3. CASE goal \in Versions /\ pod' = [pod EXCEPT !.pc = "reconciled", !.aim = goal]
      BY <1>0, <2>3 DEF Pod, Steps, PodAims, Goals
    <2>4. CASE Goto("window")
      BY <1>3, <2>4 DEF Steps
    <2> QED
      BY <1>5, <2>1, <2>2, <2>3, <2>4 DEF ReconcileFresh, ReadFails
  <1>6. CASE Reconciled
    <2>1. pod.aim \in Versions
      BY <1>0, <1>6 DEF Reconciled, PodAims
    <2> DEFINE next == IF GoalMoved \/ sess["pod"].outcome = "repointed" THEN "rearm" ELSE "window"
    <2>2. next \in {"rearm", "window"}
      OBVIOUS
    <2> HIDE DEF next
    <2>3. CASE pod' = [pod EXCEPT !.applied = pod.aim, !.ret = "window", !.pc = next]
      BY <1>0, <2>1, <2>2, <2>3 DEF Pod, Steps, PodAims
    <2>4. CASE pod' = [pod EXCEPT !.applied = pod.aim, !.pc = "window"]
      BY <1>0, <2>1, <2>4 DEF Pod, Steps, PodAims
    <2>5. CASE Goto("window")
      BY <1>3, <2>5 DEF Steps
    <2> QED
      BY <1>6, <2>3, <2>4, <2>5 DEF Reconciled, next
  <1>7. CASE Restage \/ Restaged \/ Converge \/ Converged \/ Ensured
    <2>1. \E pc \in {"restaged", "rearm", "reread", "converged", "request", "idle"} : Goto(pc)
      BY <1>7 DEF Restage, Restaged, Converge, Converged, Ensured
    <2> QED
      BY <1>3, <2>1 DEF Steps
  <1>8. CASE StageLatest
    BY <1>4, <1>8 DEF StageLatest
  <1>9. CASE Staged
    <2>1. Goto("anchor") \/ Goto("reread")
      BY <1>9 DEF Staged
    <2> QED
      BY <1>3, <1>4, <1>9, <2>1 DEF Staged, Steps
  <1>10. CASE Adopted
    <2>1. Goto("adopted") \/ Goto("rearm")
      BY <1>10 DEF Adopted
    <2> QED
      BY <1>3, <1>4, <1>10, <2>1 DEF Adopted, Steps
  <1>11. CASE Corrected
    <2>1. pod.pc = "corrected" /\ pod.aim \in Versions
      BY <1>0, <1>11 DEF Corrected, PodAims
    <2>2. CASE Goto("corrected")
      <3>1. pod' \in Pod /\ pod'.pc = "corrected" /\ pod'.aim = pod.aim
        BY <1>0, <2>2, GotoEffect DEF Steps
      <3> QED
        BY <2>1, <3>1 DEF PodAims
    <2>3. CASE pod' = [pod EXCEPT !.pc = "rearm", !.applied = pod.aim]
      BY <1>0, <2>1, <2>3 DEF Pod, Steps, PodAims
    <2>4. CASE Goto(pod.ret)
      <3>1. pod.ret \in {"idle", "window", "reread"}
        BY <1>0 DEF Pod
      <3> QED
        BY <1>3, <2>4, <3>1 DEF Steps
    <2> QED
      BY <1>11, <2>2, <2>3, <2>4 DEF Corrected
  <1>12. CASE Enqueue
    <2>1. CASE pod' = [pod EXCEPT !.pc = "ensured", !.hands = hands]
      BY <1>0, <2>1 DEF Pod, Steps, PodAims, NodeTypes
    <2>2. CASE Goto("idle")
      BY <1>3, <2>2 DEF Steps
    <2> QED
      BY <1>12, <2>1, <2>2 DEF Enqueue
  <1> QED
    BY <1>5, <1>6, <1>7, <1>8, <1>9, <1>10, <1>11, <1>12 DEF AskStep
\* Everybody else: the sessions, the other writers of the node, the host.
EnvStep ==
    \/ PodSession \/ PodCrash \/ CliStart \/ CliSession \/ FileRemoved
    \/ HostRestart \/ HostUp \/ Reboots \/ Operator \/ WindowsPass

LEMMA EnvHand == EnvStep => HandNext \/ UNCHANGED storeVars
  <1>1. PodSession \/ CliSession => HandNext
    BY DEF PodSession, CliSession, HandNext, StoreNext, Actors
  <1>2. CliStart => HandNext
    BY DEF CliStart, HandNext, StoreNext
  <1>3. FileRemoved => HandNext
    BY DEF FileRemoved, HandNext, HandRemoval
  <1>4. HostRestart \/ HostUp => HandNext
    BY DEF HostRestart, HostUp, HandNext, StoreNext
  <1>5. PodCrash => HandNext
    BY DEF PodCrash, HandNext, StoreNext, Actors, OtherFault, Fault, StoreButFaults
  <1>6. Reboots \/ Operator \/ WindowsPass => UNCHANGED storeVars
    BY DEF Reboots, Operator, WindowsPass
  <1> QED
    BY <1>1, <1>2, <1>3, <1>4, <1>5, <1>6 DEF EnvStep

LEMMA NodeInvEnv ==
    ASSUME NodeInv, EnvStep
    PROVE  NodeTypes' /\ PodAims'
  <1> USE DEF NodeInv
  <1>0. NodeTypes /\ PodAims
    OBVIOUS
  <1>1. CASE pod' = FreshPod /\ UNCHANGED <<goal, claimed, envVars, checked, news>> /\ state' \in States
    BY <1>0, <1>1, FreshPodType DEF NodeTypes, PodAims, envVars
  <1>2. CASE PodCrash
    <2>1. pod' = FreshPod /\ news' \in BOOLEAN /\ UNCHANGED <<nodeVars, envVars, checked>>
      BY <1>2 DEF PodCrash, Touched
    <2> QED
      BY <1>0, <2>1, FreshPodType DEF NodeTypes, PodAims, nodeVars, envVars
  <1>3. CASE HostRestart
    BY <1>0, <1>1, <1>3 DEF HostRestart, NodeTypes, States
  <1>4. ASSUME Others, state' \in States, edits' \in 0..MaxEdits, hands' \in 0..MaxHands,
               news' \in BOOLEAN
        PROVE  NodeTypes' /\ PodAims'
    BY <1>0, <1>4 DEF Others, NodeTypes, PodAims
  <1>5. Touched => news' \in BOOLEAN
    BY DEF Touched
  <1>6. Edit => edits' \in 0..MaxEdits
    BY <1>0 DEF Edit, NodeTypes
  <1>7. CASE PodSession \/ CliSession
    BY <1>0, <1>4, <1>5, <1>7 DEF PodSession, CliSession, NodeTypes
  <1>8. CASE CliStart \/ FileRemoved
    <2>1. hands' \in 0..MaxHands
      BY <1>0, <1>8 DEF CliStart, FileRemoved, ByHand, NodeTypes
    <2>2. Others /\ state' = state /\ edits' = edits /\ news' \in BOOLEAN
      BY <1>5, <1>8 DEF CliStart, FileRemoved, ByHand
    <2> QED
      BY <1>0, <1>4, <2>1, <2>2 DEF NodeTypes
  <1>9. CASE HostUp
    BY <1>0, <1>4, <1>6, <1>9 DEF HostUp, NodeTypes
  <1>10. CASE Reboots
    BY <1>0, <1>4, <1>10 DEF Reboots, NodeTypes, States
  <1>11. CASE Operator
    <2>1. goal' \in Goals /\ state' \in States /\ index' \subseteq Versions /\ news' \in BOOLEAN
      BY <1>0, <1>11 DEF Operator, SetGoal, NodeTypes, States
    <2> QED
      BY <1>0, <1>6, <1>11, <2>1 DEF Operator, podVars, NodeTypes, PodAims
  <1>12. CASE WindowsPass
    <2>1. occ' \in 0..MaxOccurrences /\ open' \in BOOLEAN
      <3>1. occ \in 0..MaxOccurrences /\ open \in BOOLEAN
        BY <1>0 DEF NodeTypes
      <3>2. (occ < MaxOccurrences /\ occ' = occ + 1 /\ open' = TRUE) \/ (open' = FALSE /\ occ' = occ)
        BY <1>12 DEF WindowsPass
      <3>3. occ' \in 0..MaxOccurrences
        BY <3>1, <3>2
      <3>4. open' \in BOOLEAN
        BY <3>2, Zenon
      <3> QED
        BY <3>3, <3>4
    <2>2. UNCHANGED <<nodeVars, podVars, index, edits, hands, news>>
      BY <1>12 DEF WindowsPass
    <2> QED
      BY <1>0, <2>1, <2>2 DEF nodeVars, podVars, NodeTypes, PodAims
  <1> QED
    BY <1>2, <1>3, <1>7, <1>8, <1>9, <1>10, <1>11, <1>12 DEF EnvStep

LEMMA StepKinds == Next => ThinkStep \/ AskStep \/ EnvStep
  BY DEF Next, PodStep, ThinkStep, AskStep, EnvStep

LEMMA NodeHand ==
    ASSUME NodeTypes, PodAims, [Next]_vars
    PROVE  HandNext \/ UNCHANGED storeVars
  BY StepKinds, ThinkIdle, IdleIsHand, AskHand, EnvHand DEF vars

LEMMA NodeInvInit == Init => NodeInv
  <1> SUFFICES ASSUME Init PROVE NodeInv
    OBVIOUS
  <1>1. SpaceInv
    BY SpaceInvInit DEF Init
  <1>2. NodeTypes
    <2>1. 0 \in 0..MaxOccurrences /\ 0 \in 0..MaxEdits /\ 0 \in 0..MaxHands
      OBVIOUS
    <2>2. None \in Goals /\ "absent" \in States /\ Indexed \subseteq Versions
      BY DEF Goals, States
    <2> QED
      BY <2>1, <2>2, FreshPodType DEF Init, NodeTypes
  <1>3. PodAims
    BY FreshPodType DEF Init, PodAims
  <1> QED
    BY <1>1, <1>2, <1>3 DEF NodeInv

LEMMA NodeInvNext == NodeInv /\ [Next]_vars => NodeInv'
  <1> SUFFICES ASSUME NodeInv, [Next]_vars PROVE NodeInv'
    OBVIOUS
  <1>1. SpaceInv'
    BY NodeHand, SpaceInvNext DEF NodeInv
  <1>2. NodeTypes' /\ PodAims'
    <2>1. CASE UNCHANGED vars
      BY <2>1 DEF NodeInv, NodeTypes, PodAims, vars, nodeVars, podVars, envVars
    <2> QED
      BY <2>1, StepKinds, NodeInvThink, NodeInvAsk, NodeInvEnv
  <1> QED
    BY <1>1, <1>2 DEF NodeInv

LEMMA NodeInvariant == Spec => []NodeInv
  BY NodeInvInit, NodeInvNext, PTL DEF Spec

\* Every variable of the node, the pod and the partition stays in its domain,
\* and what a partition session is opened for is a version.
THEOREM NodeTypeCorrect == Spec => []TypeOK
  <1>1. NodeInv => TypeOK
    BY DEF NodeInv, SpaceInv, LockInv, NodeTypes, TypeOK
  <1> QED
    BY <1>1, NodeInvariant, PTL

\* The capacity check of staging.go holds in the whole node: whatever the pod
\* plans, nodectl does and an operator removes, a copy never runs out of space,
\* and the flock has one holder.
THEOREM NodeCopiesFit == Spec => [](FitsPartition /\ OneHolder)
  <1>1. NodeInv => FitsPartition /\ OneHolder
    BY DEF NodeInv, SpaceInv, LockInv
  <1> QED
    BY <1>1, NodeInvariant, PTL
-----------------------------------------------------------------------------
(* The pod's control: where a step can lead.                               *)

LEMMA ThinkFlow ==
    ASSUME NodeTypes, ThinkStep
    PROVE  \/ Claim /\ pod'.pc \in {"check", "reread"}
           \/ Plan /\ pod'.pc \in {PlanFor(Present), "reread"}
           \/ SafeScan /\ pod'.pc \in {"correct", "idle", "window", "reread"}
           \/ Reread /\ pod'.pc \in {"enqueue", "idle"}
           \/ Anchor /\ pod'.pc \in {"rearm", "reread"}
           \/ Adopt /\ pod'.pc \in {"adopted", "reread"}
           \/ Correct /\ pod'.pc \in {"window", "reread", "idle", "corrected"}
           \/ Check /\ pod'.pc \in {"plan", "reread"}
           \/ /\ BeginCycle \/ BootstrapScan \/ Bootstrap \/ Flavor \/ Reconcile \/ Rearm
                 \/ Window \/ RequestReboot
              /\ pod'.pc \in {"scan", "bootstrap", "flavor", "reconcile", "fresh", "window", "claim",
                              "reread", "idle"}
  <1>0. pod \in Pod /\ pod.ret \in {"idle", "window", "reread"}
    BY DEF NodeTypes, Pod
  <1> USE DEF At, Goto, Enter, EnterDirty, ReadFails
  <1>1. CASE Claim
    BY <1>0, <1>1 DEF Claim, Write, Pod
  <1>2. CASE Plan
    BY <1>0, <1>2 DEF Plan, Pod
  <1>3. CASE SafeScan
    BY <1>0, <1>3 DEF SafeScan, Pod
  <1>4. CASE Reread
    BY <1>0, <1>4 DEF Reread, Pod
  <1>5. CASE Anchor
    BY <1>0, <1>5 DEF Anchor, Write, Pod
  <1>6. CASE Adopt
    BY <1>0, <1>6 DEF Adopt, Write, Pod
  <1>7. CASE Correct
    <2> DEFINE target == SafeTarget(pod.local)
               next == IF target = None THEN pod.ret ELSE "corrected"
               applied == IF target = None THEN None ELSE pod.applied
    <2>1. next \in {"window", "reread", "idle", "corrected"}
      BY <1>0
    <2>2. \/ pod' = [pod EXCEPT !.dirty = TRUE, !.local = {}, !.aim = target, !.applied = applied,
                                !.pc = next]
          \/ pod' = [pod EXCEPT !.pc = pod.ret, !.local = {}]
      BY <1>7 DEF Correct, Write
    <2> HIDE DEF next, applied, target
    <2>3. pod'.pc \in {next, pod.ret}
      BY <1>0, <2>2 DEF Pod
    <2> QED
      BY <1>0, <1>7, <2>1, <2>3
  <1>8. CASE Check
    BY <1>0, <1>8 DEF Check, Pod
  <1>9. CASE BeginCycle \/ BootstrapScan \/ Flavor \/ Reconcile \/ Window
    <2>1. BeginCycle => pod'.pc \in {"scan", "flavor"}
      BY <1>0 DEF BeginCycle, Pod
    <2>2. BootstrapScan => pod'.pc \in {"flavor", "bootstrap"}
      BY <1>0 DEF BootstrapScan, Pod
    <2>3. Flavor => pod'.pc \in {"reconcile", "idle"}
      BY <1>0 DEF Flavor, Pod
    <2>4. Reconcile => pod'.pc \in {"window", "fresh"}
      BY <1>0 DEF Reconcile, Pod
    <2>5. Window => pod'.pc \in {"claim", "reread"}
      <3> SUFFICES ASSUME Window PROVE pod'.pc \in {"claim", "reread"}
        OBVIOUS
      <3> DEFINE q     == [pod EXCEPT !.goal = View[1], !.state = View[2], !.claimed = View[3]]
                 fresh == ClaimFrom(View[3])
                 old   == ClaimFrom(pod.claimed)
      <3>1. fresh \in {"claim", "reread"} /\ old \in {"claim", "reread"}
        BY DEF ClaimFrom
      <3>2. pod' = [q EXCEPT !.pc = fresh] \/ pod' = [pod EXCEPT !.pc = old]
        BY DEF Window
      <3>3. \A c : [q EXCEPT !.pc = c].pc = c /\ [pod EXCEPT !.pc = c].pc = c
        BY <1>0 DEF Pod
      <3> HIDE DEF q, fresh, old
      <3> QED
        BY <3>1, <3>2, <3>3
    <2> QED
      BY <1>9, <2>1, <2>2, <2>3, <2>4, <2>5
  <1>10. CASE Bootstrap \/ RequestReboot
    BY <1>0, <1>10 DEF Bootstrap, RequestReboot, Write, Pod
  <1>11. CASE Rearm
    BY <1>0, <1>11 DEF Rearm, Write, Pod
  <1> QED
    BY <1>1, <1>2, <1>3, <1>4, <1>5, <1>6, <1>7, <1>8, <1>9, <1>10, <1>11 DEF ThinkStep

LEMMA AskFlow ==
    ASSUME NodeTypes, AskStep
    PROVE  \/ ReconcileFresh /\ pod'.pc \in {"window", "safe", "reconciled"}
           \/ Enqueue /\ pod'.pc \in {"ensured", "idle"}
           \/ Ensured /\ pod'.pc \in {"request", "idle"}
           \/ /\ Reconciled \/ Restage \/ Restaged \/ Converge \/ Converged
                 \/ StageLatest \/ Staged \/ Adopted \/ Corrected
              /\ pod'.pc \in {"window", "rearm", "reread", "restaged", "converged", "staged",
                              "anchor", "adopted", "corrected", "idle"}
  <1>0. pod \in Pod /\ pod.ret \in {"idle", "window", "reread"}
    BY DEF NodeTypes, Pod
  <1> USE DEF At, Goto, Open, Returned
  <1>1. CASE ReconcileFresh
    BY <1>0, <1>1 DEF ReconcileFresh, ReadFails, Pod
  <1>2. CASE Enqueue
    BY <1>0, <1>2 DEF Enqueue, Pod
  <1>3. CASE Ensured
    BY <1>0, <1>3 DEF Ensured, Pod
  <1>4. CASE Reconciled
    BY <1>0, <1>4 DEF Reconciled, Pod
  <1>5. CASE Restage \/ Restaged \/ Converge \/ Converged
    BY <1>0, <1>5 DEF Restage, Restaged, Converge, Converged, Pod
  <1>6. CASE StageLatest \/ Staged \/ Adopted
    BY <1>0, <1>6 DEF StageLatest, Staged, Adopted, Pod
  <1>7. CASE Corrected
    BY <1>0, <1>7 DEF Corrected, Pod
  <1> QED
    BY <1>1, <1>2, <1>3, <1>4, <1>5, <1>6, <1>7 DEF AskStep

LEMMA EnvFlow ==
    ASSUME EnvStep
    PROVE  UNCHANGED <<checked, claimed>> /\ (pod' = pod \/ pod' = FreshPod)
  BY DEF EnvStep, PodSession, PodCrash, CliStart, CliSession, FileRemoved, HostRestart, HostUp,
         Reboots, Operator, WindowsPass, ByHand, Others, nodeVars, podVars
-----------------------------------------------------------------------------
(* One check per occurrence.                                               *)

\* What was checked had been claimed; an occurrence that is claimed and about to
\* be checked was not checked before.
ClaimInv ==
    /\ \A o \in checked : o <= claimed
    /\ pod.pc = "check" => pod.occ \notin checked /\ pod.occ <= claimed

LEMMA OnlyClaims ==
    ASSUME NodeTypes, [Next]_vars, ~Claim
    PROVE  claimed' = claimed
  <1>1. CASE EnvStep
    BY <1>1, EnvFlow
  <1>2. CASE AskStep
    <2>1. Keep
      BY <1>2 DEF AskStep, ReconcileFresh, Reconciled, Restage, Restaged, Converge, Converged,
                  StageLatest, Staged, Adopted, Corrected, Enqueue, Ensured, Consume, Open, Local, ReadFails
    <2> QED
      BY <2>1 DEF Keep, nodeVars
  <1>3. CASE ThinkStep
    BY <1>3 DEF ThinkStep, BeginCycle, BootstrapScan, Bootstrap, Flavor, Reconcile, Rearm, Window,
                Check, Plan, Anchor, Adopt, SafeScan, Correct, Reread, RequestReboot, Write, SetGoal,
                Local, Keep, ReadFails, nodeVars
  <1> QED
    BY <1>1, <1>2, <1>3, StepKinds DEF vars, nodeVars

LEMMA OnlyChecks ==
    ASSUME NodeTypes, [Next]_vars, ~Check
    PROVE  checked' = checked
  <1>1. CASE EnvStep
    BY <1>1, EnvFlow
  <1>2. CASE AskStep
    <2>1. Keep
      BY <1>2 DEF AskStep, ReconcileFresh, Reconciled, Restage, Restaged, Converge, Converged,
                  StageLatest, Staged, Adopted, Corrected, Enqueue, Ensured, Consume, Open, Local, ReadFails
    <2> QED
      BY <2>1 DEF Keep
  <1>3. CASE ThinkStep
    BY <1>3 DEF ThinkStep, BeginCycle, BootstrapScan, Bootstrap, Flavor, Reconcile, Rearm, Window,
                Claim, Plan, Anchor, Adopt, SafeScan, Correct, Reread, RequestReboot, Write,
                Enter, EnterDirty, Local, Keep, ReadFails
  <1> QED
    BY <1>1, <1>2, <1>3, StepKinds DEF vars, podVars

LEMMA ClaimInvNext ==
    ASSUME NodeInv, ClaimInv, [Next]_vars
    PROVE  ClaimInv'
  <1>0. NodeTypes /\ pod \in Pod /\ claimed \in Nat /\ pod.occ \in Nat
        /\ checked \subseteq Nat
    BY DEF NodeInv, NodeTypes, Pod
  <1>1. CASE Claim
    <2>1. pod.pc = "claim" /\ (claimed' = claimed \/ (claimed < pod.occ /\ claimed' = pod.occ))
      BY <1>1 DEF Claim, Write, ClaimGuard, At, nodeVars
    <2>2. checked' = checked
      BY <1>0, <1>1, <2>1, OnlyChecks DEF Check, At
    <2>3. \A o \in checked' : o <= claimed'
      <3> SUFFICES ASSUME NEW o \in checked PROVE o <= claimed'
        BY <2>2
      <3>1. o \in Nat /\ o <= claimed
        BY <1>0 DEF ClaimInv
      <3> QED
        BY <1>0, <2>1, <3>1
    <2>4. CASE Enter("check")
      <3>1. claimed < pod.occ /\ claimed' = pod.occ
        <4>1. pod'.pc = "check"
          BY <1>0, <2>4, EnterEffect DEF Steps
        <4>2. ~Enter("reread")
          BY <1>0, <4>1, EnterEffect DEF Steps
        <4> QED
          BY <1>1, <4>2 DEF Claim, Write, ClaimGuard
      <3>2. pod'.occ = pod.occ
        BY <1>0, <2>4, EnterEffect DEF Steps
      <3>3. pod.occ \notin checked
        <4>1. pod.occ \in checked => pod.occ <= claimed
          BY DEF ClaimInv
        <4> QED
          BY <1>0, <3>1, <4>1
      <3>4. pod.occ <= claimed'
        BY <1>0, <3>1
      <3> QED
        BY <2>2, <2>3, <3>2, <3>3, <3>4 DEF ClaimInv
    <2>5. CASE Enter("reread")
      <3>1. pod'.pc = "reread"
        BY <1>0, <2>5, EnterEffect DEF Steps
      <3> QED
        BY <2>3, <3>1 DEF ClaimInv
    <2> QED
      BY <1>1, <2>4, <2>5 DEF Claim, Write
  <1>2. CASE Check
    <2>1. pod.pc = "check" /\ checked' = checked \cup {pod.occ} /\ claimed' = claimed
      BY <1>2 DEF Check, At, nodeVars
    <2>2. pod'.pc # "check"
      BY <1>0, <1>2 DEF Check, Goto, Pod
    <2> QED
      BY <1>0, <2>1, <2>2 DEF ClaimInv
  <1>3. CASE ~Claim /\ ~Check
    <2>1. claimed' = claimed /\ checked' = checked
      BY <1>0, <1>3, OnlyClaims, OnlyChecks
    <2>2. pod'.pc = "check" => pod' = pod
      <3>1. CASE ThinkStep
        <4>1. PlanFor(Present) # "check"
          BY DEF PlanFor
        <4> QED
          BY <1>0, <1>3, <3>1, <4>1, ThinkFlow
      <3>2. CASE AskStep
        BY <1>0, <3>2, AskFlow
      <3>3. CASE EnvStep
        BY <3>3, EnvFlow, FreshPodType
      <3> QED
        BY <3>1, <3>2, <3>3, StepKinds DEF vars, podVars
    <2> QED
      BY <2>1, <2>2 DEF ClaimInv
  <1> QED
    BY <1>1, <1>2, <1>3

\* Decision 21 of PLAN.md: an occurrence of updates.windows is claimed before it
\* is checked and is checked at most once, whatever fails, is lost or restarts.
THEOREM CheckedOnce == Spec => OneCheckPerOccurrence
  <1>1. Init => ClaimInv
    BY FreshPodType DEF Init, ClaimInv
  <1>2. NodeInv /\ ClaimInv /\ [Next]_vars => ClaimInv'
    BY ClaimInvNext
  <1>3. ClaimInv => (pod.pc = "check" /\ pod' # pod /\ pod' # FreshPod => pod.occ \notin checked)
    BY DEF ClaimInv
  <1> QED
    BY <1>1, <1>2, <1>3, NodeInvariant, PTL DEF Spec, OneCheckPerOccurrence

-----------------------------------------------------------------------------
(* Whose pins are replaced.                                                *)

\* What applySafeState is called for: a malformed goal, or a version that the
\* index of this cycle does not list.
AimInv == pod.pc \in {"safe", "correct"} => pod.aim = Malformed \/ pod.aim \notin pod.sums

LEMMA AimInvNext ==
    ASSUME NodeInv, AimInv, [Next]_vars
    PROVE  AimInv'
  <1>0. NodeTypes /\ pod \in Pod
    BY DEF NodeInv, NodeTypes
  <1>1. CASE Plan
    <2>0. CASE ReadFails("reread")
      <3>1. pod'.pc = "reread"
        BY <1>0, <2>0, ReadFailsEffect DEF Steps
      <3> QED
        BY <3>1 DEF AimInv
    <2> SUFFICES ASSUME ~ReadFails("reread") PROVE AimInv'
      BY <2>0
    <2>1. pod'.sums = pod.sums /\ pod'.pc = PlanFor(Present)
          /\ pod'.aim = IF pod.goal \in Versions THEN pod.goal ELSE None
      BY <1>0, <1>1 DEF Plan, Pod
    <2>2. PlanFor(Present) # "correct"
      BY DEF PlanFor
    <2>3. PlanFor(Present) = "safe" => pod.goal \in Versions /\ pod.goal \notin pod.sums
      BY DEF PlanFor, PinMissing
    <2> QED
      BY <2>1, <2>2, <2>3 DEF AimInv
  <1>2. CASE SafeScan
    <2>1. pod.pc = "safe" /\ pod'.sums = pod.sums /\ pod'.aim = pod.aim
      BY <1>0, <1>2 DEF SafeScan, ReadFails, Goto, At, Pod
    <2> QED
      BY <2>1 DEF AimInv
  <1>3. CASE ReconcileFresh
    <2>1. pod'.pc \in {"window", "reconciled"} \/ (pod'.pc = "safe" /\ pod'.aim = Malformed)
      BY <1>0, <1>3 DEF ReconcileFresh, ReadFails, Goto, Pod
    <2> QED
      BY <2>1 DEF AimInv
  <1>4. CASE ~Plan /\ ~SafeScan /\ ~ReconcileFresh
    <2>1. pod'.pc \in {"safe", "correct"} => pod' = pod
      <3>1. CASE ThinkStep
        BY <1>0, <1>4, <3>1, ThinkFlow
      <3>2. CASE AskStep
        BY <1>0, <1>4, <3>2, AskFlow
      <3>3. CASE EnvStep
        BY <3>3, EnvFlow, FreshPodType
      <3> QED
        BY <3>1, <3>2, <3>3, StepKinds DEF vars, podVars
    <2> QED
      BY <2>1 DEF AimInv
  <1> QED
    BY <1>1, <1>2, <1>3, <1>4

\* Only four writes of the pod replace the goal, each on the fresh node's guard.
LEMMA PodGoalWrites ==
    ASSUME NodeTypes, [Next]_vars, goal' # goal, pod' # pod
    PROVE  \/ goal \in {None, running}
           \/ pod.pc = "correct" /\ goal = pod.aim
  <1>1. CASE ThinkStep
    BY <1>1 DEF ThinkStep, BeginCycle, BootstrapScan, Bootstrap, Flavor, Reconcile, Rearm, Window,
                Claim, Check, Plan, Anchor, Adopt, SafeScan, Correct, Reread, RequestReboot, Write,
                AnchorGuard, CorrectGuard, Local, Keep, ReadFails, At, nodeVars
  <1>2. CASE AskStep
    <2>1. Keep
      BY <1>2 DEF AskStep, ReconcileFresh, Reconciled, Restage, Restaged, Converge, Converged,
                  StageLatest, Staged, Adopted, Corrected, Enqueue, Ensured, Consume, Open, Local, ReadFails
    <2> QED
      BY <2>1 DEF Keep, nodeVars
  <1>3. CASE EnvStep
    BY <1>3 DEF EnvStep, PodSession, PodCrash, CliStart, CliSession, FileRemoved, HostRestart, HostUp,
                Reboots, Operator, WindowsPass, ByHand, Others, nodeVars, podVars
  <1> QED
    BY <1>1, <1>2, <1>3, StepKinds DEF vars, nodeVars

\* Writer discipline of nodestate/update.go: the pod never replaces an operator's
\* well-formed pin, but for the running version's and one that no release of
\* this cycle's index can satisfy.
THEOREM PinsRespected == Spec => PinKept
  <1>1. Init => AimInv
    BY FreshPodType DEF Init, AimInv
  <1>2. NodeInv /\ AimInv /\ [Next]_vars => AimInv'
    BY AimInvNext
  <1>3. NodeInv /\ AimInv /\ [Next]_vars =>
          (goal' # goal /\ pod' # pod /\ goal \notin BadGoals
             => goal \in {None, running} \/ (goal = pod.aim /\ goal \notin pod.sums))
    BY PodGoalWrites DEF NodeInv, AimInv, BadGoals
  <1> QED
    BY <1>1, <1>2, <1>3, NodeInvariant, PTL DEF Spec, PinKept
-----------------------------------------------------------------------------
(* What a requested reboot finds.                                          *)

\* The goal has its file and nobody else is writing; a config.txt that names no
\* kernel has no line to re-point, and stays as it is.
GoalReady(g) == file[g] # "absent" /\ sess["cli"].at \notin Holding
Points(b, g) == b = g \/ (loader = "rpi" /\ b = Broken)

\* What EnsureBootGoal found or made is still there when the reboot is asked
\* for, unless a session was opened or a file removed by hand meanwhile.
EnsuredInv ==
    /\ pod.pc \in {"ensured", "request"} => pod.goal \in Versions /\ pod.hands <= hands
    /\ pod.pc = "ensured" /\ pod.hands = hands =>
          \/ sess["pod"].at = "done" /\ sess["pod"].outcome \in Failures
          \/ /\ GoalReady(pod.goal)
             /\ \/ sess["pod"].at = "done" /\ Points(boot, pod.goal)
                \/ /\ sess["pod"].at = "rewriting" /\ sess["pod"].then = "done"
                   /\ sess["pod"].outcome = "repointed" /\ Points(sess["pod"].conf.boot, pod.goal)
    /\ pod.pc = "request" /\ pod.hands = hands =>
          GoalReady(pod.goal) /\ sess["pod"].at = "idle" /\ Points(boot, pod.goal)

\* An EnsureBootGoal that does not fail at once.
LEMMA EnsureEffect ==
    ASSUME StoreTypeOK, NEW v \in Versions, EnsureBootGoal("pod", v)
    PROVE  /\ UNCHANGED <<file, loader>> /\ sess'["cli"] = sess["cli"]
           /\ \/ sess'["pod"].at = "done" /\ sess'["pod"].outcome \in Failures /\ boot' = boot
              \/ /\ GoalReady(v)
                 /\ \/ /\ sess'["pod"].at = "done" /\ sess'["pod"].outcome = "ok"
                       /\ boot' = v /\ boot' = boot
                    \/ /\ sess'["pod"].at = "rewriting" /\ sess'["pod"].then = "done" /\ boot' = Broken
                       /\ sess'["pod"].outcome = "repointed" /\ Points(sess'["pod"].conf.boot, v)
  <1> USE DEF Actors
  <1> DEFINE s0 == NewSession("done", v, "ok")
  <1>0. /\ s0 \in Session /\ s0.v = v /\ s0.at = "done" /\ s0.outcome = "ok"
        /\ NewSession("done", v, "failed").at = "done" /\ NewSession("done", v, "failed").outcome = "failed"
    BY NewSessionType DEF SessionSteps, NewSession
  <1>1. CASE Refused("pod", v)
    <2>1. sess'["pod"] = NewSession("done", v, "failed") /\ sess'["cli"] = sess["cli"]
      BY <1>1, OthersKept DEF Refused
    <2> QED
      BY <1>0, <1>1, <2>1 DEF Refused, Failures
  <1>2. CASE PointAt("pod", v)
    <2> HIDE DEF s0
    <2>1. ~Locked /\ UNCHANGED <<file, loader>> /\ sess["cli"].at \notin Holding
      BY <1>2 DEF PointAt, Locked
    <2>2. CASE file[v] = "absent" /\ Become("pod", [s0 EXCEPT !.outcome = "absent"]) /\ boot' = boot
      <3>1. sess'["pod"] = [s0 EXCEPT !.outcome = "absent"] /\ sess'["cli"] = sess["cli"]
        BY <2>2, OthersKept
      <3>2. sess'["pod"].at = "done" /\ sess'["pod"].outcome = "absent"
        BY <1>0, <3>1 DEF Session
      <3> QED
        BY <2>1, <2>2, <3>1, <3>2 DEF Failures
    <2>3. CASE file[v] # "absent" /\ boot = v /\ Become("pod", s0) /\ UNCHANGED <<boot, menu>>
      <3>1. sess'["pod"] = s0 /\ sess'["cli"] = sess["cli"]
        BY <2>3, OthersKept
      <3> QED
        BY <1>0, <2>1, <2>3, <3>1 DEF GoalReady
    <2>4. CASE file[v] # "absent" /\ boot # v /\ SetDefault("pod", [s0 EXCEPT !.outcome = "repointed"], "done")
      <3> DEFINE s1 == [s0 EXCEPT !.outcome = "repointed"]
      <3>1. s1 \in Session /\ s1.v = v /\ s1.outcome = "repointed"
        BY <1>0 DEF Session
      <3> HIDE DEF s1
      <3>2. PICK conf \in [boot : Versions \cup {Broken}, menu : SUBSET Versions] :
               /\ Rewrite("pod", s1, conf, "done")
               /\ conf.boot = v \/ (loader = "rpi" /\ conf.boot = Broken)
        <4>1. SetDefault("pod", s1, "done")
          BY <2>4 DEF s1
        <4> QED
          BY <3>1, <4>1, SetDefaultEffect
      <3>3. sess'["pod"] = [s1 EXCEPT !.at = "rewriting", !.then = "done", !.conf = conf]
            /\ sess'["cli"] = sess["cli"]
        BY <3>2, OthersKept DEF Rewrite
      <3>4. /\ sess'["pod"].at = "rewriting" /\ sess'["pod"].then = "done"
            /\ sess'["pod"].outcome = "repointed" /\ sess'["pod"].conf = conf
        BY <3>1, <3>3 DEF Session
      <3> QED
        BY <2>1, <2>4, <3>2, <3>3, <3>4 DEF GoalReady, Points, Rewrite
    <2> QED
      BY <1>2, <2>2, <2>3, <2>4 DEF PointAt, s0
  <1> QED
    BY <1>1, <1>2 DEF EnsureBootGoal

\* Nothing is deleted where no purge is at hand.
LEMMA NothingHalf ==
    ASSUME StoreTypeOK, NEW a \in Actors, sess[a].at \notin {"room", "retain"},
           NEW removed \in HalfPurges(a)
    PROVE  Without(removed) = file
  <1>1. removed = {}
    BY HalfPurgeSpares
  <1> QED
    BY <1>1 DEF Without, StoreTypeOK

\* The last step of that session.
LEMMA EnsureEnds ==
    ASSUME StoreTypeOK, SessionStep("pod") \/ IOError("pod"),
           sess["pod"].at \in {"done", "idle"} \/ (sess["pod"].at = "rewriting" /\ sess["pod"].then = "done"
                                                    /\ sess["pod"].outcome = "repointed")
    PROVE  /\ UNCHANGED <<file, loader>> /\ sess'["cli"] = sess["cli"] /\ sess["pod"].at = "rewriting"
           /\ sess'["pod"].at = "done"
           /\ sess'["pod"].outcome = "failed" \/ boot' = sess["pod"].conf.boot
  <1> USE DEF Actors
  <1>1. CASE IOError("pod")
    <2>1. sess["pod"].at = "rewriting" /\ sess["pod"].outcome = "repointed"
      BY <1>1 DEF IOError, Holding
    <2>2. PICK removed \in HalfPurges("pod") :
             /\ file' = Without(removed)
             /\ End("pod", IF PruneFails("pod", removed) THEN "ok" ELSE "failed")
      BY <1>1 DEF IOError
    <2>3. ~PruneFails("pod", removed)
      BY <2>1 DEF PruneFails
    <2>4. sess'["pod"] = [sess["pod"] EXCEPT !.at = "done", !.outcome = "failed"]
          /\ sess'["cli"] = sess["cli"]
      BY <2>2, <2>3, OthersKept DEF End
    <2>5. sess'["pod"].at = "done" /\ sess'["pod"].outcome = "failed"
      BY <2>4 DEF StoreTypeOK, Session
    <2>6. file' = file
      BY <2>1, <2>2, NothingHalf
    <2>7. UNCHANGED loader
      BY <1>1 DEF IOError
    <2> QED
      BY <2>1, <2>4, <2>5, <2>6, <2>7
  <1>2. CASE RewriteEnd("pod")
    <2>1. sess'["pod"] = [sess["pod"] EXCEPT !.at = "done"] /\ sess'["cli"] = sess["cli"]
      BY <1>2, OthersKept DEF RewriteEnd, Step
    <2>2. sess'["pod"].at = "done"
      BY <2>1 DEF StoreTypeOK, Session
    <2> QED
      BY <1>2, <2>1, <2>2 DEF RewriteEnd
  <1>3. CASE MakeRoom("pod") \/ CopyBegin("pod") \/ CopyEnd("pod") \/ Point("pod") \/ Retain("pod")
    BY <1>3 DEF MakeRoom, CopyBegin, CopyEnd, Point, Retain
  <1> QED
    BY <1>1, <1>2, <1>3 DEF SessionStep

\* With the flock free of it, nodectl touches neither a file nor the config.
LEMMA CliIdles ==
    ASSUME StoreTypeOK, CliSession
    PROVE  /\ sess'["pod"] = sess["pod"] /\ UNCHANGED <<loader, hands>>
           /\ sess["cli"].at \notin Holding =>
                 UNCHANGED <<file, boot>> /\ sess'["cli"].at \notin Holding
  <1> USE DEF Actors
  <1>1. sess'["pod"] = sess["pod"]
    <2>1. \E s : Become("cli", s)
      BY DEF CliSession, SessionStep, IOError, Finish, Killed, MakeRoom, CopyBegin, CopyEnd, Point,
             RewriteEnd, Retain, Step, End, SetDefault, Rewrite
    <2> QED
      BY <2>1, OthersKept
  <1>2. UNCHANGED <<loader, hands>>
    BY DEF CliSession, SessionStep, IOError, Finish, Killed, MakeRoom, CopyBegin, CopyEnd, Point,
           RewriteEnd, Retain
  <1>3. ASSUME sess["cli"].at \notin Holding
        PROVE  UNCHANGED <<file, boot>> /\ sess'["cli"].at \notin Holding
    <2>1. Finish("cli") \/ Killed("cli")
      BY <1>3 DEF CliSession, SessionStep, IOError, MakeRoom, CopyBegin, CopyEnd, Point,
                  RewriteEnd, Retain, Holding
    <2>2. sess'["cli"] = IdleSession
      BY <2>1, OthersKept DEF Finish, Killed
    <2>3. IdleSession.at = "idle"
      BY DEF IdleSession, NewSession
    <2>4. file' = file /\ boot' = boot
      <3>1. sess["cli"].at \notin {"room", "retain"}
        BY <1>3 DEF Holding
      <3>2. CASE Finish("cli")
        BY <3>2 DEF Finish
      <3>3. CASE Killed("cli")
        BY <3>1, <3>3, NothingHalf DEF Killed
      <3> QED
        BY <2>1, <3>2, <3>3
    <2> QED
      BY <2>2, <2>3, <2>4 DEF Holding
  <1> QED
    BY <1>1, <1>2, <1>3
LEMMA EnsuredInvNext ==
    ASSUME NodeInv, EnsuredInv, [Next]_vars
    PROVE  EnsuredInv'
  <1>0. NodeTypes /\ StoreTypeOK /\ pod \in Pod /\ hands \in Nat /\ pod.hands \in Nat
    BY DEF NodeInv, SpaceInv, LockInv, NodeTypes, Pod
  <1> USE DEF Actors
  \* Asleep: elsewhere in the cycle there is nothing to show.
  <1>1. CASE pod'.pc \notin {"ensured", "request"}
    BY <1>1 DEF EnsuredInv
  \* A step that is not the pod's and touches nothing of this.
  <1>2. ASSUME pod' = pod, UNCHANGED <<file, boot, loader, sess, hands>>
        PROVE  EnsuredInv'
    BY <1>2 DEF EnsuredInv, GoalReady, Points
  \* Somebody puts a hand to the partition.
  <1>3. ASSUME pod' = pod, hands' = hands + 1
        PROVE  EnsuredInv'
    <2>1. pod.pc \in {"ensured", "request"} => pod'.hands < hands'
      BY <1>0, <1>3 DEF EnsuredInv
    <2>2. pod.pc \in {"ensured", "request"} => pod'.hands <= hands' /\ pod'.hands # hands'
      BY <1>0, <1>3, <2>1
    <2> QED
      BY <1>3, <2>2 DEF EnsuredInv
  <1>4. CASE EnvStep
    <2>1. CASE PodSession
      <3>1. pod' = pod /\ hands' = hands
        BY <2>1 DEF PodSession, Others
      <3>2. CASE pod.pc = "ensured" /\ pod.hands = hands
        <4>1. sess["pod"].at = "done" \/ (sess["pod"].at = "rewriting" /\ sess["pod"].then = "done"
                                          /\ sess["pod"].outcome = "repointed")
          BY <3>2 DEF EnsuredInv
        <4>2. /\ UNCHANGED <<file, loader>> /\ sess'["cli"] = sess["cli"] /\ sess["pod"].at = "rewriting"
              /\ sess'["pod"].at = "done"
              /\ sess'["pod"].outcome = "failed" \/ boot' = sess["pod"].conf.boot
          BY <1>0, <2>1, <4>1, EnsureEnds DEF PodSession
        <4> QED
          BY <3>1, <3>2, <4>2 DEF EnsuredInv, GoalReady, Points, Failures
      <3>3. CASE pod.pc = "request" /\ pod.hands = hands
        <4>1. sess["pod"].at = "idle"
          BY <3>3 DEF EnsuredInv
        <4> QED
          BY <1>0, <2>1, <4>1, EnsureEnds DEF PodSession
      <3> QED
        BY <3>1, <3>2, <3>3 DEF EnsuredInv
    <2>2. CASE CliSession
      <3>1. pod' = pod /\ hands' = hands /\ sess'["pod"] = sess["pod"] /\ loader' = loader
        BY <1>0, <2>2, CliIdles DEF CliSession, Others
      <3>2. sess["cli"].at \notin Holding => UNCHANGED <<file, boot>> /\ sess'["cli"].at \notin Holding
        BY <1>0, <2>2, CliIdles
      <3> QED
        BY <3>1, <3>2 DEF EnsuredInv, GoalReady, Points
    <2>3. CASE CliStart \/ FileRemoved
      BY <1>3, <2>3 DEF CliStart, FileRemoved, ByHand, Others
    <2>4. CASE PodCrash \/ HostRestart
      BY <1>1, <2>4, FreshPodType DEF PodCrash, HostRestart
    <2>5. CASE HostUp
      BY <1>2, <2>5 DEF HostUp, BootDefault, ConsoleBoot, BootInto, Others
    <2>6. CASE Reboots \/ Operator \/ WindowsPass
      BY <1>2, <2>6 DEF Reboots, Operator, WindowsPass, Others, podVars, storeVars
    <2> QED
      BY <1>4, <2>1, <2>2, <2>3, <2>4, <2>5, <2>6 DEF EnvStep
  <1>5. CASE Enqueue /\ pod'.pc \in {"ensured", "request"}
    <2>1. Eligible /\ EnsureBootGoal("pod", pod.goal) /\ pod' = [pod EXCEPT !.pc = "ensured", !.hands = hands]
      BY <1>0, <1>5 DEF Enqueue, Goto, Pod
    <2>2. pod.goal \in Versions /\ hands' = hands
      BY <1>5, <2>1 DEF Eligible, Enqueue, Keep, envVars
    <2>3. pod'.pc = "ensured" /\ pod'.hands = hands /\ pod'.goal = pod.goal
      BY <1>0, <2>1 DEF Pod
    <2>4. GoalReady(pod.goal) => GoalReady(pod.goal)'
      BY <1>0, <2>1, <2>2, <2>3, EnsureEffect DEF GoalReady
    <2>5. \/ sess'["pod"].at = "done" /\ sess'["pod"].outcome \in Failures
          \/ /\ GoalReady(pod.goal)'
             /\ \/ sess'["pod"].at = "done" /\ Points(boot, pod.goal)'
                \/ /\ sess'["pod"].at = "rewriting" /\ sess'["pod"].then = "done"
                   /\ sess'["pod"].outcome = "repointed" /\ Points(sess["pod"].conf.boot, pod.goal)'
      BY <1>0, <2>1, <2>2, <2>3, <2>4, EnsureEffect DEF Points
    <2> QED
      BY <1>0, <2>2, <2>3, <2>5 DEF EnsuredInv
  <1>6. CASE Ensured /\ pod'.pc \in {"ensured", "request"}
    <2>1. Returned("ensured", {"ok", "repointed"}) /\ Goto("request") /\ Consume
      BY <1>0, <1>6 DEF Ensured, Goto, Pod
    <2>2. pod'.pc = "request" /\ pod'.hands = pod.hands /\ pod'.goal = pod.goal
      BY <1>0, <2>1 DEF Goto, Pod
    <2>3. hands' = hands /\ UNCHANGED <<file, boot, loader>>
      BY <2>1 DEF Consume, Finish, Keep, envVars
    <2>4. sess'["pod"] = IdleSession /\ sess'["cli"] = sess["cli"]
      BY <1>0, <2>1, OthersKept DEF Consume, Finish
    <2>5. IdleSession.at = "idle"
      BY DEF IdleSession, NewSession
    <2>6. pod.pc = "ensured" /\ sess["pod"].at = "done" /\ sess["pod"].outcome \notin Failures
      BY <2>1 DEF Returned, At, Failures
    <2> QED
      BY <2>2, <2>3, <2>4, <2>5, <2>6 DEF EnsuredInv, GoalReady, Points
  <1>7. CASE ThinkStep
    <2>1. PlanFor(Present) \notin {"ensured", "request"}
      BY DEF PlanFor
    <2> QED
      BY <1>0, <1>1, <1>7, <2>1, ThinkFlow
  <1>8. CASE AskStep
    BY <1>0, <1>1, <1>5, <1>6, <1>8, AskFlow
  <1>9. CASE UNCHANGED vars
    BY <1>2, <1>9 DEF vars, storeVars, podVars, envVars
  <1> QED
    BY <1>4, <1>7, <1>8, <1>9, StepKinds

\* The reboot that a pod asks for finds the goal's kernel on the partition and
\* the default at it, or a config.txt that names no kernel.
EnqueuedPointed ==
    [][/\ pod.pc = "request" /\ pod' # pod /\ pod.hands = hands
       /\ state = "absent" /\ state' = "requested"
       => file[goal] # "absent" /\ Points(boot, goal)]_vars

LEMMA RequestsGoal ==
    ASSUME NodeTypes, Next, pod.pc = "request", pod' # pod, state = "absent", state' = "requested"
    PROVE  goal = pod.goal
  <1>1. CASE EnvStep
    BY <1>1 DEF EnvStep, PodSession, PodCrash, CliStart, CliSession, FileRemoved, HostRestart, HostUp,
                Reboots, Operator, WindowsPass, ByHand, Others, nodeVars, podVars
  <1>2. CASE AskStep
    <2>1. Keep
      BY <1>2 DEF AskStep, ReconcileFresh, Reconciled, Restage, Restaged, Converge, Converged,
                  StageLatest, Staged, Adopted, Corrected, Enqueue, Ensured, Consume, Open, Local, ReadFails
    <2> QED
      BY <2>1 DEF Keep, nodeVars
  <1>3. CASE ThinkStep
    BY <1>3 DEF ThinkStep, BeginCycle, BootstrapScan, Bootstrap, Flavor, Reconcile, Rearm, Window,
                Claim, Check, Plan, Anchor, Adopt, SafeScan, Correct, Reread, RequestReboot, Write,
                RequestGuard, Local, Keep, ReadFails, At, nodeVars
  <1> QED
    BY <1>1, <1>2, <1>3, StepKinds

\* Lemma of the next two: every reboot the pod requests.
LEMMA EnqueuedStep ==
    ASSUME NodeInv, EnsuredInv, [Next]_vars,
           pod.pc = "request", pod' # pod, pod.hands = hands, state = "absent", state' = "requested"
    PROVE  file[goal] # "absent" /\ Points(boot, goal)
  <1>1. goal = pod.goal
    BY RequestsGoal DEF NodeInv, vars, podVars
  <1> QED
    BY <1>1 DEF EnsuredInv, GoalReady

\* enqueue.go, "the ordering invariant", for every bootloader: the one thing
\* that may be missing is the kernel= line of the Raspberry Pi's config.txt.
THEOREM EnqueuedGoalReady == Spec => EnqueuedPointed
  <1>1. Init => EnsuredInv
    BY FreshPodType DEF Init, EnsuredInv
  <1>2. NodeInv /\ EnsuredInv /\ [Next]_vars => EnsuredInv'
    BY EnsuredInvNext
  <1>3. NodeInv /\ EnsuredInv /\ [Next]_vars =>
          (/\ pod.pc = "request" /\ pod' # pod /\ pod.hands = hands
           /\ state = "absent" /\ state' = "requested"
           => file[goal] # "absent" /\ Points(boot, goal))
    BY EnqueuedStep
  <1> QED
    BY <1>1, <1>2, <1>3, NodeInvariant, PTL DEF Spec, EnqueuedPointed

\* On a board with a bootloader menu the goal is the default when the pod asks for
\* the reboot.
THEOREM EnqueuedGoalBoots ==
    ASSUME "rpi" \notin Loaders
    PROVE  Spec => EnqueuedBootable
  <1>1. Init => EnsuredInv
    BY FreshPodType DEF Init, EnsuredInv
  <1>2. NodeInv /\ EnsuredInv /\ [Next]_vars => EnsuredInv'
    BY EnsuredInvNext
  <1>3. NodeInv => loader # "rpi"
    BY DEF NodeInv, SpaceInv, LockInv, StoreTypeOK
  <1>4. NodeInv /\ EnsuredInv /\ [Next]_vars =>
          (/\ pod.pc = "request" /\ pod' # pod /\ pod.hands = hands
           /\ state = "absent" /\ state' = "requested"
           => file[goal] # "absent" /\ boot = goal)
    BY <1>3, EnqueuedStep DEF Points
  <1> QED
    BY <1>1, <1>2, <1>4, NodeInvariant, PTL DEF Spec, EnqueuedBootable
-----------------------------------------------------------------------------
(* What re-arms a completed reboot.                                        *)

\* The goal, the default or a kernel changed since the host came up; or the
\* config.txt still names no kernel and every EnsureBootGoal writes it again.
Changed == news \/ (loader = "rpi" /\ boot = Broken)

\* Of a pod's session that says "repointed" the write is done, or under way.
RepointedNews ==
    /\ sess["pod"].outcome = "repointed" =>
          \/ sess["pod"].at = "done" /\ Changed
          \/ /\ sess["pod"].at = "rewriting" /\ sess["pod"].then = "done"
             /\ sess["pod"].conf.boot = Broken => loader = "rpi"
    /\ sess["pod"].at = "rewriting" => boot = Broken

\* The pod is about to re-arm because of a change.
RearmNews ==
    /\ pod.pc \in {"adopted", "corrected"} => news
    /\ pod.pc = "rearm" => Changed

\* As long as nothing changed, what the pod applied is the goal, and a kernel
\* that it found missing is missing.
NothingNew ==
    ~news =>
        /\ pod.applied \in {Unknown, Value(goal)}
        /\ pod.pc = "reconciled" => pod.aim = goal
        /\ pod.pc = "restage" => file[pod.goal] = "absent"
        /\ pod.pc = "restaged" =>
              \/ sess["pod"].at = "done" /\ sess["pod"].outcome = "failed"
              \/ sess["pod"].at \in {"room", "copy"} /\ file[sess["pod"].v] = "absent"

NewsInv == (~up => pod = FreshPod) /\ RepointedNews /\ RearmNews /\ NothingNew

LEMMA StageEffect ==
    ASSUME StoreTypeOK, NEW v \in Versions, Stage("pod", v)
    PROVE  /\ UNCHANGED <<file, boot, loader>> /\ sess'["cli"] = sess["cli"]
           /\ \/ sess'["pod"].at = "done" /\ sess'["pod"].outcome = "failed"
              \/ sess'["pod"].at = "done" /\ sess'["pod"].outcome = "ok" /\ file[v] # "absent"
              \/ /\ sess'["pod"].at = "room" /\ sess'["pod"].v = v /\ sess'["pod"].outcome = "ok"
                 /\ file[v] = "absent"
  <1> USE DEF Actors
  <1>1. AlreadyStaged(v, "none") <=> file[v] # "absent"
    BY DEF AlreadyStaged, StoreTypeOK
  <1>2. CASE StageSkip("pod", v) /\ AlreadyStaged(v, "none")
    <2>1. sess'["pod"] = NewSession("done", v, "ok") /\ sess'["cli"] = sess["cli"]
      BY <1>2, OthersKept DEF StageSkip
    <2>2. NewSession("done", v, "ok").at = "done" /\ NewSession("done", v, "ok").outcome = "ok"
      BY DEF NewSession
    <2> QED
      BY <1>1, <1>2, <2>1, <2>2 DEF StageSkip
  <1>3. CASE StageNew("pod", v, TRUE) /\ ~AlreadyStaged(v, "none")
    <2> DEFINE s0 == NewSession("room", v, "ok")
    <2>1. s0 \in Session /\ s0.at = "room" /\ s0.v = v /\ s0.outcome = "ok"
      BY NewSessionType DEF NewSession, SessionSteps, Holding
    <2> HIDE DEF s0
    <2>2. sess'["pod"] = [s0 EXCEPT !.repoint = TRUE, !.keep = Protected(v)] /\ sess'["cli"] = sess["cli"]
      BY <1>3, OthersKept DEF StageNew, s0
    <2>3. sess'["pod"].at = "room" /\ sess'["pod"].v = v /\ sess'["pod"].outcome = "ok"
      BY <2>1, <2>2 DEF Session
    <2> QED
      BY <1>1, <1>3, <2>2, <2>3 DEF StageNew
  <1>4. CASE Refused("pod", v)
    <2>1. sess'["pod"] = NewSession("done", v, "failed") /\ sess'["cli"] = sess["cli"]
      BY <1>4, OthersKept DEF Refused
    <2>2. NewSession("done", v, "failed").at = "done" /\ NewSession("done", v, "failed").outcome = "failed"
      BY DEF NewSession
    <2> QED
      BY <1>4, <2>1, <2>2 DEF Refused
  <1> QED
    BY <1>2, <1>3, <1>4 DEF Stage

LEMMA FinishEffect ==
    ASSUME StoreTypeOK, Finish("pod")
    PROVE  /\ UNCHANGED <<file, boot, loader>> /\ sess'["cli"] = sess["cli"]
           /\ sess'["pod"].at = "idle" /\ sess'["pod"].outcome = "ok"
  <1>1. sess'["pod"] = IdleSession /\ sess'["cli"] = sess["cli"]
    BY OthersKept DEF Finish, Actors
  <1>2. IdleSession.at = "idle" /\ IdleSession.outcome = "ok"
    BY DEF IdleSession, NewSession
  <1> QED
    BY <1>1, <1>2 DEF Finish

\* What a step around a session may do to the partition.
LEMMA AskEffect ==
    ASSUME NodeInv, AskStep
    PROVE  /\ UNCHANGED <<file, loader, up, goal, news>> /\ boot' \in {boot, Broken}
           /\ \/ UNCHANGED <<boot, sess>>
              \/ sess["pod"].at = "done" /\ sess'["pod"].at = "idle" /\ sess'["pod"].outcome = "ok"
                 /\ boot' = boot
              \/ up /\ sess["pod"].at = "idle" /\ \E v \in Versions : EnsureBootGoal("pod", v)
              \/ up /\ sess["pod"].at = "idle" /\ \E v \in Versions : Stage("pod", v)
  <1>0. NodeTypes /\ PodAims /\ StoreTypeOK
    BY DEF NodeInv, SpaceInv, LockInv
  <1>1. ASSUME Finish("pod")
        PROVE  /\ UNCHANGED <<file, loader, up>> /\ boot' = boot
               /\ sess["pod"].at = "done" /\ sess'["pod"].at = "idle" /\ sess'["pod"].outcome = "ok"
    BY <1>0, <1>1, FinishEffect DEF Finish
  <1>2. ASSUME NEW v \in Versions, EnsureBootGoal("pod", v)
        PROVE  UNCHANGED <<file, loader, up>> /\ boot' \in {boot, Broken} /\ up /\ sess["pod"].at = "idle"
    BY <1>0, <1>2, EnsureEffect DEF EnsureBootGoal, PointAt, Refused, Idle
  <1>3. ASSUME NEW v \in Versions, Stage("pod", v)
        PROVE  UNCHANGED <<file, loader, up>> /\ boot' = boot /\ up /\ sess["pod"].at = "idle"
    BY <1>0, <1>3, StageEffect DEF Stage, StageSkip, StageNew, Refused, Idle
  <1>4. Keep
    BY DEF AskStep, ReconcileFresh, Reconciled, Restage, Restaged, Converge, Converged, StageLatest,
           Staged, Adopted, Corrected, Enqueue, Ensured, Consume, Open, Local, ReadFails
  <1>5. UNCHANGED <<goal, news>>
    BY <1>4 DEF Keep, nodeVars
  <1>6. (pod.pc \in {"stage", "staged", "anchor", "adopt", "adopted"}) => Latest \in Versions
    BY <1>0, LatestType DEF PodAims
  <1>7. \/ UNCHANGED <<file, loader, up, boot, sess>>
        \/ Finish("pod")
        \/ \E v \in Versions : EnsureBootGoal("pod", v)
        \/ \E v \in Versions : Stage("pod", v)
    <2> USE DEF At, Open, Returned, Consume
    <2>1. CASE ReconcileFresh
      BY <2>1 DEF ReconcileFresh, ReadFails, Local, storeVars, StoreButFaults
    <2>2. CASE Restage \/ Converge
      BY <1>0, <2>2 DEF Restage, Converge, PodAims
    <2>3. CASE StageLatest \/ Adopted
      BY <1>6, <2>3 DEF StageLatest, Adopted
    <2>4. CASE Corrected
      BY <1>0, <2>4 DEF Corrected, PodAims
    <2>5. CASE Enqueue
      BY <2>5 DEF Enqueue, Eligible, storeVars
    <2>6. CASE Reconciled \/ Restaged \/ Converged \/ Staged \/ Ensured
      BY <2>6 DEF Reconciled, Restaged, Converged, Staged, Ensured
    <2> QED
      BY <2>1, <2>2, <2>3, <2>4, <2>5, <2>6 DEF AskStep
  <1> QED
    BY <1>1, <1>2, <1>3, <1>5, <1>7
\* Only a host that comes up makes news old; the default stays what it was, or
\* becomes readable by a write that is news.
LEMMA NewsKept ==
    ASSUME NodeInv, Next, ~HostUp
    PROVE  /\ news => news'
           /\ Changed => Changed'
           /\ ~news' => ~news /\ goal' = goal /\ (file' = file \/ pod' = FreshPod)
  <1>1. CASE ThinkStep
    <2>1. UNCHANGED <<file, boot, loader>>
      BY <1>1, ThinkIdle DEF StoreIdle, storeVars, StoreButFaults
    <2>2. news' = TRUE \/ (news' = news /\ goal' = goal)
      BY <1>1 DEF ThinkStep, BeginCycle, BootstrapScan, Bootstrap, Flavor, Reconcile, Rearm, Window,
                  Claim, Check, Plan, Anchor, Adopt, SafeScan, Correct, Reread, RequestReboot, Write,
                  SetGoal, Local, Keep, ReadFails, nodeVars
    <2>3. CASE news' = TRUE
      BY <2>3, Zenon DEF Changed
    <2>4. CASE news' = news /\ goal' = goal
      BY <2>1, <2>4, Zenon DEF Changed
    <2> QED
      BY <2>2, <2>3, <2>4
  <1>2. CASE AskStep
    <2>1. UNCHANGED <<file, loader, goal, news>> /\ boot' \in {boot, Broken}
      BY <1>2, AskEffect
    <2> QED
      BY <2>1, Zenon DEF Changed
  <1>3. CASE EnvStep
    <2>1. CASE PodSession \/ CliSession \/ CliStart
      <3>1. news' = (news \/ file' # file \/ boot' # boot) /\ goal' = goal
        BY <2>1 DEF PodSession, CliSession, CliStart, ByHand, Touched, Others
      <3>2. loader' = loader
        BY <2>1 DEF PodSession, CliSession, CliStart, SessionStep, IOError, Finish, Killed, MakeRoom,
                    CopyBegin, CopyEnd, Point, RewriteEnd, Retain, Cli, CliUpdate, EnsureBootGoal,
                    CliPurge, StageSkip, StageNew, Refused, PointAt
      <3> QED
        BY <3>1, <3>2, Zenon DEF Changed
    <2>2. CASE FileRemoved
      <3>1. news' = TRUE
        BY <2>2 DEF FileRemoved
      <3> QED
        BY <3>1, Zenon DEF Changed
    <2>3. CASE PodCrash \/ HostRestart
      <3>1. pod' = FreshPod /\ UNCHANGED <<goal, boot, loader>>
        BY <2>3 DEF PodCrash, HostRestart, Killed, HostDown, PowerLoss, StoreButFaults, nodeVars
      <3>2. news => news'
        BY <2>3 DEF PodCrash, HostRestart, Touched, Killed
      <3>3. ~news' => ~news
        BY <2>3 DEF PodCrash, HostRestart, Touched, Killed, StoreButFaults
      <3> QED
        BY <3>1, <3>2, <3>3, Zenon DEF Changed
    <2>4. CASE Reboots \/ WindowsPass
      <3>1. UNCHANGED <<goal, news, file, boot, loader>>
        BY <2>4 DEF Reboots, WindowsPass, Others, storeVars, nodeVars
      <3> QED
        BY <3>1, Zenon DEF Changed
    <2>5. CASE Operator
      <3>1. UNCHANGED <<file, boot, loader>> /\ (news' = TRUE \/ (goal' = goal /\ news' = news))
        BY <2>5 DEF Operator, SetGoal, storeVars
      <3>2. CASE news' = TRUE
        BY <3>2, Zenon DEF Changed
      <3>3. CASE goal' = goal /\ news' = news
        BY <3>1, <3>3, Zenon DEF Changed
      <3> QED
        BY <3>1, <3>2, <3>3
    <2> QED
      BY <1>3, <2>1, <2>2, <2>3, <2>4, <2>5 DEF EnvStep
  <1> QED
    BY <1>1, <1>2, <1>3, StepKinds

\* A pod that runs, and one whose host is down.
LEMMA DownFreshNext ==
    ASSUME NodeInv, NewsInv, [Next]_vars
    PROVE  ~up' => pod' = FreshPod
  <1>1. CASE ThinkStep
    BY <1>1 DEF ThinkStep, BeginCycle, BootstrapScan, Bootstrap, Flavor, Reconcile, Rearm, Window,
                Claim, Check, Plan, Anchor, Adopt, SafeScan, Correct, Reread, RequestReboot, Write,
                Local, ReadFails, At, storeVars, StoreButFaults
  <1>2. CASE AskStep
    <2>1. up
      BY <1>2 DEF AskStep, ReconcileFresh, Reconciled, Restage, Restaged, Converge, Converged,
                  StageLatest, Staged, Adopted, Corrected, Enqueue, Ensured, Returned, Open, At
    <2> QED
      BY <1>2, <2>1, AskEffect
  <1>3. CASE EnvStep
    <2>1. CASE PodCrash \/ HostRestart
      BY <2>1 DEF PodCrash, HostRestart
    <2>2. CASE PodSession \/ CliSession \/ CliStart
      <3>1. up' = up /\ pod' = pod
        BY <2>2 DEF PodSession, CliSession, CliStart, ByHand, Others, SessionStep, IOError, Finish,
                    Killed, MakeRoom, CopyBegin, CopyEnd, Point, RewriteEnd, Retain, Cli, CliUpdate,
                    EnsureBootGoal, CliPurge, StageSkip, StageNew, Refused, PointAt
      <3> QED
        BY <3>1 DEF NewsInv
    <2>3. CASE FileRemoved \/ Reboots \/ Operator \/ WindowsPass
      <3>1. up' = up /\ pod' = pod
        BY <2>3 DEF FileRemoved, ByHand, Reboots, Operator, WindowsPass, Others, storeVars, podVars
      <3> QED
        BY <3>1 DEF NewsInv
    <2>4. CASE HostUp
      BY <2>4 DEF HostUp, BootDefault, ConsoleBoot, BootInto
    <2> QED
      BY <1>3, <2>1, <2>2, <2>3, <2>4 DEF EnvStep
  <1>4. CASE UNCHANGED vars
    BY <1>4 DEF vars, storeVars, podVars, NewsInv
  <1> QED
    BY <1>1, <1>2, <1>3, <1>4, StepKinds
\* A step of the pod's own session.
LEMMA PodSessionMoves ==
    ASSUME StoreTypeOK, SessionStep("pod") \/ IOError("pod")
    PROVE  /\ sess'["cli"] = sess["cli"] /\ loader' = loader
           /\ \/ sess'["pod"].at = "done" /\ sess'["pod"].outcome \in {"ok", "failed"}
                 /\ (sess["pod"].at \in {"room", "copy"} => sess'["pod"].outcome = "failed")
                 /\ sess["pod"].at # "done"
              \/ /\ sess["pod"].at = "rewriting" /\ boot' = sess["pod"].conf.boot
                 /\ sess'["pod"].at = sess["pod"].then /\ sess'["pod"].outcome = sess["pod"].outcome
              \/ /\ sess["pod"].at \in {"point", "retain"} /\ sess'["pod"].at = "rewriting" /\ boot' = Broken
                 /\ sess'["pod"].outcome = sess["pod"].outcome
              \/ /\ sess["pod"].at = "room" /\ sess'["pod"].at = "copy"
                 /\ sess'["pod"].outcome = sess["pod"].outcome /\ sess'["pod"].v = sess["pod"].v
              \/ /\ sess["pod"].at = "copy" /\ sess'["pod"].at = "copying"
                 /\ sess'["pod"].outcome = sess["pod"].outcome
                 /\ (sess["pod"].v \in Versions => file'[sess["pod"].v] = "torn")
              \/ /\ sess["pod"].at = "copying" /\ sess'["pod"].at \in {"point", "retain"}
                 /\ sess'["pod"].outcome = sess["pod"].outcome
  <1> USE DEF Actors
  <1>0. sess["pod"] \in Session
    BY DEF StoreTypeOK
  <1>1. CASE IOError("pod")
    <2>0. PICK removed \in HalfPurges("pod") :
             End("pod", IF PruneFails("pod", removed) THEN "ok" ELSE "failed")
      BY <1>1 DEF IOError
    <2> DEFINE o == IF PruneFails("pod", removed) THEN "ok" ELSE "failed"
    <2>1. /\ o \in {"ok", "failed"} /\ End("pod", o)
          /\ sess["pod"].at \in {"room", "copy"} => o = "failed"
      BY <2>0 DEF PruneFails
    <2> HIDE DEF o
    <2>4. sess["pod"].at # "done" /\ loader' = loader
      BY <1>1 DEF IOError, Holding
    <2>2. sess'["pod"] = [sess["pod"] EXCEPT !.at = "done", !.outcome = o] /\ sess'["cli"] = sess["cli"]
      BY <2>1, OthersKept DEF End
    <2>3. sess'["pod"].at = "done" /\ sess'["pod"].outcome = o
      BY <1>0, <2>2 DEF Session
    <2> QED
      BY <2>1, <2>2, <2>3, <2>4
  <1>2. ASSUME NEW at \in SessionSteps, Step("pod", at)
        PROVE  /\ sess'["cli"] = sess["cli"] /\ sess'["pod"].at = at
               /\ sess'["pod"].outcome = sess["pod"].outcome /\ sess'["pod"].v = sess["pod"].v
    <2>1. sess'["pod"] = [sess["pod"] EXCEPT !.at = at] /\ sess'["cli"] = sess["cli"]
      BY <1>2, OthersKept DEF Step
    <2> QED
      BY <1>0, <2>1 DEF Session
  <1>3. ASSUME NEW o, End("pod", o)
        PROVE  sess'["cli"] = sess["cli"] /\ sess'["pod"].at = "done" /\ sess'["pod"].outcome = o
    <2>1. sess'["pod"] = [sess["pod"] EXCEPT !.at = "done", !.outcome = o] /\ sess'["cli"] = sess["cli"]
      BY <1>3, OthersKept DEF End
    <2> QED
      BY <1>0, <2>1 DEF Session
  <1>4. ASSUME NEW conf, NEW then, Rewrite("pod", sess["pod"], conf, then)
        PROVE  /\ sess'["cli"] = sess["cli"] /\ sess'["pod"].at = "rewriting" /\ boot' = Broken
               /\ sess'["pod"].outcome = sess["pod"].outcome
    <2>1. sess'["pod"] = [sess["pod"] EXCEPT !.at = "rewriting", !.then = then, !.conf = conf]
          /\ sess'["cli"] = sess["cli"]
      BY <1>4, OthersKept DEF Rewrite
    <2> QED
      BY <1>0, <1>4, <2>1 DEF Session, Rewrite
  <1>5. CASE MakeRoom("pod")
    <2>1. sess["pod"].at = "room" /\ (Step("pod", "copy") \/ End("pod", "failed")) /\ loader' = loader
      BY <1>5 DEF MakeRoom
    <2> QED
      BY <1>2, <1>3, <2>1 DEF SessionSteps, Holding
  <1>6. CASE CopyBegin("pod")
    <2>1. sess["pod"].at = "copy" /\ Step("pod", "copying") /\ loader' = loader
          /\ file' = [file EXCEPT ![sess["pod"].v] = "torn"]
      BY <1>6 DEF CopyBegin
    <2> QED
      BY <1>2, <2>1 DEF SessionSteps, Holding, StoreTypeOK
  <1>7. CASE CopyEnd("pod")
    <2>1. sess["pod"].at = "copying" /\ (Step("pod", "point") \/ Step("pod", "retain")) /\ loader' = loader
      BY <1>7 DEF CopyEnd
    <2> QED
      BY <1>2, <2>1 DEF SessionSteps, Holding
  <1>8. CASE Point("pod")
    <2>1. sess["pod"].at = "point" /\ loader' = loader
          /\ \E conf : Rewrite("pod", sess["pod"], conf, "retain")
      BY <1>8 DEF Point, SetDefault
    <2> QED
      BY <1>4, <2>1
  <1>9. CASE RewriteEnd("pod")
    <2>1. sess["pod"].at = "rewriting" /\ boot' = sess["pod"].conf.boot /\ loader' = loader
          /\ Step("pod", sess["pod"].then) /\ sess["pod"].then \in SessionSteps
      BY <1>0, <1>9 DEF RewriteEnd, Session, SessionSteps, Holding
    <2> QED
      BY <1>2, <2>1
  <1>10. CASE Retain("pod")
    <2>1. sess["pod"].at = "retain" /\ loader' = loader
          /\ (End("pod", "ok") \/ \E conf : Rewrite("pod", sess["pod"], conf, "done"))
      BY <1>10 DEF Retain
    <2> QED
      BY <1>3, <1>4, <2>1
  <1> QED
    BY <1>1, <1>5, <1>6, <1>7, <1>8, <1>9, <1>10 DEF SessionStep

\* While a session of the pod writes the config, nobody else does.
LEMMA OthersLeaveBroken ==
    ASSUME NodeInv, CliSession \/ CliStart \/ FileRemoved, sess["pod"].at = "rewriting"
    PROVE  boot' = boot
  <1>1. Locked /\ sess["cli"].at \notin Holding
    BY DEF NodeInv, SpaceInv, LockInv, OneHolder, Locked, Actors, Holding
  <1>2. CASE CliSession
    BY <1>1, <1>2, CliIdles DEF NodeInv, SpaceInv, LockInv
  <1>3. CASE CliStart
    BY <1>1, <1>3 DEF CliStart, Cli, CliUpdate, EnsureBootGoal, CliPurge, PointAt, StageSkip, StageNew,
                      Refused
  <1>4. CASE FileRemoved
    BY <1>4 DEF FileRemoved
  <1> QED
    BY <1>2, <1>3, <1>4

LEMMA CliLeavesPod ==
    ASSUME NodeInv, CliSession \/ CliStart \/ FileRemoved
    PROVE  sess'["pod"] = sess["pod"] /\ pod' = pod
  <1>0. StoreTypeOK
    BY DEF NodeInv, SpaceInv, LockInv
  <1>1. CASE CliSession
    BY <1>0, <1>1, CliIdles DEF CliSession, Others
  <1>2. CASE CliStart
    <2>1. \E s : Become("cli", s)
      BY <1>2 DEF CliStart, Cli, CliUpdate, EnsureBootGoal, CliPurge, PointAt, StageSkip, StageNew,
                  Refused, SetDefault, Rewrite
    <2> QED
      BY <1>0, <1>2, <2>1, OthersKept DEF CliStart, ByHand, Others, Actors
  <1>3. CASE FileRemoved
    BY <1>3 DEF FileRemoved, ByHand, Others
  <1> QED
    BY <1>1, <1>2, <1>3
\* Steps that leave the pod's session and the config alone.
LEMMA RepointedKept ==
    ASSUME RepointedNews, UNCHANGED <<loader, boot, sess>>, Changed => Changed'
    PROVE  RepointedNews'
  BY DEF RepointedNews

LEMMA RepointedNewsNext ==
    ASSUME NodeInv, NewsInv, [Next]_vars
    PROVE  RepointedNews'
  <1>0. StoreTypeOK /\ RepointedNews
    BY DEF NodeInv, SpaceInv, LockInv, NewsInv
  <1>1. CASE sess'["pod"].at = "idle" /\ sess'["pod"].outcome = "ok"
    BY <1>1 DEF RepointedNews
  <1>2. CASE HostUp
    <2>1. sess' = sess /\ sess["pod"].at = "idle"
      BY <1>2 DEF HostUp, BootDefault, ConsoleBoot, BootInto, NodeInv, SpaceInv, LockInv, DownIdle, Actors
    <2>2. sess["pod"].outcome # "repointed"
      BY <1>0, <2>1 DEF RepointedNews
    <2> QED
      BY <2>1, <2>2 DEF RepointedNews
  <1>3. CASE UNCHANGED vars
    BY <1>0, <1>3 DEF vars, storeVars, RepointedNews, Changed
  <1>4. CASE Next /\ ~HostUp
    <2>0. Changed => Changed'
      BY <1>4, NewsKept
    <2>1. CASE ThinkStep
      <3>1. UNCHANGED <<loader, boot, sess>>
        BY <2>1, ThinkIdle DEF StoreIdle, storeVars, StoreButFaults
      <3> QED
        BY <1>0, <2>0, <3>1, RepointedKept
    <2>2. CASE AskStep
      <3>1. CASE UNCHANGED <<boot, sess>>
        BY <1>0, <2>0, <2>2, <3>1, AskEffect, RepointedKept
      <3>2. CASE \E v \in Versions : EnsureBootGoal("pod", v)
        BY <1>0, <3>2, EnsureEffect DEF RepointedNews, Points, Failures
      <3>3. CASE \E v \in Versions : Stage("pod", v)
        BY <1>0, <3>3, StageEffect DEF RepointedNews
      <3> QED
        BY <1>1, <2>2, <3>1, <3>2, <3>3, AskEffect
    <2>3. CASE PodSession
      <3>1. SessionStep("pod") \/ IOError("pod")
        BY <2>3 DEF PodSession
      <3>2. news' = (news \/ file' # file \/ boot' # boot)
        BY <2>3 DEF PodSession, Touched
      <3>3. CASE sess["pod"].at = "rewriting" /\ boot' = sess["pod"].conf.boot
                 /\ sess'["pod"].at = sess["pod"].then /\ sess'["pod"].outcome = sess["pod"].outcome
        <4>1. sess["pod"].then # "rewriting" /\ loader' = loader
          BY <1>0, <3>1, PodSessionMoves DEF StoreTypeOK, Session, Actors
        <4>2. ASSUME sess["pod"].outcome = "repointed" PROVE sess["pod"].then = "done" /\ Changed'
          <5>1. sess["pod"].then = "done" /\ (boot' = Broken => loader = "rpi") /\ boot = Broken
            BY <1>0, <3>3, <4>2 DEF RepointedNews
          <5>2. CASE boot' = Broken
            BY <4>1, <5>1, <5>2 DEF Changed
          <5>3. CASE boot' # Broken
            <6>1. boot' # boot
              BY <5>1, <5>3
            <6>2. news' = TRUE
              BY <3>2, <6>1
            <6>3. Changed'
              BY <6>2 DEF Changed
            <6> QED
              BY <5>1, <6>3
          <5> QED
            BY <5>1, <5>2, <5>3
        <4> QED
          BY <3>3, <4>1, <4>2 DEF RepointedNews
      <3> QED
        BY <1>0, <3>1, <3>3, PodSessionMoves DEF RepointedNews
    <2>4. CASE CliSession \/ CliStart \/ FileRemoved
      <3>1. sess'["pod"] = sess["pod"] /\ (sess["pod"].at = "rewriting" => boot' = boot)
        BY <2>4, CliLeavesPod, OthersLeaveBroken
      <3>2. loader' = loader
        BY <2>4 DEF FileRemoved, CliSession, CliStart, SessionStep, IOError, Finish, Killed, MakeRoom,
                    CopyBegin, CopyEnd, Point, RewriteEnd, Retain, Cli, CliUpdate, EnsureBootGoal,
                    CliPurge, StageSkip, StageNew, Refused, PointAt
      <3> QED
        BY <1>0, <2>0, <3>1, <3>2 DEF RepointedNews
    <2>5. CASE PodCrash \/ HostRestart
      <3>1. sess'["pod"] = IdleSession \/ UNCHANGED <<loader, boot, sess>>
        BY <1>0, <2>5, OthersKept DEF PodCrash, HostRestart, Killed, HostDown, PowerLoss, StoreButFaults,
                                      Actors
      <3>2. IdleSession.at = "idle" /\ IdleSession.outcome = "ok"
        BY DEF IdleSession, NewSession
      <3> QED
        BY <1>0, <1>1, <2>0, <3>1, <3>2, RepointedKept
    <2>6. CASE Reboots \/ Operator \/ WindowsPass
      <3>1. UNCHANGED <<loader, boot, sess>>
        BY <2>6 DEF Reboots, Operator, WindowsPass, storeVars
      <3> QED
        BY <1>0, <2>0, <3>1, RepointedKept
    <2> QED
      BY <1>4, <2>1, <2>2, <2>3, <2>4, <2>5, <2>6, StepKinds DEF EnvStep
  <1> QED
    BY <1>2, <1>3, <1>4

LEMMA RearmNewsNext ==
    ASSUME NodeInv, NewsInv, [Next]_vars
    PROVE  RearmNews'
  <1>0. NodeTypes /\ pod \in Pod /\ RearmNews /\ RepointedNews /\ NothingNew
    BY DEF NodeInv, NodeTypes, NewsInv
  <1> USE DEF At, Goto, Open, Returned
  <1>1. CASE pod'.pc \notin {"adopted", "corrected", "rearm"}
    BY <1>1 DEF RearmNews
  <1>2. CASE news'
    BY <1>2 DEF RearmNews, Changed
  <1>3. CASE HostUp
    <2>1. pod' = FreshPod
      BY <1>3 DEF HostUp, BootDefault, ConsoleBoot, BootInto, Others, NewsInv
    <2> QED
      BY <1>1, <2>1, FreshPodType
  <1>4. CASE UNCHANGED vars
    BY <1>0, <1>4 DEF vars, storeVars, podVars, RearmNews, Changed
  <1>5. CASE Next /\ ~HostUp
    <2>0. (news => news') /\ (Changed => Changed')
      BY <1>5, NewsKept
    <2>1. CASE pod' = pod
      BY <1>0, <2>0, <2>1 DEF RearmNews
    <2>2. CASE Anchor \/ Adopt
      <3>1. news' = TRUE \/ Enter("reread")
        BY <2>2 DEF Anchor, Adopt, Write, SetGoal
      <3>2. Enter("reread") => pod'.pc = "reread"
        BY <1>0, EnterEffect DEF Steps
      <3> QED
        BY <1>1, <1>2, <3>1, <3>2
    <2>3. CASE Correct
      <3>1. news' = TRUE \/ pod' = [pod EXCEPT !.pc = pod.ret, !.local = {}]
        BY <2>3 DEF Correct, Write, SetGoal
      <3>2. pod' = [pod EXCEPT !.pc = pod.ret, !.local = {}] => pod'.pc \in {"idle", "window", "reread"}
        BY <1>0 DEF Pod
      <3> QED
        BY <1>1, <1>2, <3>1, <3>2
    <2>4. CASE ThinkStep /\ ~Anchor /\ ~Adopt /\ ~Correct
      <3>1. PlanFor(Present) \notin {"adopted", "corrected", "rearm"}
        BY DEF PlanFor
      <3> QED
        BY <1>0, <1>1, <2>4, <3>1, ThinkFlow
    <2>5. CASE Reconciled
      <3>1. CASE ~news /\ pod'.pc = "rearm"
        <4>1. sess["pod"].at = "done" /\ (GoalMoved \/ sess["pod"].outcome = "repointed")
              /\ pod.pc = "reconciled"
          BY <1>0, <2>5, <3>1 DEF Reconciled, Pod
        <4>2. ~GoalMoved
          <5>1. pod.applied \in {Unknown, Value(goal)} /\ pod.aim = goal
            BY <1>0, <3>1, <4>1 DEF NothingNew
          <5>2. goal \in Versions
            BY <1>0, <4>1, <5>1 DEF NodeInv, PodAims
          <5>3. Value(goal) = goal
            BY <5>2 DEF Value
          <5> QED
            BY <5>1, <5>3 DEF GoalMoved
        <4>3. Changed
          BY <1>0, <4>1, <4>2 DEF RepointedNews
        <4> QED
          BY <2>0, <3>1, <4>3 DEF RearmNews
      <3>2. pod'.pc \in {"window", "rearm"}
        BY <1>0, <2>5 DEF Reconciled, Pod
      <3>3. CASE news /\ pod'.pc = "rearm"
        BY <1>2, <2>0, <3>3
      <3> QED
        BY <1>1, <3>1, <3>2, <3>3
    <2>6. CASE Restaged
      <3>1. CASE news
        BY <1>2, <2>0, <3>1
      <3>2. CASE ~news
        <4>1. pod.pc = "restaged" /\ sess["pod"].at = "done"
          BY <2>6 DEF Restaged
        <4>2. sess["pod"].outcome = "failed"
          BY <1>0, <3>2, <4>1 DEF NothingNew
        <4>3. Goto("reread")
          BY <2>6, <4>2 DEF Restaged
        <4> QED
          BY <1>0, <1>1, <4>3, GotoEffect DEF Steps
      <3> QED
        BY <3>1, <3>2
    <2>7. CASE Converged
      <3>1. CASE Goto("reread")
        BY <1>0, <1>1, <3>1, GotoEffect DEF Steps
      <3>2. CASE sess["pod"].outcome = "repointed" /\ sess["pod"].at = "done" /\ Goto("rearm")
        <4>1. pod'.pc = "rearm" /\ Changed
          BY <1>0, <3>2, GotoEffect DEF Steps, RepointedNews
        <4> QED
          BY <2>0, <4>1 DEF RearmNews
      <3> QED
        BY <2>7, <3>1, <3>2 DEF Converged
    <2>8. CASE Adopted \/ Corrected
      <3>1. pod.pc \in {"adopted", "corrected"}
        BY <2>8 DEF Adopted, Corrected
      <3> QED
        BY <1>0, <1>2, <2>0, <3>1 DEF RearmNews
    <2>9. CASE Staged \/ Restage \/ Converge \/ StageLatest
      <3>1. pod'.pc \in {"anchor", "reread", "restaged", "converged", "staged"}
        BY <1>0, <2>9 DEF Staged, Restage, Converge, StageLatest, Pod
      <3> QED
        BY <1>1, <3>1
    <2>10. CASE ReconcileFresh \/ Enqueue \/ Ensured
      <3>1. pod'.pc \in {"window", "safe", "reconciled", "ensured", "idle", "request"}
        BY <1>0, <2>10 DEF ReconcileFresh, ReadFails, Enqueue, Ensured, Pod
      <3> QED
        BY <1>1, <3>1
    <2>11. CASE EnvStep
      BY <1>1, <2>1, <2>11, EnvFlow, FreshPodType
    <2> QED
      BY <1>5, <2>2, <2>3, <2>4, <2>5, <2>6, <2>7, <2>8, <2>9, <2>10, <2>11, StepKinds DEF AskStep
  <1> QED
    BY <1>3, <1>4, <1>5
\* The goal the bootloader was reconciled to is remembered, and forgotten, in
\* three steps only.
LEMMA AppliedKept ==
    ASSUME NodeTypes, ThinkStep \/ AskStep, ~Correct, ~ReconcileFresh, ~Reconciled, ~Corrected
    PROVE  pod'.applied = pod.applied
  <1>0. pod \in Pod
    BY DEF NodeTypes
  <1> USE DEF Goto, Enter, EnterDirty, Open, ReadFails
  <1>1. CASE BeginCycle \/ BootstrapScan \/ Flavor \/ Reconcile
    BY <1>0, <1>1 DEF BeginCycle, BootstrapScan, Flavor, Reconcile, Pod
  <1>2. CASE Window \/ Plan \/ SafeScan \/ Reread
    BY <1>0, <1>2 DEF Window, Plan, SafeScan, Reread, Pod
  <1>3. CASE Bootstrap \/ Rearm \/ Claim
    BY <1>0, <1>3 DEF Bootstrap, Rearm, Claim, Write, Pod
  <1>4. CASE Anchor \/ Adopt \/ RequestReboot \/ Check
    BY <1>0, <1>4 DEF Anchor, Adopt, RequestReboot, Check, Write, Pod
  <1>5. CASE Restage \/ Restaged \/ Converge \/ Converged \/ StageLatest
    BY <1>0, <1>5 DEF Restage, Restaged, Converge, Converged, StageLatest, Pod
  <1>6. CASE Staged \/ Adopted \/ Enqueue \/ Ensured
    BY <1>0, <1>6 DEF Staged, Adopted, Enqueue, Ensured, Pod
  <1> QED
    BY <1>1, <1>2, <1>3, <1>4, <1>5, <1>6 DEF ThinkStep, AskStep

\* A step of the pod that remembers what is so, and is on none of the ways that
\* NothingNew speaks of.
LEMMA NothingNewAt ==
    ASSUME pod'.applied \in {Unknown, Value(goal')}, pod'.pc \notin {"reconciled", "restage", "restaged"}
    PROVE  NothingNew'
  BY DEF NothingNew, Value

LEMMA NothingNewNext ==
    ASSUME NodeInv, NewsInv, [Next]_vars
    PROVE  NothingNew'
  <1>0. NodeTypes /\ StoreTypeOK /\ pod \in Pod /\ RearmNews /\ NothingNew
    BY DEF NodeInv, SpaceInv, LockInv, NodeTypes, NewsInv
  <1>1. CASE pod' = FreshPod
    <2>1. FreshPod.applied = Unknown
      BY DEF FreshPod
    <2> QED
      BY <1>1, <2>1, FreshPodType, NothingNewAt
  <1>2. CASE HostUp
    <2>1. pod' = FreshPod
      BY <1>2 DEF HostUp, BootDefault, ConsoleBoot, BootInto, Others, NewsInv
    <2> QED
      BY <1>1, <2>1
  <1>3. CASE UNCHANGED vars
    BY <1>0, <1>3 DEF vars, storeVars, nodeVars, podVars, NothingNew, Value
  <1>4. CASE news'
    BY <1>4 DEF NothingNew
  <1>5. CASE Next /\ ~HostUp /\ ~news' /\ pod' # FreshPod
    <2>0. ~news /\ goal' = goal /\ file' = file
      BY <1>5, NewsKept
    <2>1. /\ pod.applied \in {Unknown, Value(goal)} /\ Value(goal') = Value(goal)
          /\ pod.pc = "reconciled" => pod.aim = goal
          /\ pod.pc = "restage" => file[pod.goal] = "absent"
          /\ pod.pc \notin {"adopted", "corrected"}
      BY <1>0, <2>0 DEF NothingNew, RearmNews, Value
    <2>2. ASSUME pod' = pod, sess'["pod"] = sess["pod"] PROVE NothingNew'
      BY <1>0, <2>0, <2>1, <2>2 DEF NothingNew
    <2>3. CASE EnvStep /\ ~PodSession
      <3>1. sess'["pod"] = sess["pod"]
        <4>1. CASE CliSession \/ CliStart \/ FileRemoved
          BY <4>1, CliLeavesPod
        <4>2. CASE Reboots \/ Operator \/ WindowsPass
          BY <4>2 DEF Reboots, Operator, WindowsPass, storeVars
        <4>3. ~PodCrash /\ ~HostRestart
          BY <1>5 DEF PodCrash, HostRestart
        <4> QED
          BY <1>5, <2>3, <4>1, <4>2, <4>3 DEF EnvStep
      <3> QED
        BY <1>5, <2>2, <2>3, <3>1, EnvFlow
    <2>4. CASE PodSession
      <3>1. pod' = pod /\ (SessionStep("pod") \/ IOError("pod"))
        BY <2>4 DEF PodSession, Others
      <3>2. CASE pod.pc = "restaged"
        <4>1. sess["pod"].at \in {"room", "copy"} /\ file[sess["pod"].v] = "absent"
          <5>1. sess["pod"].at # "done"
            BY <1>0, <3>1, PodSessionMoves DEF StoreTypeOK, Session, Actors
          <5> QED
            BY <1>0, <2>0, <3>2, <5>1 DEF NothingNew
        <4>2. sess["pod"].v \in Versions
          BY <4>1 DEF NodeInv, SpaceInv, LockInv, StagesVersion, Staging, Actors
        <4>3. \/ sess'["pod"].at = "done" /\ sess'["pod"].outcome = "failed"
              \/ sess'["pod"].at = "copy" /\ sess'["pod"].v = sess["pod"].v
          BY <1>0, <2>0, <3>1, <4>1, <4>2, PodSessionMoves
        <4> QED
          BY <2>0, <2>1, <3>1, <3>2, <4>1, <4>3 DEF NothingNew
      <3>3. CASE pod.pc # "restaged"
        BY <2>0, <2>1, <3>1, <3>3 DEF NothingNew
      <3> QED
        BY <3>2, <3>3
    <2>5. CASE Plan
      <3>0. CASE ReadFails("reread")
        <4>1. pod'.pc = "reread" /\ pod'.applied = pod.applied
          BY <1>0, <3>0, ReadFailsEffect DEF Steps
        <4> QED
          BY <2>1, <4>1, NothingNewAt
      <3> SUFFICES ASSUME ~ReadFails("reread") PROVE NothingNew'
        BY <3>0
      <3>1. pod'.pc = PlanFor(Present) /\ pod'.goal = pod.goal /\ pod'.applied = pod.applied
        BY <1>0, <2>5 DEF Plan, Pod
      <3>2. PlanFor(Present) \notin {"reconciled", "restaged"}
        BY DEF PlanFor
      <3>3. PlanFor(Present) = "restage" => file[pod.goal] = "absent"
        BY DEF PlanFor, PinMissing, Present
      <3> QED
        BY <2>0, <2>1, <3>1, <3>2, <3>3 DEF NothingNew
    <2>6. CASE Correct
      <3>1. pod' = [pod EXCEPT !.pc = pod.ret, !.local = {}]
        BY <1>5, <2>6 DEF Correct, Write, SetGoal
      <3>2. pod'.applied = pod.applied /\ pod'.pc \in {"idle", "window", "reread"}
        BY <1>0, <3>1 DEF Pod
      <3> QED
        BY <2>1, <3>2, NothingNewAt
    <2>7. CASE ThinkStep /\ ~Plan /\ ~Correct
      <3>1. pod'.pc \notin {"reconciled", "restage", "restaged"}
        BY <1>0, <2>7, ThinkFlow
      <3>2. (~ReconcileFresh /\ ~Reconciled /\ ~Corrected) \/ pod'.applied = pod.applied
        BY <2>7 DEF ThinkStep, BeginCycle, BootstrapScan, Bootstrap, Flavor, Reconcile, Rearm, Window,
                    Claim, Check, Anchor, Adopt, SafeScan, Reread, RequestReboot, At,
                    ReconcileFresh, Reconciled, Corrected, Returned, Open
      <3>3. pod'.applied = pod.applied
        BY <1>0, <2>7, <3>2, AppliedKept
      <3> QED
        BY <2>1, <3>1, <3>3, NothingNewAt
    <2>8. CASE ReconcileFresh
      <3>1. CASE Value(goal) = None /\ pod' = [pod EXCEPT !.pc = "window", !.applied = None]
        <4>1. pod'.applied = None /\ pod'.pc = "window"
          BY <1>0, <3>1 DEF Pod
        <4> QED
          BY <2>1, <3>1, <4>1, NothingNewAt
      <3>2. CASE pod' = [pod EXCEPT !.pc = "safe", !.ret = "window", !.aim = goal]
        <4>1. pod'.applied = pod.applied /\ pod'.pc = "safe"
          BY <1>0, <3>2 DEF Pod
        <4> QED
          BY <2>1, <4>1, NothingNewAt
      <3>3. CASE pod' = [pod EXCEPT !.pc = "reconciled", !.aim = goal]
        <4>1. pod'.applied = pod.applied /\ pod'.pc = "reconciled" /\ pod'.aim = goal
          BY <1>0, <3>3 DEF Pod
        <4> QED
          BY <2>0, <2>1, <4>1 DEF NothingNew
      <3>4. CASE Goto("window")
        <4>1. pod'.applied = pod.applied /\ pod'.pc = "window"
          BY <1>0, <3>4, GotoEffect DEF Steps
        <4> QED
          BY <2>1, <4>1, NothingNewAt
      <3> QED
        BY <2>8, <3>1, <3>2, <3>3, <3>4 DEF ReconcileFresh, ReadFails
    <2>9. CASE Reconciled
      <3>1. pod.pc = "reconciled"
        BY <2>9 DEF Reconciled, Returned, At
      <3>2. pod.aim = goal /\ goal \in Versions
        BY <2>1, <3>1 DEF NodeInv, PodAims
      <3>3. Value(goal) = goal
        BY <3>2 DEF Value
      <3>4. pod'.applied \in {pod.applied, pod.aim} /\ pod'.pc \in {"rearm", "window"}
        BY <1>0, <2>9 DEF Reconciled, Goto, Pod
      <3> QED
        BY <2>1, <3>2, <3>3, <3>4, NothingNewAt
    <2>10. CASE Corrected
      BY <2>1, <2>10 DEF Corrected, Open, Returned, At
    <2>11. CASE AskStep /\ ~ReconcileFresh /\ ~Reconciled /\ ~Corrected
      <3>1. CASE Correct
        BY <2>6, <3>1
      <3>2. CASE ~Correct
        <4>1. pod'.applied = pod.applied
          BY <1>0, <2>11, <3>2, AppliedKept
        <4>2. CASE Restage
          <5>1. pod.pc = "restage" /\ Goto("restaged") /\ Stage("pod", pod.goal)
            BY <4>2 DEF Restage, Open, At
          <5>2. pod.goal \in Versions /\ file[pod.goal] = "absent"
            BY <2>1, <5>1 DEF NodeInv, PodAims
          <5>3. \/ sess'["pod"].at = "done" /\ sess'["pod"].outcome = "failed"
                \/ sess'["pod"].at = "room" /\ sess'["pod"].v = pod.goal
            BY <1>0, <5>1, <5>2, StageEffect
          <5>4. pod'.pc = "restaged"
            BY <1>0, <5>1, GotoEffect DEF Steps
          <5> QED
            BY <2>0, <2>1, <4>1, <5>2, <5>3, <5>4 DEF NothingNew
        <4>3. CASE ~Restage
          <5>1. pod'.pc \notin {"reconciled", "restage", "restaged"}
            <6>1. CASE Restaged \/ Converge \/ Converged \/ StageLatest
              BY <1>0, <6>1 DEF Restaged, Converge, Converged, StageLatest, Open, Goto, Pod
            <6>2. CASE Staged \/ Adopted \/ Enqueue \/ Ensured
              BY <1>0, <6>2 DEF Staged, Adopted, Enqueue, Ensured, Open, Goto, Pod
            <6> QED
              BY <2>11, <4>3, <6>1, <6>2 DEF AskStep
          <5> QED
            BY <2>1, <4>1, <5>1, NothingNewAt
        <4> QED
          BY <4>2, <4>3
      <3> QED
        BY <3>1, <3>2
    <2> QED
      BY <1>5, <2>3, <2>4, <2>5, <2>6, <2>7, <2>8, <2>9, <2>10, <2>11, StepKinds
  <1> QED
    BY <1>1, <1>2, <1>3, <1>4, <1>5

LEMMA NewsInvNext ==
    ASSUME NodeInv, NewsInv, [Next]_vars
    PROVE  NewsInv'
  BY DownFreshNext, RepointedNewsNext, RearmNewsNext, NothingNewNext DEF NewsInv

LEMMA NewsInvInit == Init => NewsInv
  <1> SUFFICES ASSUME Init PROVE NewsInv
    OBVIOUS
  <1>1. sess["pod"].at = "idle" /\ sess["pod"].outcome = "ok"
    BY DEF Init, StoreInit, Actors, IdleSession, NewSession
  <1>2. pod = FreshPod /\ FreshPod.pc = "idle" /\ FreshPod.applied = Unknown
    BY DEF Init, FreshPod
  <1> QED
    BY <1>1, <1>2 DEF NewsInv, RepointedNews, RearmNews, NothingNew

\* Only rearmIfCompleted takes "completed" away.
LEMMA OnlyRearms ==
    ASSUME NodeTypes, Next, state = "completed", state' = "absent", pod' # pod
    PROVE  pod.pc = "rearm"
  <1>1. CASE EnvStep
    BY <1>1 DEF EnvStep, PodSession, PodCrash, CliStart, CliSession, FileRemoved, HostRestart, HostUp,
                Reboots, Operator, WindowsPass, ByHand, Others, nodeVars, podVars
  <1>2. CASE AskStep
    <2>1. Keep
      BY <1>2 DEF AskStep, ReconcileFresh, Reconciled, Restage, Restaged, Converge, Converged,
                  StageLatest, Staged, Adopted, Corrected, Enqueue, Ensured, Consume, Open, Local, ReadFails
    <2> QED
      BY <2>1 DEF Keep, nodeVars
  <1>3. CASE ThinkStep
    BY <1>3 DEF ThinkStep, BeginCycle, BootstrapScan, Bootstrap, Flavor, Reconcile, Rearm, Window,
                Claim, Check, Plan, Anchor, Adopt, SafeScan, Correct, Reread, RequestReboot, Write,
                SetGoal, Local, Keep, ReadFails, At, nodeVars
  <1> QED
    BY <1>1, <1>2, <1>3, StepKinds

LEMMA RearmsStep ==
    ASSUME NodeInv, NewsInv, [Next]_vars, state = "completed", state' = "absent", pod' # pod
    PROVE  Changed
  BY OnlyRearms DEF NodeInv, NewsInv, RearmNews, vars, podVars

\* A completed reboot is re-armed only after a change, or with a config.txt that
\* names no kernel.
RearmExplained ==
    [][state = "completed" /\ state' = "absent" /\ pod' # pod => Changed]_vars

\* PLAN.md 3.4 decision 34 for every bootloader: pod start, a failed or lost
\* write and an observation that changes nothing re-arm no completed reboot.
THEOREM RearmedForAReason == Spec => RearmExplained
  <1>1. NodeInv /\ NewsInv /\ [Next]_vars => NewsInv'
    BY NewsInvNext
  <1>2. NodeInv /\ NewsInv /\ [Next]_vars
        => (state = "completed" /\ state' = "absent" /\ pod' # pod => Changed)
    BY RearmsStep
  <1> QED
    BY <1>1, <1>2, NewsInvInit, NodeInvariant, PTL DEF Spec, RearmExplained

\* On a board with a bootloader menu, a completed reboot is re-armed only when
\* the goal, the default or a kernel changed since the host came up.
THEOREM RetriesOnlyAfterNews ==
    ASSUME "rpi" \notin Loaders
    PROVE  Spec => NoAutoRetry
  <1>1. NodeInv /\ NewsInv /\ [Next]_vars => NewsInv'
    BY NewsInvNext
  <1>2. NodeInv => loader # "rpi"
    BY DEF NodeInv, SpaceInv, LockInv, StoreTypeOK
  <1>3. NodeInv /\ NewsInv /\ [Next]_vars
        => (state = "completed" /\ state' = "absent" /\ pod' # pod => news)
    BY <1>2, RearmsStep DEF Changed
  <1> QED
    BY <1>1, <1>3, NewsInvInit, NodeInvariant, PTL DEF Spec, NoAutoRetry
=============================================================================
