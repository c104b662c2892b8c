-------------------------- MODULE EngineConfigProofs --------------------------
(***************************************************************************)
(* Proofs about EngineConfig for any pods, schedules, graces and instants, *)
(* any number of edits and any number of failed calls and restarts.  What  *)
(* the windows are at an instant is proved in CronProofs.                  *)
(***************************************************************************)
EXTENDS EngineConfig, CronProofs, TLAPS

USE DefaultsAssumption, MarksAssumption

-----------------------------------------------------------------------------
(***************************************************************************)
(* What loadConfig makes of a ConfigMap.                                   *)
(***************************************************************************)
\* Parse returns a snapshot that follows every key the ConfigMap sets.
LEMMA ParseFollows ==
  ASSUME NEW base \in [windows : Lists, grace : Graces], NEW data \in ConfigMaps
  PROVE  /\ Parse(base, data) \in [windows : Lists, grace : Graces]
         /\ data.windows \in Lists => Parse(base, data).windows = data.windows
         /\ data.grace \in Graces => Parse(base, data).grace = data.grace
  BY DEF Parse, Key, ConfigMaps

\* loadConfig too, and it falls back to the defaults without a ConfigMap.
LEMMA SnapshotFollows ==
  ASSUME TypeOK, NEW p \in Pods, got[p] \in ConfigMaps \cup {Deleted}
  PROVE  /\ NextSnapshot(p) \in [windows : Lists, grace : Graces]
         /\ got[p] = configMap => Follows(NextSnapshot(p))
  <1>1. feat[p] \in [windows : Lists, grace : Graces]
    BY DEF TypeOK
  <1>2. CASE got[p] = Deleted
    BY <1>2 DEF NextSnapshot, Follows, Defaults
  <1>3. CASE got[p] # Deleted
    BY <1>1, <1>3, ParseFollows DEF NextSnapshot, Follows
  <1> QED
    BY <1>2, <1>3

-----------------------------------------------------------------------------
(***************************************************************************)
(* The inductive invariant: what is fetched and not yet parsed is the      *)
(* present ConfigMap, for the pods that have read it.                      *)
(***************************************************************************)
Fetched ==
    \A p \in Pods : pc[p] = "parse" =>
        /\ got[p] \in ConfigMaps \cup {Deleted}
        /\ p \in read => got[p] = configMap

FollowInv == ConfigInv /\ Fetched

\* The pods begin with the defaults and have read nothing.
LEMMA FollowInit == Init => FollowInv
  BY DEF Init, FollowInv, ConfigInv, Fetched, TypeOK, Defaults, ConfigMaps

\* Edits, cycles, failed calls and restarts keep the invariant.
LEMMA FollowNext == FollowInv /\ [Next]_vars => FollowInv'
  <1> SUFFICES ASSUME FollowInv, [Next]_vars PROVE FollowInv'
    OBVIOUS
  <1> USE DEF FollowInv, ConfigInv, Fetched
  <1>1. CASE Edit
    BY <1>1 DEF Edit, TypeOK
  <1>2. ASSUME NEW p \in Pods, Cycle(p) PROVE FollowInv'
    BY <1>2 DEF Cycle, TypeOK, Goto, Follows
  <1>3. ASSUME NEW p \in Pods, GetConfigMap(p) PROVE FollowInv'
    <2> USE <1>3 DEF GetConfigMap, Goto
    <2>1. TypeOK'
      BY DEF TypeOK
    <2>2. Fetched'
      BY DEF TypeOK
    <2>3. ASSUME NEW q \in read', pc'[q] # "parse" PROVE Follows(feat[q])'
      <3>1. q \in read /\ pc[q] # "parse"
        BY <2>3 DEF TypeOK
      <3> QED
        BY <3>1 DEF Follows
    <2> QED
      BY <2>1, <2>2, <2>3
  <1>4. ASSUME NEW p \in Pods, LoadConfig(p) PROVE FollowInv'
    <2> USE <1>4 DEF LoadConfig, Goto
    <2>1. /\ NextSnapshot(p) \in [windows : Lists, grace : Graces]
          /\ got[p] = configMap => Follows(NextSnapshot(p))
      BY SnapshotFollows
    <2>2. TypeOK'
      BY <2>1 DEF TypeOK
    <2>3. Fetched'
      BY DEF TypeOK
    <2>4. ASSUME NEW q \in read', pc'[q] # "parse" PROVE Follows(feat[q])'
      <3>1. CASE q = p
        BY <2>1, <2>4, <3>1 DEF TypeOK, Follows
      <3>2. CASE q # p
        BY <2>4, <3>2 DEF TypeOK, Follows
      <3> QED
        BY <3>1, <3>2
    <2> QED
      BY <2>2, <2>3, <2>4
  <1>5. ASSUME NEW p \in Pods, Tasks(p) PROVE FollowInv'
    BY <1>5 DEF Tasks, TypeOK, Goto, Follows
  <1>6. ASSUME NEW p \in Pods, Restart(p) PROVE FollowInv'
    <2> USE <1>6 DEF Restart, Goto
    <2>1. TypeOK'
      BY DEF TypeOK, Defaults
    <2>2. Fetched'
      BY DEF TypeOK
    <2>3. \A q \in read' : pc'[q] # "parse" => Follows(feat[q])'
      BY DEF TypeOK, Follows
    <2> QED
      BY <2>1, <2>2, <2>3
  <1>7. CASE UNCHANGED vars
    BY <1>7 DEF vars, TypeOK, Follows
  <1> QED
    BY <1>1, <1>2, <1>3, <1>4, <1>5, <1>6, <1>7 DEF Next, PodStep

-----------------------------------------------------------------------------
\* A pod that has parsed the present ConfigMap follows every key that it sets,
\* whatever the pod had read before and whatever else happens (loadConfig, Parse).
THEOREM ConfigInvariant == Spec => []ConfigInv
  <1>1. FollowInv => ConfigInv
    BY DEF FollowInv
  <1> QED
    BY FollowInit, FollowNext, <1>1, PTL DEF Spec
-----------------------------------------------------------------------------
(***************************************************************************)
(* The windows that the tasks compute.                                     *)
(***************************************************************************)
\* What a pod has computed it has computed from its snapshot at an instant.
ComputedFrom(now, c) ==
    computed = [now |-> now, config |-> c, windows |-> Evaluated[c.windows][c.grace][now]]

Computed == computed # Nothing => \E now \in Times, c \in [windows : Lists, grace : Graces] : ComputedFrom(now, c)

LEMMA ComputedNext == FollowInv /\ Computed /\ [Next]_vars => Computed'
  <1> SUFFICES ASSUME FollowInv, Computed, [Next]_vars PROVE Computed'
    OBVIOUS
  <1>1. CASE UNCHANGED computed
    BY <1>1 DEF Computed, ComputedFrom
  <1>2. CASE computed' = Nothing
    BY <1>2 DEF Computed
  <1>3. ASSUME NEW p \in Pods, Tasks(p) PROVE Computed'
    <2>1. PICK now \in Times :
              computed' = [now |-> now, config |-> feat[p],
                           windows |-> Evaluated[feat[p].windows][feat[p].grace][now]]
      BY <1>3 DEF Tasks
    <2>2. feat[p] \in [windows : Lists, grace : Graces]
      BY DEF FollowInv, ConfigInv, TypeOK
    <2> QED
      BY <2>1, <2>2 DEF Computed, ComputedFrom
  <1>4. \/ UNCHANGED computed \/ computed' = Nothing
        \/ \E p \in Pods : Tasks(p)
    BY DEF Next, PodStep, Edit, Cycle, GetConfigMap, LoadConfig, Restart, vars
  <1> QED
    BY <1>1, <1>2, <1>3, <1>4

\* For the lists and instants of the model the search gives what the schedules mean.
LEMMA EvaluatedIsMeant ==
  ASSUME NEW specs \in Lists, NEW grace \in Graces, grace <= 366 * Day, NEW now \in Times
  PROVE  Evaluated[specs][grace][now] = Meant[specs][grace][now]
  <1>1. \A s \in specs : WellFormed(s)
    BY SchedulesAssumption
  <1>2. now \in Nat /\ now \div Day >= 4 * 366 + 1 /\ grace \in Nat \ {0}
    BY TimesAssumption, GracesAssumption
  <1>3. NewestOccurrence(specs, now) = NewestMeant(specs, now)
    BY <1>1, <1>2, NewestExact
  <1>4. WindowsOpen(specs, grace, now) <=> OpenMeant(specs, grace, now)
    BY <1>1, <1>2, OpenExact
  <1>5. WindowsOpen(specs, grace, now) \in BOOLEAN /\ OpenMeant(specs, grace, now) \in BOOLEAN
    BY DEF WindowsOpen, OpenMeant
  <1>6. WindowsOpen(specs, grace, now) = OpenMeant(specs, grace, now)
    BY <1>4, <1>5
  <1> QED
    BY <1>3, <1>6 DEF Evaluated, Meant

\* cron.go: whatever a pod's configuration has become, and at every instant, a window
\* is open exactly when an occurrence lies within the grace, and the newest occurrence
\* is the newest one there was, as far back as schedules are searched.  For graces up
\* to the 366 days of that search; a longer one would miss an occurrence.
THEOREM WindowsComputedExactly ==
  ASSUME \A grace \in Graces : grace <= 366 * Day
  PROVE  Spec => []WindowsExact
  <1>1. Init => Computed
    BY DEF Init, Computed
  <1>2. Computed => WindowsExact
    <2> SUFFICES ASSUME NEW now \in Times, NEW c \in [windows : Lists, grace : Graces], ComputedFrom(now, c)
                 PROVE  computed.windows = Meant[computed.config.windows][computed.config.grace][computed.now]
      BY DEF Computed, WindowsExact
    <2>1. /\ computed.now = now /\ computed.config = c
          /\ computed.windows = Evaluated[c.windows][c.grace][now]
      BY DEF ComputedFrom
    <2>2. c.windows \in Lists /\ c.grace \in Graces
      OBVIOUS
    <2> QED
      BY <2>1, <2>2, EvaluatedIsMeant
  <1> QED
    BY FollowInit, FollowNext, ComputedNext, <1>1, <1>2, PTL DEF Spec
=============================================================================
