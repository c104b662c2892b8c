---------------------------- MODULE EngineConfig ----------------------------
(***************************************************************************)
(* The configuration of the pods: Cycle and loadConfig of                  *)
(* internal/engine/engine.go and Parse of internal/config/config.go.       *)
(* Every pod re-reads one ConfigMap at the start of a cycle and parses it  *)
(* over its own last snapshot, while operators edit it and pods restart.   *)
(* From the snapshot and the clock it then computes its windows (Cron).    *)
(***************************************************************************)
EXTENDS Cron

CONSTANTS
    Pods,
    Lists,           \* values of the windows key: sets of schedules
    Graces,          \* values of the grace key, in minutes
    DefaultWindows, DefaultGrace,
    Absent,          \* the key is not in the ConfigMap
    Invalid,         \* its value does not parse
    Deleted,         \* no ConfigMap, a 404
    Nothing,         \* nothing fetched, nothing computed
    Times,           \* the instants at which the pods look at the clock
    MaxEdits,        \* bound on edits of the ConfigMap
    MaxFaults        \* bound on failed calls and restarts

ASSUME DefaultsAssumption == DefaultWindows \in Lists /\ DefaultGrace \in Graces
ASSUME MarksAssumption == {Absent, Invalid} \cap Lists = {} /\ {Absent, Invalid} \cap Graces = {}
ASSUME GracesAssumption == Graces \subseteq Nat \ {0}
ASSUME SchedulesAssumption == \A specs \in Lists : \A s \in specs : WellFormed(s)
\* The calendar begins before the earliest day that a search looks at.
ASSUME TimesAssumption == \A now \in Times : now \in Nat /\ now \div Day >= 4 * 366 + 1

VARIABLES
    configMap,       \* the ConfigMap
    feat,            \* Engine.feat: the last snapshot of each pod
    got,             \* the answer of GetConfigMap
    pc,
    computed,        \* what a pod has just made of its snapshot and the clock
    read,            \* history: the pods whose snapshot is of the present ConfigMap
    edits, faults

vars == <<configMap, feat, got, pc, computed, read, edits, faults>>

Defaults == [windows |-> DefaultWindows, grace |-> DefaultGrace]

ConfigMaps == [windows : Lists \cup {Absent, Invalid}, grace : Graces \cup {Absent, Invalid}]

TypeOK ==
    /\ configMap \in ConfigMaps \cup {Deleted}
    /\ feat \in [Pods -> [windows : Lists, grace : Graces]]
    /\ got \in [Pods -> ConfigMaps \cup {Deleted, Nothing}]
    /\ pc \in [Pods -> {"idle", "config", "parse", "tasks"}]
    /\ read \subseteq Pods

Init ==
    /\ configMap \in {Deleted, [windows |-> Absent, grace |-> Absent]}
    /\ feat = [p \in Pods |-> Defaults]
    /\ got = [p \in Pods |-> Nothing]
    /\ pc = [p \in Pods |-> "idle"]
    /\ computed = Nothing
    /\ read = {}
    /\ edits = 0 /\ faults = 0

Fault == faults < MaxFaults /\ faults' = faults + 1

Goto(p, step) == pc' = [pc EXCEPT ![p] = step]

-----------------------------------------------------------------------------
(***************************************************************************)
(* Parse.                                                                  *)
(***************************************************************************)
\* One key: an absent one and an invalid one keep what base has.
Key(base, raw) == IF raw \in {Absent, Invalid} THEN base ELSE raw

\* Mutant: one invalid key spoils the other.
ParseWhole(base, data) ==
    IF Invalid \in {data.windows, data.grace} THEN base
    ELSE [windows |-> Key(base.windows, data.windows), grace |-> Key(base.grace, data.grace)]

Parse(base, data) ==
    [windows |-> Key(base.windows, data.windows), grace |-> Key(base.grace, data.grace)]

-----------------------------------------------------------------------------
(***************************************************************************)
(* The cycle of a pod.                                                     *)
(***************************************************************************)
\* ListNodes fails: the cycle ends before the configuration is read.
Cycle(p) ==
    /\ pc[p] = "idle"
    /\ \/ Goto(p, "config") /\ UNCHANGED faults
       \/ Fault /\ UNCHANGED pc
    /\ computed' = Nothing
    /\ UNCHANGED <<configMap, feat, got, read, edits>>

\* GetConfigMap; an error that is no 404 keeps the last snapshot.
GetConfigMap(p) ==
    /\ pc[p] = "config"
    /\ \/ /\ got' = [got EXCEPT ![p] = configMap]
          /\ read' = read \cup {p}
          /\ Goto(p, "parse")
          /\ UNCHANGED faults
       \/ /\ Fault
          /\ Goto(p, "tasks")
          /\ UNCHANGED <<got, read>>
    /\ computed' = Nothing
    /\ UNCHANGED <<configMap, feat, edits>>

\* Mutant: a missing ConfigMap is treated as an empty one.
NextOfEmpty(p) == IF got[p] = Deleted THEN feat[p] ELSE Parse(feat[p], got[p])

NextSnapshot(p) == IF got[p] = Deleted THEN Defaults ELSE Parse(feat[p], got[p])

LoadConfig(p) ==
    /\ pc[p] = "parse"
    /\ feat' = [feat EXCEPT ![p] = NextSnapshot(p)]
    /\ got' = [got EXCEPT ![p] = Nothing]
    /\ Goto(p, "tasks")
    /\ computed' = Nothing
    /\ UNCHANGED <<configMap, read, edits, faults>>

\* What the window functions return for the snapshots and instants there are.
Evaluated == [specs \in Lists |-> [grace \in Graces |-> [now \in Times |->
    [newest |-> NewestOccurrence(specs, now), open |-> WindowsOpen(specs, grace, now)]]]]

\* The tasks sample the clock and evaluate the windows of the snapshot.
Tasks(p) ==
    /\ pc[p] = "tasks"
    /\ \E now \in Times :
          computed' = [now |-> now, config |-> feat[p],
                       windows |-> Evaluated[feat[p].windows][feat[p].grace][now]]
    /\ Goto(p, "idle")
    /\ UNCHANGED <<configMap, feat, got, read, edits, faults>>

\* The container restarts: New begins with the defaults.
Restart(p) ==
    /\ Fault
    /\ feat' = [feat EXCEPT ![p] = Defaults]
    /\ got' = [got EXCEPT ![p] = Nothing]
    /\ computed' = Nothing
    /\ read' = read \ {p}
    /\ Goto(p, "idle")
    /\ UNCHANGED <<configMap, edits>>

-----------------------------------------------------------------------------
\* Helm, or an operator with kubectl.
Edit ==
    /\ edits < MaxEdits /\ edits' = edits + 1
    /\ configMap' \in (ConfigMaps \cup {Deleted}) \ {configMap}
    /\ read' = {}
    /\ computed' = Nothing
    /\ UNCHANGED <<feat, got, pc, faults>>

PodStep(p) == Cycle(p) \/ GetConfigMap(p) \/ LoadConfig(p) \/ Tasks(p)

Next == Edit \/ \E p \in Pods : PodStep(p) \/ Restart(p)

Spec == Init /\ [][Next]_vars

\* Run: a cycle every two seconds, whose calls return.
FairSpec == Spec /\ \A p \in Pods : WF_vars(PodStep(p))

-----------------------------------------------------------------------------
(***************************************************************************)
(* Properties.                                                             *)
(***************************************************************************)
\* c follows the ConfigMap in every key that it sets.
Follows(c) ==
    IF configMap = Deleted THEN c = Defaults
    ELSE /\ configMap.windows \in Lists => c.windows = configMap.windows
         /\ configMap.grace \in Graces => c.grace = configMap.grace

\* A pod that has parsed the present ConfigMap follows it, whatever it has read
\* before, and so two such pods, leader and successor, differ in unset keys only.
ConfigInv == TypeOK /\ \A p \in read : pc[p] # "parse" => Follows(feat[p])

\* Edits reach every pod, through restarts, failed calls and typos in other keys.
ConfigFollowed == <>[](\A p \in Pods : Follows(feat[p]))

\* What the schedules mean at those instants.
Meant == [specs \in Lists |-> [grace \in Graces |-> [now \in Times |->
    [newest |-> NewestMeant(specs, now), open |-> OpenMeant(specs, grace, now)]]]]

\* cron.go: a window is open exactly when an occurrence lies within the grace, and
\* the newest occurrence that is found is the newest one there was, of those not
\* longer ago than their schedule remembers.
WindowsExact ==
    computed # Nothing =>
        computed.windows = Meant[computed.config.windows][computed.config.grace][computed.now]

\* Statements of the documentation that the code does not keep.

\* docs/controller.md:190: "absent keys fall back to the built-in defaults".
AbsentIsDefault ==
    \A p \in read : pc[p] = "idle" /\ configMap # Deleted =>
        /\ configMap.windows = Absent => feat[p].windows = DefaultWindows
        /\ configMap.grace = Absent => feat[p].grace = DefaultGrace
=============================================================================
