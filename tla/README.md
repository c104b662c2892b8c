# A TLA+ model of simplek8s-controller

simplek8s-controller is a DaemonSet: one controller pod per node. Every two
seconds each pod runs one *cycle* (`internal/engine`): it renews or checks a
leader lease, the leader runs the reboot orchestrator over all nodes, and every
pod runs two local tasks for its own node, the reboot executor and the update
feature. All shared state is in Kubernetes objects (one Lease, annotations and
`spec.unschedulable` of the Nodes) and on each node's boot partition, which
`nodectl`, a command line tool for the operator, changes too. `nodectl` also sets
nodes up: `install` writes a disk, and `wizard` serves browsers that install the
node and make it a member of a cluster.

What is hard here is not any single function. It is that a cycle is a chain of
API calls and of sessions on the partition, with the leader of the other nodes,
the operator, `nodectl`, kubelet, crashes and reboots working between any two of
them, and with nothing to undo a reboot once it is issued. The modules model
that chain call by call.

## 1. Inventory

| Component | Source | State | Operations | What makes it correct | Module |
|---|---|---|---|---|---|
| Leader lease | `engine/lease.go` | the Lease object; per pod `amLeader`, `lastRenewed` | `Sync` (renew, take over, create, `classify`), `CanDecide`, `VerifyOwnership` | two pods never decide together; a live lease is not stolen; a dead one is replaced | `LeaderLease` (abstract: `LeaderElection`) |
| Engine cycle | `engine/engine.go` | none of its own but the last configuration | `Cycle`, `loadConfig` | order list, configuration, sync, leader tasks, local tasks | inside `LeaderLease`, `RebootCluster`, `EngineConfig` |
| Node annotations | `nodestate/state.go`, `nodestate/update.go` | `reboot-state`, `-request`, `-status`, `-exec`; `next-kernel`, `update-last-check` | the patches, `PatchTransition` | each patch is legal on the node it lands on, not on the one that was read | `NodeState`, `UpdateNode` |
| Reboot orchestrator | `features/reboot/{orchestrator,drain,pdb}.go` | `notReadyAfter`, `denied` | manage lifecycles, admit, drain, uncordon | slots, pause, drained before reboot, evidence before completion, the operator's cordon | `RebootCluster` (abstract: `RebootLifecycle`) |
| Reboot executor | `features/reboot/local.go` | `reboot-exec` annotation | issue, re-issue, confirm, fail | one reboot per request, never a hang | `RebootCluster` |
| REST API | `api/api.go` | none | POST, DELETE, GET | guards on the fresh node | `RebootCluster` (writes only) |
| Update feature | `features/update/*.go` | applied goal, flavor | the cycle `RunLocal` | pins survive, one check per window, no reboot loop, no reboot into a missing kernel | `UpdateNode` |
| Boot partition | `updatecore/{bootstore,staging,purge,localcli,fsutil,disk}.go` | kernel files, the flock | `Stage`, `EnsureBootGoal`, purge | the running and the default kernel are kept | `BootStore` |
| Bootloader entries | `updatecore/bootloader.go` | `grub.cfg`, `syslinux.cfg` or `config.txt` | get and set the default, prune | the default has a kernel | `BootStore` |
| `nodectl update`, `boot`, `purge` | `cmd/nodectl` | none | sessions on the partition | excluded by the flock | `BootStore` |
| Release source | `updatecore/{index,gpg,download,extract,versions}.go` | none | verified index, download | only verified bytes are staged | outcomes only, in `UpdateNode`, `BootStore` |
| Maintenance windows | `cron/cron.go` | none | `WindowsOpen`, `NewestOccurrence` | open exactly within the grace of an occurrence, on every day of the calendar | `Cron`, evaluated by `EngineConfig`; outcomes in `UpdateNode`, `RebootCluster` |
| Configuration | `config/config.go` | the last snapshot of each pod | `Parse` over the last snapshot | every pod follows every key that is set; an invalid key changes nothing | `EngineConfig` |
| Kubernetes client | `kube/client.go` | token | GET, PUT, PATCH, evict, retries | a retry meets its own write | outcomes, in `LeaderLease`, `NodeState` |
| `verify.go`, `migrate.go` | `features/update` | none | an Event; removal of old annotations | - | no |
| `nodectl install` | `cmd/nodectl/install.go` | the target disk, its mounts | validate, select, stream, append, format, write the configuration | an installed disk boots and stays so; a failed attempt can be repeated | `Installer` |
| `nodectl wizard` | `cmd/nodectl/wizard*.go` | sessions, the job manager; `/etc/kubernetes`, hostname, hosts | login, the state gate, install, init, join, reboot | one destructive job at a time; jobs end; a member keeps its name | `Wizard` |
| `nodectl selfupdate`, `check`, `list` | `cmd/nodectl` | own binary | one-shot and read-only tools | - | no |

How they interact. Lease to orchestrator: `CanDecide` at the start of a pass,
`VerifyOwnership` before an admission. Orchestrator to executor: `rebooting` in
`reboot-state`; executor to orchestrator: `reboot-exec`. Update feature to
orchestrator: it writes `requested` when a goal is staged and the default, and
clears `completed` when the goal moves. API and operator: requests, deletions,
cordons, pins, hand edits of annotations. `nodectl` and the update feature: the
partition under one flock. Everything else is seen through these.

`PROJECT.json` lists the hazards of this code one by one, each at its line, with
the properties that guard it or the reason there is none.

## 2. Modules and how they correspond to the code

**`LeaderElection`** is the promise: a holder, a set of deciding pods, the lease
moves only when the former holder has stopped deciding.

**`LeaderLease`** is `Leaser.Sync`. A pod's `pc` is the API call it is about to
make; `now[p]` is the clock it sampled before the first GET and uses to the end,
as the code does. The write precondition (`resourceVersion`) is abstracted to
"nobody wrote since p read" (`rvCurrent`), which is what the API server compares.
A call succeeds, fails, is applied with its response lost (`WriteLost`), or is
applied, answered 5xx and retried into its own 409 (`WriteRetried`,
`kube/client.go`). Pods crash and restart with empty memory. Somebody who is no pod
may edit or delete the Lease at any time, counted as a fault; `outsiders` records
that it has happened, and in the abstract election it is the step `Interfere`.
`heldAt` is history.

**`NodeState`** is the Node object as the annotations parse: `state`, `since`,
`force`, `exec`, `status` and the cordon; `corrupt`, `unknown` and absent values
are told apart where the code does. Its operators are the patches of
`nodestate/state.go`, one by one.

**`RebootLifecycle`** is the state diagram of `docs/controller.md` with the slot
limits at the moment of admission.

**`RebootCluster`** composes one pod per node: the leader's pass (`ListNodes`,
`ListPods`, one action for each outcome of managing one node, `AdmitList`,
`Admit...`), the executor (`LocalRead` to `CommandStarts`), the API, the update
feature's writes, the operator, hosts, kubelet, scheduler and the lease.
`PatchTransition` (GET, guard, PATCH, again on a 409) is one atomic step, which
is what its retry on conflict makes of it; everything read earlier (`view`,
`podsSeen`, `stamp`, `queue`) is kept and may be stale. The nodes of phase 1 are
managed in any order. The lease is that of `LeaderElection`: only the holder
starts a pass, but a pass under way outlives a handover (`LeaseMoves`).

**`BootStore`** is a boot partition: `file` (absent, torn, whole), the default
`boot`, the entries `menu`, and for each of two actors, the pod and an operator's
`nodectl`, the session it is in. A session (`Stage`, `EnsureBootGoal`,
`CliUpdate`, `CliPurge`) takes the flock at its first step and holds it to its
last, through the same steps as `stagePartition`: gate, room, copy, point,
retain, prune. The controller's gate goes by the name of a kernel; `nodectl` compares
its bytes with the hash of the index (`Hashes`) and replaces a staged kernel, in place
and under its name, when they differ: a partial one, or one of `Reissued`, whose release
was published again with other bytes. Writes that the code does not make atomic have
two steps: a kernel is torn between `CopyBegin` and `CopyEnd`, a config is broken
between `Rewrite` and `RewriteEnd`. Any step may fail, retention included, the process
be killed, or the power be lost (`PowerLoss` may also lose a kernel that was copied but
not synced); a purge that is cut short has deleted the oldest files of its plan
(`HalfPurges`), and a prune that fails fails nothing (`PruneFails`). The loader
is a menu (grub, syslinux) or the Raspberry Pi's `config.txt`, whose `kernel=`
line is replaced but never added.

**`UpdateNode`** extends `BootStore` with the cycle `RunLocal` of the node's pod and the
annotations it works on. Every API call and every partition session is a step of its own
(`pod.pc`); `pod.dirty` is the code's `dirty` (read the node again because an earlier
step wrote). A read of the API or a scan of the partition may fail like any other step
(`ReadFails`), and the cycle goes on or ends as in the code: a failed first re-read
keeps the old view, a failed second one ends the cycle. Others change the world between
any two steps: the operator (pins, well-formed, malformed or empty; POST and DELETE of a
reboot), the release publisher, `nodectl`, a file removed by hand (`rm` takes no flock),
windows that open and close, pod crashes, reboots. The reboot feature is collapsed to
requested, rebooting, completed or failed.

**`Installer`** is `install.go` step by step on a set of disks: the look at the
mount table, the index, the stream onto the whole disk, `sfdisk --append`, the
re-read, `mkfs`, the mount of the ESP, `simplek8s.yaml`, `sync`, `umount`. A disk is
what a boot from it needs: the image, a formatted `/var`, the configuration.
Installers are the command line and the jobs of the wizard; nothing locks the disk,
so two of them may stream onto one (`Torn`), which `alone` records. A step that
fails, the request for the image and the opening of the disk included (`Fails`), leaves
the disk as it is and runs the deferred `umount`, which may fail as well; a kill runs
none; a power loss undoes what was not synced.

**`Wizard`** extends it with `wizard*.go`. A request passes the session and the state
gate (`Gate`, `Admitted`), and starts its job in a later step, as the handler does
after reading the body; for an install the two looks before the download are one
step, because the state it needs changes only by a reboot. Browsers have one request
at a time. Jobs run step by step, publish their outcome and then release the manager
(`Release`). kubeadm is external: it refuses a node that has `/etc/kubernetes` and
writes `admin.conf` in the middle. The wizard and the host may stop at any step, and
a host comes up from the medium or from any disk that is whole.

**`Cron`** is `internal/cron` without its parser: a schedule is the sets of its five
fields, or the period of `@every`. `LastOfFields` is the backward search with its
limits on hour, minute and day; the calendar is the Gregorian one, with leap days and
centuries. `Occurs`, `NewestMeant` and `OpenMeant` say what a schedule means without a
search, and `Remembered` for how long an occurrence counts.

**`EngineConfig`** is the head of `Cycle`: list, `GetConfigMap`, `Parse` over the
pod's last snapshot, then the windows of that snapshot at an instant. Operators
edit and delete the ConfigMap; calls fail and pods restart. One windows key and one
grace key stand for the eleven keys, which are parsed one by one in the same way.

**`MC*`** give small values to the constants; **`LeaderLeaseProofs`**,
**`RebootClusterProofs`**, **`BootStoreProofs`**, **`UpdateNodeProofs`**,
**`WizardProofs`**, **`CronProofs`** and **`EngineConfigProofs`** hold the proofs, each
about the module it is named after. `UpdateNodeProofs` extends `BootStoreProofs`, as
`UpdateNode` extends `BootStore`, and `EngineConfigProofs` extends `CronProofs`.
Definitions whose comment says "Mutant" are plausible bugs; replacing the definition
they are named after by one of them makes the property listed with it in `PROJECT.json`
fail, so every property is one that the code could break.

## 3. What the runs check

| Run | Question | Properties |
|---|---|---|
| `lease` | two pods, any two faults (lost answers, 5xx retries, crashes, writes to the Lease by others), six time units with `StaleAfter` 2 | `LeaseInv` (inductive), `AtMostOneDecider`, `DeciderHeldRecently`, `NoStealing`, `RenewTimeMonotone`, `ImplementsElection`, `DeadHolderReplaced` |
| `reboot_queue` | two control-plane nodes, two slots asked for, two requests, one of the nodes cordoned by the operator from the start, one cordon or uncordon by hand, one fault | `TypeOK`, `SlotLimit`, `PauseRespected`, `OperatorCordonKept`, `ImplementsLifecycle` |
| `reboot_node` | one node's lifecycle in depth: unowned pods, force, re-requests, DELETE, a corrupt `reboot-exec`, one fault | `DrainedBeforeReboot`, `CompletedMeansOutage`, `OneRebootPerRequest` |
| `reboot_handover` | the lease moves in the middle of a pass | `ImplementsRelaxedLifecycle` |
| `reboot_live_queue` | under fairness, two forced requests on two nodes | `ForcedRequestServed` |
| `reboot_live_reboot` | under fairness, one node, any workload, one fault, a DELETE; the node starts cordoned by the operator, who may uncordon it | `LifecycleEnds` |
| `boot_store` | pod and `nodectl` sessions, four releases, room for three, one fault, both loaders | `StoreTypeOK`, `RunningKernelKept`, `DefaultHasKernel`, `DefaultWholeUnlessCut`, `ConfigBrokenOnlyByFault` |
| `update_pins` | three releases on a partition for two, an edit and a piece of work on the partition by somebody else, at any point of the cycle | `FitsPartition`, `EnqueuedBootable`, `PinKept` |
| `update_faults` | under fairness, two window occurrences, an edit and a fault at any point | `TypeOK`, `NoAutoRetry`, `OneCheckPerOccurrence`, `MalformedCorrected`, `EligibleEnqueued` |
| `setup` | two browsers and the command line on one disk, from the live medium to a member, two faults | `JobInv` (inductive), `OneDestructiveJob`, `InstalledBoots`, `TargetReleased`, `MemberNamed`, `JobsEnd` |
| `config` | two pods, two edits of the ConfigMap, one fault; five lists of schedules at six instants of 2096 to 2100 | `ConfigInv`, `WindowsExact`, `ConfigFollowed` |
| `reboot_doc_terminating` | expected violation, section 6 | `TerminatingPodsAwaited` |

### Bounds

Every counter has a named bound in the guards: `MaxClock`, `MaxFaults`,
`MaxRequests`, `MaxClears`, `MaxHandovers`, `MaxEdits`, `MaxHands`,
`MaxOccurrences`, and in `RebootCluster` they are what is left in `budget`. They
bound only what outsiders and failures do, never a pod: a pod cycles for ever in
every run. They are small because the interesting cases need few events:

* two pods make every race of the lease (a third only repeats the second), and
  six time units let a lease become stale, be taken over and become stale again;
* two nodes with one or two slots make every race for a slot; the second node is
  the one whose admission a stale count would let through;
* four releases on a partition for three force both purges (room and retention) in one
  session, with the running kernel, the default and the new release all different; the
  release that is published again is the one the node was installed with, which is the
  running kernel and the default at first; three releases distinguish running, pinned
  and newest, and on a partition for two the purge for room can fail;
* two occurrences are the least that tell "once per occurrence" from "once";
* two browsers and the command line make every race for the job manager and for a
  disk: one disk, because installers on different disks do not meet, and one image;
  two hostnames, the least that tell whose name a member has;
* two pods and two edits let a pod skip one edit, fail on the other and restart
  between them. The instants are a leap day at midnight, the day after it, the last
  day of a year with an hour and a minute to go, the first midnight of 2100, a last
  day of February without a 29th, and an evening whose minute is smaller than that of
  the hours before; the lists have the either-or rule of the day fields, Sunday as 7,
  a leap day in both spellings, a day that never comes, `@every` and nothing;
* `PauseRespected` is checked where both nodes are control-plane nodes, so that only one
  is in flight. The case of a node that fails between the look at the pause and the
  admission needs a worker, a second slot and a third request; a run with three nodes
  and three requests takes more than five minutes, and `PauseHolds` covers it instead;
* `reboot_live_queue` has "continue" and no fault: a slot that comes back and a request
  that is waiting for it. That a NotReady node or, under "pause", a failed one holds
  the queue until it is back or somebody acts is documented behaviour and no property;
* one fault at any step, in one lifecycle or cycle; the lease and the setup runs allow
  two, so that the first may lead to an installed node and the second hit it.
  Two independent faults in one reboot lifecycle are not checked.

`CHECK_DEADLOCK FALSE` is given for `BootStore` and `UpdateNode`, where a host with no
kernel left, or none but a partial one, stays down, and for `Wizard`, where a worker has
nothing left to do: its wizard does not start and its disk is mounted.

### Fairness

* `LeaderLease`: weak fairness of each pod's calls. `Engine.Run` cycles for ever
  and a call returns or fails.
* `RebootCluster`: weak fairness of the leader's pass, strong fairness of the
  executor (a cycle always gets to the local tasks, but a pass of the same pod
  disables it in between), weak fairness of hosts booting, becoming Ready,
  terminating pods going and timeouts passing. None for the API, the operator,
  handovers or faults.
* `UpdateNode`: weak fairness of the pod's steps and sessions, of `nodectl`
  sessions and of a host coming up; strong fairness of one choice, that the
  reboots window is found open, because windows open again and again.
* `Wizard`: weak fairness of the steps of jobs and of their release. Only kubeadm and
  `udevadm` have time limits; that `sfdisk`, `mount`, `mkfs`, `umount` and
  `hostnamectl` return, and that a download ends, is assumed. kubeadm may hang in spite
  of its time limit (`TaskWedged`), and `JobsEnd` names that exception. None for
  browsers, the operator or the host.
* `EngineConfig`: weak fairness of each pod's cycle, as for the lease.
* `BootStore` has none; it only has safety properties.

All of it assumes that a call returns: the HTTP client has no timeout
(`kube/client.go:84`), so a server that accepts a connection and never answers
stops a pod. That is listed as a hazard.

## 4. What is proved

Every safety property that a passing run checks, invariant, action property or
refinement, is also a theorem, for every value of the constants; `PROJECT.json` lists
which. A theorem that needs a hypothesis beyond the `ASSUME`s of the modules says so
in its statement, and this section says why. The `ASSUME`s themselves are what the
code guarantees of its inputs: marks such as `Blank` or `Absent` differ from real
values, defaults are among the values, schedules are what `Parse` returns, the
kernels that the image ships fit the partition. TLC checked each inductive
invariant, or what follows from it, before it was proved, and where a hypothesis is
needed it showed why.

**`LeaderLeaseProofs`**, for every set of pods, every `RenewInterval <= StaleAfter`
and any number of faults and ticks:

* `LeaseInvariant`: `LeaseInv` is an invariant;
* `MutualExclusion`: `[]AtMostOneDecider`, that is, one decider as long as nobody but
  the pods has written the Lease;
* `BoundedBelief`: `[]DeciderHeldRecently`, whoever writes it;
* `TakeoverOnlyWhenStale`, `RenewalsMonotone`: the two action properties;
* `LeaseImplementsElection`: the lease implements `LeaderElection` (initial states map
  to initial states, each step to a step or a stutter); a write by somebody else maps
  to `Interfere`, after which the election is void.

Assumptions: the identities differ from "no holder", the two periods are natural
numbers in order (constants 10 s and 30 s in the code), and the model's own
abstraction that the pods read one clock.

The argument. `AtMostOneDecider` is not inductive: whether two pods may both
decide depends on what a pod between its GET and its PUT still knows and on how
its deadline relates to the time it published. `LeaseInv` adds that. `TimesPast`:
recorded times are not in the future and a pod's deadline is never ahead of the
last moment it held the lease. `WriterKnows`: at each call, what the resource
version still guarantees (a takeover whose version is current is of a lease that
was stale when it was sampled, hence is now). `BeliefBounded`: the holder's own
deadline is not later than the one it published, so by the time another pod sees
the lease stale the former holder's deadline has passed, and a believing pod that
is not the holder is past its deadline. The proof has one step per action.

**`RebootClusterProofs`**, for any nodes, control plane, slots, requests, faults and hand
edits. Its proofs go by writers: lemmas such as `NodeWriters`, `ViewWriters` or
`OutageWriters` say which steps change a variable and how, and an invariant is then
kept by each of its writers instead of by each of the forty actions.

* `ClusterTypeCorrect`. `TypeOK` is not inductive: a request is stamped with the
  number of requests made, which is a number because no more of them are left than
  there were (`TypeInv`).
* `HostRebootedOnce`, with any number of leaders. Reboots are counted from the first
  record after an admission, so that a second first attempt of one request would count
  (`Begun` says that there is none: a recorded node is not asked for a first record
  again, an unreadable `reboot-exec` included); a command left over from a request that
  was deleted counts for that one. `AttemptInv` follows the attempt: no
  command is under way or about to be issued for a request that has rebooted its host,
  an attempt that is recorded with the host's present boot ID has not rebooted it, and
  a boot ID is never older than the recorded one.
* `SlotsOverdrawnByHandovers`. `SlotInv` counts: nodes in flight and pods that are
  past their count of the slots are together at most `MaxConcurrent` and one for each
  handover of the lease so far, and so are the deposed pods still in a pass. With
  `MaxHandovers = 0`, one leader, no pod but the holder is in a pass
  (`LeaderInvariant`), and `OneLeaderKeepsSlots` follows, for control-plane nodes by
  `ControlPlaneInv`: who admits has counted none.
* `LifecycleImplemented`, the refinement of `RebootLifecycle` with its limits, under
  one leader, and `RelaxedLifecycleImplemented`, with any number of handovers, in which
  only the limits are relaxed. Both need that nobody edits a state into something
  unreadable (`Corruptions` without `state` and `name`), because such a state is not in
  the diagram.
* `PauseHolds`, under one leader. The leader looks for failed nodes before it admits,
  and a node may fail in between; `PauseInv` keeps the count of such admissions at
  one, and only where the failed node left a second slot.
* `CompletedAfterOutage`, under one leader. Evidence in a pod's memory may be of an
  earlier attempt. `ViewInv` and `RuleInv`: what a pod has still to do for a node rules
  out a new attempt there, because the same pod would have to admit it. `OutageInv`: a
  view of the present issue, and a remembered NotReady that is newer than it, imply an
  outage since that issue was recorded.
* `RebootAfterDrain`, under one leader and if the operator uncordons no node in flight
  (else pods are scheduled again). `DrainInv`: nodes in flight are cordoned, so that
  an empty list of pods, once seen, stays true.
* `OperatorCordonRespected`. `CordonInv` relates the operator's wish to what
  `reboot-status` records at each state. Its hypotheses are what TLC showed to be
  necessary: nobody makes `reboot-status` unreadable; the operator does not cordon a
  node in the states that the controller owns, where his cordon is taken for its own;
  and, if he cordons by hand at all, there is one leader and no DELETE, because a
  DELETE, or the pass of another pod, uncordons the node, and the uncordon of the
  first pass, still on its way, then takes the cordon that he has put on since.

"One leader" is `MaxHandovers = 0`: the lease stays where it is. By `LeaderLeaseProofs`
a handover needs a lease that went stale or was edited, and a pass that outlives it is
the only way in which two pods decide; what remains true then is
`SlotsOverdrawnByHandovers`, `RelaxedLifecycleImplemented` and `HostRebootedOnce`, which
need no hypothesis about leaders.

**`BootStoreProofs`**, for any versions, capacity, retention, loaders and faults. Three
layers, of which the first two also hold when an operator removes files by hand, and
are proved for that too (`HandNext`), so that `UpdateNodeProofs` can build on them:

* `LockInv`: types, one holder of the flock, and none on a host that is down
  (`StoreTypeCorrect`, `FlockExclusive`);
* `SpaceInv` adds `RoomFound`: the room that the pre-check found is still there when the
  copy begins, because nobody else copies under the flock and purges only free room
  (`CopiesFit`);
* `StoreInv` adds, for the session at work, that it spares the running kernel and the
  default in every purge it may still do (`SparesKernels`), that its copy overwrites
  nothing whole (`CopiesSafely`) and that the config it is writing names a kernel with
  its file (`WritesBootable`), and for every partial kernel who is copying it or what
  cut it short (`TornExplained`). It gives `RunningKernelSafe`, `DefaultKernelSafe`,
  `DefaultKernelWhole` and `ConfigReadable`.

**`UpdateNodeProofs`**, for any versions, occurrences, edits, hand edits and faults, on
`NodeInv`: the space invariant of the partition, the types of the node and what the
pod's goal and aim are at each step.

* `NodeTypeCorrect`, `NodeCopiesFit`.
* `CheckedOnce`: what was checked had been claimed, and an occurrence about to be
  checked was not checked before (`ClaimInv`).
* `PinsRespected`: `applySafeState` is called only for a malformed goal or a version
  that the index of the cycle does not list (`AimInv`).
* `EnqueuedGoalReady`: what `EnsureBootGoal` found or made is still there when the
  reboot is asked for (`EnsuredInv`, through the session's rewriting of the config).
  `EnqueuedGoalBoots` is the property of the run, for boards with a menu: on a
  Raspberry Pi whose `config.txt` has lost its `kernel=` line the default names
  nothing although the session reports success (section 6).
* `RearmedForAReason`: `NewsInv` follows an observation that is news from the step that
  makes it to the step that re-arms, and says that as long as there is none what the
  pod applied is the goal. `RetriesOnlyAfterNews` is the property of the run, with the
  same exception for `config.txt`.

**`WizardProofs`**, for any sets of browsers, disks, images and names and any number of
faults:

* `JobInvariant`, `DestructiveJobsSerialized`: `JobInv` is inductive as it stands.
  "No two jobs" alone is not: it needs that whoever has a job has made the manager
  busy, so that `start` refuses, and that the one that releases is the only one.
* `InstalledDiskBoots`: `InstalledBoots` speaks of a disk after the report, while the
  steps that make it true come before. `DiskInv` adds: an actor is installing or
  running a kubeadm job, never both (`OneThing`); of two writers on a disk neither is
  `alone` (`Alone`); what each stage of an undisturbed installation has put on the
  disk, and that a configuration not yet synced is at risk (`Written`); nobody at work
  on a disk that has a report (`Reported`), since `Begin` takes the report back; the
  disk the system runs from is whole and has nobody writing to it (`Booted`), which
  the look at the mount table guarantees from then on. `PipelineKeeps` has one step
  per stage, `DiskNext` adds kills, power losses and boots.
* `FailedTargetReleased`: from `DiskInv`, because the actor that unmounts is the only
  one with that entry in the mount table.
* `MemberKeepsName`: `NameInv` relates the name of the one job that runs, by
  `JobInv`, to hostname and hosts at each of its steps (`NameSet`), and says that on a
  member no job is left that would set another (`NameSettled`), unless a request was
  past the gate when kubeadm began (`overtaken`).
* `TypeInvariant`, on which all of them rest.

**`CronProofs`**, for every calendar, schedule and instant with four years of calendar
before it. Search and meaning look at the same calendar, so nothing about leap years
or months is needed.

* `LastOccurrenceExact`: the search of one schedule returns its newest occurrence as
  far back as it looks, or nothing when there is none. `BeforeExact` is the search over
  hours and minutes (whose limit on the minute holds in one hour only), `FieldsExact`
  the one over days, `EveryExact` the truncating division of `@every`; least and
  greatest elements exist because the order of the natural numbers is well-founded.
* `NewestExact`: the same for a list, of the occurrences that its schedules are searched
  for (`Remembered`, the code's own horizon). `NewestOfAll` says without it: when some
  schedule of the list has occurred within the last 366 days, what is found is the
  newest of all occurrences there ever were. So the horizon shows only when no
  schedule of the list has occurred for more than 366 days (section 6). `OpenExact`: a
  window is open exactly when an occurrence lies within its grace, for graces up to the
  366 days that every schedule is searched; a longer grace may miss one.

**`EngineConfigProofs`**, for any pods, schedules, instants, edits and faults:

* `ConfigInvariant`. `ConfigInv` is not inductive, because a pod between its GET and
  `Parse` holds what it has fetched; `Fetched` adds that this is the present ConfigMap
  for every pod counted as having read it.
* `WindowsComputedExactly`: `WindowsExact` for the windows of any configuration that a
  pod may have come to, by `CronProofs`, for graces up to a year.

Only model-checked: the liveness properties (`DeadHolderReplaced`,
`ForcedRequestServed`, `LifecycleEnds`, `MalformedCorrected`, `EligibleEnqueued`,
`JobsEnd`, `ConfigFollowed`), because the prover has no rule for fairness or
`ENABLED`. The calendar of `Cron` is modelled after package time, and no proof speaks
of it.

## 5. Abstractions

* `PatchTransition` is one atomic step; it gives up after three conflicts, which
  is the failed call the models have anyway.
* Every clock is one clock; timeouts (`drainOver`, `graceOver`) are flags that may
  rise at any time, more than the code allows.
* PDB gates, PDB denials and their back-off, and windows are choices.
* `since` and `issuedAt` are counters of requests and issues.
* One board flavor; kernels of one size; a version is a number. The CLI's early
  exit on a full partition is left to `MakeRoom`.
* Device discovery and mounting either work or fail; the flock is exact. Scans of
  the partition take no lock in the code and none in the model.
* Partition sizes, passwords, keys and the text of `simplek8s.yaml` and of schedules
  are left out; an image that was streamed without company is the released one,
  because its hash was checked. The installation's own umount failure is only logged,
  as in the code.
* Nothing locks a disk: `validateInstallTarget` looks at the mount table once
  (`install.go:349`), and two installers may stream onto one disk. `InstalledBoots` and
  `InstalledDiskBoots` speak of installations that had the disk alone.
* A host comes up from a whole disk or from the live medium. Booting a disk whose
  installation was cut short depends on the init of the image, which is another
  repository; installing again from the medium over a member would need the
  `/etc/kubernetes` of each disk. Both are left out.
* The wizard's tokens on a control plane (`kubeTokenCreateHandler` and its siblings),
  the login limiter, the index cache, job snapshots, TLS and the SPA are left out.
  SIGTERM ends the wizard with its children.
* `SIGTERM` between two cycles, second-level instants and durations below a minute are
  left out of `EngineConfig` and `Cron`.
* Events, logs, `/readyz`, authentication of the API and disappearing nodes are
  left out.

## 6. Known disagreements between code and documentation

Checked by a run of their own:

* `TerminatingPodsAwaited`. `drain.go:50` says a terminating pod "still counts
  until it disappears", but `evictable` filters terminating pods before they are
  counted: the node goes to `rebooting` while an evicted pod is in its grace
  period.

Met while modelling, stated as definitions (unless marked) and violated when
checked (name one as an INVARIANT or PROPERTY of a run's configuration), but without
a run of their own:

* `DefaultVerified`. `docs/controller.md:251` says that release files are verified
  before they are staged, but
  `copyFile` writes under the final name and the gate at `staging.go:145` goes by
  the name: after a killed copy, the next session takes the partial kernel for
  staged and makes it the default.
* `AbsentIsDefault` (`EngineConfig`): `docs/controller.md:190` says that absent keys
  fall back to the defaults; `engine.go:178` parses over the last snapshot, so a key
  that is removed keeps its last value until the pod restarts, and two pods may differ
  in it. The comment at `config.go:56` takes an empty ConfigMap for an absent one; it
  changes nothing.
* The horizon: `PLAN.md` 3.3 extends it for "schedules that can only occur on Feb 29".
  `isOnlyFeb29` knows one spelling: `0 0 29,30 2 *` has no occurrence in most years;
  and from 2096 to 2104 four years are too few (no definition; `Horizon` and
  `Remembered`). A list that mixes the two spellings then has an older newest
  occurrence than it should have.
* `GateHolds` (`Wizard`): `PLAN.md` 4.8 says every mutating endpoint re-checks the
  state; it is checked before the body is read (`wizard_auth.go:276`), and a kubeadm
  job may start on a node that has left `fresh`. kubeadm's own preflight then refuses,
  but the hostname is set by then.
* `RebootAfterInstall` (`Wizard`): `wizard.go:172` says the endpoint reboots "after a
  successful install"; it does not look at the jobs.
* `ContinueProceeds`: `docs/controller.md:198` says that under
  `on-failure: continue` a drain timeout proceeds to reboot; `manageDraining`
  fails the node under both settings.
* `DeposedLeaderStops`: `orchestrator.go:108` speaks of "every transition patch",
  but phase 1 does not re-validate the lease; `ImplementsRelaxedLifecycle` shows
  that this overdraws slots but breaks no lifecycle.
* `CordonedPrevTruthful`: a POST on a `completed` node before the leader has
  uncordoned it makes the next admission record the controller's own cordon as
  the operator's; the node then stays cordoned.
* `BusyStaysCordoned`: `uncordon` re-reads the node for its cordon only, so a
  node re-admitted after the list is uncordoned while it drains.
* `OperatorCordonKept` holds for cordons before the drain. A cordon by hand on a
  `completed` node is undone by the uncordon rule, and so is one whose
  `reboot-status` was made unreadable before admission (the merge at
  `state.go:386` turns unreadable into absent). A DELETE, or the pass of another pod,
  may uncordon a node while the uncordon of a first pass is on its way (`uncordon` has
  read the node, its patch is to come); if the operator cordons the node in between,
  that patch takes his cordon. The run has none of these; `OperatorCordonRespected`
  states them as its hypotheses.
* `EnqueuedBootable` holds for bootloaders with a menu. On a Raspberry Pi whose
  `config.txt` was cut short, `setRPIDefault` (`bootloader.go:480`) has no `kernel=`
  line to rewrite; `EnsureBootGoal` reports "re-pointed" all the same
  (`bootstore.go:207`), and `maybeEnqueue` (`enqueue.go:17`) asks for a reboot, or
  re-arms a completed one, that the firmware answers with its default kernel name.
* `CompletedMeansOutage` fails when the lease leaves a pod and comes back and a
  DELETE lies between: the pod's `notReadyAfter` is of the earlier lifecycle
  (`orchestrator.go:257`).
* `MenuMatchesKernels`: `PLAN.md` 3.9 promises a prune after the purge for room
  too, but `purged` (`staging.go:211`) is never read.
* An empty `next-kernel` counts as present in `bootstrap` and as absent in
  `reconcileBootloader`, so no path corrects it (no definition; `Empty` in
  `UpdateNode`).
* `enqueue.go:54` says "no wasted reboot is possible"; `nodectl` may move the
  default between `EnsureBootGoal` and the reboot (`EnqueuedBootable` exempts the
  work of others after that point).

## 7. Plan

Modelled and proved as far as sections 3 and 4 say. What is left:

1. Composition of `UpdateNode` with `RebootCluster` through an abstract reboot
   service that both are shown to respect, instead of the collapsed one.
2. The tokens of a control plane: two browsers that mint at once invalidate each
   other's certificate key (`PLAN.md` 4.8 D11).
3. Event edges (`noteEvent`, disappearing nodes) and `migrate.go`.
4. Weaker hypotheses for the theorems about one leader: a lease that leaves a pod and
   does not come back while that pod is in a pass.

### Not modelled, and why

`selfupdate` is one process and one rename; `check`, `list`, the GET endpoints, TLS,
the SPA and the flags have no state that other parts read; `verify.go` only reports;
`internal/kubetest` is a test double, whose semantics the models write down as those
of the API server; chart, scripts and pipelines are deployment.
