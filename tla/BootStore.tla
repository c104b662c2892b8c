----------------------------- MODULE BootStore ------------------------------
(***************************************************************************)
(* The boot partition of one node and the sessions that work on it         *)
(* (internal/updatecore: bootstore.go, staging.go, purge.go, bootloader.go,*)
(* localcli.go; cmd/nodectl: update.go, boot.go, purge.go).                *)
(*                                                                         *)
(* Two actors open sessions: the controller pod (PhysicalStore.Stage and   *)
(* EnsureBootGoal) and an operator's nodectl (update, boot, purge).  A     *)
(* session holds the exclusive flock from its first to its last step and   *)
(* dies with its process, leaving on the partition whatever it had written *)
(* so far: a kernel file cut short, a bootloader config truncated, half a  *)
(* purge, or a purge without its prune.                                    *)
(*                                                                         *)
(* Kernels have one size, so space is counted in kernels; a version is a   *)
(* natural number, newer when greater; one board flavor.                   *)
(***************************************************************************)
EXTENDS Integers, FiniteSets

CONSTANTS
    Versions,       \* release timestamps
    Shipped,        \* releases the partition is delivered with
    Reissued,       \* releases the index may list with other bytes than the staged ones
    Broken,         \* a bootloader config that names no kernel
    Capacity,       \* kernels that fit on the partition
    TargetFree,     \* free space that max-percent-usage asks for
    Preserve,       \* updates.preserve
    Loaders,        \* bootloaders the node may have
    MaxFaults       \* bound on I/O errors, killed processes and power losses

ASSUME BootStoreAssumption ==
    /\ Versions \subseteq Nat /\ IsFiniteSet(Versions)
    /\ Shipped \subseteq Versions /\ Reissued \subseteq Versions
    /\ Cardinality(Shipped) <= Capacity
    /\ Broken \notin Versions
    /\ Loaders \subseteq {"menu", "rpi"}
    /\ Capacity \in Nat /\ TargetFree \in Nat /\ Preserve \in Nat /\ MaxFaults \in Nat

VARIABLES
    file,       \* version -> what <boot>/simplek8s holds of its kernel
    boot,       \* the kernel the bootloader config defaults to
    menu,       \* versions with an entry in the bootloader config
    running,    \* version of the running kernel
    loader,     \* a menu (grub.cfg, syslinux.cfg) or the Raspberry Pi's config.txt
    up,         \* is the host up?
    sess,       \* actor -> its session
    cut,        \* (history) versions whose kernel a fault cut short
    faults

storeVars == <<file, boot, menu, running, loader, up, sess, cut, faults>>

Actors  == {"pod", "cli"}
Holding == {"room", "copy", "copying", "point", "rewriting", "retain"}

\* A session: the step it is at, the version it is about, whether it re-points
\* the default, the versions it must not purge, the config being written, the
\* step after that write, and how it ended.
Session == [at : {"idle", "done"} \cup Holding, v : Versions \cup {Broken},
            repoint : BOOLEAN, keep : SUBSET Versions,
            conf : [boot : Versions \cup {Broken}, menu : SUBSET Versions],
            then : {"retain", "done"}, outcome : {"ok", "repointed", "absent", "failed"}]

NoConf  == [boot |-> Broken, menu |-> {}]
NewSession(at, v, outcome) ==
    [at |-> at, v |-> v, repoint |-> FALSE, keep |-> {}, conf |-> NoConf,
     then |-> "done", outcome |-> outcome]
IdleSession == NewSession("idle", Broken, "ok")

StoreInit ==
    /\ running \in Shipped
    /\ file = [v \in Versions |-> IF v \in Shipped THEN "whole" ELSE "absent"]
    /\ loader \in Loaders
    /\ boot = running /\ menu = IF loader = "menu" THEN Shipped ELSE {}
    /\ up = TRUE /\ sess = [a \in Actors |-> IdleSession] /\ cut = {} /\ faults = 0

-----------------------------------------------------------------------------
(* Space and purge.                                                        *)

Present == {v \in Versions : file[v] # "absent"}
Free    == Capacity - Cardinality(Present)
Newest(S, k) == {v \in S : Cardinality({w \in S : w > v}) < k}
Oldest(S, k) == {v \in S : Cardinality({w \in S : w < v}) < k}

\* planPurge: the oldest versions, neither protected nor among the newest
\* preserved ones, until the target is free.
PlanPurge(keep, preserve, target) ==
    IF Free >= target THEN {}
    ELSE Oldest(Present \ (keep \cup Newest(Present, preserve)), target - Free)

\* Mutants of Protected: an unreadable default taken for a version, the running
\* kernel forgotten, the default forgotten.
ProtectedRaw(v)       == {running, v, boot}
ProtectedNoRunning(v) == {v, boot} \cap Versions
ProtectedNoDefault(v) == {running, v} \cap Versions

\* GetBootloaderDefault; protectedSet: a default that cannot be read protects
\* nothing.
Default == {boot} \cap Versions
Protected(v) == ({running, v} \cap Versions) \cup Default

Without(removed) == [v \in Versions |-> IF v \in removed THEN "absent" ELSE file[v]]

-----------------------------------------------------------------------------
(* Sessions.                                                               *)

\* Mutant of Locked: nodectl does not take the flock.
LockedByPod == sess["pod"].at \in Holding

Locked   == \E a \in Actors : sess[a].at \in Holding
Idle(a)  == sess[a].at = "idle" /\ up
Become(a, s)  == sess' = [sess EXCEPT ![a] = s]
Step(a, at)   == Become(a, [sess[a] EXCEPT !.at = at])
End(a, outcome) == Become(a, [sess[a] EXCEPT !.at = "done", !.outcome = outcome])

\* copyOver: the config is truncated in place, then written; between the two
\* it names nothing.
Rewrite(a, s, conf, then) ==
    /\ boot' = Broken /\ menu' = {}
    /\ Become(a, [s EXCEPT !.at = "rewriting", !.then = then, !.conf = conf])

\* The new config: a menu gets its default line and an entry, if it has none;
\* the kernel= line of config.txt is replaced, if there is one.
MenuConf(v) == [boot |-> v, menu |-> menu \cup {v}]
RpiConfs(v) == {[boot |-> b, menu |-> {}] : b \in {v} \cup ({boot} \ Versions)}

\* SetBootloaderDefault
SetDefault(a, s, then) ==
    \E conf \in IF loader = "rpi" THEN RpiConfs(s.v) ELSE {MenuConf(s.v)} :
        Rewrite(a, s, conf, then)

\* The lock is taken by somebody, or the device cannot be found or mounted.
Refused(a, v) ==
    /\ Become(a, NewSession("done", v, "failed"))
    /\ \/ Locked /\ UNCHANGED faults
       \/ ~Locked /\ faults < MaxFaults /\ faults' = faults + 1
    /\ UNCHANGED <<file, boot, menu, running, loader, up, cut>>

\* EnsureBootGoal, nodectl boot: the default is moved only to a file that is there.
PointAt(a, v) ==
    LET s == NewSession("done", v, "ok") IN
    /\ ~Locked
    /\ \/ /\ file[v] = "absent"
          /\ Become(a, [s EXCEPT !.outcome = "absent"]) /\ UNCHANGED <<boot, menu>>
       \/ /\ file[v] # "absent" /\ boot = v
          /\ Become(a, s) /\ UNCHANGED <<boot, menu>>
       \/ /\ file[v] # "absent" /\ boot # v
          /\ SetDefault(a, [s EXCEPT !.outcome = "repointed"], "done")
    /\ UNCHANGED <<file, running, loader, up, cut, faults>>

EnsureBootGoal(a, v) == Idle(a) /\ (PointAt(a, v) \/ Refused(a, v))

\* What nodectl learns from the index: no hash, the staged kernel's hash, or
\* that of other bytes.
Hashes(v) == {"none", "same"} \cup (IF v \in Reissued THEN {"other"} ELSE {})

\* The idempotency gate: the controller goes by the name; nodectl compares the
\* bytes with the hash of the index, when the index has it.
AlreadyStaged(v, hash) ==
    file[v] # "absent" /\ (hash = "none" \/ (hash = "same" /\ file[v] = "whole"))

\* stagePartition: a staged kernel ends the session; otherwise download, verify
\* and extract in a scratch directory, then on to the partition.
StageNew(a, v, repoint) ==
    /\ ~Locked
    /\ Become(a, [NewSession("room", v, "ok") EXCEPT !.repoint = repoint, !.keep = Protected(v)])
    /\ UNCHANGED <<file, boot, menu, running, loader, up, cut, faults>>

StageSkip(a, v) ==
    /\ ~Locked /\ Become(a, NewSession("done", v, "ok"))
    /\ UNCHANGED <<file, boot, menu, running, loader, up, cut, faults>>

\* PhysicalStore.Stage
Stage(a, v) ==
    /\ Idle(a)
    /\ \/ AlreadyStaged(v, "none") /\ StageSkip(a, v)
       \/ ~AlreadyStaged(v, "none") /\ StageNew(a, v, TRUE)
       \/ Refused(a, v)

\* nodectl update [--next-kernel=<repoint>] v: an already staged release is
\* still made the default; other bytes under its name are replaced in place.
CliUpdate(v, repoint, hash) ==
    /\ Idle("cli")
    /\ \/ AlreadyStaged(v, hash) /\ (IF repoint THEN PointAt("cli", v) ELSE StageSkip("cli", v))
       \/ ~AlreadyStaged(v, hash) /\ StageNew("cli", v, repoint)
       \/ Refused("cli", v)

\* nodectl purge
CliPurge ==
    /\ Idle("cli")
    /\ \/ /\ ~Locked
          /\ Become("cli", [NewSession("retain", Broken, "ok") EXCEPT !.keep = Protected(Broken)])
          /\ UNCHANGED <<file, boot, menu, running, loader, up, cut, faults>>
       \/ Refused("cli", Broken)

\* What the purge at hand deletes, oldest first: room for a kernel, or retention.
Purge(a) ==
    CASE sess[a].at = "room"   -> PlanPurge(sess[a].keep, 0, 1)
      [] sess[a].at = "retain" -> PlanPurge(sess[a].keep, Preserve, TargetFree)
      [] OTHER                 -> {}

\* Mutant of MakeRoom: the second look at the free space is missing.
MakeRoomUnchecked(a) ==
    /\ sess[a].at = "room"
    /\ file' = Without(Purge(a))
    /\ Step(a, "copy")
    /\ UNCHANGED <<boot, menu, running, loader, up, cut, faults>>

\* The capacity pre-check: purge for room, or give up.
MakeRoom(a) ==
    /\ sess[a].at = "room"
    /\ file' = Without(Purge(a))
    /\ IF Free + Cardinality(Purge(a)) >= 1 THEN Step(a, "copy") ELSE End(a, "failed")
    /\ UNCHANGED <<boot, menu, running, loader, up, cut, faults>>

\* copyFile writes under the final name.
CopyBegin(a) ==
    /\ sess[a].at = "copy"
    /\ file' = [file EXCEPT ![sess[a].v] = "torn"]
    /\ Step(a, "copying")
    /\ UNCHANGED <<boot, menu, running, loader, up, cut, faults>>

\* A file that somebody removed meanwhile is written to its end and gone.
CopyEnd(a) ==
    /\ sess[a].at = "copying"
    /\ file' = [file EXCEPT ![sess[a].v] = IF @ = "absent" THEN @ ELSE "whole"]
    /\ cut' = cut \ {sess[a].v}
    /\ Step(a, IF sess[a].repoint THEN "point" ELSE "retain")
    /\ UNCHANGED <<boot, menu, running, loader, up, faults>>

Point(a) ==
    /\ sess[a].at = "point"
    /\ SetDefault(a, sess[a], "retain")
    /\ UNCHANGED <<file, running, loader, up, cut, faults>>

RewriteEnd(a) ==
    /\ sess[a].at = "rewriting"
    /\ boot' = sess[a].conf.boot /\ menu' = sess[a].conf.menu
    /\ Step(a, sess[a].then)
    /\ UNCHANGED <<file, running, loader, up, cut, faults>>

\* The entries a prune drops: those without a file, but for the default's.
Gone(removed) == {v \in menu \ Default : v \in removed \/ file[v] = "absent"}

\* purgeAndPrune: retention; the menu is pruned only when this purge removed
\* something.
Retain(a) ==
    LET gone == Gone(Purge(a)) IN
    /\ sess[a].at = "retain"
    /\ file' = Without(Purge(a))
    /\ IF Purge(a) # {} /\ gone # {}
       THEN Rewrite(a, sess[a], [boot |-> boot, menu |-> menu \ gone], "done")
       ELSE End(a, "ok") /\ UNCHANGED <<boot, menu>>
    /\ UNCHANGED <<running, loader, up, cut, faults>>

\* The caller has the result.
Finish(a) ==
    /\ sess[a].at = "done"
    /\ Become(a, IdleSession)
    /\ UNCHANGED <<file, boot, menu, running, loader, up, cut, faults>>

-----------------------------------------------------------------------------
(* What goes wrong.                                                        *)

Copying(a) == IF sess[a].at = "copying" THEN {sess[a].v} ELSE {}

\* A purge that is interrupted has deleted the oldest of its plan, up to all.
HalfPurges(a) == {Oldest(Purge(a), k) : k \in 0..Cardinality(Purge(a))}

\* The prune fails, after the whole of its purge or while it writes: that fails
\* nothing.
PruneFails(a, removed) ==
    \/ sess[a].at = "retain" /\ removed # {} /\ removed = Purge(a)
    \/ sess[a].at = "rewriting" /\ sess[a].then = "done" /\ sess[a].outcome = "ok"

\* Download, extract, purge, copy, config write or prune fails: the session ends
\* and what was done stays.
IOError(a) ==
    /\ sess[a].at \in Holding /\ faults < MaxFaults
    /\ \E removed \in HalfPurges(a) :
           /\ file' = Without(removed)
           /\ End(a, IF PruneFails(a, removed) THEN "ok" ELSE "failed")
    /\ cut' = cut \cup Copying(a) /\ faults' = faults + 1
    /\ UNCHANGED <<boot, menu, running, loader, up>>

\* The process is killed; the flock dies with it.
Killed(a) ==
    /\ sess[a].at # "idle" /\ faults < MaxFaults
    /\ Become(a, IdleSession)
    /\ \E removed \in HalfPurges(a) : file' = Without(removed)
    /\ cut' = cut \cup Copying(a) /\ faults' = faults + 1
    /\ UNCHANGED <<boot, menu, running, loader, up>>

\* The host goes down, by a reboot or by power loss, with the purges under way
\* half done.  The config is written synchronously, a kernel is not: one that
\* was copied in a session still open may be lost.
Unsynced == {sess[a].v : a \in {b \in Actors : /\ sess[b].at \in {"point", "rewriting", "retain"}
                                               /\ sess[b].keep # {}}}
                \cap {v \in Versions : file[v] = "whole"}
HostDown(lost) ==
    /\ up /\ up' = FALSE
    /\ sess' = [a \in Actors |-> IdleSession]
    /\ \E a \in Actors : \E removed \in HalfPurges(a) :
           file' = [v \in Versions |-> IF v \in lost THEN "torn" ELSE Without(removed)[v]]
    /\ cut' = cut \cup lost \cup UNION {Copying(a) : a \in Actors}
    /\ UNCHANGED <<boot, menu, running, loader>>

PowerLoss == \E lost \in SUBSET Unsynced :
    faults < MaxFaults /\ faults' = faults + 1 /\ HostDown(lost)

BootInto(v) ==
    /\ ~up /\ file[v] = "whole"
    /\ up' = TRUE /\ running' = v
    /\ UNCHANGED <<file, boot, menu, loader, sess, cut, faults>>

BootDefault == boot # Broken /\ BootInto(boot)
\* The console: an operator picks an entry by hand (docs/controller.md,
\* "Unbootable kernel recovery").
ConsoleBoot == \E v \in Versions : BootInto(v)

-----------------------------------------------------------------------------
SessionStep(a) ==
    MakeRoom(a) \/ CopyBegin(a) \/ CopyEnd(a) \/ Point(a) \/ RewriteEnd(a) \/ Retain(a)

Cli == \/ \E v \in Versions, repoint \in BOOLEAN :
              \E hash \in Hashes(v) : CliUpdate(v, repoint, hash)
       \/ \E v \in Versions : EnsureBootGoal("cli", v)
       \/ CliPurge

StoreNext ==
    \/ \E v \in Versions : Stage("pod", v) \/ EnsureBootGoal("pod", v)
    \/ Cli
    \/ \E a \in Actors : SessionStep(a) \/ Finish(a) \/ IOError(a) \/ Killed(a)
    \/ PowerLoss \/ BootDefault \/ ConsoleBoot

StoreSpec == StoreInit /\ [][StoreNext]_storeVars

-----------------------------------------------------------------------------
(* Properties.                                                             *)

\* Every variable stays in its domain.
StoreTypeOK ==
    /\ file \in [Versions -> {"absent", "torn", "whole"}]
    /\ boot \in Versions \cup {Broken} /\ menu \subseteq Versions
    /\ running \in Versions /\ loader \in Loaders /\ up \in BOOLEAN
    /\ sess \in [Actors -> Session]
    /\ cut \subseteq Versions /\ faults \in 0..MaxFaults

\* docs/controller.md, "Rollback": "the old kernel is always kept (the purge
\* never deletes the running version)": no purge, copy or crash takes or cuts
\* it, but for nodectl replacing a reissued one in place.
RunningKernelKept == file[running] # "absent" /\ (file[running] = "torn" => running \in Reissued)

\* protectedSet: whatever is purged, staged or interrupted, the kernel the
\* bootloader starts by default has its file and, where there is a menu, its entry.
DefaultHasKernel == boot # Broken => file[boot] # "absent" /\ (loader = "menu" => boot \in menu)

\* The flock keeps a re-point away from a kernel that another session is still
\* writing: the default is on a partial kernel after a fault, or while nodectl
\* replaces that very kernel by its reissue.
Replacing(v) == v \in Reissued /\ \E a \in Actors : v \in Copying(a)
DefaultWholeUnlessCut ==
    boot # Broken /\ boot \notin cut => file[boot] = "whole" \/ Replacing(boot)

\* The config is broken only while a session rewrites it or after a fault.
ConfigBrokenOnlyByFault ==
    boot = Broken => faults > 0 \/ \E a \in Actors : sess[a].at = "rewriting"

\* The capacity pre-check of staging: a copy never runs out of space.
FitsPartition == Cardinality(Present) <= Capacity

\* docs/controller.md, "Release source": what is staged was verified, so the
\* default never names a kernel that is not the verified one.
DefaultVerified == boot # Broken => file[boot] = "whole"

\* PLAN.md 3.9, staging.go step 8: "prune only when a purge deleted at least one
\* kernel, in this same mounted session": at rest and without a fault, no menu
\* entry outlives its kernel.
MenuMatchesKernels == ~Locked /\ faults = 0 => menu \subseteq Present
=============================================================================
