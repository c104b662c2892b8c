----------------------------- MODULE Installer ------------------------------
(***************************************************************************)
(* The install pipeline of cmd/nodectl/install.go: stream an image onto a  *)
(* whole disk while hashing it, append and format /var, mount the ESP and  *)
(* write simplek8s.yaml.  `nodectl install` (the actor Cli) and the jobs   *)
(* of the wizard (one actor per client) run the same steps, without a      *)
(* lock: what keeps them apart is the look at the mount table before the   *)
(* first of them.                                                          *)
(*                                                                         *)
(* A disk is seen as what a boot from it needs: the image, a formatted     *)
(* /var and the configuration on the ESP.                                  *)
(***************************************************************************)
EXTENDS Naturals, FiniteSets

CONSTANTS
    Disks,           \* whole disks
    Images,          \* install images of the verified index
    Clients,         \* browsers of the wizard
    Cli,             \* an operator with `nodectl install`
    System,          \* the running system, as the user of a mount
    Blank,           \* no image: whatever was on the disk before
    Torn,            \* a part of an image, or parts of two
    MaxFaults        \* bound on failures, kills and power losses

Actors == Clients \cup {Cli}

ASSUME ActorsAssumption == Cli \notin Clients /\ System \notin Actors
ASSUME ImagesAssumption == Blank \notin Images /\ Torn \notin Images /\ Blank # Torn
ASSUME FaultsAssumption == MaxFaults \in Nat

VARIABLES
    disk,            \* what is on the disks
    unsynced,        \* disks with writes that a power loss may undo
    mounts,          \* who has the ESP of a disk mounted
    inst,            \* the installation each actor is at
    report,          \* history: image of the last installation reported done
    strayed,         \* history: disks an installer left mounted
    faults           \* faults so far

diskVars    == <<disk, unsynced, mounts>>
installVars == <<diskVars, inst, report, strayed>>

Before == {"validated", "indexed", "ready"}             \* nothing written yet
Working == {"stream", "append", "reread", "format", "mount", "yaml", "sync",
            "unmount"}
Stages == {"none", "done", "failed"} \cup Before \cup Working

\* alone: nobody else has been writing to the disk since the stream began.
NoInstall == [stage |-> "none", disk |-> Blank, image |-> Blank, alone |-> TRUE]

DiskContents == [image : Images \cup {Blank, Torn}, var : {"none", "entry", "ext4"},
                 config : BOOLEAN]

Installs == [stage : Stages, disk : Disks \cup {Blank}, image : Images \cup {Blank},
             alone : BOOLEAN]

InstallerTypeOK ==
    /\ disk \in [Disks -> DiskContents]
    /\ unsynced \subseteq Disks
    /\ mounts \in [Disks -> SUBSET (Actors \cup {System})]
    /\ inst \in [Actors -> Installs]
    /\ \A a \in Actors : inst[a].stage # "none" => inst[a].disk \in Disks
    /\ report \in [Disks -> Images \cup {Blank}]
    /\ strayed \subseteq Disks
    /\ faults \in Nat

InstallerInit ==
    /\ disk = [d \in Disks |-> [image |-> Blank, var |-> "none", config |-> FALSE]]
    /\ unsynced = {}
    /\ mounts = [d \in Disks |-> {}]
    /\ inst = [a \in Actors |-> NoInstall]
    /\ report = [d \in Disks |-> Blank]
    /\ strayed = {}
    /\ faults = 0

Whole(d) == disk[d].image \in Images /\ disk[d].var = "ext4" /\ disk[d].config

Fault == faults < MaxFaults /\ faults' = faults + 1

At(a, stage) == inst[a].stage = stage

Goto(a, stage) == inst' = [inst EXCEPT ![a].stage = stage]

-----------------------------------------------------------------------------
(***************************************************************************)
(* Before the first write.                                                 *)
(***************************************************************************)
\* Mutant: the mount table is not consulted.
TargetAlwaysFree(d) == TRUE

\* validateInstallTarget, installTargetMounted: a whole disk with no mounted
\* filesystem.  Looked at once.
TargetFree(d) == mounts[d] = {}

Validate(a, d) ==
    /\ At(a, "none") /\ TargetFree(d)
    /\ inst' = [inst EXCEPT ![a] = [NoInstall EXCEPT !.stage = "validated", !.disk = d]]
    /\ UNCHANGED <<diskVars, report, strayed, faults>>

\* fetchIndex or cachedIndex, selectInstallRelease: the newest or the pinned one.
SelectRelease(a) ==
    /\ At(a, "validated")
    /\ \E r \in Images :
          inst' = [inst EXCEPT ![a].stage = "indexed", ![a].image = r]
    /\ UNCHANGED <<diskVars, report, strayed, faults>>

\* runInstall: no index, no release, no password, or the countdown cancelled.
GiveUp(a) ==
    /\ inst[a].stage \in {"validated", "indexed"}
    /\ inst' = [inst EXCEPT ![a] = NoInstall]
    /\ UNCHANGED <<diskVars, report, strayed, faults>>

-----------------------------------------------------------------------------
(***************************************************************************)
(* The pipeline.                                                           *)
(***************************************************************************)
\* The others at work on a's disk.
Others(a) == {b \in Actors \ {a} : inst[b].disk = inst[a].disk /\ inst[b].stage \in Working}

\* The old content of a's disk is gone with the first block.
Begin(a) ==
    /\ inst' = [b \in Actors |->
          IF b = a THEN [inst[a] EXCEPT !.stage = "stream", !.alone = Others(a) = {}]
          ELSE IF b \in Others(a) THEN [inst[b] EXCEPT !.alone = FALSE] ELSE inst[b]]
    /\ disk' = [disk EXCEPT ![inst[a].disk] = [image |-> Torn, var |-> "none", config |-> FALSE]]
    /\ unsynced' = unsynced \cup {inst[a].disk}
    /\ report' = [report EXCEPT ![inst[a].disk] = Blank]
    /\ UNCHANGED <<mounts, strayed, faults>>

StreamBegin(a) == At(a, "ready") /\ Begin(a)

\* The last block, the hash of the download matches, dev.Sync.  The hash says
\* nothing of the blocks somebody else wrote to the disk meanwhile.
StreamEnd(a) ==
    /\ At(a, "stream")
    /\ \E r \in {inst[a].image} \cup (IF inst[a].alone THEN {} ELSE {Torn}) :
          disk' = [disk EXCEPT ![inst[a].disk].image = r]
    /\ unsynced' = unsynced \ {inst[a].disk}
    /\ Goto(a, "append")
    /\ UNCHANGED <<mounts, report, strayed, faults>>

\* appendVarPartition: sfdisk --append into the free rest of the disk.
Append(a) ==
    /\ At(a, "append") /\ disk[inst[a].disk].var = "none"
    /\ disk' = [disk EXCEPT ![inst[a].disk].var = "entry"]
    /\ Goto(a, "reread")
    /\ UNCHANGED <<unsynced, mounts, report, strayed, faults>>

\* blockdev --rereadpt (busy while somebody has the ESP mounted), the wait for
\* the partition node.
Reread(a) ==
    /\ At(a, "reread") /\ mounts[inst[a].disk] = {}
    /\ Goto(a, "format")
    /\ UNCHANGED <<diskVars, report, strayed, faults>>

Format(a) ==
    /\ At(a, "format")
    /\ disk' = [disk EXCEPT ![inst[a].disk].var = "ext4"]
    /\ Goto(a, "mount")
    /\ UNCHANGED <<unsynced, mounts, report, strayed, faults>>

\* writeInstallYAML.
MountEsp(a) ==
    /\ At(a, "mount")
    /\ mounts' = [mounts EXCEPT ![inst[a].disk] = @ \cup {a}]
    /\ Goto(a, "yaml")
    /\ UNCHANGED <<disk, unsynced, report, strayed, faults>>

WriteYaml(a) ==
    /\ At(a, "yaml")
    /\ disk' = [disk EXCEPT ![inst[a].disk].config = TRUE]
    /\ unsynced' = unsynced \cup {inst[a].disk}
    /\ Goto(a, "sync")
    /\ UNCHANGED <<mounts, report, strayed, faults>>

Sync(a) ==
    /\ At(a, "sync")
    /\ unsynced' = {}
    /\ Goto(a, "unmount")
    /\ UNCHANGED <<disk, mounts, report, strayed, faults>>

\* umount, the summary.  A umount that fails is only logged.
Report(a) ==
    /\ report' = [report EXCEPT ![inst[a].disk] =
          IF inst[a].alone THEN inst[a].image ELSE Blank]
    /\ Goto(a, "done")
    /\ UNCHANGED <<disk, unsynced>>

Unmount(a) ==
    /\ At(a, "unmount")
    /\ \/ /\ mounts' = [mounts EXCEPT ![inst[a].disk] = @ \ {a}]
          /\ UNCHANGED <<strayed, faults>>
       \/ /\ Fault
          /\ strayed' = strayed \cup {inst[a].disk}
          /\ UNCHANGED mounts
    /\ Report(a)

\* Mutant: the unmount is not deferred.
FailedMounted(a) == mounts

\* The deferred umount runs on the failures of writeInstallYAML too.
FailedMounts(a) == [mounts EXCEPT ![inst[a].disk] = @ \ {a}]

\* What fails without a fault, because of somebody else on the disk.
Obstructed(a) ==
    \/ At(a, "append") /\ (disk[inst[a].disk].var # "none" \/ disk[inst[a].disk].image = Torn)
    \/ At(a, "reread") /\ mounts[inst[a].disk] # {}
    \/ At(a, "mount") /\ disk[inst[a].disk].image = Torn

\* What returns an error: no answer or no device before the first block, the
\* commands, the writes.  sync(2) returns none.
Fails == {"ready"} \cup (Working \ {"sync", "unmount"})

\* Any of them fails: the disk stays as it is.  With an ESP that cannot be
\* written the umount may fail as well.
InstallFails(a) ==
    /\ inst[a].stage \in Fails
    /\ \/ Obstructed(a) /\ UNCHANGED faults
       \/ ~Obstructed(a) /\ Fault
    /\ \/ mounts' = FailedMounts(a) /\ UNCHANGED strayed
       \/ At(a, "yaml") /\ strayed' = strayed \cup {inst[a].disk} /\ UNCHANGED mounts
    /\ Goto(a, "failed")
    /\ UNCHANGED <<disk, unsynced, report>>

Pipeline(a) ==
    \/ StreamBegin(a) \/ StreamEnd(a) \/ Append(a) \/ Reread(a) \/ Format(a)
    \/ MountEsp(a) \/ WriteYaml(a) \/ Sync(a) \/ Unmount(a) \/ InstallFails(a)

-----------------------------------------------------------------------------
(***************************************************************************)
(* The command line, and the end of a process.                             *)
(***************************************************************************)
\* resolveInstallPassword and the countdown are over.
CliConfirm ==
    /\ At(Cli, "indexed")
    /\ Goto(Cli, "ready")
    /\ UNCHANGED <<diskVars, report, strayed, faults>>

CliExit ==
    /\ inst[Cli].stage \in {"done", "failed"}
    /\ inst' = [inst EXCEPT ![Cli] = NoInstall]
    /\ UNCHANGED <<diskVars, report, strayed, faults>>

\* The installers in K are killed.  What they have mounted stays mounted.
Killed(K) ==
    /\ inst' = [a \in Actors |-> IF a \in K THEN NoInstall ELSE inst[a]]
    /\ strayed' = strayed \cup {d \in Disks : mounts[d] \cap K # {}}
    /\ UNCHANGED <<diskVars, report>>

CliKilled == ~At(Cli, "none") /\ Fault /\ Killed({Cli})

CliStep ==
    \/ \E d \in Disks : Validate(Cli, d)
    \/ SelectRelease(Cli) \/ GiveUp(Cli) \/ CliConfirm \/ CliExit \/ CliKilled

\* The host goes down: what is not synced may be lost.
Lost(d) == {disk[d]} \cup
    (IF d \in unsynced THEN {[disk[d] EXCEPT !.config = FALSE]} ELSE {})
=============================================================================
