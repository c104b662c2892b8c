---------------------------- MODULE WizardProofs ----------------------------
(***************************************************************************)
(* Proofs about Wizard and Installer for any number of browsers, disks,    *)
(* images, hostnames and faults.                                           *)
(***************************************************************************)
EXTENDS Wizard, TLAPS

USE ActorsAssumption, ImagesAssumption, NamesAssumption, FaultsAssumption

-----------------------------------------------------------------------------
(***************************************************************************)
(* Types.                                                                  *)
(***************************************************************************)
\* The initial state is well typed.
LEMMA TypeInit == Init => TypeOK
  <1> SUFFICES ASSUME Init PROVE TypeOK
    OBVIOUS
  <1>1. NoInstall \in Installs /\ NoTask \in Tasks
    BY DEF NoInstall, Installs, Stages, NoTask, Tasks, TaskSteps
  <1>2. InstallerTypeOK
    BY <1>1 DEF Init, InstallerInit, InstallerTypeOK, NoInstall, DiskContents
  <1> QED
    BY <1>1, <1>2 DEF Init, TypeOK

\* A step of the install pipeline keeps the types.
LEMMA TypePipeline ==
  ASSUME TypeOK, NEW a \in Actors, InstallStep(a)
  PROVE  TypeOK'
  <1>1. /\ UNCHANGED <<nodeVars, serverVars, overtaken>>
        /\ InstallerTypeOK
    BY DEF TypeOK, InstallStep
  <1> SUFFICES InstallerTypeOK'
    BY <1>1 DEF TypeOK, nodeVars, serverVars
  <1> USE DEF InstallerTypeOK, Goto, At, Fault, diskVars
  <1>2. CASE StreamBegin(a)
    <2> USE <1>1, <1>2 DEF StreamBegin, Begin
    <2>1. inst[a].disk \in Disks
      OBVIOUS
    <2>2. \A b \in Actors : \A e \in BOOLEAN :
             /\ [inst[b] EXCEPT !.alone = e] \in Installs
             /\ [inst[b] EXCEPT !.alone = e].stage = inst[b].stage
             /\ [inst[b] EXCEPT !.alone = e].disk = inst[b].disk
             /\ [inst[b] EXCEPT !.stage = "stream", !.alone = e] \in Installs
             /\ [inst[b] EXCEPT !.stage = "stream", !.alone = e].disk = inst[b].disk
      BY DEF Installs, Stages, Working
    <2>3. (Others(a) = {}) \in BOOLEAN
      OBVIOUS
    <2>4. /\ inst' \in [Actors -> Installs]
          /\ \A b \in Actors : inst'[b].stage # "none" => inst'[b].disk \in Disks
      BY <2>1, <2>2, <2>3
    <2>5. disk' \in [Disks -> DiskContents]
      BY <2>1 DEF DiskContents
    <2> QED
      BY <2>1, <2>4, <2>5
  <1>3. CASE StreamEnd(a)
    <2> USE <1>1, <1>3 DEF StreamEnd
    <2>1. PICK r \in Images \cup {Blank, Torn} :
             disk' = [disk EXCEPT ![inst[a].disk].image = r]
      BY DEF Installs
    <2>2. disk' \in [Disks -> DiskContents]
      BY <2>1 DEF DiskContents
    <2>3. inst' \in [Actors -> Installs]
      BY DEF Installs, Stages, Working
    <2>4. \A b \in Actors : inst'[b].stage # "none" => inst'[b].disk \in Disks
      BY DEF Installs
    <2> QED
      BY <2>2, <2>3, <2>4
  <1>4. CASE Append(a)
    <2> USE <1>1, <1>4 DEF Append
    <2>1. disk' \in [Disks -> DiskContents]
      BY DEF DiskContents
    <2>2. inst' \in [Actors -> Installs]
      BY DEF Installs, Stages, Working
    <2>3. \A b \in Actors : inst'[b].stage # "none" => inst'[b].disk \in Disks
      BY DEF Installs
    <2> QED
      BY <2>1, <2>2, <2>3
  <1>5. CASE Reread(a)
    BY <1>1, <1>5 DEF Reread, Installs, Stages, Working
  <1>6. CASE Format(a)
    <2> USE <1>1, <1>6 DEF Format
    <2>1. disk' \in [Disks -> DiskContents]
      BY DEF DiskContents
    <2>2. inst' \in [Actors -> Installs]
      BY DEF Installs, Stages, Working
    <2>3. \A b \in Actors : inst'[b].stage # "none" => inst'[b].disk \in Disks
      BY DEF Installs
    <2> QED
      BY <2>1, <2>2, <2>3
  <1>7. CASE MountEsp(a)
    BY <1>1, <1>7 DEF MountEsp, Installs, Stages, Working
  <1>8. CASE WriteYaml(a)
    <2> USE <1>1, <1>8 DEF WriteYaml
    <2>1. disk' \in [Disks -> DiskContents]
      BY DEF DiskContents
    <2>2. inst' \in [Actors -> Installs]
      BY DEF Installs, Stages, Working
    <2>3. \A b \in Actors : inst'[b].stage # "none" => inst'[b].disk \in Disks
      BY DEF Installs
    <2> QED
      BY <2>1, <2>2, <2>3
  <1>9. CASE Sync(a)
    BY <1>1, <1>9 DEF Sync, Installs, Stages, Working
  <1>10. CASE Unmount(a)
    BY <1>1, <1>10 DEF Unmount, Report, Installs, Stages, Working, Before
  <1>11. CASE InstallFails(a)
    BY <1>1, <1>11 DEF InstallFails, Fails, FailedMounts, Installs, Stages, Working, Before
  <1> QED
    BY <1>2, <1>3, <1>4, <1>5, <1>6, <1>7, <1>8, <1>9, <1>10, <1>11
       DEF InstallStep, Pipeline

\* Every step keeps the types.
LEMMA TypeNext == TypeOK /\ [Next]_vars => TypeOK'
  <1> SUFFICES ASSUME TypeOK, [Next]_vars PROVE TypeOK'
    OBVIOUS
  <1>0. NoInstall \in Installs /\ NoInstall.stage = "none" /\ NoTask \in Tasks
    BY DEF NoInstall, Installs, Stages, NoTask, Tasks, TaskSteps
  <1> USE <1>0 DEF TypeOK, InstallerTypeOK, installVars, diskVars, nodeVars, serverVars, TaskOnly
  <1>1. ASSUME NEW c \in Clients, Client(c) PROVE TypeOK'
    <2> USE DEF Actors
    <2>1. CASE Login(c)
      BY <2>1 DEF Login
    <2>2. CASE SessionEnds(c)
      BY <2>2 DEF SessionEnds
    <2>3. CASE Gate(c)
      BY <2>3 DEF Gate
    <2>4. CASE PostInstall(c)
      <3>1. CASE \E d \in Disks : Validate(c, d)
        <4>1. PICK d \in Disks : Validate(c, d)
          BY <3>1
        <4>2. /\ [NoInstall EXCEPT !.stage = "validated", !.disk = d] \in Installs
              /\ [NoInstall EXCEPT !.stage = "validated", !.disk = d].disk = d
          BY DEF NoInstall, Installs, Stages, Before
        <4> QED
          BY <2>4, <4>1, <4>2 DEF PostInstall, Validate
      <3>2. CASE SelectRelease(c)
        <4>1. \A r \in Images :
                /\ [inst[c] EXCEPT !.stage = "indexed", !.image = r] \in Installs
                /\ [inst[c] EXCEPT !.stage = "indexed", !.image = r].disk = inst[c].disk
          BY DEF Installs, Stages, Before
        <4> QED
          <5>1. PICK r \in Images : inst' = [inst EXCEPT ![c].stage = "indexed", ![c].image = r]
            BY <3>2 DEF SelectRelease
          <5>2. inst' = [inst EXCEPT ![c] = [inst[c] EXCEPT !.stage = "indexed", !.image = r]]
            BY <5>1
          <5>3. inst[c].stage # "none"
            BY <3>2 DEF SelectRelease, At
          <5>4. UNCHANGED <<diskVars, report, strayed, faults, nodeVars, serverVars, overtaken>>
            BY <2>4, <3>2 DEF PostInstall, SelectRelease
          <5>. DEFINE picked == [inst[c] EXCEPT !.stage = "indexed", !.image = r]
          <5>5. picked \in Installs /\ picked.disk = inst[c].disk
            BY <4>1
          <5>. HIDE DEF picked
          <5>6. inst' = [inst EXCEPT ![c] = picked]
            BY <5>2 DEF picked
          <5>7. inst' \in [Actors -> Installs]
            BY <5>5, <5>6
          <5>8. \A b \in Actors : inst'[b].stage # "none" => inst'[b].disk \in Disks
            BY <5>3, <5>5, <5>6
          <5> QED
            BY <5>4, <5>7, <5>8
      <3>3. CASE GiveUp(c)
        BY <2>4, <3>3 DEF PostInstall, GiveUp
      <3> QED
        BY <2>4, <3>1, <3>2, <3>3 DEF PostInstall
    <2>5. CASE StartInstall(c)
      <3>1. /\ [inst[c] EXCEPT !.stage = "ready"] \in Installs
            /\ [inst[c] EXCEPT !.stage = "ready"].disk = inst[c].disk
        BY DEF Installs, Stages, Before
      <3>2. inst[c].stage # "none"
        BY <2>5 DEF StartInstall, At
      <3>3. UNCHANGED <<diskVars, report, strayed, faults, nodeVars, server, sessions, gate,
                        task, rebooting, overtaken>>
        BY <2>5 DEF StartInstall
      <3>. DEFINE started == [inst[c] EXCEPT !.stage = "ready"]
      <3>4. /\ \/ inst' = [inst EXCEPT ![c] = NoInstall]
               \/ inst' = [inst EXCEPT ![c] = started]
            /\ busy' \in {busy, TRUE}
        BY <2>5 DEF StartInstall, Goto
      <3>. HIDE DEF started
      <3>5. inst' \in [Actors -> Installs]
        BY <3>1, <3>4 DEF started
      <3>6. \A b \in Actors : inst'[b].stage # "none" => inst'[b].disk \in Disks
        BY <3>1, <3>2, <3>4 DEF started
      <3>7. busy' \in BOOLEAN
        BY <3>4
      <3> QED
        BY <3>3, <3>5, <3>6, <3>7
    <2>6. CASE StartKubeadm(c)
      <3>1. \A name \in Names, cp \in BOOLEAN :
               [step |-> "hostname", name |-> name, controlPlane |-> cp] \in Tasks
        BY DEF Tasks, TaskSteps
      <3> QED
        <4>1. task' \in [Clients -> Tasks] /\ busy' \in BOOLEAN
          <5>1. CASE UNCHANGED <<task, busy>>
            BY <2>6, <5>1 DEF StartKubeadm
          <5>2. CASE ~UNCHANGED <<task, busy>>
            <6>1. PICK name \in Names, cp \in BOOLEAN : task' = [task EXCEPT ![c] =
                     [step |-> "hostname", name |-> name, controlPlane |-> cp]]
              BY <2>6, <5>2 DEF StartKubeadm
            <6>2. busy' = TRUE
              BY <2>6, <5>2 DEF StartKubeadm
            <6> QED
              BY <3>1, <6>1, <6>2
          <5> QED
            BY <5>1, <5>2
        <4>2. gate' \in [Clients -> {"none", "kubeadm", "reboot"}]
          BY <2>6 DEF StartKubeadm
        <4> QED
          BY <2>6, <4>1, <4>2 DEF StartKubeadm
    <2>7. CASE PostReboot(c)
      BY <2>7 DEF PostReboot
    <2> QED
      BY <1>1, <2>1, <2>2, <2>3, <2>4, <2>5, <2>6, <2>7 DEF Client
  <1>2. ASSUME NEW c \in Clients, TaskStep(c) PROVE TypeOK'
    <2>1. task' \in [Clients -> Tasks]
      <3>1. \A step \in TaskSteps : [task[c] EXCEPT !.step = step] \in Tasks
        BY DEF Tasks
      <3> QED
        BY <1>2, <3>1 DEF TaskStep, SetHostname, EditHosts, EnsureRuntimes, KubeadmBegins,
                    KubeadmAdmin, KubeadmEnds, Proceed, TaskSteps
    <2>2. task[c].name \in Names \cup {Blank}
      BY DEF Tasks
    <2> QED
      BY <1>2, <2>1, <2>2 DEF TaskStep, SetHostname, EditHosts, EnsureRuntimes, KubeadmBegins,
                  KubeadmAdmin, KubeadmEnds
  <1>3. ASSUME NEW c \in Clients, TaskFails(c) \/ TaskWedged(c) PROVE TypeOK'
    <2>1. \A step \in TaskSteps : [task[c] EXCEPT !.step = step] \in Tasks
      BY DEF Tasks
    <2> QED
      BY <1>3, <2>1 DEF TaskFails, TaskWedged, Fault, Proceed, TaskSteps
  <1>4. ASSUME NEW c \in Clients, Release(c) PROVE TypeOK'
    BY <1>4 DEF Release
  <1>5. ASSUME NEW a \in Actors, InstallStep(a) PROVE TypeOK'
    BY <1>5, TypePipeline
  <1>6. CASE CliActs
    <2> USE <1>6 DEF CliActs
    <2>1. Cli \in Actors
      BY DEF Actors
    <2>2. CASE \E d \in Disks : Validate(Cli, d)
      <3>1. PICK d \in Disks : Validate(Cli, d)
        BY <2>2
      <3>2. /\ [NoInstall EXCEPT !.stage = "validated", !.disk = d] \in Installs
            /\ [NoInstall EXCEPT !.stage = "validated", !.disk = d].disk = d
        BY DEF NoInstall, Installs, Stages, Before
      <3> QED
        BY <2>1, <3>1, <3>2 DEF Validate
    <2>3. CASE SelectRelease(Cli)
      <3>1. \A r \in Images :
              /\ [inst[Cli] EXCEPT !.stage = "indexed", !.image = r] \in Installs
              /\ [inst[Cli] EXCEPT !.stage = "indexed", !.image = r].disk = inst[Cli].disk
        BY <2>1 DEF Installs, Stages, Before
      <3> QED
        BY <2>1, <2>3, <3>1 DEF SelectRelease, At
    <2>4. CASE GiveUp(Cli) \/ CliExit
      BY <2>1, <2>4 DEF GiveUp, CliExit
    <2>5. CASE CliConfirm
      <3>1. /\ [inst[Cli] EXCEPT !.stage = "ready"] \in Installs
            /\ [inst[Cli] EXCEPT !.stage = "ready"].disk = inst[Cli].disk
        BY <2>1 DEF Installs, Stages, Before
      <3> QED
        BY <2>1, <2>5, <3>1 DEF CliConfirm, Goto, At
    <2>6. CASE CliKilled
      BY <2>1, <2>6 DEF CliKilled, Killed, Fault
    <2> QED
      BY <2>2, <2>3, <2>4, <2>5, <2>6 DEF CliStep
  <1>7. CASE WizardStarts
    BY <1>7 DEF WizardStarts
  <1>8. CASE WizardStops
    <2>1. InstallerTypeOK'
      BY <1>8 DEF WizardStops, Killed, Fault
    <2> QED
      BY <1>8, <2>1 DEF WizardStops, Forgotten
  <1>9. CASE HostRestarts
    <2>1. InstallerTypeOK'
      BY <1>9 DEF HostRestarts, Fault
    <2> QED
      BY <1>9, <2>1 DEF HostRestarts, Forgotten
  <1>10. CASE UNCHANGED vars
    BY <1>10 DEF vars
  <1> QED
    BY <1>1, <1>2, <1>3, <1>4, <1>5, <1>6, <1>7, <1>8, <1>9, <1>10 DEF Next

\* TypeOK is an invariant.
THEOREM TypeInvariant == Spec => []TypeOK
  BY TypeInit, TypeNext, PTL DEF Spec

-----------------------------------------------------------------------------
(***************************************************************************)
(* The job manager: one job at a time.                                     *)
(***************************************************************************)
\* Nobody has a job at the start.
LEMMA JobInit == Init => JobInv
  <1> SUFFICES ASSUME Init PROVE JobInv
    OBVIOUS
  <1>1. \A c \in Clients : ~HasJob(c)
    BY DEF Init, InstallerInit, HasJob, NoInstall, NoTask, Working, Actors
  <1> QED
    BY <1>1, TypeInit DEF JobInv, OneDestructiveJob

\* A step that gives nobody a job and leaves the manager alone keeps JobInv.
LEMMA JobFrame ==
  ASSUME JobInv, TypeOK', busy' = busy, \A c \in Clients : HasJob(c)' => HasJob(c)
  PROVE  JobInv'
  BY DEF JobInv, OneDestructiveJob

\* A job is started by a manager that is not busy, and released by the job that
\* made it busy.
LEMMA JobNext == JobInv /\ [Next]_vars => JobInv'
  <1> SUFFICES ASSUME JobInv, [Next]_vars PROVE JobInv'
    OBVIOUS
  <1>0. TypeOK /\ TypeOK'
    BY TypeNext DEF JobInv
  <1>a. /\ inst \in [Actors -> Installs] /\ task \in [Clients -> Tasks]
        /\ Clients \subseteq Actors /\ Cli \in Actors /\ Cli \notin Clients
    BY <1>0 DEF TypeOK, InstallerTypeOK, Actors
  <1>1. ASSUME NEW c \in Clients, Client(c) PROVE JobInv'
    <2>1. CASE Login(c) \/ SessionEnds(c) \/ Gate(c) \/ PostReboot(c)
      BY <1>0, <2>1, JobFrame DEF Login, SessionEnds, Gate, PostReboot, HasJob, installVars
    <2>2. CASE PostInstall(c)
      <3>1. inst[c].stage \in {"none", "validated", "indexed"} /\ UNCHANGED <<busy, task>>
        BY <2>2 DEF PostInstall, Validate, SelectRelease, GiveUp, At, serverVars
      <3>2. /\ \A b \in Clients \ {c} : inst'[b] = inst[b]
            /\ inst'[c].stage \in {"none", "validated", "indexed"}
        <4>1. CASE \E d \in Disks : Validate(c, d)
          BY <1>a, <4>1 DEF Validate, NoInstall
        <4>2. CASE SelectRelease(c)
          BY <1>a, <4>2 DEF SelectRelease, Installs
        <4>3. CASE GiveUp(c)
          BY <1>a, <4>3 DEF GiveUp, NoInstall
        <4> QED
          BY <2>2, <4>1, <4>2, <4>3 DEF PostInstall
      <3> QED
        BY <1>0, <3>1, <3>2, JobFrame DEF HasJob, Working
    <2>3. CASE StartInstall(c)
      <3>1. CASE Refused
        <4>1. \A b \in Clients : HasJob(b)' => HasJob(b)
          BY <1>a, <2>3, <3>1 DEF StartInstall, HasJob, NoInstall, Working
        <4> QED
          BY <1>0, <2>3, <3>1, <4>1, JobFrame DEF StartInstall
      <3>2. CASE ~Refused
        <4>1. \A b \in Clients : ~HasJob(b)
          BY <3>2 DEF JobInv, Refused
        <4>2. busy' = TRUE /\ \A b \in Clients \ {c} : ~HasJob(b)'
          BY <1>a, <2>3, <3>2, <4>1 DEF StartInstall, HasJob, Goto
        <4> QED
          BY <1>0, <4>2 DEF JobInv, OneDestructiveJob
      <3> QED
        BY <3>1, <3>2
    <2>4. CASE StartKubeadm(c)
      <3>1. CASE UNCHANGED <<task, busy>>
        BY <1>0, <2>4, <3>1, JobFrame DEF StartKubeadm, HasJob, installVars
      <3>2. CASE ~UNCHANGED <<task, busy>>
        <4>1. \A b \in Clients : ~HasJob(b)
          BY <2>4, <3>2 DEF JobInv, Refused, StartKubeadm
        <4>2. busy' = TRUE /\ inst' = inst /\ \A b \in Clients \ {c} : task'[b] = task[b]
          BY <1>a, <2>4, <3>2 DEF StartKubeadm, installVars
        <4>3. \A b \in Clients \ {c} : ~HasJob(b)'
          BY <4>1, <4>2 DEF HasJob
        <4> QED
          BY <1>0, <4>2, <4>3 DEF JobInv, OneDestructiveJob
      <3> QED
        BY <3>1, <3>2
    <2> QED
      BY <1>1, <2>1, <2>2, <2>3, <2>4 DEF Client
  <1>2. ASSUME NEW c \in Clients, TaskStep(c) \/ TaskFails(c) \/ TaskWedged(c) PROVE JobInv'
    <2>1. /\ UNCHANGED <<inst, busy>> /\ task[c].step # "none"
          /\ \A b \in Clients \ {c} : task'[b] = task[b]
      BY <1>a, <1>2 DEF TaskStep, SetHostname, EditHosts, EnsureRuntimes, KubeadmBegins,
             KubeadmAdmin, KubeadmEnds, TaskFails, TaskWedged, OnStep, Proceed, TaskOnly,
             installVars
    <2> QED
      BY <1>0, <2>1, JobFrame DEF HasJob
  <1>3. ASSUME NEW c \in Clients, Release(c) PROVE JobInv'
    <2>1. HasJob(c)
      BY <1>3 DEF Release, HasJob
    <2>2. \A b \in Clients \ {c} : ~HasJob(b)
      BY <2>1 DEF JobInv, OneDestructiveJob
    <2>3. \A b \in Clients \ {c} : ~HasJob(b)'
      BY <1>a, <1>3, <2>2 DEF Release, HasJob
    <2>4. ~HasJob(c)'
      BY <1>a, <1>3 DEF Release, HasJob, NoInstall, NoTask, Working
    <2> QED
      BY <1>0, <2>3, <2>4 DEF JobInv, OneDestructiveJob
  <1>4. ASSUME NEW a \in Actors, InstallStep(a) PROVE JobInv'
    <2>1. UNCHANGED <<busy, task>> /\ Pipeline(a)
      BY <1>4 DEF InstallStep, serverVars
    <2>2. inst[a].stage \in {"ready"} \cup Working
      BY <2>1 DEF Pipeline, StreamBegin, StreamEnd, Append, Reread, Format, MountEsp, WriteYaml,
                  Sync, Unmount, InstallFails, Fails, At, Working
    <2>3. \A b \in Actors \ {a} : inst'[b].stage = inst[b].stage
      <3>1. CASE StreamBegin(a)
        BY <1>a, <3>1 DEF StreamBegin, Begin, Installs
      <3> QED
        BY <1>a, <2>1, <3>1 DEF Pipeline, StreamEnd, Append, Reread, Format, MountEsp,
                  WriteYaml, Sync, Unmount, Report, InstallFails, Goto
    <2> QED
      BY <1>0, <2>1, <2>2, <2>3, <1>a, JobFrame DEF HasJob
  <1>5. CASE CliActs
    <2>1. UNCHANGED <<busy, task>> /\ \A b \in Clients : inst'[b] = inst[b]
      BY <1>a, <1>5 DEF CliActs, CliStep, Validate, SelectRelease, GiveUp, CliConfirm, CliExit,
             CliKilled, Killed, Goto, serverVars
    <2> QED
      BY <1>0, <2>1, JobFrame DEF HasJob
  <1>6. CASE WizardStarts
    BY <1>0, <1>6, JobFrame DEF WizardStarts, HasJob, installVars
  <1>7. CASE WizardStops \/ HostRestarts
    <2>1. \A c \in Clients : inst'[c] = NoInstall /\ task'[c] = NoTask
      BY <1>a, <1>7 DEF WizardStops, HostRestarts, Forgotten, Killed
    <2>2. \A c \in Clients : ~HasJob(c)'
      BY <2>1 DEF HasJob, NoInstall, NoTask, Working
    <2> QED
      BY <1>0, <2>2 DEF JobInv, OneDestructiveJob
  <1>8. CASE UNCHANGED vars
    BY <1>0, <1>8, JobFrame DEF vars, HasJob, installVars, serverVars
  <1> QED
    BY <1>1, <1>2, <1>3, <1>4, <1>5, <1>6, <1>7, <1>8 DEF Next

\* JobInv is an invariant: whoever has a job has made the manager busy.
THEOREM JobInvariant == Spec => []JobInv
  BY JobInit, JobNext, PTL DEF Spec

\* Exactly one destructive job runs at a time (wizard_jobs.go:14), whoever posts
\* what, whatever fails, and across restarts of the wizard and the host.
THEOREM DestructiveJobsSerialized == Spec => []OneDestructiveJob
  <1>1. JobInv => OneDestructiveJob
    BY DEF JobInv
  <1> QED
    BY <1>1, JobInvariant, PTL
-----------------------------------------------------------------------------
(***************************************************************************)
(* The disks.                                                              *)
(***************************************************************************)
\* A client is at one thing at a time.
OneThing ==
    \A c \in Clients :
        /\ gate[c] # "none" => At(c, "none") /\ task[c].step = "none"
        /\ task[c].step # "none" => At(c, "none")

\* What is alone on its disk has no company there.
Alone ==
    \A a, b \in Actors :
        /\ a # b /\ inst[a].alone
        /\ inst[a].stage \in Working /\ inst[b].stage \in Working
        => inst[a].disk # inst[b].disk

\* What an installation that is alone has on the disk, stage by stage.
Written ==
    \A a \in Actors :
        LET i == inst[a] IN
        /\ i.stage \in {"indexed", "ready"} \cup Working => i.image \in Images
        /\ i.alone /\ i.stage \in Working \ {"stream"} => disk[i.disk].image = i.image
        /\ i.alone /\ i.stage \in {"mount", "yaml", "sync", "unmount"} => disk[i.disk].var = "ext4"
        /\ i.alone /\ i.stage \in {"sync", "unmount"} => disk[i.disk].config
        /\ i.alone /\ i.stage = "unmount" => i.disk \notin unsynced

\* A disk reported installed is synced and nobody is at work on it.
Reported ==
    \A d \in Disks : report[d] # Blank =>
        /\ Whole(d) /\ disk[d].image = report[d] /\ d \notin unsynced
        /\ \A a \in Actors : inst[a].stage \in Working => inst[a].disk # d

\* The disk the system runs from is nobody's target.
Booted ==
    \A d \in Disks : System \in mounts[d] =>
        /\ Whole(d) /\ d \notin unsynced
        /\ \A a \in Actors : inst[a].stage # "none" => inst[a].disk # d

\* The inductive invariant of the disks.
DiskInv == TypeOK /\ OneThing /\ Alone /\ Written /\ Reported /\ Booted

\* A step before the first write or after the last one: the disks stay, and a
\* new target is not mounted.
Prepares(a) ==
    /\ inst[a].stage \notin Working
    /\ \E i \in Installs :
          /\ inst' = [inst EXCEPT ![a] = i]
          /\ i.stage \notin Working
          /\ i.stage # "none" => mounts[i.disk] = {}
                                \/ (inst[a].stage # "none" /\ i.disk = inst[a].disk)
          /\ i.stage \in {"indexed", "ready"} => i.image \in Images
    /\ UNCHANGED <<diskVars, report, strayed>>

\* What a step does to the installations and the disks.
LEMMA InstallKinds ==
  ASSUME TypeOK, OneThing, Written, [Next]_vars
  PROVE  \/ UNCHANGED installVars
         \/ \E a \in Actors : Prepares(a)
         \/ \E a \in Actors : Pipeline(a)
         \/ \E K \in SUBSET Actors : Killed(K)
         \/ HostRestarts
  <1>a. /\ inst \in [Actors -> Installs] /\ Clients \subseteq Actors /\ Cli \in Actors
        /\ NoInstall \in Installs /\ NoInstall.stage = "none"
    BY DEF TypeOK, InstallerTypeOK, Actors, NoInstall, Installs, Stages
  <1>b. "none" \notin Working
    BY DEF Working
  <1>1. ASSUME NEW a \in Actors, \E d \in Disks : Validate(a, d) PROVE Prepares(a)
    <2>1. PICK d \in Disks : Validate(a, d)
      BY <1>1
    <2> DEFINE i == [NoInstall EXCEPT !.stage = "validated", !.disk = d]
    <2>2. i \in Installs /\ i.stage = "validated" /\ i.disk = d
      BY DEF NoInstall, Installs, Stages, Before
    <2>3. inst' = [inst EXCEPT ![a] = i] /\ mounts[d] = {} /\ At(a, "none")
          /\ UNCHANGED <<diskVars, report, strayed>>
      BY <2>1 DEF Validate, TargetFree
    <2> HIDE DEF i
    <2> QED
      BY <1>b, <2>2, <2>3 DEF Prepares, At, Working
  <1>2. ASSUME NEW a \in Actors, SelectRelease(a) PROVE Prepares(a)
    <2>1. PICK r \in Images : inst' = [inst EXCEPT ![a].stage = "indexed", ![a].image = r]
      BY <1>2 DEF SelectRelease
    <2> DEFINE i == [inst[a] EXCEPT !.stage = "indexed", !.image = r]
    <2>2. /\ i \in Installs /\ i.stage = "indexed" /\ i.disk = inst[a].disk /\ i.image = r
          /\ inst' = [inst EXCEPT ![a] = i]
      BY <1>a, <2>1 DEF Installs, Stages, Before
    <2> HIDE DEF i
    <2> QED
      BY <1>2, <2>2 DEF Prepares, SelectRelease, At, Working
  <1>3. ASSUME NEW a \in Actors, inst[a].stage = "indexed", Goto(a, "ready"),
               UNCHANGED <<diskVars, report, strayed>>
        PROVE  Prepares(a)
    <2> DEFINE i == [inst[a] EXCEPT !.stage = "ready"]
    <2>1. /\ i \in Installs /\ i.stage = "ready" /\ i.disk = inst[a].disk
          /\ i.image = inst[a].image
      BY <1>a DEF Installs, Stages, Before
    <2>2. inst' = [inst EXCEPT ![a] = i] /\ inst[a].image \in Images
      BY <1>3 DEF Goto, Written
    <2> HIDE DEF i
    <2> QED
      BY <1>3, <2>1, <2>2 DEF Prepares, Working
  <1>4. ASSUME NEW a \in Actors, inst' = [inst EXCEPT ![a] = NoInstall],
               inst[a].stage \notin Working, UNCHANGED <<diskVars, report, strayed>>
        PROVE  Prepares(a)
    BY <1>a, <1>b, <1>4 DEF Prepares
  <1>5. ASSUME NEW c \in Clients, Client(c)
        PROVE  UNCHANGED installVars \/ Prepares(c)
    <2>1. CASE Login(c) \/ SessionEnds(c) \/ Gate(c) \/ PostReboot(c) \/ StartKubeadm(c)
      BY <2>1 DEF Login, SessionEnds, Gate, PostReboot, StartKubeadm
    <2>2. CASE PostInstall(c)
      BY <1>a, <1>1, <1>2, <1>4, <2>2 DEF PostInstall, GiveUp, Working
    <2>3. CASE StartInstall(c)
      BY <1>a, <1>3, <1>4, <2>3 DEF StartInstall, At, Working
    <2> QED
      BY <1>5, <2>1, <2>2, <2>3 DEF Client
  <1>6. ASSUME NEW c \in Clients, TaskStep(c) \/ TaskFails(c) \/ TaskWedged(c)
        PROVE  UNCHANGED installVars
    BY <1>6 DEF TaskStep, SetHostname, EditHosts, EnsureRuntimes, KubeadmBegins,
             KubeadmAdmin, KubeadmEnds, TaskFails, TaskWedged, TaskOnly
  <1>7. ASSUME NEW c \in Clients, Release(c) PROVE Prepares(c)
    <2>1. inst[c].stage \notin Working
      BY <1>7 DEF Release, OneThing, At, Working
    <2> QED
      BY <1>a, <1>4, <1>7, <2>1 DEF Release
  <1>8. ASSUME CliActs PROVE Prepares(Cli) \/ Killed({Cli})
    BY <1>a, <1>1, <1>2, <1>3, <1>4, <1>8 DEF CliActs, CliStep, GiveUp, CliConfirm, CliExit,
             CliKilled, At, Working
  <1>9. WizardStops => Killed(Clients)
    BY DEF WizardStops
  <1>10. WizardStarts \/ UNCHANGED vars => UNCHANGED installVars
    BY DEF WizardStarts, vars
  <1> QED
    BY <1>a, <1>5, <1>6, <1>7, <1>8, <1>9, <1>10 DEF Next, InstallStep

\* A client does the next thing when it is through with the last.
LEMMA OneThingNext ==
  ASSUME TypeOK, OneThing, [Next]_vars
  PROVE  OneThing'
  <1>a. /\ inst \in [Actors -> Installs] /\ Clients \subseteq Actors /\ Cli \in Actors
        /\ Cli \notin Clients /\ task \in [Clients -> Tasks] /\ NoInstall.stage = "none"
        /\ gate \in [Clients -> {"none", "kubeadm", "reboot"}] /\ NoTask.step = "none"
    BY DEF TypeOK, InstallerTypeOK, Actors, NoInstall, NoTask
  <1>1. ASSUME NEW c \in Clients, Client(c) PROVE OneThing'
    <2>1. CASE Login(c) \/ SessionEnds(c)
      BY <2>1 DEF Login, SessionEnds, OneThing, At, installVars
    <2>2. CASE Gate(c)
      BY <1>a, <2>2 DEF Gate, Admitted, Free, OneThing, At, installVars
    <2>3. CASE PostInstall(c)
      <3>1. /\ gate[c] = "none" /\ task[c].step = "none" /\ UNCHANGED <<gate, task>>
            /\ \A b \in Clients \ {c} : inst'[b] = inst[b]
        <4>1. CASE \E d \in Disks : Validate(c, d)
          BY <1>a, <2>3, <4>1 DEF PostInstall, Validate, Admitted, Free, serverVars, At,
                                  SelectRelease, GiveUp
        <4>2. CASE SelectRelease(c) \/ GiveUp(c)
          BY <1>a, <2>3, <4>2 DEF PostInstall, SelectRelease, GiveUp, serverVars, OneThing, At
        <4> QED
          BY <2>3, <4>1, <4>2 DEF PostInstall
      <3> QED
        BY <3>1 DEF OneThing, At
    <2>4. CASE StartInstall(c)
      BY <1>a, <2>4 DEF StartInstall, Goto, OneThing, At
    <2>5. CASE StartKubeadm(c)
      <3>1. /\ At(c, "none") /\ inst' = inst /\ gate'[c] = "none"
            /\ \A b \in Clients \ {c} : gate'[b] = gate[b] /\ task'[b] = task[b]
        BY <1>a, <2>5 DEF StartKubeadm, OneThing, installVars
      <3> QED
        BY <3>1 DEF OneThing, At
    <2>6. CASE PostReboot(c)
      BY <1>a, <2>6 DEF PostReboot, OneThing, At, installVars
    <2> QED
      BY <1>1, <2>1, <2>2, <2>3, <2>4, <2>5, <2>6 DEF Client
  <1>2. ASSUME NEW c \in Clients, TaskStep(c) \/ TaskFails(c) \/ TaskWedged(c)
        PROVE  OneThing'
    <2>1. /\ UNCHANGED <<inst, gate>> /\ task[c].step # "none"
          /\ \A b \in Clients \ {c} : task'[b] = task[b]
      BY <1>a, <1>2 DEF TaskStep, SetHostname, EditHosts, EnsureRuntimes, KubeadmBegins,
             KubeadmAdmin, KubeadmEnds, TaskFails, TaskWedged, OnStep, Proceed, TaskOnly,
             installVars
    <2> QED
      BY <2>1 DEF OneThing, At
  <1>3. ASSUME NEW c \in Clients, Release(c) PROVE OneThing'
    BY <1>a, <1>3 DEF Release, OneThing, At
  <1>4. ASSUME NEW a \in Actors, InstallStep(a) PROVE OneThing'
    <2>1. UNCHANGED <<gate, task>> /\ Pipeline(a) /\ ~At(a, "none")
      BY <1>4 DEF InstallStep, serverVars, Pipeline, StreamBegin, StreamEnd, Append, Reread,
                  Format, MountEsp, WriteYaml, Sync, Unmount, InstallFails, Fails, At, Working
    <2>2. \A b \in Actors \ {a} : inst'[b].stage = inst[b].stage
      <3>1. CASE StreamBegin(a)
        BY <1>a, <3>1 DEF StreamBegin, Begin, Installs
      <3> QED
        BY <1>a, <2>1, <3>1 DEF Pipeline, StreamEnd, Append, Reread, Format, MountEsp,
                  WriteYaml, Sync, Unmount, Report, InstallFails, Goto
    <2> QED
      BY <1>a, <2>1, <2>2 DEF OneThing, At
  <1>5. CASE CliActs
    <2>1. UNCHANGED <<gate, task>> /\ \A b \in Clients : inst'[b] = inst[b]
      BY <1>a, <1>5 DEF CliActs, CliStep, Validate, SelectRelease, GiveUp, CliConfirm, CliExit,
             CliKilled, Killed, Goto, serverVars
    <2> QED
      BY <2>1 DEF OneThing, At
  <1>6. CASE WizardStarts \/ UNCHANGED vars
    BY <1>6 DEF WizardStarts, vars, OneThing, At, installVars, serverVars
  <1>7. CASE WizardStops \/ HostRestarts
    <2>1. \A c \in Clients : gate'[c] = "none" /\ task'[c].step = "none"
      BY <1>a, <1>7 DEF WizardStops, HostRestarts, Forgotten
    <2> QED
      BY <2>1 DEF OneThing
  <1> QED
    BY <1>1, <1>2, <1>3, <1>4, <1>5, <1>6, <1>7 DEF Next

\* A step of the pipeline on the disk d leaves the other disks and the other
\* installers alone, but that they may lose their company's absence.
LEMMA PipelineFrame ==
  ASSUME TypeOK, NEW a \in Actors, Pipeline(a)
  PROVE  LET d == inst[a].disk IN
         /\ d \in Disks /\ inst[a].stage # "none"
         /\ inst'[a].disk = d /\ inst'[a].image = inst[a].image
         /\ inst'[a].stage \in Working \cup {"done", "failed"}
         /\ \A b \in Actors \ {a} :
               /\ inst'[b].disk = inst[b].disk /\ inst'[b].stage = inst[b].stage
               /\ inst'[b].image = inst[b].image /\ (inst'[b].alone => inst[b].alone)
         /\ \A e \in Disks \ {d} :
               /\ disk'[e] = disk[e] /\ mounts'[e] = mounts[e] /\ report'[e] = report[e]
               /\ e \in unsynced' => e \in unsynced
         /\ System \in mounts'[d] => System \in mounts[d]
  <1>a. inst \in [Actors -> Installs] /\ disk \in [Disks -> DiskContents]
        /\ mounts \in [Disks -> SUBSET (Actors \cup {System})]
        /\ report \in [Disks -> Images \cup {Blank}] /\ System \notin Actors
        /\ \A b \in Actors : inst[b].stage # "none" => inst[b].disk \in Disks
    BY DEF TypeOK, InstallerTypeOK
  <1>1. CASE StreamBegin(a)
    <2>1. inst[a].disk \in Disks /\ inst[a].stage # "none"
      BY <1>a, <1>1 DEF StreamBegin, At
    <2>2. /\ inst'[a].disk = inst[a].disk /\ inst'[a].image = inst[a].image
          /\ inst'[a].stage = "stream"
          /\ \A b \in Actors \ {a} :
                /\ inst'[b].disk = inst[b].disk /\ inst'[b].stage = inst[b].stage
                /\ inst'[b].image = inst[b].image /\ (inst'[b].alone => inst[b].alone)
      <3>. DEFINE first == [inst[a] EXCEPT !.stage = "stream", !.alone = Others(a) = {}]
                  joined(b) == [inst[b] EXCEPT !.alone = FALSE]
      <3>1. inst' = [b \in Actors |->
                       IF b = a THEN first ELSE IF b \in Others(a) THEN joined(b) ELSE inst[b]]
        BY <1>1 DEF StreamBegin, Begin
      <3>2. /\ first.disk = inst[a].disk /\ first.image = inst[a].image
            /\ first.stage = "stream"
            /\ \A b \in Actors :
                  /\ joined(b).disk = inst[b].disk /\ joined(b).stage = inst[b].stage
                  /\ joined(b).image = inst[b].image /\ joined(b).alone = FALSE
        BY <1>a DEF Installs
      <3>. HIDE DEF first, joined
      <3> QED
        BY <3>1, <3>2
    <2> QED
      <3>1. UNCHANGED mounts
        BY <1>1 DEF StreamBegin, Begin
      <3>2. report' = [report EXCEPT ![inst[a].disk] = Blank]
        BY <1>1 DEF StreamBegin, Begin
      <3>3. \A e \in Disks \ {inst[a].disk} : disk'[e] = disk[e]
        BY <1>a, <1>1 DEF StreamBegin, Begin
      <3>4. unsynced' = unsynced \cup {inst[a].disk}
        BY <1>1 DEF StreamBegin, Begin
      <3>5. \A e \in Disks \ {inst[a].disk} :
               /\ disk'[e] = disk[e] /\ mounts'[e] = mounts[e] /\ report'[e] = report[e]
               /\ e \in unsynced' => e \in unsynced
        BY <1>a, <3>1, <3>2, <3>3, <3>4
      <3> QED
        BY <2>1, <2>2, <3>1, <3>5 DEF Working
  <1>2. ASSUME ~StreamBegin(a)
        PROVE  /\ inst[a].stage \in Working \cup {"ready"}
               /\ \E s \in Working \cup {"done", "failed"} : Goto(a, s)
    BY <1>2 DEF Pipeline, StreamEnd, Append, Reread, Format, MountEsp, WriteYaml, Sync,
                Unmount, Report, InstallFails, Fails, At, Working
  <1>3. CASE ~StreamBegin(a)
    <2>1. inst[a].disk \in Disks /\ inst[a].stage # "none"
      BY <1>a, <1>2, <1>3 DEF Working
    <2>2. PICK s \in Working \cup {"done", "failed"} : Goto(a, s)
      BY <1>2, <1>3
    <2>3. /\ inst'[a].disk = inst[a].disk /\ inst'[a].image = inst[a].image
          /\ inst'[a].stage = s
          /\ \A b \in Actors \ {a} : inst'[b] = inst[b]
      BY <1>a, <2>2 DEF Goto, Installs
    <2>4. \A e \in Disks \ {inst[a].disk} :
               /\ disk'[e] = disk[e] /\ mounts'[e] = mounts[e] /\ report'[e] = report[e]
               /\ e \in unsynced' => e \in unsynced
      BY <1>a, <1>3, <2>1 DEF Pipeline, StreamEnd, Append, Reread, Format, MountEsp, WriteYaml,
                Sync, Unmount, Report, InstallFails, FailedMounts, diskVars
    <2>5. System \in mounts'[inst[a].disk] => System \in mounts[inst[a].disk]
      BY <1>a, <1>3, <2>1 DEF Pipeline, StreamEnd, Append, Reread, Format, MountEsp, WriteYaml,
                Sync, Unmount, Report, InstallFails, FailedMounts, diskVars
    <2> QED
      BY <2>1, <2>2, <2>3, <2>4, <2>5
  <1> QED
    BY <1>1, <1>3

\* The pipeline of an actor that is alone finds what it has written; one that
\* is not alone knows it.
LEMMA PipelineKeeps ==
  ASSUME DiskInv, NEW a \in Actors, Pipeline(a)
  PROVE  Alone' /\ Written' /\ Reported' /\ Booted'
  <1>d. PICK d \in Disks : d = inst[a].disk
    BY PipelineFrame DEF DiskInv
  <1>a. /\ inst \in [Actors -> Installs] /\ disk \in [Disks -> DiskContents]
        /\ report \in [Disks -> Images \cup {Blank}]
        /\ \A b \in Actors : inst[b].stage # "none" => inst[b].disk \in Disks
        /\ TypeOK /\ Alone /\ Written /\ Reported /\ Booted
    BY DEF DiskInv, TypeOK, InstallerTypeOK
  <1>f. /\ d = inst[a].disk /\ inst[a].stage # "none"
        /\ inst'[a].disk = d /\ inst'[a].image = inst[a].image
        /\ inst'[a].stage \in Working \cup {"done", "failed"}
        /\ \A b \in Actors \ {a} :
              /\ inst'[b].disk = inst[b].disk /\ inst'[b].stage = inst[b].stage
              /\ inst'[b].image = inst[b].image /\ (inst'[b].alone => inst[b].alone)
        /\ \A e \in Disks \ {d} :
              /\ disk'[e] = disk[e] /\ mounts'[e] = mounts[e] /\ report'[e] = report[e]
              /\ e \in unsynced' => e \in unsynced
        /\ System \in mounts'[d] => System \in mounts[d]
    BY <1>a, <1>d, PipelineFrame
  \* No answer, or no device: nothing is written, and a was not on the disk.
  <1>0. CASE At(a, "ready") /\ ~StreamBegin(a)
    <2>1. InstallFails(a)
      BY <1>0 DEF Pipeline, StreamEnd, Append, Reread, Format, MountEsp, WriteYaml, Sync, Unmount, At
    <2>2. UNCHANGED <<disk, unsynced, report>> /\ Goto(a, "failed")
      BY <2>1 DEF InstallFails
    <2>3. inst'[a].stage = "failed"
      BY <1>a, <2>2 DEF Goto, Installs
    <2>4. \A b \in Actors : inst'[b].stage \in {"indexed", "ready"} \cup Working => inst'[b] = inst[b]
      BY <1>a, <2>2, <2>3 DEF Goto, Working
    <2>5. \A e \in Disks : System \in mounts'[e] => System \in mounts[e]
      BY <1>f
    <2>6. Alone' /\ Written'
      <3>1. Alone'
        BY <1>a, <2>4 DEF Alone
      <3>2. {"mount", "yaml", "sync", "unmount"} \subseteq Working
        BY DEF Working
      <3>3. ASSUME NEW b \in Actors, inst'[b].stage \in {"indexed", "ready"} \cup Working
            PROVE  inst'[b] = inst[b]
        BY <2>4, <3>3
      <3>4. Written'
        BY <1>a, <2>2, <3>2, <3>3 DEF Written
      <3> QED
        BY <3>1, <3>4
    <2>7. Reported'
      BY <1>a, <2>2, <2>4 DEF Reported, Whole
    <2>8. Booted'
      <3>1. \A b \in Actors : inst'[b].stage # "none" =>
               inst'[b].disk = inst[b].disk /\ inst[b].stage # "none"
        BY <1>f
      <3> QED
        BY <1>a, <2>2, <2>5, <3>1 DEF Booted, Whole
    <2> QED
      BY <2>6, <2>7, <2>8
  <1> SUFFICES ASSUME ~(At(a, "ready") /\ ~StreamBegin(a))
               PROVE  Alone' /\ Written' /\ Reported' /\ Booted'
    BY <1>0
  <1>w. /\ ~StreamBegin(a) => inst[a].stage \in Working
                              /\ inst'[a].alone = inst[a].alone
        /\ StreamBegin(a) => inst[a].stage = "ready"
        /\ "none" \notin Working
    <2>1. ~StreamBegin(a) => \E s \in Stages : Goto(a, s)
      BY DEF Pipeline, StreamEnd, Append, Reread, Format, MountEsp, WriteYaml, Sync,
             Unmount, Report, InstallFails, Fails, Stages, Working
    <2>2. ~StreamBegin(a) => inst'[a].alone = inst[a].alone
      BY <1>a, <2>1 DEF Goto, Installs
    <2> QED
      BY <2>2 DEF Pipeline, StreamBegin, StreamEnd, Append, Reread, Format, MountEsp, WriteYaml,
             Sync, Unmount, InstallFails, Fails, At, Working
  <1>1. Booted'
    BY <1>a, <1>f DEF Booted, Whole
  <1>2. \A b \in Actors \ {a} :
           inst'[b].stage \in Working /\ (inst'[a].alone \/ inst'[b].alone) => inst[b].disk # d
    <2>1. CASE StreamBegin(a)
      <3>1. ASSUME NEW b \in Actors \ {a}, inst[b].stage \in Working, inst[b].disk = d
            PROVE  ~inst'[a].alone /\ ~inst'[b].alone
        <4>1. b \in Others(a)
          BY <1>f, <3>1 DEF Others
        <4>2. inst'[b] = [inst[b] EXCEPT !.alone = FALSE]
          BY <1>a, <2>1, <4>1, <3>1 DEF StreamBegin, Begin
        <4>3. inst'[a] = [inst[a] EXCEPT !.stage = "stream", !.alone = FALSE]
          BY <1>a, <2>1, <4>1 DEF StreamBegin, Begin
        <4> QED
          BY <1>a, <4>2, <4>3 DEF Installs
      <3> QED
        BY <1>f, <3>1
    <2>2. CASE ~StreamBegin(a)
      BY <1>a, <1>f, <1>w, <2>2 DEF Alone
    <2> QED
      BY <2>1, <2>2
  <1>3. Alone'
    BY <1>a, <1>f, <1>2 DEF Alone
  <1>4. ASSUME NEW b \in Actors \ {a}
        PROVE  LET i == inst'[b] IN
               /\ i.stage \in {"indexed", "ready"} \cup Working => i.image \in Images
               /\ i.alone /\ i.stage \in Working \ {"stream"} => disk'[i.disk].image = i.image
               /\ i.alone /\ i.stage \in {"mount", "yaml", "sync", "unmount"}
                     => disk'[i.disk].var = "ext4"
               /\ i.alone /\ i.stage \in {"sync", "unmount"} => disk'[i.disk].config
               /\ i.alone /\ i.stage = "unmount" => i.disk \notin unsynced'
    <2>1. inst[b].stage \in Working => inst[b].disk \in Disks
      BY <1>a, <1>w
    <2>2. {"mount", "yaml", "sync", "unmount"} \subseteq Working
      BY DEF Working
    <2> QED
      BY <1>a, <1>f, <1>2, <2>1, <2>2 DEF Written
  <1>5. LET i == inst'[a] IN
        /\ i.stage \in {"indexed", "ready"} \cup Working => i.image \in Images
        /\ i.alone /\ i.stage \in Working \ {"stream"} => disk'[i.disk].image = i.image
        /\ i.alone /\ i.stage \in {"mount", "yaml", "sync", "unmount"}
              => disk'[i.disk].var = "ext4"
        /\ i.alone /\ i.stage \in {"sync", "unmount"} => disk'[i.disk].config
        /\ i.alone /\ i.stage = "unmount" => i.disk \notin unsynced'
    <2>0. inst'[a].image \in Images
      BY <1>a, <1>f, <1>w DEF Written
    <2>1. CASE StreamBegin(a)
      <3>1. inst'[a].stage = "stream"
        BY <1>a, <2>1 DEF StreamBegin, Begin, Installs
      <3> QED
        BY <2>0, <3>1
    <2>2. CASE StreamEnd(a)
      <3>1. inst'[a].stage = "append"
        BY <1>a, <2>2 DEF StreamEnd, Goto, Installs
      <3>2. inst[a].alone => disk'[d].image = inst[a].image
        BY <1>a, <1>f, <2>2 DEF StreamEnd, DiskContents
      <3>3. inst'[a].alone = inst[a].alone
        BY <1>a, <2>2 DEF StreamEnd, Goto, Installs
      <3> QED
        BY <1>f, <2>0, <3>1, <3>2, <3>3
    <2>3. CASE Append(a)
      BY <1>a, <1>f, <2>0, <2>3 DEF Append, Goto, Installs, DiskContents, Written, Working, At
    <2>4. CASE Reread(a)
      BY <1>a, <1>f, <2>0, <2>4 DEF Reread, Goto, Installs, Written, Working, At, diskVars
    <2>5. CASE Format(a)
      BY <1>a, <1>f, <2>0, <2>5 DEF Format, Goto, Installs, DiskContents, Written, Working, At
    <2>6. CASE MountEsp(a)
      BY <1>a, <1>f, <2>0, <2>6 DEF MountEsp, Goto, Installs, Written, Working, At
    <2>7. CASE WriteYaml(a)
      BY <1>a, <1>f, <2>0, <2>7 DEF WriteYaml, Goto, Installs, DiskContents, Written, Working, At
    <2>8. CASE Sync(a)
      BY <1>a, <1>f, <2>0, <2>8 DEF Sync, Goto, Installs, Written, Working, At
    <2>9. CASE Unmount(a) \/ InstallFails(a)
      <3>1. inst'[a].stage \in {"done", "failed"}
        BY <1>a, <2>9 DEF Unmount, Report, InstallFails, Goto, Installs
      <3> QED
        BY <2>0, <3>1 DEF Working
    <2> QED
      BY <2>1, <2>2, <2>3, <2>4, <2>5, <2>6, <2>7, <2>8, <2>9 DEF Pipeline
  <1>6. Written'
    BY <1>4, <1>5 DEF Written
  <1>7. ASSUME NEW e \in Disks, e # d, report'[e] # Blank
        PROVE  /\ Whole(e)' /\ disk'[e].image = report'[e] /\ e \notin unsynced'
               /\ \A b \in Actors : inst'[b].stage \in Working => inst'[b].disk # e
    BY <1>a, <1>f, <1>7 DEF Reported, Whole
  <1>8. ASSUME report'[d] # Blank
        PROVE  /\ Whole(d)' /\ disk'[d].image = report'[d] /\ d \notin unsynced'
               /\ \A b \in Actors : inst'[b].stage \in Working => inst'[b].disk # d
    <2>1. ~StreamBegin(a)
      <3>1. StreamBegin(a) => report' = [report EXCEPT ![inst[a].disk] = Blank]
        BY Zenon DEF StreamBegin, Begin
      <3> QED
        BY <1>a, <1>f, <1>8, <3>1
    <2>2. report[d] = Blank
      BY <1>a, <1>f, <1>w, <2>1 DEF Reported
    <2>3. Unmount(a)
      BY <1>8, <2>1, <2>2 DEF Pipeline, StreamEnd, Append, Reread, Format, MountEsp, WriteYaml,
             Sync, InstallFails
    <2>4. inst[a].alone /\ report'[d] = inst[a].image /\ UNCHANGED <<disk, unsynced>>
      BY <1>a, <1>f, <1>8, <2>3 DEF Unmount, Report
    <2>5. inst[a].stage = "unmount" /\ "unmount" \in Working /\ inst'[a].stage = "done"
      BY <1>a, <2>3 DEF Unmount, Report, Goto, At, Installs, Working
    <2>6. Whole(d) /\ disk[d].image = inst[a].image /\ d \notin unsynced
      BY <1>a, <1>f, <2>4, <2>5 DEF Written, Whole, Working
    <2>7. \A b \in Actors : inst'[b].stage \in Working => inst'[b].disk # d
      BY <1>a, <1>f, <2>4, <2>5 DEF Alone, Working
    <2> QED
      BY <2>4, <2>6, <2>7 DEF Whole
  <1>9. Reported'
    BY <1>f, <1>7, <1>8 DEF Reported
  <1> QED
    BY <1>1, <1>3, <1>6, <1>9

\* Preparing, killing and restarting neither write to a disk that matters nor
\* put an installer on it.
LEMMA DiskNext == DiskInv /\ [Next]_vars => DiskInv'
  <1> SUFFICES ASSUME DiskInv, [Next]_vars PROVE DiskInv'
    OBVIOUS
  <1>a. /\ inst \in [Actors -> Installs] /\ "none" \notin Working
        /\ TypeOK /\ OneThing /\ Alone /\ Written /\ Reported /\ Booted
        /\ mounts \in [Disks -> SUBSET (Actors \cup {System})]
        /\ unsynced \subseteq Disks
        /\ \A b \in Actors : inst[b].stage # "none" => inst[b].disk \in Disks
    BY DEF DiskInv, TypeOK, InstallerTypeOK, Working
  <1>b. TypeOK' /\ OneThing'
    BY <1>a, TypeNext, OneThingNext
  <1>n. NoInstall.stage = "none"
    BY DEF NoInstall
  <1> SUFFICES Alone' /\ Written' /\ Reported' /\ Booted'
    BY <1>b DEF DiskInv
  <1>1. CASE UNCHANGED installVars
    BY <1>a, <1>1 DEF Alone, Written, Reported, Booted, Whole, installVars, diskVars
  <1>2. ASSUME NEW a \in Actors, Prepares(a)
        PROVE  Alone' /\ Written' /\ Reported' /\ Booted'
    <2>1. PICK i \in Installs :
            /\ inst' = [inst EXCEPT ![a] = i]
            /\ i.stage \notin Working
            /\ i.stage # "none" => mounts[i.disk] = {}
                                  \/ (inst[a].stage # "none" /\ i.disk = inst[a].disk)
            /\ i.stage \in {"indexed", "ready"} => i.image \in Images
      BY <1>2 DEF Prepares
    <2>2. UNCHANGED <<disk, unsynced, mounts, report>>
      BY <1>2 DEF Prepares, diskVars
    <2>3. inst'[a] = i /\ \A b \in Actors \ {a} : inst'[b] = inst[b]
      BY <1>a, <2>1
    <2>4. Alone'
      BY <1>a, <2>1, <2>3 DEF Alone
    <2>5. Written'
      BY <1>a, <2>1, <2>2, <2>3 DEF Written, Working
    <2>6. Reported'
      BY <1>a, <2>1, <2>2, <2>3 DEF Reported, Whole
    <2>7. Booted'
      BY <1>a, <2>1, <2>2, <2>3 DEF Booted, Whole
    <2> QED
      BY <2>4, <2>5, <2>6, <2>7
  <1>3. ASSUME NEW a \in Actors, Pipeline(a)
        PROVE  Alone' /\ Written' /\ Reported' /\ Booted'
    BY <1>3, PipelineKeeps
  <1>4. ASSUME NEW K \in SUBSET Actors, Killed(K)
        PROVE  Alone' /\ Written' /\ Reported' /\ Booted'
    <2>1. /\ UNCHANGED <<disk, unsynced, mounts, report>>
          /\ \A b \in Actors : inst'[b] = inst[b] \/ inst'[b].stage = "none"
      BY <1>n, <1>4 DEF Killed, diskVars
    <2>2. Alone'
      BY <1>a, <2>1 DEF Alone
    <2>3. Written'
      BY <1>a, <2>1 DEF Written, Working
    <2> QED
      BY <1>a, <2>1, <2>2, <2>3 DEF Reported, Booted, Whole
  <1>5. CASE HostRestarts
    <2>1. /\ \A b \in Actors : inst'[b].stage = "none"
          /\ unsynced' = {} /\ report' = report
          /\ \A d \in Disks \ unsynced : disk'[d] = disk[d]
      BY <1>n, <1>5 DEF HostRestarts, Lost
    <2>2. \A d \in Disks : System \in mounts'[d] => System \in mounts[d] \/ Whole(d)'
      BY <1>a, <1>5 DEF HostRestarts
    <2>3. Alone' /\ Written'
      BY <1>a, <2>1 DEF Alone, Written, Working
    <2>4. Reported'
      BY <1>a, <2>1 DEF Reported, Whole
    <2>5. Booted'
      BY <1>a, <2>1, <2>2 DEF Booted, Whole
    <2> QED
      BY <2>3, <2>4, <2>5
  <1> QED
    BY <1>a, <1>1, <1>2, <1>3, <1>4, <1>5, InstallKinds

\* Nothing is installed, mounted or begun at the start.
LEMMA DiskInit == Init => DiskInv
  <1> SUFFICES ASSUME Init PROVE DiskInv
    OBVIOUS
  <1>1. \A a \in Actors : inst[a].stage = "none"
    BY DEF Init, InstallerInit, NoInstall
  <1>2. OneThing
    BY <1>1 DEF Init, OneThing, At, NoTask, Actors
  <1>3. Alone /\ Written
    BY <1>1 DEF Alone, Written, Working
  <1>4. Reported /\ Booted
    BY DEF Init, InstallerInit, Reported, Booted
  <1> QED
    BY <1>2, <1>3, <1>4, TypeInit DEF DiskInv

\* A disk reported installed, by an installer that had it for itself, and the
\* disk the system runs from stay bootable, whatever is started, killed or
\* rebooted.
THEOREM InstalledDiskBoots == Spec => []InstalledBoots
  <1>1. DiskInv => InstalledBoots
    BY DEF DiskInv, Reported, Booted, InstalledBoots
  <1> QED
    BY <1>1, DiskInit, DiskNext, PTL DEF Spec

\* What a step of the pipeline does to the mounts: it mounts its disk before the
\* file is written, and whoever ends unmounts it or is counted as strayed.
LEMMA PipelineMounts ==
  ASSUME TypeOK, NEW a \in Actors, Pipeline(a), NEW d \in Disks, d = inst[a].disk
  PROVE  /\ strayed \subseteq strayed'
         /\ mounts'[d] \subseteq mounts[d] \cup {a}
         /\ a \in mounts'[d] /\ inst[a].stage \in {"mount", "yaml", "sync", "unmount"}
              => \/ inst'[a].stage \in {"yaml", "sync", "unmount"}
                 \/ d \in strayed'
         /\ a \in mounts'[d] /\ inst[a].stage \notin {"mount", "yaml", "sync", "unmount"}
              => a \in mounts[d]
  <1>a. /\ inst \in [Actors -> Installs] /\ mounts \in [Disks -> SUBSET (Actors \cup {System})]
        /\ strayed \subseteq Disks
    BY DEF TypeOK, InstallerTypeOK
  <1>1. CASE StreamBegin(a)
    BY <1>a, <1>1 DEF StreamBegin, Begin, At
  <1>2. CASE StreamEnd(a)
    BY <1>a, <1>2 DEF StreamEnd, At
  <1>3. CASE Append(a) \/ Reread(a) \/ Format(a)
    BY <1>a, <1>3 DEF Append, Reread, Format, At, diskVars
  <1>4. CASE MountEsp(a)
    BY <1>a, <1>4 DEF MountEsp, At, Goto, Installs
  <1>5. CASE WriteYaml(a) \/ Sync(a)
    BY <1>a, <1>5 DEF WriteYaml, Sync, At, Goto, Installs
  <1>6. CASE Unmount(a)
    BY <1>a, <1>6 DEF Unmount, At
  <1>7. CASE InstallFails(a)
    BY <1>a, <1>7 DEF InstallFails, FailedMounts
  <1> QED
    BY <1>1, <1>2, <1>3, <1>4, <1>5, <1>6, <1>7 DEF Pipeline

\* Every step keeps TargetReleased, next to the invariant of the disks.
LEMMA TargetNext == DiskInv /\ TargetReleased /\ [Next]_vars => TargetReleased'
  <1> SUFFICES ASSUME DiskInv, TargetReleased, [Next]_vars PROVE TargetReleased'
    OBVIOUS
  <1>a. /\ inst \in [Actors -> Installs] /\ TypeOK /\ OneThing /\ Written
        /\ mounts \in [Disks -> SUBSET (Actors \cup {System})] /\ System \notin Actors
        /\ {"yaml", "sync", "unmount"} \subseteq Working
    BY DEF DiskInv, TypeOK, InstallerTypeOK, Working
  <1>1. CASE UNCHANGED installVars
    BY <1>1 DEF TargetReleased, installVars, diskVars
  <1>2. ASSUME NEW a \in Actors, Prepares(a) PROVE TargetReleased'
    <2>1. /\ UNCHANGED <<mounts, strayed>> /\ inst[a].stage \notin Working
          /\ \A b \in Actors \ {a} : inst'[b] = inst[b]
      BY <1>a, <1>2 DEF Prepares, diskVars
    <2> QED
      BY <1>a, <2>1 DEF TargetReleased
  <1>3. ASSUME NEW a \in Actors, Pipeline(a) PROVE TargetReleased'
    <2>1. PICK d \in Disks : d = inst[a].disk
      BY <1>a, <1>3, PipelineFrame
    <2>2. /\ strayed \subseteq strayed'
          /\ mounts'[d] \subseteq mounts[d] \cup {a}
          /\ a \in mounts'[d] /\ inst[a].stage \in {"mount", "yaml", "sync", "unmount"}
               => \/ inst'[a].stage \in {"yaml", "sync", "unmount"}
                  \/ d \in strayed'
          /\ a \in mounts'[d] /\ inst[a].stage \notin {"mount", "yaml", "sync", "unmount"}
               => a \in mounts[d]
      BY <1>a, <1>3, <2>1, PipelineMounts
    <2>3. /\ inst'[a].disk = d
          /\ \A b \in Actors \ {a} : inst'[b].disk = inst[b].disk /\ inst'[b].stage = inst[b].stage
          /\ \A e \in Disks \ {d} : mounts'[e] = mounts[e]
      BY <1>a, <1>3, <2>1, PipelineFrame
    <2>4. ASSUME NEW e \in Disks, NEW b \in mounts'[e] \ {System}
          PROVE  \/ e \in strayed'
                 \/ inst'[b].disk = e /\ inst'[b].stage \in {"yaml", "sync", "unmount"}
      <3>1. b \in Actors
        BY <1>a, <2>2, <2>3, <2>4
      <3>2. CASE e # d
        BY <2>1, <2>2, <2>3, <2>4, <3>1, <3>2 DEF TargetReleased
      <3>3. CASE e = d /\ b # a
        BY <2>2, <2>3, <2>4, <3>1, <3>3 DEF TargetReleased
      <3>4. CASE e = d /\ b = a
        BY <2>1, <2>2, <2>3, <2>4, <3>4 DEF TargetReleased
      <3> QED
        BY <3>2, <3>3, <3>4
    <2> QED
      BY <2>4 DEF TargetReleased
  <1>4. ASSUME NEW K \in SUBSET Actors, Killed(K) PROVE TargetReleased'
    <2>1. /\ mounts' = mounts
          /\ \A b \in Actors \ K : inst'[b] = inst[b]
          /\ \A d \in Disks : d \in strayed \/ mounts[d] \cap K # {} => d \in strayed'
      BY <1>4 DEF Killed, diskVars
    <2> QED
      BY <1>a, <2>1 DEF TargetReleased
  <1>5. CASE HostRestarts
    <2>1. \A d \in Disks : mounts'[d] \subseteq {System}
      BY <1>a, <1>5 DEF HostRestarts
    <2> QED
      BY <2>1 DEF TargetReleased
  <1> QED
    BY <1>a, <1>1, <1>2, <1>3, <1>4, <1>5, InstallKinds

\* A disk stays mounted behind an installer only when it was killed or umount
\* failed, so that an installation that failed can be tried again.
THEOREM FailedTargetReleased == Spec => []TargetReleased
  <1>1. Init => TargetReleased
    BY DEF Init, InstallerInit, TargetReleased
  <1> QED
    BY <1>1, DiskInit, DiskNext, TargetNext, PTL DEF Spec

-----------------------------------------------------------------------------
(***************************************************************************)
(* The name of the node.                                                   *)
(***************************************************************************)
\* A job has set the name it goes on with, and its kubeadm has left a mark.
NameSet ==
    \A c \in Clients :
        /\ task[c].step \in {"hosts", "runtimes", "kubeadm", "admin", "joining"} =>
              hostname = task[c].name
        /\ task[c].step \in {"runtimes", "kubeadm", "admin", "joining"} =>
              hosts = task[c].name
        /\ task[c].step \in {"admin", "joining"} => kubeDir

\* Once kubeadm has begun, no request and no job is on the way to another name,
\* unless it was past the gate by then.
NameSettled ==
    kubeDir /\ ~overtaken =>
        \A c \in Clients :
            /\ gate[c] # "kubeadm"
            /\ task[c].step \notin {"hostname", "hosts", "runtimes", "kubeadm"}

\* The inductive invariant of the name.
NameInv == JobInv /\ NameSet /\ NameSettled /\ MemberNamed /\ (member # Blank => kubeDir)

\* Nobody is a member at the start.
LEMMA NameInit == Init => NameInv
  <1> SUFFICES ASSUME Init PROVE NameInv
    OBVIOUS
  <1>1. NameSet
    BY DEF Init, NameSet, NoTask
  <1>2. NameSettled /\ MemberNamed
    BY DEF Init, NameSettled, MemberNamed
  <1> QED
    BY <1>1, <1>2, JobInit DEF Init, NameInv

\* A step that leaves the node and the jobs alone, and lets nobody through the
\* gate of kubeadm, keeps the name.
LEMMA NameFrame ==
  ASSUME NameInv, JobInv', UNCHANGED <<nodeVars, overtaken>>,
         \A c \in Clients :
            /\ task'[c] = task[c] \/ task'[c].step \in {"none", "finished", "wedged"}
            /\ gate'[c] = "kubeadm" => gate[c] = "kubeadm"
  PROVE  NameInv'
  <1>1. NameSet'
    BY DEF NameInv, NameSet, nodeVars
  <1>2. NameSettled'
    BY DEF NameInv, NameSettled, nodeVars
  <1> QED
    BY <1>1, <1>2 DEF NameInv, MemberNamed, nodeVars

\* Jobs rename the host one at a time, and only before kubeadm has begun.
LEMMA NameNext == NameInv /\ [Next]_vars => NameInv'
  <1> SUFFICES ASSUME NameInv, [Next]_vars PROVE NameInv'
    OBVIOUS
  <1>a. /\ task \in [Clients -> Tasks] /\ gate \in [Clients -> {"none", "kubeadm", "reboot"}]
        /\ JobInv /\ TypeOK
    BY DEF NameInv, JobInv, TypeOK
  <1>b. JobInv'
    BY <1>a, JobNext
  <1>n. NoTask.step = "none"
    BY DEF NoTask
  <1>1. ASSUME NEW c \in Clients, Client(c) PROVE NameInv'
    <2>1. CASE Login(c) \/ SessionEnds(c) \/ PostInstall(c) \/ StartInstall(c) \/ PostReboot(c)
      <3>1. /\ UNCHANGED <<nodeVars, overtaken, task>>
            /\ \A b \in Clients : gate'[b] = gate[b] \/ gate'[b] = "none"
        BY <1>a, <2>1 DEF Login, SessionEnds, PostInstall, StartInstall, PostReboot, serverVars
      <3> QED
        BY <1>b, <3>1, NameFrame
    <2>2. CASE Gate(c)
      <3>1. /\ UNCHANGED <<nodeVars, overtaken, task>>
            /\ \A b \in Clients \ {c} : gate'[b] = gate[b]
            /\ gate'[c] = "kubeadm" => Serves("kubeadm")
        BY <1>a, <2>2 DEF Gate, Admitted
      <3>2. CASE gate'[c] = "kubeadm"
        <4>1. ~kubeDir
          BY <3>1, <3>2 DEF Serves, State
        <4> QED
          BY <1>b, <3>1, <4>1 DEF NameInv, NameSet, NameSettled, MemberNamed, nodeVars
      <3>3. CASE gate'[c] # "kubeadm"
        BY <1>b, <3>1, <3>3, NameFrame
      <3> QED
        BY <3>2, <3>3
    <2>3. CASE StartKubeadm(c)
      <3>1. /\ UNCHANGED <<nodeVars, overtaken>> /\ ~(kubeDir /\ ~overtaken)
        BY <2>3 DEF StartKubeadm, NameInv, NameSettled
      <3>2. \A b \in Clients : task'[b] = task[b] \/ task'[b].step = "hostname"
        <4>1. CASE UNCHANGED <<task, busy>>
          BY <2>3, <4>1 DEF StartKubeadm
        <4>2. CASE ~UNCHANGED <<task, busy>>
          <5>1. PICK t \in [step : {"hostname"}, name : Names, controlPlane : BOOLEAN] :
                   task' = [task EXCEPT ![c] = t]
            BY <2>3, <4>2 DEF StartKubeadm
          <5> QED
            BY <1>a, <5>1
        <4> QED
          BY <4>1, <4>2
      <3> QED
        BY <1>b, <3>1, <3>2 DEF NameInv, NameSet, NameSettled, MemberNamed, nodeVars
    <2> QED
      BY <1>1, <2>1, <2>2, <2>3 DEF Client
  <1>2. ASSUME NEW c \in Clients, TaskStep(c) PROVE NameInv'
    <2>1. /\ task[c].step # "none" /\ UNCHANGED <<gate>>
          /\ \A b \in Clients \ {c} : task'[b] = task[b]
      BY <1>a, <1>2 DEF TaskStep, SetHostname, EditHosts, EnsureRuntimes, KubeadmBegins,
             KubeadmAdmin, KubeadmEnds, OnStep, Proceed, TaskOnly
    <2>2. \A b \in Clients \ {c} : task[b].step = "none" /\ task'[b].step = "none"
      BY <1>a, <2>1 DEF JobInv, OneDestructiveJob, HasJob
    <2>3. \A s \in TaskSteps : Proceed(c, s) =>
             task'[c].step = s /\ task'[c].name = task[c].name
      BY <1>a DEF Proceed, Tasks
    <2>4. CASE SetHostname(c)
      <3>1. /\ task[c].step = "hostname" /\ hostname' = task[c].name
            /\ task'[c].step = "hosts" /\ task'[c].name = task[c].name
            /\ UNCHANGED <<kubeDir, member, overtaken>>
        BY <2>3, <2>4 DEF SetHostname, OnStep, TaskSteps
      <3>2. ~(kubeDir /\ ~overtaken)
        BY <3>1 DEF NameInv, NameSettled
      <3> QED
        BY <1>b, <2>2, <3>1, <3>2 DEF NameInv, NameSet, NameSettled, MemberNamed
    <2>5. CASE EditHosts(c)
      <3>1. /\ task[c].step = "hosts" /\ hosts' = task[c].name
            /\ task'[c].step = "runtimes" /\ task'[c].name = task[c].name
            /\ UNCHANGED <<kubeDir, hostname, member, overtaken>>
        BY <2>3, <2>5 DEF EditHosts, OnStep, TaskSteps
      <3>2. ~(kubeDir /\ ~overtaken)
        BY <3>1 DEF NameInv, NameSettled
      <3> QED
        BY <1>b, <2>2, <3>1, <3>2 DEF NameInv, NameSet, NameSettled, MemberNamed
    <2>6. CASE EnsureRuntimes(c)
      <3>1. /\ task[c].step = "runtimes" /\ task'[c].step = "kubeadm"
            /\ task'[c].name = task[c].name
            /\ UNCHANGED <<kubeDir, hostname, hosts, member, overtaken>>
        BY <2>3, <2>6 DEF EnsureRuntimes, OnStep, TaskSteps, nodeVars
      <3>2. ~(kubeDir /\ ~overtaken)
        BY <3>1 DEF NameInv, NameSettled
      <3> QED
        BY <1>b, <2>2, <3>1, <3>2 DEF NameInv, NameSet, NameSettled, MemberNamed
    <2>7. CASE KubeadmBegins(c)
      <3>1. /\ task[c].step = "kubeadm" /\ kubeDir'
            /\ task'[c].step \in {"finished", "admin", "joining"}
            /\ task'[c].name = task[c].name
            /\ UNCHANGED <<hostname, hosts, member>>
        BY <2>3, <2>7 DEF KubeadmBegins, OnStep, TaskSteps
      <3>2. overtaken' \/ \A b \in Clients : gate[b] # "kubeadm"
        BY <2>7, <3>1 DEF KubeadmBegins, NameInv, NameSettled
      <3>3. NameSettled'
        BY <2>1, <2>2, <3>1, <3>2 DEF NameSettled
      <3>4. NameSet'
        BY <2>2, <3>1 DEF NameInv, NameSet
      <3>5. member # Blank => overtaken'
        BY <2>7, <3>1 DEF KubeadmBegins, NameInv, NameSettled
      <3> QED
        BY <1>b, <3>1, <3>3, <3>4, <3>5 DEF NameInv, MemberNamed
    <2>8. CASE KubeadmAdmin(c)
      <3>1. /\ task[c].step = "admin" /\ task'[c].step = "joining"
            /\ task'[c].name = task[c].name
            /\ UNCHANGED <<kubeDir, hostname, hosts, member, overtaken>>
        BY <2>3, <2>8 DEF KubeadmAdmin, OnStep, TaskSteps
      <3> QED
        BY <1>b, <2>1, <2>2, <3>1 DEF NameInv, NameSet, NameSettled, MemberNamed
    <2>9. CASE KubeadmEnds(c)
      <3>1. /\ task[c].step = "joining" /\ task'[c].step = "finished"
            /\ member' = task[c].name
            /\ UNCHANGED <<kubeDir, hostname, hosts, overtaken>>
        BY <2>3, <2>9 DEF KubeadmEnds, OnStep, TaskSteps
      <3> QED
        BY <1>b, <2>1, <2>2, <3>1 DEF NameInv, NameSet, NameSettled, MemberNamed
    <2> QED
      BY <1>2, <2>4, <2>5, <2>6, <2>7, <2>8, <2>9 DEF TaskStep
  <1>3. ASSUME NEW c \in Clients, TaskFails(c) \/ TaskWedged(c) \/ Release(c) PROVE NameInv'
    <2>1. /\ UNCHANGED <<nodeVars, overtaken, gate>>
          /\ \A b \in Clients : \/ task'[b] = task[b]
                               \/ task'[b].step \in {"none", "finished", "wedged"}
      BY <1>a, <1>n, <1>3 DEF TaskFails, TaskWedged, Release, TaskOnly, Proceed, Tasks
    <2> QED
      BY <1>b, <2>1, NameFrame
  <1>4. CASE CliActs \/ WizardStarts \/ UNCHANGED vars \/ \E a \in Actors : InstallStep(a)
    <2>1. UNCHANGED <<nodeVars, overtaken, task, gate>>
      BY <1>4 DEF CliActs, InstallStep, WizardStarts, vars, serverVars
    <2> QED
      BY <1>b, <2>1, NameFrame
  <1>5. CASE WizardStops
    <2>1. /\ UNCHANGED <<nodeVars, overtaken>>
          /\ \A b \in Clients : task'[b].step = "none" /\ gate'[b] = "none"
      BY <1>n, <1>5 DEF WizardStops, Forgotten
    <2> QED
      BY <1>b, <2>1, NameFrame
  <1>6. CASE HostRestarts
    <2>1. /\ UNCHANGED <<kubeDir, hostname, hosts, member, overtaken>>
          /\ \A b \in Clients : task'[b].step = "none" /\ gate'[b] = "none"
      BY <1>n, <1>6 DEF HostRestarts, Forgotten
    <2> QED
      BY <1>b, <2>1 DEF NameInv, NameSet, NameSettled, MemberNamed
  <1> QED
    BY <1>1, <1>2, <1>3, <1>4, <1>5, <1>6 DEF Next

\* A member keeps the name it has joined under, unless a request was past the
\* gate when kubeadm began.
THEOREM MemberKeepsName == Spec => []MemberNamed
  <1>1. NameInv => MemberNamed
    BY DEF NameInv
  <1> QED
    BY <1>1, NameInit, NameNext, PTL DEF Spec
=============================================================================
