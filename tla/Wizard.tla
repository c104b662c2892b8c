------------------------------- MODULE Wizard -------------------------------
(***************************************************************************)
(* A node from the live medium to cluster member, as `nodectl wizard` and  *)
(* `nodectl install` take it there (cmd/nodectl/wizard*.go).  The wizard   *)
(* serves several browsers; a request passes the session and state gate    *)
(* (withSession), is read and validated, and then starts a job, of which   *)
(* one runs at a time (jobManager).  Jobs install a disk (Installer) or    *)
(* run kubeadm.  Browsers, jobs, the command line, the end of the wizard   *)
(* and reboots interleave.                                                 *)
(***************************************************************************)
EXTENDS Installer

CONSTANTS
    Names            \* hostnames that requests ask for

ASSUME NamesAssumption == Blank \notin Names

VARIABLES
    installed,       \* booted from an installed disk: simplek8s.yaml is there
    kubeDir,         \* /etc/kubernetes is there
    adminConf,       \* /etc/kubernetes/admin.conf is there
    hostname,        \* set by hostnamectl
    hosts,           \* the name on the 127.0.1.1 line of /etc/hosts
    member,          \* the --node-name kubeadm has joined under
    server,          \* is the wizard running?
    sessions,        \* clients with a valid session
    gate,            \* the request of each client, past the gate, not started
    busy,            \* jobManager.busy
    task,            \* the kubeadm job of each client
    rebooting,       \* the reboot command has been started
    overtaken        \* history: a request was past the gate when the node left "fresh"

nodeVars   == <<installed, kubeDir, adminConf, hostname, hosts, member>>
serverVars == <<server, sessions, gate, busy, task, rebooting>>
vars == <<installVars, faults, nodeVars, serverVars, overtaken>>

TaskSteps == {"none", "hostname", "hosts", "runtimes", "kubeadm", "admin",
              "joining", "finished", "wedged"}

Tasks == [step : TaskSteps, name : Names \cup {Blank}, controlPlane : BOOLEAN]

NoTask == [step |-> "none", name |-> Blank, controlPlane |-> FALSE]

TypeOK ==
    /\ InstallerTypeOK
    /\ {installed, kubeDir, adminConf, server, busy, rebooting, overtaken}
          \subseteq BOOLEAN
    /\ {hostname, hosts, member} \subseteq Names \cup {Blank}
    /\ sessions \subseteq Clients
    /\ gate \in [Clients -> {"none", "kubeadm", "reboot"}]
    /\ task \in [Clients -> Tasks]

Init ==
    /\ InstallerInit
    /\ installed = FALSE /\ kubeDir = FALSE /\ adminConf = FALSE
    /\ hostname = Blank /\ hosts = Blank /\ member = Blank
    /\ server = FALSE /\ sessions = {} /\ busy = FALSE /\ rebooting = FALSE
    /\ gate = [c \in Clients |-> "none"]
    /\ task = [c \in Clients |-> NoTask]
    /\ overtaken = FALSE

-----------------------------------------------------------------------------
(***************************************************************************)
(* Sessions and the gate.                                                  *)
(***************************************************************************)
\* detectWizardState.
State == CASE ~installed -> "live"
           [] installed /\ ~kubeDir -> "fresh"
           [] installed /\ kubeDir /\ ~adminConf -> "worker"
           [] installed /\ kubeDir /\ adminConf -> "cp"

\* Mutant: a session is all it takes.
ServesAlways(endpoint) == endpoint = "kubeadm" => installed

\* wizardMux: the states that an endpoint serves.
Serves(endpoint) ==
    CASE endpoint \in {"install", "reboot"} -> State = "live"
      [] endpoint = "kubeadm" -> State = "fresh"

\* loginHandler, mint.
Login(c) ==
    /\ server /\ c \notin sessions
    /\ sessions' = sessions \cup {c}
    /\ UNCHANGED <<installVars, faults, nodeVars, server, gate, busy, task, rebooting, overtaken>>

\* logoutHandler, or half an hour without a request.
SessionEnds(c) ==
    /\ c \in sessions
    /\ sessions' = sessions \ {c}
    /\ UNCHANGED <<installVars, faults, nodeVars, server, gate, busy, task, rebooting, overtaken>>

\* The client waits for no answer and has no job.
Free(c) == gate[c] = "none" /\ At(c, "none") /\ task[c] = NoTask

\* withSession: the session and the state, looked at before the body is read.
Admitted(c, endpoint) == server /\ c \in sessions /\ Free(c) /\ Serves(endpoint)

Gate(c) ==
    /\ \E endpoint \in {"kubeadm", "reboot"} :
          /\ Admitted(c, endpoint)
          /\ gate' = [gate EXCEPT ![c] = endpoint]
    /\ UNCHANGED <<installVars, faults, nodeVars, server, sessions, busy, task, rebooting, overtaken>>

\* installHandler up to the index.
PostInstall(c) ==
    /\ \/ Admitted(c, "install") /\ \E d \in Disks : Validate(c, d)
       \/ SelectRelease(c) \/ GiveUp(c)
    /\ UNCHANGED <<nodeVars, serverVars, overtaken>>

-----------------------------------------------------------------------------
(***************************************************************************)
(* The job manager.                                                        *)
(***************************************************************************)
\* The job of a client is between start() and release().
HasJob(c) == \/ inst[c].stage \in {"ready", "done", "failed"} \cup Working
             \/ task[c].step # "none"

\* Mutant: jobs are not serialized.
NeverRefused == FALSE

\* jobManager.start of a destructive job.
Refused == busy

\* installHandler, from the job on.
StartInstall(c) ==
    /\ At(c, "indexed")
    /\ IF Refused THEN inst' = [inst EXCEPT ![c] = NoInstall] /\ UNCHANGED busy
                  ELSE Goto(c, "ready") /\ busy' = TRUE
    /\ UNCHANGED <<diskVars, report, strayed, faults, nodeVars, server, sessions, gate, task,
                   rebooting, overtaken>>

\* kubeInitHandler and kubeJoinHandler, from the body on.
StartKubeadm(c) ==
    /\ gate[c] = "kubeadm"
    /\ gate' = [gate EXCEPT ![c] = "none"]
    /\ \/ UNCHANGED <<task, busy>>                     \* busy, or a bad request
       \/ /\ ~Refused /\ busy' = TRUE
          /\ \E name \in Names, cp \in BOOLEAN :
                 task' = [task EXCEPT ![c] =
                     [step |-> "hostname", name |-> name, controlPlane |-> cp]]
    /\ UNCHANGED <<installVars, faults, nodeVars, server, sessions, rebooting, overtaken>>

\* rebootHandler: does not look at the jobs.  Without a confirmation, or with a
\* command that does not start, nothing happens.
PostReboot(c) ==
    /\ gate[c] = "reboot"
    /\ gate' = [gate EXCEPT ![c] = "none"]
    /\ rebooting' \in {rebooting, TRUE}
    /\ UNCHANGED <<installVars, faults, nodeVars, server, sessions, busy, task, overtaken>>

\* Mutants: released by the handler that started the job, not by the job; not
\* released by a job that failed.
ReleaseByHandler(c) ==
    /\ HasJob(c) /\ busy
    /\ busy' = FALSE
    /\ UNCHANGED <<installVars, faults, nodeVars, server, sessions, gate, task, rebooting,
                   overtaken>>

ReleaseSuccess(c) ==
    /\ At(c, "done") \/ (task[c].step = "finished" /\ member # Blank)
    /\ busy' = FALSE
    /\ inst' = [inst EXCEPT ![c] = NoInstall]
    /\ task' = [task EXCEPT ![c] = NoTask]
    /\ UNCHANGED <<diskVars, report, strayed, faults, nodeVars, server, sessions, gate,
                   rebooting, overtaken>>

\* finish() has published the outcome; the deferred release() comes after it.
Release(c) ==
    /\ inst[c].stage \in {"done", "failed"} \/ task[c].step = "finished"
    /\ busy' = FALSE
    /\ inst' = [inst EXCEPT ![c] = NoInstall]
    /\ task' = [task EXCEPT ![c] = NoTask]
    /\ UNCHANGED <<diskVars, report, strayed, faults, nodeVars, server, sessions, gate,
                   rebooting, overtaken>>

-----------------------------------------------------------------------------
(***************************************************************************)
(* The kubeadm jobs.                                                       *)
(***************************************************************************)
OnStep(c, step) == task[c].step = step
Proceed(c, step) == task' = [task EXCEPT ![c].step = step]
TaskOnly == UNCHANGED <<installVars, server, sessions, gate, busy, rebooting>>

\* applyHostname: hostnamectl, then the 127.0.1.1 line.
SetHostname(c) ==
    /\ OnStep(c, "hostname") /\ Proceed(c, "hosts")
    /\ hostname' = task[c].name
    /\ UNCHANGED <<installed, kubeDir, adminConf, hosts, member, faults, overtaken>> /\ TaskOnly

EditHosts(c) ==
    /\ OnStep(c, "hosts") /\ Proceed(c, "runtimes")
    /\ hosts' = task[c].name
    /\ UNCHANGED <<installed, kubeDir, adminConf, hostname, member, faults, overtaken>> /\ TaskOnly

\* ensureRuntimes.
EnsureRuntimes(c) ==
    /\ OnStep(c, "runtimes") /\ Proceed(c, "kubeadm")
    /\ UNCHANGED <<nodeVars, faults, overtaken>> /\ TaskOnly

\* kubeadm: its preflight refuses a node with an /etc/kubernetes ...
KubeadmBegins(c) ==
    /\ OnStep(c, "kubeadm")
    /\ IF kubeDir THEN Proceed(c, "finished")
       ELSE Proceed(c, IF task[c].controlPlane THEN "admin" ELSE "joining")
    /\ kubeDir' = TRUE
    /\ overtaken' = (overtaken \/ (~kubeDir /\ \E b \in Clients : gate[b] = "kubeadm"))
    /\ UNCHANGED <<installed, adminConf, hostname, hosts, member, faults>> /\ TaskOnly

\* ... a control plane gets its admin.conf long before the end ...
KubeadmAdmin(c) ==
    /\ OnStep(c, "admin") /\ Proceed(c, "joining")
    /\ adminConf' = TRUE
    /\ UNCHANGED <<installed, kubeDir, hostname, hosts, member, faults, overtaken>> /\ TaskOnly

\* ... and the node is a member.
KubeadmEnds(c) ==
    /\ OnStep(c, "joining") /\ Proceed(c, "finished")
    /\ member' = task[c].name
    /\ UNCHANGED <<installed, kubeDir, adminConf, hostname, hosts, faults, overtaken>> /\ TaskOnly

\* A step fails or times out; what it did stays.
TaskFails(c) ==
    /\ task[c].step \notin {"none", "finished", "wedged"}
    /\ Fault /\ Proceed(c, "finished")
    /\ UNCHANGED <<nodeVars, overtaken>> /\ TaskOnly

\* kubeadmRun: the scanner stops at a line of more than 1 MiB and nobody
\* reads the pipe any more; Run never returns, time limit or not.
TaskWedged(c) ==
    /\ task[c].step \in {"kubeadm", "admin", "joining"}
    /\ Fault /\ Proceed(c, "wedged")
    /\ UNCHANGED <<nodeVars, overtaken>> /\ TaskOnly

TaskStep(c) ==
    \/ SetHostname(c) \/ EditHosts(c) \/ EnsureRuntimes(c)
    \/ KubeadmBegins(c) \/ KubeadmAdmin(c) \/ KubeadmEnds(c)

-----------------------------------------------------------------------------
(***************************************************************************)
(* The wizard process and the host.                                        *)
(***************************************************************************)
\* runWizard: idle on a worker.
WizardStarts ==
    /\ ~server /\ State # "worker" /\ ~rebooting
    /\ server' = TRUE
    /\ UNCHANGED <<installVars, faults, nodeVars, sessions, gate, busy, task, rebooting, overtaken>>

Forgotten ==
    /\ server' = FALSE /\ sessions' = {} /\ busy' = FALSE
    /\ gate' = [c \in Clients |-> "none"]
    /\ task' = [c \in Clients |-> NoTask]

\* Shutdown makes Serve return at once: the process ends with its jobs.
WizardStops ==
    /\ server /\ Fault
    /\ Forgotten /\ Killed(Clients)
    /\ UNCHANGED <<nodeVars, rebooting, overtaken>>

\* The host restarts, from the disk it ran from or from one that is whole, or
\* from the live medium again.
HostRestarts ==
    /\ (rebooting /\ UNCHANGED faults) \/ (~rebooting /\ Fault)
    /\ Forgotten
    /\ rebooting' = FALSE
    /\ inst' = [a \in Actors |-> NoInstall]
    /\ strayed' = {} /\ unsynced' = {}
    /\ disk' \in {dk \in [Disks -> DiskContents] : \A d \in Disks : dk[d] \in Lost(d)}
    /\ \/ /\ installed
          /\ mounts' = [d \in Disks |-> mounts[d] \cap {System}]
          /\ UNCHANGED installed
       \/ /\ ~installed
          /\ mounts' = [d \in Disks |-> {}]
          /\ UNCHANGED installed
       \/ /\ ~installed
          /\ \E d \in Disks :
                /\ Whole(d)'
                /\ mounts' = [e \in Disks |-> IF e = d THEN {System} ELSE {}]
          /\ installed' = TRUE
    /\ UNCHANGED <<report, kubeDir, adminConf, hostname, hosts, member, overtaken>>

CliActs == CliStep /\ UNCHANGED <<nodeVars, serverVars, overtaken>>

InstallStep(a) == Pipeline(a) /\ UNCHANGED <<nodeVars, serverVars, overtaken>>

Client(c) ==
    \/ Login(c) \/ SessionEnds(c) \/ Gate(c) \/ PostInstall(c)
    \/ StartInstall(c) \/ StartKubeadm(c) \/ PostReboot(c)

Next ==
    \/ \E c \in Clients : Client(c) \/ TaskStep(c) \/ TaskFails(c) \/ TaskWedged(c) \/ Release(c)
    \/ \E a \in Actors : InstallStep(a)
    \/ CliActs \/ WizardStarts \/ WizardStops \/ HostRestarts

Spec == Init /\ [][Next]_vars

\* Every step of a job returns: downloads and commands end or fail.
FairSpec ==
    /\ Spec
    /\ \A c \in Clients :
          WF_vars(InstallStep(c)) /\ WF_vars(TaskStep(c)) /\ WF_vars(Release(c))

-----------------------------------------------------------------------------
(***************************************************************************)
(* Properties.                                                             *)
(***************************************************************************)
\* wizard_jobs.go:14: exactly one destructive job runs at a time.
OneDestructiveJob == \A b, c \in Clients : HasJob(b) /\ HasJob(c) => b = c

\* The inductive invariant of the job manager: whoever has a job has made the
\* manager busy, and nobody else has.
JobInv == TypeOK /\ OneDestructiveJob /\ \A c \in Clients : HasJob(c) => busy

\* A disk on which an installation was reported done, with nobody else writing
\* to it meanwhile, and the disk the system runs from, stay bootable through
\* whatever else is started, killed or rebooted.
InstalledBoots ==
    \A d \in Disks :
        /\ report[d] # Blank => Whole(d) /\ disk[d].image = report[d]
        /\ System \in mounts[d] => Whole(d)

\* A disk can be installed again after an attempt that failed: nobody leaves it
\* mounted, but for a kill and a umount that failed.
TargetReleased ==
    \A d \in Disks : \A a \in mounts[d] \ {System} :
        \/ d \in strayed
        \/ inst[a].disk = d /\ inst[a].stage \in {"yaml", "sync", "unmount"}

\* A member's host keeps the name it has joined under, although several
\* browsers can ask for a hostname, unless a request was past the gate when
\* kubeadm began and starts only after it.
MemberNamed == member # Blank /\ ~overtaken => hostname = member /\ hosts = member

\* A wizard that is busy gets ready for another job, unless kubeadm wedged it.
JobsEnd == busy ~> (~busy \/ \E c \in Clients : OnStep(c, "wedged"))

\* Statements of the documentation that the code does not keep.

\* PLAN.md 4.8: "every mutating endpoint re-checks (403)".
GateHolds ==
    [][ \A c \in Clients : task[c] = NoTask /\ task'[c] # NoTask => State = "fresh" ]_task

\* wizard.go:172: "reboots the node after a successful install".
RebootAfterInstall == [][rebooting' /\ ~rebooting => ~busy]_rebooting
=============================================================================
