--------------------------- MODULE BootStoreProofs --------------------------
(***************************************************************************)
(* Proofs about BootStore for every set of versions, every capacity, every *)
(* retention and every number of faults: the kernel that runs and the one  *)
(* that boots by default survive every purge, copy and crash, and no copy  *)
(* outgrows the partition.                                                 *)
(*                                                                         *)
(* The invariants come in layers: types and the flock (LockInv), space     *)
(* (SpaceInv), kernels (StoreInv).  The first two hold of a partition that *)
(* an operator also changes by hand, UpdateNode's, and are proved for its  *)
(* steps too (HandNext).                                                   *)
(***************************************************************************)
EXTENDS BootStore, FiniteSetTheorems, TLAPS

-----------------------------------------------------------------------------
(* The steps, by their effect on the partition.                            *)

\* A session that opens: it ends at once, or it holds the flock.
PurgeBegin(a) ==
    /\ ~Locked
    /\ Become(a, [NewSession("retain", Broken, "ok") EXCEPT !.keep = Protected(Broken)])
    /\ UNCHANGED <<file, boot, menu, running, loader, up, cut, faults>>

Opening(a) ==
    /\ Idle(a)
    /\ \/ \E v \in Versions : PointAt(a, v) \/ StageSkip(a, v)
       \/ \E v \in Versions, r \in BOOLEAN :
              (file[v] # "whole" \/ v \in Reissued) /\ StageNew(a, v, r)
       \/ \E v \in Versions \cup {Broken} : Refused(a, v)
       \/ PurgeBegin(a)

Closing(a) == Finish(a) \/ IOError(a) \/ Killed(a)

\* What happens to the partition in UpdateNode and not in StoreNext: a reboot
\* with nothing lost, a fault elsewhere, a file that an operator removes.
OtherFault  == /\ faults < MaxFaults /\ faults' = faults + 1
               /\ UNCHANGED <<file, boot, menu, running, loader, up, sess, cut>>
HandRemoval == /\ up /\ \E v \in Present : file' = Without({v})
               /\ UNCHANGED <<boot, menu, running, loader, up, sess, cut, faults>>

HandNext == \/ StoreNext \/ OtherFault \/ HandRemoval
            \/ HostDown({}) /\ UNCHANGED faults

-----------------------------------------------------------------------------
(* The invariants.                                                         *)

\* The flock: one session at a time holds it, and a host that is down has none.
OneHolder == \A a, b \in Actors : sess[a].at \in Holding /\ sess[b].at \in Holding => a = b
DownIdle  == ~up => \A a \in Actors : sess[a].at = "idle"

\* A session that stages is about a version.
Staging == {"room", "copy", "copying", "point"}
StagesVersion == \A a \in Actors : sess[a].at \in Staging => sess[a].v \in Versions

LockInv == StoreTypeOK /\ StagesVersion /\ OneHolder /\ DownIdle

\* The room found by the pre-check is still there when the copy begins.
RoomFound == \A a \in Actors : sess[a].at = "copy" => Cardinality(Present) < Capacity

SpaceInv == LockInv /\ RoomFound /\ FitsPartition

\* Whoever may still purge spares the running kernel and the default, the one
\* it staged and the one it is about to write into the config included.
SparesKernels(s) ==
    /\ s.at \in Staging \cup {"retain"} => running \in s.keep /\ Default \subseteq s.keep
    /\ s.at \in Staging => s.v \in s.keep
    /\ s.at = "rewriting" /\ s.then = "retain" =>
           running \in s.keep /\ {s.conf.boot} \cap Versions \subseteq s.keep

\* The kernel a session stages, on the way: its copy overwrites nothing whole but
\* a reissued release, and the default is pointed at it only after.
CopiesSafely(s) ==
    /\ s.at \in {"room", "copy"} => file[s.v] # "whole" \/ s.v \in Reissued
    /\ s.at = "copying" => file[s.v] = "torn" /\ (boot = s.v => boot \in cut \cup Reissued)
    /\ s.at = "point" => file[s.v] = "whole"
    /\ s.at \in Staging \cup {"rewriting", "retain"} /\ s.keep # {} /\ s.v = running =>
           running \in Reissued

\* The config being written will satisfy what the config satisfies.
WritesBootable(s) ==
    s.at = "rewriting" =>
        /\ s.conf.boot = Broken => faults > 0
        /\ s.conf.boot # Broken => /\ file[s.conf.boot] # "absent"
                                   /\ loader = "menu" => s.conf.boot \in s.conf.menu

SessionsSafe == \A a \in Actors :
    SparesKernels(sess[a]) /\ CopiesSafely(sess[a]) /\ WritesBootable(sess[a])

\* A partial kernel is being copied, or a fault cut it short.
TornExplained == \A v \in Versions :
    file[v] = "torn" => v \in cut \/ \E a \in Actors : sess[a].at = "copying" /\ sess[a].v = v

StoreInv ==
    /\ SpaceInv
    /\ SessionsSafe /\ TornExplained
    /\ RunningKernelKept /\ DefaultHasKernel /\ ConfigBrokenOnlyByFault
-----------------------------------------------------------------------------
USE BootStoreAssumption

(* Lemmas about sessions.                                                  *)

SessionSteps == {"idle", "done"} \cup Holding

\* A new session is a session.
LEMMA NewSessionType ==
    ASSUME NEW at \in SessionSteps, NEW v \in Versions \cup {Broken},
           NEW outcome \in {"ok", "repointed", "absent", "failed"}
    PROVE  NewSession(at, v, outcome) \in Session
  BY DEF NewSession, Session, NoConf, SessionSteps

\* A step of one session leaves the others alone.
LEMMA OthersKept ==
    ASSUME StoreTypeOK, NEW a \in Actors, NEW s, Become(a, s)
    PROVE  sess'[a] = s /\ \A b \in Actors \ {a} : sess'[b] = sess[b]
  BY DEF StoreTypeOK, Become

LEMMA BecomeType ==
    ASSUME StoreTypeOK, NEW a \in Actors, NEW s \in Session, Become(a, s)
    PROVE  sess' \in [Actors -> Session]
  BY DEF StoreTypeOK, Become

LEMMA StepType ==
    ASSUME StoreTypeOK, NEW a \in Actors, NEW at \in SessionSteps
    PROVE  [sess[a] EXCEPT !.at = at] \in Session
  <1>1. sess[a] \in Session
    BY DEF StoreTypeOK
  <1> QED
    BY <1>1 DEF Session, SessionSteps

LEMMA EndType ==
    ASSUME StoreTypeOK, NEW a \in Actors, NEW outcome \in {"ok", "repointed", "absent", "failed"}
    PROVE  [sess[a] EXCEPT !.at = "done", !.outcome = outcome] \in Session
  <1>1. sess[a] \in Session
    BY DEF StoreTypeOK
  <1> QED
    BY <1>1 DEF Session, SessionSteps

\* The protected versions are versions.
LEMMA ProtectedType == \A v : Protected(v) \subseteq Versions
  BY DEF Protected, Default

\* A session about v re-points the default.
LEMMA SetDefaultEffect ==
    ASSUME StoreTypeOK, NEW a \in Actors, NEW s \in Session, s.v \in Versions,
           NEW then \in {"retain", "done"}, SetDefault(a, s, then)
    PROVE  \E conf \in [boot : Versions \cup {Broken}, menu : SUBSET Versions] :
               /\ Rewrite(a, s, conf, then)
               /\ [s EXCEPT !.at = "rewriting", !.then = then, !.conf = conf] \in Session
               /\ \/ conf.boot = s.v /\ (loader = "menu" => s.v \in conf.menu)
                  \/ loader = "rpi" /\ boot = Broken /\ conf.boot = Broken
  <1>1. CASE loader = "rpi"
    <2>1. PICK conf \in RpiConfs(s.v) : Rewrite(a, s, conf, then)
      BY <1>1 DEF SetDefault
    <2>2. PICK b \in {s.v} \cup ({boot} \ Versions) : conf = [boot |-> b, menu |-> {}]
      BY <2>1 DEF RpiConfs
    <2>3. b \in Versions \cup {Broken} /\ (b = s.v \/ (boot = Broken /\ b = Broken))
      BY <2>2 DEF StoreTypeOK
    <2>4. conf \in [boot : Versions \cup {Broken}, menu : SUBSET Versions]
      BY <2>2, <2>3
    <2>5. [s EXCEPT !.at = "rewriting", !.then = then, !.conf = conf] \in Session
      BY <2>4 DEF Session, Holding
    <2> QED
      BY <1>1, <2>1, <2>2, <2>3, <2>4, <2>5
  <1>2. CASE loader # "rpi"
    <2> DEFINE conf == MenuConf(s.v)
    <2>1. Rewrite(a, s, conf, then)
      BY <1>2 DEF SetDefault
    <2>2. conf \in [boot : Versions \cup {Broken}, menu : SUBSET Versions]
      BY DEF MenuConf, StoreTypeOK
    <2>3. [s EXCEPT !.at = "rewriting", !.then = then, !.conf = conf] \in Session
      BY <2>2 DEF Session, Holding
    <2>4. conf.boot = s.v /\ s.v \in conf.menu
      BY DEF MenuConf
    <2> QED
      BY <2>1, <2>2, <2>3, <2>4
  <1> QED
    BY <1>1, <1>2
-----------------------------------------------------------------------------
(* What a step may be, and what an opened session starts as.               *)

\* Every step is one of a session's, the host's, or somebody's by hand.
LEMMA StoreSteps ==
    ASSUME StoreTypeOK, StoreNext
    PROVE  \/ \E a \in Actors : Opening(a) \/ SessionStep(a) \/ Closing(a)
           \/ /\ \E lost \in SUBSET Unsynced : HostDown(lost)
              /\ faults < MaxFaults /\ faults' = faults + 1
           \/ \E v \in Versions : BootInto(v)
  <1> USE DEF Actors
  <1>1. ASSUME NEW v \in Versions, Stage("pod", v) PROVE Opening("pod")
    <2>1. ~AlreadyStaged(v, "none") => file[v] # "whole"
      BY DEF AlreadyStaged
    <2> QED
      BY <1>1, <2>1 DEF Stage, Opening
  <1>2. ASSUME NEW a \in Actors, NEW v \in Versions, EnsureBootGoal(a, v) PROVE Opening(a)
    BY <1>2 DEF EnsureBootGoal, Opening
  <1>3. ASSUME Cli PROVE Opening("cli")
    <2>1. ASSUME NEW v \in Versions, NEW repoint \in BOOLEAN, NEW hash \in Hashes(v),
                 CliUpdate(v, repoint, hash)
          PROVE  Opening("cli")
      <3>1. ~AlreadyStaged(v, hash) => file[v] # "whole" \/ v \in Reissued
        BY DEF AlreadyStaged, Hashes
      <3> QED
        BY <2>1, <3>1 DEF CliUpdate, Opening
    <2>2. ASSUME CliPurge PROVE Opening("cli")
      BY <2>2 DEF CliPurge, Opening, PurgeBegin
    <2> QED
      BY <1>2, <1>3, <2>1, <2>2 DEF Cli
  <1>4. ASSUME BootDefault \/ ConsoleBoot PROVE \E v \in Versions : BootInto(v)
    BY <1>4 DEF BootDefault, ConsoleBoot, StoreTypeOK
  <1> QED
    BY <1>1, <1>2, <1>3, <1>4 DEF StoreNext, PowerLoss, Closing

\* A session that opens is over at once, or finds the flock free and starts by
\* writing the config, by looking for room, or by a purge.
OpensAs(a, s) ==
    /\ Become(a, s)
    /\ UNCHANGED <<file, running, loader, up, cut>>
    /\ \/ /\ s.at = "done" /\ UNCHANGED <<boot, menu>>
          /\ faults' \in {faults, faults + 1} /\ faults' \in 0..MaxFaults
       \/ /\ ~Locked /\ s.at = "rewriting" /\ s.then = "done" /\ s.keep = {}
          /\ s.conf.boot = Broken => boot = Broken
          /\ s.conf.boot # Broken => /\ file[s.conf.boot] # "absent"
                                     /\ loader = "menu" => s.conf.boot \in s.conf.menu
          /\ boot' = Broken /\ menu' = {} /\ UNCHANGED faults
       \/ /\ ~Locked /\ s.at = "room" /\ s.v \in Versions
          /\ file[s.v] # "whole" \/ s.v \in Reissued
          /\ s.keep = Protected(s.v) /\ UNCHANGED <<boot, menu, faults>>
       \/ /\ ~Locked /\ s.at = "retain" /\ s.v = Broken /\ s.keep = Protected(Broken)
          /\ UNCHANGED <<boot, menu, faults>>

LEMMA OpeningOpens ==
    ASSUME StoreTypeOK, NEW a \in Actors, Opening(a)
    PROVE  Idle(a) /\ \E s \in Session : OpensAs(a, s)
  <1> USE DEF StoreTypeOK
  <1>0. Idle(a)
    BY DEF Opening
  <1>1. ASSUME NEW v \in Versions, PointAt(a, v) PROVE \E s \in Session : OpensAs(a, s)
    <2> DEFINE s0 == NewSession("done", v, "ok")
    <2>0. s0 \in Session /\ s0.v = v /\ s0.at = "done" /\ s0.keep = {}
      <3>1. s0 \in Session
        BY NewSessionType DEF SessionSteps
      <3> QED
        BY <3>1 DEF NewSession
    <2>1. CASE file[v] = "absent"
      <3>1. [s0 EXCEPT !.outcome = "absent"] \in Session
        BY <2>0 DEF Session
      <3>2. [s0 EXCEPT !.outcome = "absent"].at = "done"
        BY <2>0 DEF Session
      <3>3. Become(a, [s0 EXCEPT !.outcome = "absent"]) /\ UNCHANGED <<boot, menu>>
        BY <1>1, <2>1 DEF PointAt
      <3> QED
        BY <1>1, <3>1, <3>2, <3>3 DEF PointAt, OpensAs
    <2>2. CASE file[v] # "absent" /\ boot = v
      <3>1. Become(a, s0) /\ UNCHANGED <<boot, menu>>
        BY <1>1, <2>2 DEF PointAt
      <3> QED
        BY <1>1, <2>0, <3>1 DEF PointAt, OpensAs
    <2>3. CASE file[v] # "absent" /\ boot # v
      <3> DEFINE s1 == [s0 EXCEPT !.outcome = "repointed"]
      <3>1. s1 \in Session /\ s1.v = v /\ s1.keep = {}
        BY <2>0 DEF Session
      <3>2. SetDefault(a, s1, "done")
        BY <1>1, <2>3 DEF PointAt
      <3> HIDE DEF s1
      <3>3. PICK conf \in [boot : Versions \cup {Broken}, menu : SUBSET Versions] :
                /\ Rewrite(a, s1, conf, "done")
                /\ [s1 EXCEPT !.at = "rewriting", !.then = "done", !.conf = conf] \in Session
                /\ \/ conf.boot = s1.v /\ (loader = "menu" => s1.v \in conf.menu)
                   \/ loader = "rpi" /\ boot = Broken /\ conf.boot = Broken
        BY <3>1, <3>2, SetDefaultEffect
      <3> DEFINE s2 == [s1 EXCEPT !.at = "rewriting", !.then = "done", !.conf = conf]
      <3>4. s2.at = "rewriting" /\ s2.then = "done" /\ s2.conf = conf /\ s2.keep = {}
        BY <3>1 DEF Session
      <3>5. conf.boot = Broken => boot = Broken
        BY <3>1, <3>3
      <3>6. conf.boot # Broken => file[conf.boot] # "absent" /\ (loader = "menu" => conf.boot \in conf.menu)
        BY <2>3, <3>1, <3>3
      <3>7. Become(a, s2) /\ boot' = Broken /\ menu' = {}
        BY <3>3 DEF Rewrite
      <3>8. ~Locked /\ UNCHANGED <<file, running, loader, up, cut, faults>>
        BY <1>1 DEF PointAt
      <3> HIDE DEF s2
      <3>9. OpensAs(a, s2)
        BY <3>4, <3>5, <3>6, <3>7, <3>8 DEF OpensAs
      <3> QED
        BY <3>3, <3>9 DEF s2
    <2> QED
      BY <2>1, <2>2, <2>3
  <1>2. ASSUME NEW v \in Versions, StageSkip(a, v) PROVE \E s \in Session : OpensAs(a, s)
    <2> DEFINE s0 == NewSession("done", v, "ok")
    <2>1. s0 \in Session /\ s0.at = "done"
      <3>1. s0 \in Session
        BY NewSessionType DEF SessionSteps
      <3> QED
        BY <3>1 DEF NewSession
    <2> QED
      BY <1>2, <2>1 DEF StageSkip, OpensAs
  <1>3. ASSUME NEW v \in Versions, NEW r \in BOOLEAN, file[v] # "whole" \/ v \in Reissued,
               StageNew(a, v, r)
        PROVE  \E s \in Session : OpensAs(a, s)
    <2> DEFINE s0 == NewSession("room", v, "ok")
               s1 == [s0 EXCEPT !.repoint = r, !.keep = Protected(v)]
    <2>1. s0 \in Session /\ s0.at = "room" /\ s0.v = v
      <3>1. s0 \in Session
        BY NewSessionType DEF SessionSteps, Holding
      <3> QED
        BY <3>1 DEF NewSession
    <2>2. s1 \in Session /\ s1.at = "room" /\ s1.v = v /\ s1.keep = Protected(v)
      BY <2>1, ProtectedType DEF Session
    <2>3. Become(a, s1)
      BY <1>3 DEF StageNew
    <2> HIDE DEF s1
    <2> QED
      BY <1>3, <2>2, <2>3 DEF StageNew, OpensAs
  <1>4. ASSUME NEW v \in Versions \cup {Broken}, Refused(a, v) PROVE \E s \in Session : OpensAs(a, s)
    <2> DEFINE s0 == NewSession("done", v, "failed")
    <2>1. s0 \in Session /\ s0.at = "done"
      <3>1. s0 \in Session
        BY NewSessionType DEF SessionSteps
      <3> QED
        BY <3>1 DEF NewSession
    <2>2. faults' \in {faults, faults + 1} /\ faults' \in 0..MaxFaults
      BY <1>4 DEF Refused
    <2> QED
      BY <1>4, <2>1, <2>2 DEF Refused, OpensAs
  <1>5. ASSUME PurgeBegin(a) PROVE \E s \in Session : OpensAs(a, s)
    <2> DEFINE s0 == NewSession("retain", Broken, "ok")
               s1 == [s0 EXCEPT !.keep = Protected(Broken)]
    <2>1. s0 \in Session /\ s0.at = "retain" /\ s0.v = Broken
      <3>1. s0 \in Session
        BY NewSessionType DEF SessionSteps, Holding
      <3> QED
        BY <3>1 DEF NewSession
    <2>2. s1 \in Session /\ s1.at = "retain" /\ s1.v = Broken /\ s1.keep = Protected(Broken)
      BY <2>1, ProtectedType DEF Session
    <2>3. Become(a, s1)
      BY <1>5 DEF PurgeBegin
    <2> HIDE DEF s1
    <2> QED
      BY <1>5, <2>2, <2>3 DEF PurgeBegin, OpensAs
  <1> QED
    BY <1>0, <1>1, <1>2, <1>3, <1>4, <1>5 DEF Opening
-----------------------------------------------------------------------------
(* Types and the flock.                                                    *)

\* A session keeps the flock, gives it back, or takes it when it is free.
LEMMA SessionMoves ==
    ASSUME LockInv, NEW a \in Actors, NEW s \in Session, Become(a, s), up' = up,
           up \/ s.at = "idle",
           s.at \in Holding => sess[a].at \in Holding \/ ~Locked,
           s.at \in Staging => s.v \in Versions
    PROVE  sess' \in [Actors -> Session] /\ StagesVersion' /\ OneHolder' /\ DownIdle'
  <1>0. StoreTypeOK
    BY DEF LockInv
  <1>1. sess'[a] = s /\ \A b \in Actors \ {a} : sess'[b] = sess[b]
    BY <1>0, OthersKept
  <1>2. sess' \in [Actors -> Session]
    BY <1>0, BecomeType
  <1>3. StagesVersion'
    BY <1>1 DEF LockInv, StagesVersion
  <1>4. DownIdle'
    BY <1>1 DEF LockInv, DownIdle
  <1>5. OneHolder'
    BY <1>1 DEF LockInv, OneHolder, Locked
  <1> QED
    BY <1>2, <1>3, <1>4, <1>5

\* While a session is at a step, the host is up.
LEMMA SessionUp ==
    ASSUME LockInv, NEW a \in Actors, sess[a].at # "idle"
    PROVE  up
  BY DEF LockInv, DownIdle

LEMMA LockInvInit == StoreInit => LockInv
  <1> SUFFICES ASSUME StoreInit PROVE LockInv
    OBVIOUS
  <1> USE DEF StoreInit
  <1>1. IdleSession \in Session /\ IdleSession.at = "idle"
    <2>1. IdleSession \in Session
      BY NewSessionType DEF IdleSession, SessionSteps
    <2> QED
      BY <2>1 DEF IdleSession, NewSession
  <1>2. StoreTypeOK
    BY <1>1 DEF StoreTypeOK
  <1>3. \A a \in Actors : sess[a].at = "idle"
    BY <1>1
  <1> QED
    BY <1>2, <1>3 DEF LockInv, StagesVersion, OneHolder, DownIdle, Staging, Holding

LEMMA WithoutType == ASSUME StoreTypeOK, NEW S
                     PROVE  Without(S) \in [Versions -> {"absent", "torn", "whole"}]
  BY DEF StoreTypeOK, Without

LEMMA LockInvOpening ==
    ASSUME LockInv, NEW a \in Actors, Opening(a)
    PROVE  LockInv'
  <1>0. StoreTypeOK
    BY DEF LockInv
  <1>1. PICK s \in Session : OpensAs(a, s)
    BY <1>0, OpeningOpens
  <1>2. Idle(a)
    BY <1>0, OpeningOpens
  <1>3. StoreTypeOK'
    <2>1. sess' \in [Actors -> Session]
      BY <1>0, <1>1, BecomeType DEF OpensAs
    <2>2. boot' \in Versions \cup {Broken} /\ menu' \subseteq Versions /\ faults' \in 0..MaxFaults
      BY <1>0, <1>1 DEF OpensAs, StoreTypeOK
    <2> QED
      BY <1>0, <1>1, <2>1, <2>2 DEF OpensAs, StoreTypeOK
  <1>4. s.at \in Staging => s.v \in Versions
    BY <1>1 DEF OpensAs, Staging
  <1>5. s.at \in Holding => ~Locked
    BY <1>1 DEF OpensAs, Holding
  <1>6. StagesVersion' /\ OneHolder' /\ DownIdle'
    BY <1>1, <1>2, <1>4, <1>5, SessionMoves DEF OpensAs, Idle
  <1> QED
    BY <1>3, <1>6 DEF LockInv

LEMMA LockInvSession ==
    ASSUME LockInv, NEW a \in Actors, SessionStep(a)
    PROVE  LockInv'
  <1>0. StoreTypeOK /\ sess[a] \in Session
    BY DEF LockInv, StoreTypeOK
  <1> DEFINE Moves(s) == /\ s \in Session /\ Become(a, s) /\ s.at \notin {"room", "idle"}
                         /\ s.at \in Staging => s.v = sess[a].v /\ sess[a].at \in Staging
  <1>1. ASSUME sess[a].at \in Holding, up' = up, NEW s, Moves(s)
        PROVE  sess' \in [Actors -> Session] /\ StagesVersion' /\ OneHolder' /\ DownIdle'
    <2>1. up
      BY <1>1, SessionUp DEF Holding
    <2>2. s.at \in Staging => s.v \in Versions
      BY <1>1 DEF LockInv, StagesVersion
    <2> QED
      BY <1>1, <2>1, <2>2, SessionMoves
  <1>2. ASSUME NEW at \in {"copy", "copying", "point", "retain", "done"}, Step(a, at),
               at \in Staging => sess[a].at \in Staging
        PROVE  Moves([sess[a] EXCEPT !.at = at])
    <2>1. [sess[a] EXCEPT !.at = at] \in Session
      BY <1>0, StepType DEF SessionSteps, Holding
    <2> QED
      BY <1>0, <1>2, <2>1 DEF Step, Session
  <1>3. ASSUME NEW o \in {"ok", "repointed", "absent", "failed"}, End(a, o)
        PROVE  Moves([sess[a] EXCEPT !.at = "done", !.outcome = o])
    <2>1. [sess[a] EXCEPT !.at = "done", !.outcome = o] \in Session
      BY <1>0, EndType
    <2> QED
      BY <1>0, <1>3, <2>1 DEF End, Session, Staging
  <1>4. ASSUME NEW conf \in [boot : Versions \cup {Broken}, menu : SUBSET Versions],
               NEW then \in {"retain", "done"}, Rewrite(a, sess[a], conf, then)
        PROVE  Moves([sess[a] EXCEPT !.at = "rewriting", !.then = then, !.conf = conf])
    <2>1. [sess[a] EXCEPT !.at = "rewriting", !.then = then, !.conf = conf] \in Session
      BY <1>0 DEF Session, Holding
    <2> QED
      BY <1>0, <1>4, <2>1 DEF Rewrite, Session, Staging
  <1> USE DEF Holding, Staging
  <1> HIDE DEF Moves
  <1>5. CASE MakeRoom(a)
    <2>1. PICK s : Moves(s)
      BY <1>2, <1>3, <1>5 DEF MakeRoom
    <2>2. StoreTypeOK'
      BY <1>0, <1>1, <1>5, <2>1, WithoutType DEF MakeRoom, StoreTypeOK
    <2> QED
      BY <1>1, <1>5, <2>1, <2>2 DEF MakeRoom, LockInv
  <1>6. CASE CopyBegin(a)
    <2>1. PICK s : Moves(s)
      BY <1>2, <1>6 DEF CopyBegin
    <2>2. StoreTypeOK'
      BY <1>0, <1>1, <1>6, <2>1 DEF CopyBegin, StoreTypeOK
    <2> QED
      BY <1>1, <1>6, <2>1, <2>2 DEF CopyBegin, LockInv
  <1>7. CASE CopyEnd(a)
    <2>1. PICK s : Moves(s)
      BY <1>2, <1>7 DEF CopyEnd
    <2>2. StoreTypeOK'
      BY <1>0, <1>1, <1>7, <2>1 DEF CopyEnd, StoreTypeOK
    <2> QED
      BY <1>1, <1>7, <2>1, <2>2 DEF CopyEnd, LockInv
  <1>8. CASE Point(a)
    <2>1. PICK conf \in [boot : Versions \cup {Broken}, menu : SUBSET Versions] :
             Rewrite(a, sess[a], conf, "retain")
      BY <1>0, <1>8, SetDefaultEffect DEF Point, LockInv, StagesVersion
    <2>2. PICK s : Moves(s)
      BY <1>4, <2>1
    <2>3. StoreTypeOK'
      BY <1>0, <1>1, <1>8, <2>1, <2>2 DEF Point, Rewrite, StoreTypeOK
    <2> QED
      BY <1>1, <1>8, <2>2, <2>3 DEF Point, LockInv
  <1>9. CASE RewriteEnd(a)
    <2>1. sess[a].then \in {"retain", "done"} /\ sess[a].conf.boot \in Versions \cup {Broken}
          /\ sess[a].conf.menu \subseteq Versions
      BY <1>0 DEF Session
    <2>2. PICK s : Moves(s)
      BY <1>2, <1>9, <2>1 DEF RewriteEnd
    <2>3. StoreTypeOK'
      BY <1>0, <1>1, <1>9, <2>1, <2>2 DEF RewriteEnd, StoreTypeOK
    <2> QED
      BY <1>1, <1>9, <2>2, <2>3 DEF RewriteEnd, LockInv
  <1>10. CASE Retain(a)
    <2> DEFINE conf == [boot |-> boot, menu |-> menu \ Gone(Purge(a))]
    <2>1. conf \in [boot : Versions \cup {Broken}, menu : SUBSET Versions]
      BY <1>0 DEF StoreTypeOK
    <2>2. \/ Rewrite(a, sess[a], conf, "done")
          \/ End(a, "ok") /\ UNCHANGED <<boot, menu>>
      BY <1>10 DEF Retain
    <2>3. PICK s : Moves(s)
      BY <1>3, <1>4, <2>1, <2>2
    <2>4. boot' \in Versions \cup {Broken} /\ menu' \subseteq Versions
      BY <1>0, <2>2 DEF Rewrite, StoreTypeOK
    <2>5. StoreTypeOK'
      BY <1>0, <1>1, <1>10, <2>3, <2>4, WithoutType DEF Retain, StoreTypeOK
    <2> QED
      BY <1>1, <1>10, <2>3, <2>5 DEF Retain, LockInv
  <1> QED
    BY <1>5, <1>6, <1>7, <1>8, <1>9, <1>10 DEF SessionStep
LEMMA LockInvClosing ==
    ASSUME LockInv, NEW a \in Actors, Closing(a)
    PROVE  LockInv'
  <1>0. StoreTypeOK /\ sess[a] \in Session
    BY DEF LockInv, StoreTypeOK
  <1>1. IdleSession \in Session /\ IdleSession.at = "idle"
    <2>1. IdleSession \in Session
      BY NewSessionType DEF IdleSession, SessionSteps
    <2> QED
      BY <2>1 DEF IdleSession, NewSession
  <1>2. PICK s \in Session : Become(a, s) /\ s.at \in {"idle", "done"}
    <2>1. ASSUME NEW o \in {"ok", "failed"}, End(a, o)
          PROVE  \E s \in Session : Become(a, s) /\ s.at \in {"idle", "done"}
      <3>1. [sess[a] EXCEPT !.at = "done", !.outcome = o] \in Session
        BY <1>0, EndType
      <3> QED
        BY <1>0, <2>1, <3>1 DEF End, Session
    <2>2. IOError(a) => End(a, "ok") \/ End(a, "failed")
      BY DEF IOError
    <2>3. Finish(a) \/ Killed(a) => Become(a, IdleSession)
      BY DEF Finish, Killed
    <2>4. CASE IOError(a)
      <3>1. PICK o \in {"ok", "failed"} : End(a, o)
        BY <2>2, <2>4
      <3> QED
        BY <2>1, <3>1
    <2>5. CASE Finish(a) \/ Killed(a)
      BY <1>1, <2>3, <2>5
    <2> QED
      BY <2>4, <2>5 DEF Closing
  <1>3. up /\ up' = up
    BY SessionUp DEF Closing, Finish, IOError, Killed, Holding
  <1>4. sess' \in [Actors -> Session] /\ StagesVersion' /\ OneHolder' /\ DownIdle'
    BY <1>2, <1>3, SessionMoves DEF Holding, Staging
  <1>5. cut' \subseteq Versions
    <2>1. Copying(a) \subseteq Versions \cup {Broken}
      BY <1>0 DEF Copying, Session
    <2>2. sess[a].at = "copying" => sess[a].v \in Versions
      BY DEF LockInv, StagesVersion, Staging
    <2> QED
      BY <1>0, <2>2 DEF Closing, Finish, IOError, Killed, Copying, StoreTypeOK
  <1>6. faults' \in 0..MaxFaults
    BY <1>0 DEF Closing, Finish, IOError, Killed, StoreTypeOK
  <1>7. file' \in [Versions -> {"absent", "torn", "whole"}]
    BY <1>0, WithoutType DEF Closing, Finish, IOError, Killed, StoreTypeOK
  <1>8. StoreTypeOK'
    BY <1>0, <1>3, <1>4, <1>5, <1>6, <1>7 DEF Closing, Finish, IOError, Killed, StoreTypeOK
  <1> QED
    BY <1>4, <1>8 DEF LockInv

\* A host that goes down takes every session with it.
LEMMA LockInvDown ==
    ASSUME LockInv, NEW lost \in SUBSET Unsynced, HostDown(lost), faults' \in 0..MaxFaults
    PROVE  LockInv'
  <1>0. StoreTypeOK
    BY DEF LockInv
  <1>1. IdleSession \in Session /\ IdleSession.at = "idle"
    <2>1. IdleSession \in Session
      BY NewSessionType DEF IdleSession, SessionSteps
    <2> QED
      BY <2>1 DEF IdleSession, NewSession
  <1>2. sess' \in [Actors -> Session] /\ \A a \in Actors : sess'[a].at = "idle"
    BY <1>1 DEF HostDown
  <1>3. lost \subseteq Versions
    BY DEF Unsynced
  <1>4. \A a \in Actors : Copying(a) \subseteq Versions
    BY DEF Copying, LockInv, StagesVersion, Staging
  <1>5. cut' \subseteq Versions
    <2>1. cut \subseteq Versions
      BY <1>0 DEF StoreTypeOK
    <2>2. cut' = cut \cup lost \cup UNION {Copying(a) : a \in Actors}
      BY DEF HostDown
    <2> QED
      BY <1>3, <1>4, <2>1, <2>2
  <1>6. file' \in [Versions -> {"absent", "torn", "whole"}]
    <2>1. PICK a \in Actors : \E S \in HalfPurges(a) :
             file' = [v \in Versions |-> IF v \in lost THEN "torn" ELSE Without(S)[v]]
      BY DEF HostDown
    <2>2. PICK S \in HalfPurges(a) :
             file' = [v \in Versions |-> IF v \in lost THEN "torn" ELSE Without(S)[v]]
      BY <2>1
    <2>3. Without(S) \in [Versions -> {"absent", "torn", "whole"}]
      BY <1>0, WithoutType
    <2> QED
      BY <2>2, <2>3
  <1>7. StoreTypeOK'
    BY <1>0, <1>2, <1>5, <1>6 DEF HostDown, StoreTypeOK
  <1> QED
    BY <1>2, <1>7 DEF LockInv, StagesVersion, OneHolder, DownIdle, Staging, Holding

LEMMA LockInvRest ==
    ASSUME LockInv,
           \/ \E v \in Versions : BootInto(v)
           \/ OtherFault \/ HandRemoval \/ UNCHANGED storeVars
    PROVE  LockInv'
  <1>0. StoreTypeOK
    BY DEF LockInv
  <1>1. sess' = sess
    BY DEF BootInto, OtherFault, HandRemoval, storeVars
  <1>2. StoreTypeOK'
    <2>1. CASE \E v \in Versions : BootInto(v)
      BY <1>0, <2>1 DEF BootInto, StoreTypeOK
    <2>2. CASE OtherFault
      BY <1>0, <2>2 DEF OtherFault, StoreTypeOK
    <2>3. CASE HandRemoval
      BY <1>0, <2>3, WithoutType DEF HandRemoval, StoreTypeOK
    <2>4. CASE UNCHANGED storeVars
      BY <1>0, <2>4 DEF storeVars, StoreTypeOK
    <2> QED
      BY <2>1, <2>2, <2>3, <2>4
  <1>3. up' \/ up' = up
    BY DEF BootInto, OtherFault, HandRemoval, storeVars
  <1> QED
    BY <1>1, <1>2, <1>3 DEF LockInv, StagesVersion, OneHolder, DownIdle

LEMMA LockInvNext == LockInv /\ (HandNext \/ UNCHANGED storeVars) => LockInv'
  <1> SUFFICES ASSUME LockInv, HandNext \/ UNCHANGED storeVars PROVE LockInv'
    OBVIOUS
  <1>0. StoreTypeOK
    BY DEF LockInv
  <1>1. CASE StoreNext
    <2>1. ASSUME NEW lost \in SUBSET Unsynced, HostDown(lost), faults < MaxFaults, faults' = faults + 1
          PROVE  LockInv'
      <3>1. faults' \in 0..MaxFaults
        BY <1>0, <2>1 DEF StoreTypeOK
      <3> QED
        BY <2>1, <3>1, LockInvDown
    <2> QED
      BY <1>0, <1>1, <2>1, StoreSteps, LockInvOpening, LockInvSession, LockInvClosing, LockInvRest
  <1>2. CASE HostDown({}) /\ UNCHANGED faults
    <2>1. faults' \in 0..MaxFaults /\ {} \in SUBSET Unsynced
      BY <1>0, <1>2 DEF StoreTypeOK
    <2> QED
      BY <1>2, <2>1, LockInvDown
  <1> QED
    BY <1>1, <1>2, LockInvRest DEF HandNext

\* Every variable of the partition and of the sessions stays in its domain.
THEOREM StoreTypeCorrect == StoreSpec => []StoreTypeOK
  <1>1. LockInv /\ [StoreNext]_storeVars => LockInv'
    BY LockInvNext DEF HandNext
  <1>2. LockInv => StoreTypeOK
    BY DEF LockInv
  <1> QED
    BY LockInvInit, <1>1, <1>2, PTL DEF StoreSpec

\* flock (bootstore.go): at most one session works on the partition, and a
\* host that is down has none.
THEOREM FlockExclusive == StoreSpec => [](OneHolder /\ DownIdle)
  <1>1. LockInv /\ [StoreNext]_storeVars => LockInv'
    BY LockInvNext DEF HandNext
  <1>2. LockInv => OneHolder /\ DownIdle
    BY DEF LockInv
  <1> QED
    BY LockInvInit, <1>1, <1>2, PTL DEF StoreSpec
-----------------------------------------------------------------------------
(* Space.                                                                  *)

LEMMA PresentFinite ==
    IsFiniteSet(Present) /\ Cardinality(Present) \in Nat /\ Present \subseteq Versions
  <1>1. Present \in SUBSET Versions
    BY DEF Present
  <1> QED
    BY <1>1, FS_Subset, FS_CardinalityType

\* What a purge plans to delete is there, and not protected.
LEMMA PlanPurgeSpares ==
    ASSUME NEW keep, NEW preserve, NEW target
    PROVE  PlanPurge(keep, preserve, target) \subseteq Present \ keep
  BY DEF PlanPurge, Oldest

\* Nor is what an interrupted purge has deleted.
LEMMA HalfPurgeSpares ==
    ASSUME NEW a \in Actors
    PROVE  /\ Purge(a) \subseteq Present \ sess[a].keep
           /\ sess[a].at \notin {"room", "retain"} => Purge(a) = {}
           /\ \A removed \in HalfPurges(a) : removed \subseteq Purge(a)
  <1>1. \A removed \in HalfPurges(a) : removed \subseteq Purge(a)
    BY DEF HalfPurges, Oldest
  <1>2. sess[a].at = "room" => Purge(a) = PlanPurge(sess[a].keep, 0, 1)
    BY DEF Purge
  <1>3. sess[a].at = "retain" => Purge(a) = PlanPurge(sess[a].keep, Preserve, TargetFree)
    BY DEF Purge
  <1>4. sess[a].at \notin {"room", "retain"} => Purge(a) = {}
    BY DEF Purge
  <1> QED
    BY <1>1, <1>2, <1>3, <1>4, PlanPurgeSpares

\* A purge frees what it deletes.
LEMMA PurgeFrees ==
    ASSUME StoreTypeOK, NEW removed \in SUBSET Present, file' = Without(removed)
    PROVE  /\ Present' = Present \ removed
           /\ Cardinality(removed) \in Nat
           /\ Cardinality(Present') = Cardinality(Present) - Cardinality(removed)
  <1>1. Present' = Present \ removed
    BY DEF Present, Without, StoreTypeOK
  <1>2. IsFiniteSet(removed) /\ Cardinality(removed) \in Nat
    BY PresentFinite, FS_Subset, FS_CardinalityType
  <1>3. Present \cap removed = removed
    OBVIOUS
  <1>4. Cardinality(Present \ removed) = Cardinality(Present) - Cardinality(Present \cap removed)
    BY <1>2, PresentFinite, FS_Difference
  <1> QED
    BY <1>1, <1>2, <1>3, <1>4

\* A step that adds no file and lets no session past the pre-check.
LEMMA NoGrowth ==
    ASSUME SpaceInv, Present' \subseteq Present,
           \A a \in Actors : sess'[a].at # "copy" \/ sess'[a] = sess[a]
    PROVE  RoomFound' /\ FitsPartition'
  <1>1. Cardinality(Present') <= Cardinality(Present) /\ Cardinality(Present') \in Nat
    BY PresentFinite, FS_Subset, FS_CardinalityType
  <1> QED
    BY <1>1, PresentFinite DEF SpaceInv, RoomFound, FitsPartition

LEMMA SpaceInvInit == StoreInit => SpaceInv
  <1> SUFFICES ASSUME StoreInit PROVE SpaceInv
    OBVIOUS
  <1>1. \A a \in Actors : sess[a].at = "idle"
    BY DEF StoreInit, IdleSession, NewSession
  <1>2. Present = Shipped
    BY DEF StoreInit, Present
  <1> QED
    BY <1>1, <1>2, LockInvInit DEF SpaceInv, RoomFound, FitsPartition

\* Who takes a step of a session holds the flock alone.
LEMMA StepAlone ==
    ASSUME LockInv, NEW a \in Actors, sess[a].at \in Holding, NEW s, Become(a, s)
    PROVE  sess'[a] = s /\ \A b \in Actors \ {a} : sess'[b] = sess[b] /\ sess'[b].at \notin Holding
  BY OthersKept DEF LockInv, OneHolder

\* The step that a session step leads to.
LEMMA StepLeads ==
    ASSUME LockInv, NEW a \in Actors, sess[a].at \in Holding
    PROVE  /\ \A at : Step(a, at) =>
                 \E s : Become(a, s) /\ s.at = at /\ s.then = sess[a].then /\ s.conf = sess[a].conf
                       /\ s.keep = sess[a].keep /\ s.v = sess[a].v
           /\ \A o : End(a, o) => \E s : Become(a, s) /\ s.at = "done"
           /\ \A conf, then : Rewrite(a, sess[a], conf, then) =>
                 \E s : Become(a, s) /\ s.at = "rewriting" /\ s.then = then /\ s.conf = conf
                       /\ s.keep = sess[a].keep /\ s.v = sess[a].v
  <1>0. sess[a] \in Session
    BY DEF LockInv, StoreTypeOK
  <1>1. ASSUME NEW at, Step(a, at)
        PROVE  \E s : Become(a, s) /\ s.at = at /\ s.then = sess[a].then /\ s.conf = sess[a].conf
                     /\ s.keep = sess[a].keep /\ s.v = sess[a].v
    <2> DEFINE s == [sess[a] EXCEPT !.at = at]
    <2>1. /\ s.at = at /\ s.then = sess[a].then /\ s.conf = sess[a].conf
          /\ s.keep = sess[a].keep /\ s.v = sess[a].v
      BY <1>0 DEF Session
    <2>2. Become(a, s)
      BY <1>1 DEF Step
    <2> QED
      BY <2>1, <2>2
  <1>2. ASSUME NEW o, End(a, o) PROVE \E s : Become(a, s) /\ s.at = "done"
    <2> DEFINE s == [sess[a] EXCEPT !.at = "done", !.outcome = o]
    <2>1. s.at = "done" /\ Become(a, s)
      BY <1>0, <1>2 DEF End, Session
    <2> QED
      BY <2>1
  <1>3. ASSUME NEW conf, NEW then, Rewrite(a, sess[a], conf, then)
        PROVE  \E s : Become(a, s) /\ s.at = "rewriting" /\ s.then = then /\ s.conf = conf
                     /\ s.keep = sess[a].keep /\ s.v = sess[a].v
    <2> DEFINE s == [sess[a] EXCEPT !.at = "rewriting", !.then = then, !.conf = conf]
    <2>1. /\ s.at = "rewriting" /\ s.then = then /\ s.conf = conf
          /\ s.keep = sess[a].keep /\ s.v = sess[a].v
      BY <1>0 DEF Session
    <2>2. Become(a, s)
      BY <1>3 DEF Rewrite
    <2> QED
      BY <2>1, <2>2
  <1> QED
    BY <1>1, <1>2, <1>3

\* The session steps: only a copy adds a file, into the room found for it.
LEMMA SpaceInvSession ==
    ASSUME SpaceInv, NEW a \in Actors, SessionStep(a)
    PROVE  RoomFound' /\ FitsPartition'
  <1>0. LockInv /\ StoreTypeOK
    BY DEF SpaceInv, LockInv
  <1>1. sess[a].at \in Holding
    BY DEF SessionStep, MakeRoom, CopyBegin, CopyEnd, Point, RewriteEnd, Retain, Holding
  <1>2. ASSUME Present' \subseteq Present, NEW s, Become(a, s), s.at # "copy"
        PROVE  RoomFound' /\ FitsPartition'
    BY <1>0, <1>1, <1>2, StepAlone, NoGrowth DEF Holding
  <1>3. CASE MakeRoom(a)
    <2> DEFINE removed == Purge(a)
    <2>1. removed \in SUBSET Present
      BY HalfPurgeSpares
    <2>2. file' = Without(removed)
      BY <1>3 DEF MakeRoom
    <2>3. /\ Present' = Present \ removed
          /\ Cardinality(removed) \in Nat
          /\ Cardinality(Present') = Cardinality(Present) - Cardinality(removed)
      BY <1>0, <2>1, <2>2, PurgeFrees
    <2>4. CASE Free + Cardinality(removed) >= 1
      <3>1. Cardinality(Present') < Capacity
        BY <2>3, <2>4, PresentFinite DEF Free
      <3>2. Step(a, "copy")
        BY <1>3, <2>4 DEF MakeRoom
      <3>3. PICK s : Become(a, s) /\ s.at = "copy"
        BY <1>0, <1>1, <3>2, StepLeads
      <3> QED
        BY <2>3, <3>1, PresentFinite DEF RoomFound, FitsPartition
    <2>5. CASE ~(Free + Cardinality(removed) >= 1)
      <3>1. End(a, "failed")
        BY <1>3, <2>5 DEF MakeRoom
      <3> QED
        BY <1>0, <1>1, <1>2, <2>3, <3>1, StepLeads
    <2> QED
      BY <2>4, <2>5
  <1>4. CASE CopyBegin(a)
    <2>1. sess[a].at = "copy" /\ sess[a].v \in Versions
      BY <1>0, <1>4 DEF CopyBegin, LockInv, StagesVersion, Staging
    <2>2. Present' = Present \cup {sess[a].v}
      BY <1>0, <1>4, <2>1 DEF CopyBegin, Present, StoreTypeOK
    <2>3. /\ Cardinality(Present') <= Cardinality(Present) + 1
          /\ Cardinality(Present') \in Nat
      <3>1. /\ IsFiniteSet(Present \cup {sess[a].v})
            /\ Cardinality(Present \cup {sess[a].v}) \in {Cardinality(Present), Cardinality(Present) + 1}
        BY PresentFinite, FS_AddElement
      <3> QED
        BY <2>2, <3>1, PresentFinite
    <2>4. Cardinality(Present) < Capacity
      BY <2>1 DEF SpaceInv, RoomFound
    <2>5. PICK s : Become(a, s) /\ s.at = "copying" /\ s.v = sess[a].v
      BY <1>0, <1>1, <1>4, StepLeads DEF CopyBegin
    <2>6. \A b \in Actors : sess'[b].at # "copy"
      BY <1>0, <1>1, <2>5, StepAlone DEF Holding
    <2> QED
      BY <2>3, <2>4, <2>6, PresentFinite DEF RoomFound, FitsPartition
  <1>5. CASE CopyEnd(a)
    <2>2. Present' \subseteq Present
      BY <1>0, <1>5 DEF CopyEnd, Present, StoreTypeOK
    <2>3. PICK s : Become(a, s) /\ s.at \in {"point", "retain"}
      BY <1>0, <1>1, <1>5, StepLeads DEF CopyEnd
    <2> QED
      BY <1>2, <2>2, <2>3
  <1>6. CASE Point(a)
    <2>1. PICK conf, then : Rewrite(a, sess[a], conf, then)
      BY <1>6 DEF Point, SetDefault
    <2>2. Present' = Present
      BY <1>6 DEF Point, Present
    <2> QED
      BY <1>0, <1>1, <1>2, <2>1, <2>2, StepLeads
  <1>7. CASE RewriteEnd(a)
    <2>1. sess[a].then \in {"retain", "done"}
      BY <1>0 DEF StoreTypeOK, Session
    <2>2. Present' = Present
      BY <1>7 DEF RewriteEnd, Present
    <2>3. PICK s : Become(a, s) /\ s.at \in {"retain", "done"}
      BY <1>0, <1>1, <1>7, <2>1, StepLeads DEF RewriteEnd
    <2> QED
      BY <1>2, <2>2, <2>3
  <1>8. CASE Retain(a)
    <2>1. Purge(a) \in SUBSET Present /\ file' = Without(Purge(a))
      BY <1>8, HalfPurgeSpares DEF Retain
    <2>2. Present' \subseteq Present
      BY <1>0, <2>1, PurgeFrees
    <2>3. \/ End(a, "ok")
          \/ \E conf, then : Rewrite(a, sess[a], conf, then)
      BY <1>8 DEF Retain
    <2>4. PICK s : Become(a, s) /\ s.at \in {"done", "rewriting"}
      BY <1>0, <1>1, <2>3, StepLeads
    <2> QED
      BY <1>2, <2>2, <2>4
  <1> QED
    BY <1>3, <1>4, <1>5, <1>6, <1>7, <1>8 DEF SessionStep
\* No other step brings a file.
LEMMA SpaceInvNext == SpaceInv /\ (HandNext \/ UNCHANGED storeVars) => SpaceInv'
  <1> SUFFICES ASSUME SpaceInv, HandNext \/ UNCHANGED storeVars PROVE SpaceInv'
    OBVIOUS
  <1>0. LockInv /\ StoreTypeOK
    BY DEF SpaceInv, LockInv
  <1>1. LockInv'
    BY <1>0, LockInvNext
  <1>2. ASSUME NEW a \in Actors, Opening(a) PROVE RoomFound' /\ FitsPartition'
    <2>1. PICK s \in Session : OpensAs(a, s)
      BY <1>0, <1>2, OpeningOpens
    <2>2. Present' = Present /\ s.at # "copy"
      BY <2>1 DEF OpensAs, Present
    <2>3. sess'[a] = s /\ \A b \in Actors \ {a} : sess'[b] = sess[b]
      BY <1>0, <2>1, OthersKept DEF OpensAs
    <2> QED
      BY <2>2, <2>3, NoGrowth
  <1>3. ASSUME NEW a \in Actors, Closing(a) PROVE RoomFound' /\ FitsPartition'
    <2>1. Present' \subseteq Present
      BY <1>0, <1>3 DEF Closing, Finish, IOError, Killed, Present, Without, StoreTypeOK
    <2>2. PICK s : Become(a, s) /\ s.at \in {"idle", "done"}
      <3>1. IdleSession.at = "idle"
        BY DEF IdleSession, NewSession
      <3>2. ASSUME NEW o, End(a, o) PROVE \E s : Become(a, s) /\ s.at \in {"idle", "done"}
        <4>1. [sess[a] EXCEPT !.at = "done", !.outcome = o].at = "done"
          BY <1>0 DEF StoreTypeOK, Session
        <4> QED
          BY <3>2, <4>1 DEF End
      <3> QED
        BY <1>3, <3>1, <3>2 DEF Closing, Finish, IOError, Killed
    <2>3. sess'[a] = s /\ \A b \in Actors \ {a} : sess'[b] = sess[b]
      BY <1>0, <2>2, OthersKept
    <2> QED
      BY <2>1, <2>2, <2>3, NoGrowth
  <1>4. ASSUME NEW lost \in SUBSET Unsynced, HostDown(lost) PROVE RoomFound' /\ FitsPartition'
    <2>1. Present' \subseteq Present
      <3>1. \A v \in lost : file[v] = "whole"
        BY DEF Unsynced
      <3> QED
        BY <1>0, <1>4, <3>1 DEF HostDown, Without, Present, StoreTypeOK
    <2>2. \A a \in Actors : sess'[a].at = "idle"
      BY <1>4 DEF HostDown, IdleSession, NewSession
    <2> QED
      BY <2>1, <2>2, NoGrowth
  <1>5. ASSUME HandRemoval PROVE RoomFound' /\ FitsPartition'
    <2>1. Present' \subseteq Present
      BY <1>0, <1>5 DEF HandRemoval, Without, Present, StoreTypeOK
    <2>2. sess' = sess
      BY <1>5 DEF HandRemoval
    <2> QED
      BY <2>1, <2>2, NoGrowth
  <1>6. ASSUME \/ \E v \in Versions : BootInto(v)
               \/ OtherFault \/ UNCHANGED storeVars
        PROVE  RoomFound' /\ FitsPartition'
    <2>1. Present' = Present /\ sess' = sess
      BY <1>6 DEF BootInto, OtherFault, storeVars, Present
    <2> QED
      BY <2>1, NoGrowth
  <1>7. {} \in SUBSET Unsynced
    OBVIOUS
  <1>8. RoomFound' /\ FitsPartition'
    <2>1. CASE StoreNext
      BY <1>0, <2>1, <1>2, <1>3, <1>4, <1>6, StoreSteps, SpaceInvSession
    <2> QED
      BY <2>1, <1>4, <1>5, <1>6, <1>7 DEF HandNext
  <1> QED
    BY <1>1, <1>8 DEF SpaceInv

\* The capacity pre-check (staging.go): whatever the interleaving of sessions,
\* crashes and purges, the kernels never outgrow the partition.
THEOREM CopiesFit == StoreSpec => []FitsPartition
  <1>1. SpaceInv /\ [StoreNext]_storeVars => SpaceInv'
    BY SpaceInvNext DEF HandNext
  <1>2. SpaceInv => FitsPartition
    BY DEF SpaceInv
  <1> QED
    BY SpaceInvInit, <1>1, <1>2, PTL DEF StoreSpec
-----------------------------------------------------------------------------
(* Kernels.                                                                *)

KernelsKept == RunningKernelKept /\ DefaultHasKernel /\ ConfigBrokenOnlyByFault

\* A default on a partial kernel: a fault cut it short, or nodectl replaces it.
LEMMA DefaultWhole == StoreInv => DefaultWholeUnlessCut
  <1> SUFFICES ASSUME StoreInv, boot # Broken, boot \notin cut, file[boot] # "whole"
               PROVE  Replacing(boot)
    BY DEF DefaultWholeUnlessCut
  <1>1. boot \in Versions /\ file[boot] = "torn"
    BY DEF StoreInv, SpaceInv, LockInv, StoreTypeOK, DefaultHasKernel
  <1>2. PICK a \in Actors : sess[a].at = "copying" /\ sess[a].v = boot
    BY <1>1 DEF StoreInv, TornExplained
  <1>3. boot \in Reissued
    BY <1>2 DEF StoreInv, SessionsSafe, CopiesSafely
  <1> QED
    BY <1>2, <1>3 DEF Replacing, Copying

\* With the other sessions out of the flock, one session's promises are all.
LEMMA SafeAlone ==
    ASSUME NEW a \in Actors, NEW s, sess'[a] = s,
           \A b \in Actors \ {a} : sess'[b].at \notin Holding,
           SparesKernels(s)', CopiesSafely(s)', WritesBootable(s)'
    PROVE  SessionsSafe'
  BY DEF SessionsSafe, SparesKernels, CopiesSafely, WritesBootable, Holding, Staging

\* What no purge may take is not in its plan.
LEMMA PurgeKeeps ==
    ASSUME StoreTypeOK, NEW s, running \in s.keep, Default \subseteq s.keep,
           NEW removed, removed \cap s.keep = {}, file' = Without(removed)
    PROVE  /\ file'[running] = file[running] \/ running \notin Versions
           /\ boot # Broken => file'[boot] = file[boot]
           /\ \A v \in Versions : file'[v] \in {file[v], "absent"}
           /\ \A v \in s.keep \cap Versions : file'[v] = file[v]
  <1>1. \A v \in Versions : v \in s.keep => file'[v] = file[v]
    BY DEF Without
  <1>2. \A v \in Versions : file'[v] \in {file[v], "absent"}
    BY DEF Without
  <1>3. boot # Broken => boot \in Versions /\ boot \in s.keep
    BY DEF StoreTypeOK, Default
  <1> QED
    BY <1>1, <1>2, <1>3

LEMMA StoreInvInit == StoreInit => StoreInv
  <1> SUFFICES ASSUME StoreInit PROVE StoreInv
    OBVIOUS
  <1>1. \A a \in Actors : sess[a].at = "idle"
    BY DEF StoreInit, IdleSession, NewSession
  <1>2. SessionsSafe
    BY <1>1 DEF SessionsSafe, SparesKernels, CopiesSafely, WritesBootable, Staging
  <1>3. running \in Versions /\ file[running] = "whole" /\ boot = running
        /\ (loader = "menu" => running \in menu)
    BY DEF StoreInit
  <1>4. TornExplained
    BY DEF StoreInit, TornExplained
  <1> QED
    BY <1>2, <1>3, <1>4, SpaceInvInit
    DEF StoreInv, RunningKernelKept, DefaultHasKernel, ConfigBrokenOnlyByFault

LEMMA StoreInvOpening ==
    ASSUME StoreInv, NEW a \in Actors, Opening(a)
    PROVE  SessionsSafe' /\ TornExplained' /\ KernelsKept'
  <1> USE DEF KernelsKept
  <1>0. LockInv /\ StoreTypeOK /\ SessionsSafe /\ TornExplained /\ KernelsKept
    BY DEF StoreInv, SpaceInv, LockInv
  <1>1. PICK s \in Session : OpensAs(a, s)
    BY <1>0, OpeningOpens
  <1>2. sess[a].at = "idle"
    BY <1>0, OpeningOpens DEF Idle
  <1>3. sess'[a] = s /\ \A b \in Actors \ {a} : sess'[b] = sess[b]
    BY <1>0, <1>1, OthersKept DEF OpensAs
  <1>4. UNCHANGED <<file, running, loader, up, cut>>
    BY <1>1 DEF OpensAs
  <1>5. RunningKernelKept'
    BY <1>0, <1>4 DEF RunningKernelKept
  <1>6. TornExplained'
    <2>1. \A b \in Actors : sess[b].at = "copying" => sess'[b] = sess[b]
      BY <1>2, <1>3
    <2>2. ASSUME NEW v \in Versions, file'[v] = "torn"
          PROVE  v \in cut' \/ \E b \in Actors : sess'[b].at = "copying" /\ sess'[b].v = v
      <3>1. CASE v \in cut
        BY <1>4, <3>1
      <3>2. CASE v \notin cut
        <4>1. file[v] = "torn"
          BY <1>4, <2>2
        <4>2. PICK b \in Actors : sess[b].at = "copying" /\ sess[b].v = v
          BY <1>0, <3>2, <4>1 DEF TornExplained
        <4>3. sess'[b] = sess[b]
          BY <2>1, <4>2
        <4> QED
          BY <4>2, <4>3
      <3> QED
        BY <3>1, <3>2
    <2> QED
      BY <2>2 DEF TornExplained
  <1>7. CASE s.at = "done"
    <2>0. faults \in Nat
      BY <1>0 DEF StoreTypeOK
    <2>1. UNCHANGED <<boot, menu>> /\ faults' \in {faults, faults + 1}
      BY <1>1, <1>7 DEF OpensAs
    <2>2. SessionsSafe'
      <3>1. SparesKernels(s)' /\ CopiesSafely(s)' /\ WritesBootable(s)'
        BY <1>7 DEF SparesKernels, CopiesSafely, WritesBootable, Staging
      <3>2. ASSUME NEW b \in Actors \ {a}
            PROVE  SparesKernels(sess[b])' /\ CopiesSafely(sess[b])' /\ WritesBootable(sess[b])'
        <4>1. SparesKernels(sess[b]) /\ CopiesSafely(sess[b]) /\ WritesBootable(sess[b])
          BY <1>0 DEF SessionsSafe
        <4>2. SparesKernels(sess[b])' /\ CopiesSafely(sess[b])'
          BY <1>3, <1>4, <2>1, <4>1 DEF SparesKernels, CopiesSafely, Default
        <4>3. WritesBootable(sess[b])'
          BY <1>3, <1>4, <2>0, <2>1, <4>1 DEF WritesBootable
        <4> QED
          BY <4>2, <4>3
      <3> QED
        BY <1>3, <3>1, <3>2 DEF SessionsSafe
    <2>3. ConfigBrokenOnlyByFault'
      BY <1>0, <1>2, <1>3, <2>0, <2>1 DEF ConfigBrokenOnlyByFault
    <2> QED
      BY <1>0, <1>4, <1>5, <1>6, <2>1, <2>2, <2>3 DEF DefaultHasKernel
  <1>8. CASE s.at # "done"
    <2>1. ~Locked /\ faults' = faults
      BY <1>1, <1>8 DEF OpensAs
    <2>2. \A b \in Actors \ {a} : sess'[b].at \notin Holding
      BY <1>3, <2>1 DEF Locked
    <2>3. \A v \in Versions : v \notin cut => file[v] # "torn"
      BY <1>0, <2>1 DEF TornExplained, Locked, Holding
    <2>4. boot = Broken => faults > 0
      BY <1>0, <2>1 DEF ConfigBrokenOnlyByFault, Locked, Holding
    <2>5. CASE s.at = "rewriting"
      <3>1. /\ s.then = "done" /\ s.keep = {} /\ boot' = Broken
            /\ s.conf.boot = Broken => boot = Broken
            /\ s.conf.boot # Broken => /\ file[s.conf.boot] # "absent"
                                       /\ loader = "menu" => s.conf.boot \in s.conf.menu
        BY <1>1, <2>5 DEF OpensAs
      <3>2. s.conf.boot \in Versions \cup {Broken}
        BY DEF Session
      <3>3. SparesKernels(s)' /\ CopiesSafely(s)'
        BY <2>5, <3>1 DEF SparesKernels, CopiesSafely, Staging
      <3>4. WritesBootable(s)'
        BY <1>0, <1>4, <2>1, <2>3, <2>4, <3>1, <3>2 DEF WritesBootable, StoreTypeOK
      <3>5. SessionsSafe'
        BY <1>3, <2>2, <3>3, <3>4, SafeAlone
      <3> QED
        BY <1>3, <1>5, <1>6, <2>5, <3>1, <3>5
        DEF DefaultHasKernel, ConfigBrokenOnlyByFault
    <2>6. CASE s.at # "rewriting"
      <3>1. UNCHANGED <<boot, menu>>
        BY <1>1, <1>8, <2>6 DEF OpensAs
      <3>2. s.at \in {"room", "retain"} /\ \E v : s.keep = Protected(v) /\ (s.at = "room" => v = s.v)
        BY <1>1, <1>8, <2>6 DEF OpensAs
      <3>3. /\ s.at = "room" => s.v \in Versions /\ (file[s.v] # "whole" \/ s.v \in Reissued)
            /\ s.at = "retain" => s.v = Broken
        BY <1>1, <1>8, <2>6 DEF OpensAs
      <3>4. running \in Versions /\ (file[running] # "whole" => running \in Reissued)
        BY <1>0 DEF StoreTypeOK, KernelsKept, RunningKernelKept
      <3>5. SparesKernels(s)'
        BY <1>4, <3>1, <3>2, <3>3, <3>4 DEF SparesKernels, Protected, Default, Staging
      <3>6. CopiesSafely(s)' /\ WritesBootable(s)'
        BY <1>4, <3>2, <3>3, <3>4 DEF CopiesSafely, WritesBootable
      <3>7. SessionsSafe'
        BY <1>3, <2>2, <3>5, <3>6, SafeAlone
      <3> QED
        BY <1>0, <1>4, <1>5, <1>6, <2>1, <2>4, <3>1, <3>7
        DEF DefaultHasKernel, ConfigBrokenOnlyByFault
    <2> QED
      BY <2>5, <2>6
  <1> QED
    BY <1>7, <1>8
\* The session steps.  Each shows what its session promises next; the others
\* hold no flock.
LEMMA StoreInvSession ==
    ASSUME StoreInv, NEW a \in Actors, SessionStep(a)
    PROVE  SessionsSafe' /\ TornExplained' /\ KernelsKept'
  <1>0. LockInv /\ StoreTypeOK /\ SessionsSafe /\ TornExplained /\ KernelsKept
    BY DEF StoreInv, SpaceInv, LockInv, KernelsKept
  <1>1. sess[a].at \in Holding
    BY DEF SessionStep, MakeRoom, CopyBegin, CopyEnd, Point, RewriteEnd, Retain, Holding
  <1>2. SparesKernels(sess[a]) /\ CopiesSafely(sess[a]) /\ WritesBootable(sess[a])
    BY <1>0 DEF SessionsSafe
  <1>3. sess[a] \in Session /\ (sess[a].at \in Staging => sess[a].v \in Versions)
    BY <1>0 DEF StoreTypeOK, LockInv, StagesVersion
  <1>4. \A b \in Actors \ {a} : sess[b].at \notin Holding
    BY <1>0, <1>1 DEF LockInv, OneHolder
  <1>5. /\ running \in Versions /\ boot \in Versions \cup {Broken}
        /\ file[running] # "absent" /\ (file[running] = "torn" => running \in Reissued)
    BY <1>0 DEF StoreTypeOK, KernelsKept, RunningKernelKept
  <1>6. \A v \in Versions : file[v] = "torn" => v \in cut \/ (sess[a].at = "copying" /\ sess[a].v = v)
    BY <1>0, <1>4 DEF TornExplained, Holding
  <1>7. boot = Broken => faults > 0 \/ sess[a].at = "rewriting"
    BY <1>0, <1>4 DEF KernelsKept, ConfigBrokenOnlyByFault, Holding
  <1>8. CASE MakeRoom(a)
    <2>1. sess[a].at = "room" /\ UNCHANGED <<boot, menu, running, loader, up, cut, faults>>
      BY <1>8 DEF MakeRoom
    <2>2. running \in sess[a].keep /\ Default \subseteq sess[a].keep /\ sess[a].v \in sess[a].keep
      BY <1>2, <2>1 DEF SparesKernels, Staging
    <2>3. /\ file'[running] = file[running]
          /\ boot # Broken => file'[boot] = file[boot]
          /\ \A v \in Versions : file'[v] \in {file[v], "absent"}
      <3>1. file' = Without(Purge(a)) /\ Purge(a) \cap sess[a].keep = {}
        BY <1>8, HalfPurgeSpares DEF MakeRoom
      <3> QED
        BY <1>0, <1>5, <2>2, <3>1, PurgeKeeps
    <2>4. \/ Step(a, "copy") \/ End(a, "failed")
      BY <1>8 DEF MakeRoom
    <2>5. PICK s : /\ Become(a, s)
                   /\ \/ s.at = "done"
                      \/ s.at = "copy" /\ s.v = sess[a].v /\ s.keep = sess[a].keep
      BY <1>0, <1>1, <2>4, StepLeads
    <2>6. sess'[a] = s /\ \A b \in Actors \ {a} : sess'[b].at \notin Holding
      BY <1>0, <1>1, <2>5, StepAlone
    <2>7. /\ file[sess[a].v] # "whole" \/ sess[a].v \in Reissued
          /\ sess[a].v = running => running \in Reissued
          /\ sess[a].v \in Versions
      BY <1>2, <1>3, <2>1, <2>2 DEF CopiesSafely, Staging
    <2>8. SparesKernels(s)' /\ CopiesSafely(s)' /\ WritesBootable(s)'
      BY <2>1, <2>2, <2>3, <2>5, <2>7
      DEF SparesKernels, CopiesSafely, WritesBootable, Staging, Default
    <2>9. SessionsSafe'
      BY <2>6, <2>8, SafeAlone
    <2>10. TornExplained'
      BY <1>6, <2>1, <2>3 DEF TornExplained
    <2>11. KernelsKept'
      BY <1>0, <1>5, <1>7, <2>1, <2>3
      DEF KernelsKept, RunningKernelKept, DefaultHasKernel, ConfigBrokenOnlyByFault
    <2> QED
      BY <2>9, <2>10, <2>11
  <1>9. CASE CopyBegin(a)
    <2>1. sess[a].at = "copy" /\ UNCHANGED <<boot, menu, running, loader, up, cut, faults>>
          /\ file' = [file EXCEPT ![sess[a].v] = "torn"]
      BY <1>9 DEF CopyBegin
    <2>2. running \in sess[a].keep /\ Default \subseteq sess[a].keep /\ sess[a].v \in sess[a].keep
      BY <1>2, <2>1 DEF SparesKernels, Staging
    <2>3. /\ file[sess[a].v] # "whole" \/ sess[a].v \in Reissued
          /\ sess[a].v = running => running \in Reissued
          /\ sess[a].v \in Versions
      BY <1>2, <1>3, <2>1, <2>2 DEF CopiesSafely, Staging
    <2>4. file'[sess[a].v] = "torn" /\ \A v \in Versions \ {sess[a].v} : file'[v] = file[v]
      BY <1>0, <2>1, <2>3 DEF StoreTypeOK
    <2>5. PICK s : Become(a, s) /\ s.at = "copying" /\ s.v = sess[a].v /\ s.keep = sess[a].keep
      BY <1>0, <1>1, <1>9, StepLeads DEF CopyBegin
    <2>6. sess'[a] = s /\ \A b \in Actors \ {a} : sess'[b].at \notin Holding
      BY <1>0, <1>1, <2>5, StepAlone
    <2>7. boot \in Versions => file[boot] \in {"torn", "whole"}
      BY <1>0 DEF StoreTypeOK, KernelsKept, DefaultHasKernel
    <2>8. boot = sess[a].v => boot \in cut \cup Reissued
      BY <1>6, <2>1, <2>3, <2>7
    <2>9. SparesKernels(s)' /\ CopiesSafely(s)' /\ WritesBootable(s)'
      BY <2>1, <2>2, <2>3, <2>4, <2>5, <2>8
      DEF SparesKernels, CopiesSafely, WritesBootable, Staging, Default
    <2>10. SessionsSafe'
      BY <2>6, <2>9, SafeAlone
    <2>11. TornExplained'
      BY <1>6, <2>1, <2>3, <2>4, <2>5, <2>6 DEF TornExplained
    <2>12. KernelsKept'
      BY <1>0, <1>5, <1>7, <2>1, <2>3, <2>4, <2>7, <2>8
      DEF KernelsKept, RunningKernelKept, DefaultHasKernel, ConfigBrokenOnlyByFault
    <2> QED
      BY <2>10, <2>11, <2>12
  <1>10. CASE CopyEnd(a)
    <2>1. sess[a].at = "copying" /\ UNCHANGED <<boot, menu, running, loader, up, faults>>
          /\ file' = [file EXCEPT ![sess[a].v] = IF @ = "absent" THEN @ ELSE "whole"]
          /\ cut' = cut \ {sess[a].v}
      BY <1>10 DEF CopyEnd
    <2>2. running \in sess[a].keep /\ Default \subseteq sess[a].keep /\ sess[a].v \in sess[a].keep
      BY <1>2, <2>1 DEF SparesKernels, Staging
    <2>3. sess[a].v \in Versions /\ file[sess[a].v] = "torn"
          /\ (sess[a].v = running => running \in Reissued)
      BY <1>2, <1>3, <2>1, <2>2 DEF CopiesSafely, Staging
    <2>4. file'[sess[a].v] = "whole" /\ \A v \in Versions \ {sess[a].v} : file'[v] = file[v]
      BY <1>0, <2>1, <2>3 DEF StoreTypeOK
    <2>5. PICK s : /\ Become(a, s) /\ s.at \in {"point", "retain"}
                   /\ s.v = sess[a].v /\ s.keep = sess[a].keep
      BY <1>0, <1>1, <1>10, StepLeads DEF CopyEnd
    <2>6. sess'[a] = s /\ \A b \in Actors \ {a} : sess'[b].at \notin Holding
      BY <1>0, <1>1, <2>5, StepAlone
    <2>7. SparesKernels(s)' /\ CopiesSafely(s)' /\ WritesBootable(s)'
      BY <2>1, <2>2, <2>3, <2>4, <2>5
      DEF SparesKernels, CopiesSafely, WritesBootable, Staging, Default
    <2>8. SessionsSafe'
      BY <2>6, <2>7, SafeAlone
    <2>9. TornExplained'
      BY <1>6, <2>1, <2>4 DEF TornExplained
    <2>10. KernelsKept'
      BY <1>0, <1>5, <1>7, <2>1, <2>3, <2>4
      DEF KernelsKept, RunningKernelKept, DefaultHasKernel, ConfigBrokenOnlyByFault
    <2> QED
      BY <2>8, <2>9, <2>10
  <1>11. CASE Point(a)
    <2>1. sess[a].at = "point" /\ UNCHANGED <<file, running, loader, up, cut, faults>>
          /\ SetDefault(a, sess[a], "retain")
      BY <1>11 DEF Point
    <2>2. running \in sess[a].keep /\ sess[a].v \in sess[a].keep /\ file[sess[a].v] = "whole"
          /\ sess[a].v \in Versions /\ (sess[a].v = running => running \in Reissued)
      BY <1>2, <1>3, <2>1 DEF SparesKernels, CopiesSafely, Staging
    <2>3. PICK conf \in [boot : Versions \cup {Broken}, menu : SUBSET Versions] :
             /\ Rewrite(a, sess[a], conf, "retain")
             /\ \/ conf.boot = sess[a].v /\ (loader = "menu" => sess[a].v \in conf.menu)
                \/ loader = "rpi" /\ boot = Broken /\ conf.boot = Broken
      BY <1>0, <1>3, <2>1, <2>2, SetDefaultEffect
    <2>4. PICK s : /\ Become(a, s) /\ s.at = "rewriting" /\ s.then = "retain" /\ s.conf = conf
                   /\ s.keep = sess[a].keep /\ s.v = sess[a].v
      BY <1>0, <1>1, <2>3, StepLeads
    <2>5. sess'[a] = s /\ \A b \in Actors \ {a} : sess'[b].at \notin Holding
      BY <1>0, <1>1, <2>4, StepAlone
    <2>6. boot' = Broken
      BY <2>3 DEF Rewrite
    <2>7. SparesKernels(s)' /\ CopiesSafely(s)'
      BY <2>1, <2>2, <2>3, <2>4 DEF SparesKernels, CopiesSafely, Staging
    <2>8. WritesBootable(s)'
      BY <1>7, <2>1, <2>2, <2>3, <2>4 DEF WritesBootable
    <2>9. SessionsSafe'
      BY <2>5, <2>7, <2>8, SafeAlone
    <2>10. TornExplained'
      BY <1>6, <2>1 DEF TornExplained
    <2>11. KernelsKept'
      BY <1>5, <2>1, <2>4, <2>5, <2>6
      DEF KernelsKept, RunningKernelKept, DefaultHasKernel, ConfigBrokenOnlyByFault
    <2> QED
      BY <2>9, <2>10, <2>11
  <1>12. CASE RewriteEnd(a)
    <2>1. /\ sess[a].at = "rewriting" /\ UNCHANGED <<file, running, loader, up, cut, faults>>
          /\ boot' = sess[a].conf.boot /\ menu' = sess[a].conf.menu
      BY <1>12 DEF RewriteEnd
    <2>2. PICK s : /\ Become(a, s) /\ s.at = sess[a].then /\ s.keep = sess[a].keep
                   /\ s.v = sess[a].v
      BY <1>0, <1>1, <1>12, StepLeads DEF RewriteEnd
    <2>3. s.at \in {"retain", "done"}
      BY <1>3, <2>2 DEF Session
    <2>4. sess'[a] = s /\ \A b \in Actors \ {a} : sess'[b].at \notin Holding
      BY <1>0, <1>1, <2>2, StepAlone
    <2>5. SparesKernels(s)' /\ CopiesSafely(s)' /\ WritesBootable(s)'
      BY <1>2, <2>1, <2>2, <2>3
      DEF SparesKernels, CopiesSafely, WritesBootable, Staging, Default
    <2>6. SessionsSafe'
      BY <2>4, <2>5, SafeAlone
    <2>7. TornExplained'
      BY <1>6, <2>1 DEF TornExplained
    <2>8. KernelsKept'
      BY <1>2, <1>5, <2>1
      DEF WritesBootable, KernelsKept, RunningKernelKept, DefaultHasKernel, ConfigBrokenOnlyByFault
    <2> QED
      BY <2>6, <2>7, <2>8
  <1>13. CASE Retain(a)
    <2> DEFINE conf == [boot |-> boot, menu |-> menu \ Gone(Purge(a))]
    <2>1. /\ sess[a].at = "retain" /\ UNCHANGED <<running, loader, up, cut, faults>>
          /\ file' = Without(Purge(a)) /\ Purge(a) \cap sess[a].keep = {}
      BY <1>13, HalfPurgeSpares DEF Retain
    <2>2. running \in sess[a].keep /\ Default \subseteq sess[a].keep
      BY <1>2, <2>1 DEF SparesKernels
    <2>3. /\ file'[running] = file[running]
          /\ boot # Broken => file'[boot] = file[boot]
          /\ \A v \in Versions : file'[v] \in {file[v], "absent"}
      BY <1>0, <1>5, <2>1, <2>2, PurgeKeeps
    <2>4. \/ Rewrite(a, sess[a], conf, "done") /\ boot' = Broken
          \/ End(a, "ok") /\ UNCHANGED <<boot, menu>>
      BY <1>13 DEF Retain, Rewrite
    <2>5. boot # Broken => /\ file'[boot] # "absent" /\ (loader = "menu" => boot \in menu)
      BY <1>0, <2>3 DEF KernelsKept, DefaultHasKernel
    <2>6. boot # Broken /\ boot \in menu => boot \in conf.menu
      BY <1>5 DEF Gone, Default
    <2>7. boot = Broken => faults > 0
      BY <1>7, <2>1
    <2>8. TornExplained'
      BY <1>6, <2>1, <2>3 DEF TornExplained
    <2>9. CASE Rewrite(a, sess[a], conf, "done") /\ boot' = Broken
      <3>1. PICK s : /\ Become(a, s) /\ s.at = "rewriting" /\ s.then = "done" /\ s.conf = conf
                     /\ s.keep = sess[a].keep /\ s.v = sess[a].v
        BY <1>0, <1>1, <2>9, StepLeads
      <3>2. sess'[a] = s /\ \A b \in Actors \ {a} : sess'[b].at \notin Holding
        BY <1>0, <1>1, <3>1, StepAlone
      <3>3. s.conf.boot = boot /\ s.conf.menu = conf.menu
        BY <3>1
      <3> HIDE DEF conf
      <3>4. SparesKernels(s)' /\ CopiesSafely(s)'
        BY <1>2, <2>1, <3>1 DEF SparesKernels, CopiesSafely, Staging
      <3>5. WritesBootable(s)'
        BY <2>1, <2>5, <2>6, <2>7, <3>3 DEF WritesBootable
      <3>6. SessionsSafe'
        BY <3>2, <3>4, <3>5, SafeAlone
      <3>7. KernelsKept'
        BY <1>5, <2>1, <2>3, <2>9, <3>1, <3>2
        DEF KernelsKept, RunningKernelKept, DefaultHasKernel, ConfigBrokenOnlyByFault
      <3> QED
        BY <2>8, <3>6, <3>7
    <2>10. CASE End(a, "ok") /\ UNCHANGED <<boot, menu>>
      <3>1. PICK s : Become(a, s) /\ s.at = "done"
        BY <1>0, <1>1, <2>10, StepLeads
      <3>2. sess'[a] = s /\ \A b \in Actors \ {a} : sess'[b].at \notin Holding
        BY <1>0, <1>1, <3>1, StepAlone
      <3>3. SparesKernels(s)' /\ CopiesSafely(s)' /\ WritesBootable(s)'
        BY <3>1 DEF SparesKernels, CopiesSafely, WritesBootable, Staging
      <3>4. SessionsSafe'
        BY <3>2, <3>3, SafeAlone
      <3>5. KernelsKept'
        BY <1>5, <2>1, <2>3, <2>5, <2>7, <2>10
        DEF KernelsKept, RunningKernelKept, DefaultHasKernel, ConfigBrokenOnlyByFault
      <3> QED
        BY <2>8, <3>4, <3>5
    <2> QED
      BY <2>4, <2>9, <2>10
  <1> QED
    BY <1>8, <1>9, <1>10, <1>11, <1>12, <1>13 DEF SessionStep
\* What an interrupted purge has deleted is neither the running kernel nor the
\* default's, and whoever purges is alone.
HalfSpares(removed) ==
    /\ removed \subseteq Present /\ running \notin removed /\ boot \notin removed
    /\ removed # {} => \E a \in Actors : sess[a].at \in {"room", "retain"}

LEMMA InterruptedSpares ==
    ASSUME LockInv, SessionsSafe, NEW a \in Actors, NEW removed \in HalfPurges(a) \cup {{}}
    PROVE  HalfSpares(removed) /\ (removed # {} => sess[a].at \in {"room", "retain"})
  <1>1. removed \subseteq Present \ sess[a].keep
    BY HalfPurgeSpares
  <1>2. removed # {} => sess[a].at \in {"room", "retain"}
    BY HalfPurgeSpares
  <1>3. sess[a].at \in {"room", "retain"} => running \in sess[a].keep /\ Default \subseteq sess[a].keep
    BY DEF SessionsSafe, SparesKernels, Staging
  <1>4. Present \subseteq Versions
    BY DEF Present
  <1> QED
    BY <1>1, <1>2, <1>3, <1>4 DEF HalfSpares, Default

\* A session that ends, fails or is killed leaves what it wrote; a kernel it
\* was copying is known to be cut.
LEMMA StoreInvClosing ==
    ASSUME StoreInv, NEW a \in Actors, Closing(a)
    PROVE  SessionsSafe' /\ TornExplained' /\ KernelsKept'
  <1>0. LockInv /\ StoreTypeOK /\ SessionsSafe /\ TornExplained /\ KernelsKept
    BY DEF StoreInv, SpaceInv, LockInv, KernelsKept
  <1>1. UNCHANGED <<boot, menu, running, loader, up>>
    BY DEF Closing, Finish, IOError, Killed
  <1>2. \/ sess[a].at = "done" /\ UNCHANGED <<cut, faults>>
        \/ cut' = cut \cup Copying(a) /\ faults' = faults + 1
    BY DEF Closing, Finish, IOError, Killed
  <1>10. PICK removed \in HalfPurges(a) \cup {{}} : file' = Without(removed)
    <2>1. Without({}) = file
      BY <1>0 DEF Without, StoreTypeOK
    <2> QED
      BY <2>1 DEF Closing, Finish, IOError, Killed
  <1>11. HalfSpares(removed) /\ (removed # {} => sess[a].at \in {"room", "retain"})
    BY <1>0, <1>10, InterruptedSpares
  <1>12. /\ \A v \in Versions : file'[v] \in {file[v], "absent"}
         /\ file'[running] = file[running]
         /\ boot # Broken => file'[boot] = file[boot]
    BY <1>0, <1>10, <1>11 DEF HalfSpares, Without, StoreTypeOK
  <1>3. PICK s : Become(a, s) /\ s.at \in {"idle", "done"}
    <2>1. IdleSession.at = "idle"
      BY DEF IdleSession, NewSession
    <2>2. ASSUME NEW o, End(a, o) PROVE \E s : Become(a, s) /\ s.at \in {"idle", "done"}
      <3>1. [sess[a] EXCEPT !.at = "done", !.outcome = o].at = "done"
        BY <1>0 DEF StoreTypeOK, Session
      <3> QED
        BY <2>2, <3>1 DEF End
    <2> QED
      BY <2>1, <2>2 DEF Closing, Finish, IOError, Killed
  <1>4. sess'[a] = s /\ \A b \in Actors \ {a} : sess'[b] = sess[b]
    BY <1>0, <1>3, OthersKept
  <1>5. faults \in Nat /\ cut \subseteq cut' /\ faults' \in {faults, faults + 1}
    BY <1>0, <1>2 DEF StoreTypeOK
  <1>6. SessionsSafe'
    <2>1. SparesKernels(s)' /\ CopiesSafely(s)' /\ WritesBootable(s)'
      BY <1>3 DEF SparesKernels, CopiesSafely, WritesBootable, Staging
    <2>2. ASSUME NEW b \in Actors \ {a}
          PROVE  SparesKernels(sess[b])' /\ CopiesSafely(sess[b])' /\ WritesBootable(sess[b])'
      <3>1. SparesKernels(sess[b]) /\ CopiesSafely(sess[b]) /\ WritesBootable(sess[b])
        BY <1>0 DEF SessionsSafe
      <3>2. CASE removed = {}
        <4>1. file' = file
          BY <1>0, <1>10, <3>2 DEF Without, StoreTypeOK
        <4> QED
          BY <1>1, <1>4, <1>5, <3>1, <4>1 DEF SparesKernels, CopiesSafely, WritesBootable, Default
      <3>3. CASE removed # {}
        <4>1. sess'[b].at \in {"idle", "done"}
          BY <1>0, <1>4, <1>11, <2>2, <3>3 DEF LockInv, OneHolder, StoreTypeOK, Session, Holding
        <4> QED
          BY <1>4, <4>1 DEF SparesKernels, CopiesSafely, WritesBootable, Staging
      <3> QED
        BY <3>2, <3>3
    <2> QED
      BY <1>4, <2>1, <2>2 DEF SessionsSafe
  <1>7. TornExplained'
    <2>1. ASSUME NEW v \in Versions, file[v] = "torn", v \notin cut'
          PROVE  \E b \in Actors : sess'[b].at = "copying" /\ sess'[b].v = v
      <3>1. PICK b \in Actors : sess[b].at = "copying" /\ sess[b].v = v
        BY <1>0, <1>5, <2>1 DEF TornExplained
      <3>2. b # a
        BY <1>2, <2>1, <3>1 DEF Copying
      <3> QED
        BY <1>4, <3>1, <3>2
    <2> QED
      BY <1>12, <2>1 DEF TornExplained
  <1>8. ConfigBrokenOnlyByFault'
    <2>1. CASE sess[a].at = "done" /\ UNCHANGED <<cut, faults>>
      <3>1. \A b \in Actors : sess[b].at = "rewriting" => sess'[b] = sess[b]
        BY <1>4, <2>1
      <3> QED
        BY <1>0, <1>1, <2>1, <3>1 DEF KernelsKept, ConfigBrokenOnlyByFault
    <2>2. CASE faults' = faults + 1
      BY <1>5, <2>2 DEF ConfigBrokenOnlyByFault
    <2> QED
      BY <1>2, <2>1, <2>2
  <1>9. KernelsKept'
    BY <1>0, <1>1, <1>8, <1>12
    DEF KernelsKept, RunningKernelKept, DefaultHasKernel
  <1> QED
    BY <1>6, <1>7, <1>9

\* Power loss: what may be lost is known to be cut, and the running kernel only
\* when its reissue was just written.
LEMMA StoreInvDown ==
    ASSUME StoreInv, NEW lost \in SUBSET Unsynced, HostDown(lost),
           faults < MaxFaults, faults' = faults + 1
    PROVE  SessionsSafe' /\ TornExplained' /\ KernelsKept'
  <1>0. LockInv /\ StoreTypeOK /\ SessionsSafe /\ TornExplained /\ KernelsKept
    BY DEF StoreInv, SpaceInv, LockInv, KernelsKept
  <1>8. PICK c \in Actors : \E S \in HalfPurges(c) :
            file' = [v \in Versions |-> IF v \in lost THEN "torn" ELSE Without(S)[v]]
    BY DEF HostDown
  <1>9. PICK removed \in HalfPurges(c) :
            file' = [v \in Versions |-> IF v \in lost THEN "torn" ELSE Without(removed)[v]]
    BY <1>8
  <1>10. HalfSpares(removed)
    BY <1>0, InterruptedSpares
  <1>1. /\ UNCHANGED <<boot, menu, running, loader>>
        /\ \A v \in Versions : file'[v] = IF v \in lost THEN "torn"
                                           ELSE IF v \in removed THEN "absent" ELSE file[v]
        /\ cut' = cut \cup lost \cup UNION {Copying(b) : b \in Actors}
    BY <1>9 DEF HostDown, Without
  <1>2. \A a \in Actors : sess'[a].at = "idle"
    BY DEF HostDown, IdleSession, NewSession
  <1>3. /\ running \in Versions /\ file[running] # "absent"
        /\ running \in lost \/ file[running] = "torn" => running \in Reissued
    <2>1. running \in lost => running \in Reissued
      BY <1>0 DEF Unsynced, SessionsSafe, CopiesSafely, Staging
    <2> QED
      BY <1>0, <2>1 DEF StoreTypeOK, KernelsKept, RunningKernelKept
  <1>4. faults' > 0
    BY <1>0 DEF StoreTypeOK
  <1>5. SessionsSafe'
    BY <1>2 DEF SessionsSafe, SparesKernels, CopiesSafely, WritesBootable, Staging
  <1>6. TornExplained'
    <2>1. ASSUME NEW v \in Versions, file'[v] = "torn" PROVE v \in cut'
      <3>1. CASE v \in lost
        BY <1>1, <3>1
      <3>2. CASE v \notin lost
        <4>1. v \in cut \/ \E b \in Actors : v \in Copying(b)
          BY <1>0, <1>1, <2>1, <3>2 DEF TornExplained, Copying
        <4> QED
          BY <1>1, <4>1
      <3> QED
        BY <3>1, <3>2
    <2> QED
      BY <2>1 DEF TornExplained
  <1>7. boot \in Versions \cup {Broken}
    BY <1>0 DEF StoreTypeOK
  <1>11. KernelsKept'
    <2>1. RunningKernelKept'
      BY <1>1, <1>3, <1>10 DEF RunningKernelKept, HalfSpares
    <2>2. DefaultHasKernel'
      BY <1>0, <1>1, <1>7, <1>10 DEF KernelsKept, DefaultHasKernel, HalfSpares
    <2>4. ConfigBrokenOnlyByFault'
      BY <1>4 DEF ConfigBrokenOnlyByFault
    <2> QED
      BY <2>1, <2>2, <2>4 DEF KernelsKept
  <1> QED
    BY <1>5, <1>6, <1>11

\* The host comes up on a kernel that is whole; no session was open.
LEMMA StoreInvBoot ==
    ASSUME StoreInv, NEW v \in Versions, BootInto(v)
    PROVE  SessionsSafe' /\ TornExplained' /\ KernelsKept'
  <1>0. LockInv /\ StoreTypeOK /\ TornExplained /\ KernelsKept
    BY DEF StoreInv, SpaceInv, LockInv, KernelsKept
  <1>1. UNCHANGED <<file, boot, menu, loader, sess, cut, faults>> /\ running' = v /\ file[v] = "whole"
    BY DEF BootInto
  <1>2. \A a \in Actors : sess[a].at = "idle"
    BY <1>0 DEF BootInto, LockInv, DownIdle
  <1>3. SessionsSafe'
    BY <1>1, <1>2 DEF SessionsSafe, SparesKernels, CopiesSafely, WritesBootable, Staging
  <1>4. TornExplained' /\ KernelsKept'
    BY <1>0, <1>1 DEF TornExplained, KernelsKept, RunningKernelKept, DefaultHasKernel,
                      ConfigBrokenOnlyByFault
  <1> QED
    BY <1>3, <1>4

LEMMA StoreInvNext == StoreInv /\ [StoreNext]_storeVars => StoreInv'
  <1> SUFFICES ASSUME StoreInv, [StoreNext]_storeVars PROVE StoreInv'
    OBVIOUS
  <1>1. SpaceInv'
    BY SpaceInvNext DEF StoreInv, HandNext
  <1>2. SessionsSafe' /\ TornExplained' /\ KernelsKept'
    <2>1. CASE StoreNext
      BY <2>1, StoreSteps, StoreInvOpening, StoreInvSession, StoreInvClosing, StoreInvDown, StoreInvBoot
      DEF StoreInv, SpaceInv, LockInv
    <2>2. CASE UNCHANGED storeVars
      BY <2>2 DEF storeVars, StoreInv, SessionsSafe, SparesKernels, CopiesSafely, WritesBootable,
                  Default, TornExplained, KernelsKept, RunningKernelKept, DefaultHasKernel,
                  ConfigBrokenOnlyByFault
    <2> QED
      BY <2>1, <2>2
  <1> QED
    BY <1>1, <1>2 DEF StoreInv, KernelsKept

LEMMA StoreInvariant == StoreSpec => []StoreInv
  BY StoreInvInit, StoreInvNext, PTL DEF StoreSpec

\* "The old kernel is always kept": no purge, copy, crash or power loss takes
\* the file of the running kernel (purge.go, protectedSet), and none cuts it but
\* nodectl's replacement of a reissued one (staging.go).
THEOREM RunningKernelSafe == StoreSpec => []RunningKernelKept
  <1>1. StoreInv => RunningKernelKept
    BY DEF StoreInv
  <1> QED
    BY StoreInvariant, <1>1, PTL

\* The kernel that boots by default has its file and, in a menu, its entry,
\* whoever purges, stages or re-points, and wherever they are interrupted.
THEOREM DefaultKernelSafe == StoreSpec => []DefaultHasKernel
  <1>1. StoreInv => DefaultHasKernel
    BY DEF StoreInv
  <1> QED
    BY StoreInvariant, <1>1, PTL

\* A default on a partial kernel is a fault's doing, or nodectl's, replacing it:
\* the flock keeps a re-point off a kernel that is still being copied.
THEOREM DefaultKernelWhole == StoreSpec => []DefaultWholeUnlessCut
  BY StoreInvariant, DefaultWhole, PTL

\* copyOver (bootloader.go): a config that names nothing is being written, or a
\* fault interrupted a write.
THEOREM ConfigReadable == StoreSpec => []ConfigBrokenOnlyByFault
  <1>1. StoreInv => ConfigBrokenOnlyByFault
    BY DEF StoreInv
  <1> QED
    BY StoreInvariant, <1>1, PTL
=============================================================================
