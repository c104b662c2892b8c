---------------------------- MODULE LeaderLease -----------------------------
(***************************************************************************)
(* The Leaser of internal/engine/lease.go and the part of Engine.Cycle     *)
(* that consults it.  Every pod repeats Sync: sample the clock, GET the    *)
(* lease, then renew, take over or create it with an optimistic write, and *)
(* after a 409 re-read it (classify).  Each API call is a step of its own, *)
(* so the pods' syncs interleave call by call and time passes in between.  *)
(*                                                                         *)
(* resourceVersion is abstracted to rvCurrent[p]: no other writer touched  *)
(* the object since p read it.  The pods' clocks are one clock.            *)
(***************************************************************************)
EXTENDS Integers

CONSTANTS
    Pods,            \* pod identities
    NoHolder,        \* the lease object does not exist
    RenewInterval,   \* LeaseRenewInterval (10 s)
    StaleAfter,      \* LeaseStaleAfter (30 s)
    MaxClock,        \* bound on time
    MaxFaults        \* bound on failed calls, crashes and foreign writes

ASSUME PodsAssumption == NoHolder \notin Pods
ASSUME TimesAssumption ==
    /\ RenewInterval \in Nat /\ StaleAfter \in Nat
    /\ RenewInterval <= StaleAfter
ASSUME BoundsAssumption ==
    MaxClock \in Nat /\ MaxFaults \in Nat

VARIABLES
    clock,           \* now
    holder,          \* Spec.HolderIdentity, NoHolder when there is no lease
    renewTime,       \* Spec.RenewTime
    rvCurrent,       \* is the resourceVersion pod p last read still current?
    pc,              \* the call pod p is about to make
    now,             \* the `now` pod p sampled at the start of its Sync
    lastRenewed,     \* Leaser.lastRenewed
    amLeader,        \* Leaser.amLeader
    faults,          \* faults so far
    heldAt,          \* history: the last moment pod p was the holder
    outsiders        \* history: has anybody but the pods written the lease?

apiVars == <<holder, renewTime, rvCurrent>>
memVars == <<pc, now, lastRenewed, amLeader>>
vars == <<clock, apiVars, memVars, faults, heldAt, outsiders>>

Steps == {"down", "idle", "get", "renew", "takeover", "create", "classify"}

\* The zero time.Time of a fresh Leaser: further back than any deadline.
Never == -(StaleAfter + 1)

TypeOK ==
    /\ clock \in Nat
    /\ holder \in Pods \cup {NoHolder}
    /\ renewTime \in Nat
    /\ rvCurrent \in [Pods -> BOOLEAN]
    /\ pc \in [Pods -> Steps]
    /\ now \in [Pods -> Nat]
    /\ lastRenewed \in [Pods -> Int]
    /\ amLeader \in [Pods -> BOOLEAN]
    /\ faults \in Nat
    /\ heldAt \in [Pods -> Int]
    /\ outsiders \in BOOLEAN

Init ==
    /\ clock = 0
    /\ holder = NoHolder
    /\ renewTime = 0
    /\ rvCurrent = [p \in Pods |-> FALSE]
    /\ pc = [p \in Pods |-> "idle"]
    /\ now = [p \in Pods |-> 0]
    /\ lastRenewed = [p \in Pods |-> Never]
    /\ amLeader = [p \in Pods |-> FALSE]
    /\ faults = 0
    /\ heldAt = [p \in Pods |-> Never]
    /\ outsiders = FALSE

-----------------------------------------------------------------------------
\* Mutants of freshHolder: stale one moment early; never stale.
FreshHolderStrict(p)  == now[p] - renewTime < StaleAfter
FreshHolderForever(p) == holder # NoHolder

\* freshHolder, at the time pod p sampled.
FreshHolder(p) == now[p] - renewTime <= StaleAfter

\* Mutant: the belief has no deadline.
CanDecideForever(p) == amLeader[p]

\* Leader() / CanDecide(): the local belief, within the renewal deadline.
CanDecide(p) == amLeader[p] /\ clock - lastRenewed[p] <= StaleAfter

\* A call that fails consumes one of the bounded faults.
Fault == faults < MaxFaults /\ faults' = faults + 1

\* The conditional write of pod p reaches the API server.
WriteLease(p) ==
    /\ holder' = p
    /\ renewTime' = now[p]
    /\ rvCurrent' = [q \in Pods |-> FALSE]
    /\ heldAt' = [heldAt EXCEPT ![p] = clock]

\* Sync returns; the pod sleeps until its next cycle.
Return(p, leader, renewed) ==
    /\ pc' = [pc EXCEPT ![p] = "idle"]
    /\ amLeader' = [amLeader EXCEPT ![p] = leader]
    /\ lastRenewed' = [lastRenewed EXCEPT ![p] = renewed]
    /\ now' = [now EXCEPT ![p] = 0]

\* Sync goes on with another API call.
Goto(p, step) ==
    /\ pc' = [pc EXCEPT ![p] = step]
    /\ UNCHANGED <<now, lastRenewed, amLeader>>

-----------------------------------------------------------------------------
\* Sync: now := l.now().
SyncBegin(p) ==
    /\ pc[p] = "idle"
    /\ now' = [now EXCEPT ![p] = clock]
    /\ pc' = [pc EXCEPT ![p] = "get"]
    /\ UNCHANGED <<clock, apiVars, lastRenewed, amLeader, faults, heldAt, outsiders>>

\* GetLease failed: keep the previous belief.
GetError(p) ==
    /\ pc[p] = "get"
    /\ Fault
    /\ Return(p, amLeader[p], lastRenewed[p])
    /\ UNCHANGED <<clock, apiVars, heldAt, outsiders>>

\* GetLease answered: dispatch on who holds the lease and how fresh it is.
GetOK(p) ==
    /\ pc[p] = "get"
    /\ \/ /\ holder = p
          /\ now[p] - lastRenewed[p] < RenewInterval
          /\ Return(p, TRUE, lastRenewed[p])
       \/ /\ holder = p
          /\ now[p] - lastRenewed[p] >= RenewInterval
          /\ Goto(p, "renew")
       \/ /\ holder \notin {p, NoHolder}
          /\ FreshHolder(p)
          /\ Return(p, FALSE, lastRenewed[p])
       \/ /\ holder \notin {p, NoHolder}
          /\ ~FreshHolder(p)
          /\ Goto(p, "takeover")
       \/ /\ holder = NoHolder
          /\ Goto(p, "create")
    /\ rvCurrent' = [rvCurrent EXCEPT
                         ![p] = IF pc'[p] \in {"renew", "takeover"} THEN TRUE ELSE FALSE]
    /\ UNCHANGED <<clock, holder, renewTime, faults, heldAt, outsiders>>

\* Mutant: the update carries no resourceVersion.
AcceptedUnconditionally(p) ==
    IF pc[p] = "create" THEN holder = NoHolder ELSE holder # NoHolder

\* The write precondition the API server checks: an update needs the
\* resourceVersion that was read, a create needs the lease to be absent.
Accepted(p) ==
    IF pc[p] = "create" THEN holder = NoHolder
                        ELSE holder # NoHolder /\ rvCurrent[p]

\* The write succeeds and the pod learns it.
WriteOK(p) ==
    /\ pc[p] \in {"renew", "takeover", "create"}
    /\ Accepted(p)
    /\ WriteLease(p)
    /\ Return(p, TRUE, now[p])
    /\ UNCHANGED <<clock, faults, outsiders>>

\* What the three writes leave in amLeader on an error other than a 409:
\* a failed renewal keeps the belief, a failed takeover does not touch it,
\* a failed create clears it.
LeaderAfterError(p) == pc[p] # "create" /\ amLeader[p]

\* The write is applied but its response is lost on the way back.
WriteLost(p) ==
    /\ pc[p] \in {"renew", "takeover", "create"}
    /\ Accepted(p)
    /\ Fault
    /\ WriteLease(p)
    /\ Return(p, LeaderAfterError(p), lastRenewed[p])
    /\ UNCHANGED <<clock, outsiders>>

\* The write is applied, the server answers 5xx, and the client's retry of
\* the same body meets its own write as a 409.
WriteRetried(p) ==
    /\ pc[p] \in {"renew", "takeover", "create"}
    /\ Accepted(p)
    /\ Fault
    /\ WriteLease(p)
    /\ Goto(p, "classify")
    /\ UNCHANGED <<clock, outsiders>>

\* The write is not applied: the call fails, or an update finds the lease
\* deleted (404).
WriteError(p) ==
    /\ pc[p] \in {"renew", "takeover", "create"}
    /\ \/ Fault
       \/ pc[p] # "create" /\ holder = NoHolder /\ UNCHANGED faults
    /\ Return(p, LeaderAfterError(p), lastRenewed[p])
    /\ UNCHANGED <<clock, apiVars, heldAt, outsiders>>

\* 409: somebody else wrote the lease first.
WriteConflict(p) ==
    /\ pc[p] \in {"renew", "takeover", "create"}
    /\ holder # NoHolder
    /\ ~Accepted(p)
    /\ Goto(p, "classify")
    /\ UNCHANGED <<clock, apiVars, faults, heldAt, outsiders>>

\* classify: re-read the lease after the 409 and settle the belief.
Classify(p) ==
    /\ pc[p] = "classify"
    /\ LET own == holder = p /\ FreshHolder(p)
       IN  Return(p, own, IF own THEN now[p] ELSE lastRenewed[p])
    /\ UNCHANGED <<clock, apiVars, faults, heldAt, outsiders>>

\* The re-read fails or finds no lease.
ClassifyError(p) ==
    /\ pc[p] = "classify"
    /\ Fault
    /\ Return(p, FALSE, lastRenewed[p])
    /\ UNCHANGED <<clock, apiVars, heldAt, outsiders>>

-----------------------------------------------------------------------------
\* The container dies in the middle of anything; its memory is lost.
Crash(p) ==
    /\ pc[p] # "down"
    /\ Fault
    /\ pc' = [pc EXCEPT ![p] = "down"]
    /\ amLeader' = [amLeader EXCEPT ![p] = FALSE]
    /\ lastRenewed' = [lastRenewed EXCEPT ![p] = Never]
    /\ now' = [now EXCEPT ![p] = 0]
    /\ UNCHANGED <<clock, apiVars, heldAt, outsiders>>

\* kubelet restarts the container; the pod, and so its identity, is the same.
Restart(p) ==
    /\ pc[p] = "down"
    /\ pc' = [pc EXCEPT ![p] = "idle"]
    /\ UNCHANGED <<clock, apiVars, now, lastRenewed, amLeader, faults, heldAt, outsiders>>

\* Somebody else edits the Lease object without changing holder or time.
ForeignEdit ==
    /\ Fault
    /\ holder # NoHolder
    /\ rvCurrent' = [p \in Pods |-> FALSE]
    /\ outsiders' = TRUE
    /\ UNCHANGED <<clock, holder, renewTime, memVars, heldAt>>

\* Somebody else deletes the Lease object.
ForeignDelete ==
    /\ Fault
    /\ holder # NoHolder
    /\ holder' = NoHolder
    /\ renewTime' = 0
    /\ rvCurrent' = [p \in Pods |-> FALSE]
    /\ outsiders' = TRUE
    /\ UNCHANGED <<clock, memVars, heldAt>>

\* Time passes; the holder is still the holder.
Tick ==
    /\ clock < MaxClock
    /\ clock' = clock + 1
    /\ heldAt' = [p \in Pods |-> IF p = holder THEN clock + 1 ELSE heldAt[p]]
    /\ UNCHANGED <<apiVars, memVars, faults, outsiders>>

Sync(p) ==
    \/ SyncBegin(p)
    \/ GetOK(p)
    \/ WriteOK(p)
    \/ WriteConflict(p)
    \/ Classify(p)

Failure(p) ==
    \/ GetError(p)
    \/ WriteLost(p)
    \/ WriteRetried(p)
    \/ WriteError(p)
    \/ ClassifyError(p)
    \/ Crash(p)

Next ==
    \/ \E p \in Pods : Sync(p) \/ Failure(p) \/ Restart(p)
    \/ ForeignEdit
    \/ ForeignDelete
    \/ Tick

Spec == Init /\ [][Next]_vars

\* Engine.Run calls Cycle every two seconds for ever, and every cycle of a
\* reachable API server syncs: a pod never stops between two calls.
FairSpec ==
    Spec /\ \A p \in Pods : WF_vars(Sync(p)) /\ WF_vars(WriteError(p) /\ UNCHANGED faults)
-----------------------------------------------------------------------------
(***************************************************************************)
(* Properties.                                                             *)
(***************************************************************************)
Deciders == {p \in Pods : CanDecide(p)}

\* At most one pod passes CanDecide at any time, however the syncs, lost
\* responses and restarts interleave, as long as nobody but the pods has
\* written the Lease object.
AtMostOneDecider ==
    ~outsiders => \A p, q \in Pods : CanDecide(p) /\ CanDecide(q) => p = q

\* Even when others edit or delete the lease, a pod that still passes
\* CanDecide was the lease holder within the last StaleAfter: the window in
\* which a deposed leader may start a cycle is bounded.
DeciderHeldRecently ==
    \A p \in Pods : CanDecide(p) => clock - heldAt[p] <= StaleAfter

\* A pod takes the lease from another pod only when that lease has been
\* stale for more than StaleAfter at the moment of the write, not merely when
\* it was read.
NoStealing ==
    [][ /\ holder # NoHolder /\ holder' # NoHolder
        /\ holder' # holder
        => clock - renewTime > StaleAfter ]_holder

\* The recorded renewTime of an existing lease never goes back, although
\* every write carries a time sampled before two earlier API calls.
RenewTimeMonotone ==
    [][ holder # NoHolder /\ holder' # NoHolder
        => renewTime' >= renewTime ]_renewTime

\* A dead holder keeps the lease only until it is stale: as long as another pod
\* stays up, that lease changes hands (or its holder comes back).
DeadHolderReplaced ==
    \A p, q \in Pods :
        (/\ holder = p /\ pc[p] = "down" /\ clock - renewTime > StaleAfter
         /\ pc[q] # "down")
            ~> (holder # p \/ pc[p] # "down" \/ pc[q] = "down")

\* The lease protocol implements the abstract election: a new holder appears
\* only once the former one has stopped deciding.  The first write by somebody
\* else ends the promise: it maps to Interfere, and nothing is claimed after it.
Election == INSTANCE LeaderElection
                WITH holder   <- IF outsiders THEN NoHolder ELSE holder,
                     deciders <- IF outsiders THEN {} ELSE Deciders
ImplementsElection == Election!Spec

-----------------------------------------------------------------------------
(***************************************************************************)
(* The inductive invariant behind AtMostOneDecider.                        *)
(***************************************************************************)
\* Pod p is in the middle of a Sync.
Syncing(p) == pc[p] \notin {"down", "idle"}

\* Recorded times are never in the future.
TimesPast ==
    /\ renewTime <= clock
    /\ \A p \in Pods : /\ now[p] <= clock
                       /\ Never <= heldAt[p] /\ heldAt[p] <= clock
                       /\ lastRenewed[p] <= heldAt[p]
                       /\ Syncing(p) => lastRenewed[p] <= now[p]
    /\ holder # NoHolder =>
         /\ heldAt[holder] = clock
         /\ Syncing(holder) => renewTime <= now[holder]

\* What a pod that is about to write still knows about the lease.
WriterKnows ==
    \A p \in Pods :
        /\ pc[p] = "renew" /\ rvCurrent[p] => holder = p
        /\ pc[p] = "renew" /\ ~rvCurrent[p] /\ ~outsiders => holder # p
        /\ pc[p] \in {"takeover", "create"} => holder # p
        /\ pc[p] = "takeover" /\ rvCurrent[p] =>
              holder # NoHolder /\ now[p] - renewTime > StaleAfter
        /\ pc[p] = "classify" /\ holder = p /\ ~outsiders =>
              renewTime = now[p]

\* A believing pod that is not the holder is past its deadline, and the
\* holder's own deadline never exceeds the one it published.
BeliefBounded ==
    ~outsiders =>
        \A p \in Pods :
            /\ holder = p => lastRenewed[p] <= renewTime
            /\ amLeader[p] => holder # NoHolder
            /\ amLeader[p] /\ holder # p => lastRenewed[p] + StaleAfter < clock

LeaseInv == TypeOK /\ TimesPast /\ WriterKnows /\ BeliefBounded
=============================================================================
