--------------------------- MODULE LeaderElection ---------------------------
(***************************************************************************)
(* What the leader lease promises the orchestrator, without time or API    *)
(* calls: the lease has at most one holder, only the holder may start a    *)
(* leader cycle, and the lease moves to another pod only after the former  *)
(* holder has stopped starting cycles.  LeaderLease implements this.       *)
(***************************************************************************)
CONSTANTS Pods,      \* controller pod identities "<pod-name>/<pod-uid>"
          NoHolder   \* no lease object

VARIABLES holder,    \* holderIdentity of the lease
          deciders   \* the pods whose CanDecide is true

vars == <<holder, deciders>>

Init == holder = NoHolder /\ deciders = {}

\* A pod creates the lease, takes it over or renews it.
Acquire(p) ==
    /\ deciders \subseteq {p}
    /\ holder' = p
    /\ deciders' = {p}

\* The holder writes the lease but does not learn that it did.
AcquireUnaware(p) ==
    /\ deciders \subseteq {p}
    /\ holder' = p
    /\ UNCHANGED deciders

\* The renewal deadline passes, or the deciding pod stops.
Lose == deciders' = {} /\ UNCHANGED holder

\* Somebody who is no pod writes the lease object: the election is void.
Interfere == holder' = NoHolder /\ deciders' = {}

Next == \/ \E p \in Pods : Acquire(p) \/ AcquireUnaware(p)
        \/ Lose
        \/ Interfere

Spec == Init /\ [][Next]_vars
=============================================================================
