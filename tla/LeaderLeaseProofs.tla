------------------------- MODULE LeaderLeaseProofs --------------------------
(***************************************************************************)
(* Proofs about LeaderLease for every set of pods and every interval.      *)
(***************************************************************************)
EXTENDS LeaderLease, TLAPS

USE PodsAssumption, TimesAssumption, BoundsAssumption

\* The initial state satisfies the inductive invariant: nobody believes
\* anything and there is no lease.
LEMMA LeaseInvInit == Init => LeaseInv
  <1> SUFFICES ASSUME Init PROVE LeaseInv
    OBVIOUS
  <1>1. TypeOK
    <2>1. Never \in Int
      BY DEF Never
    <2> QED
      BY <2>1 DEF Init, TypeOK, Steps
  <1>2. TimesPast
    BY DEF Init, TimesPast, Never, Syncing
  <1>3. WriterKnows /\ BeliefBounded
    BY DEF Init, WriterKnows, BeliefBounded
  <1> QED
    BY <1>1, <1>2, <1>3 DEF LeaseInv

\* Every step of Sync, every failure and every foreign write keeps it.
LEMMA LeaseInvNext == LeaseInv /\ [Next]_vars => LeaseInv'
  <1> SUFFICES ASSUME LeaseInv, [Next]_vars PROVE LeaseInv'
    OBVIOUS
  <1> USE DEF LeaseInv
  <1> USE DEF apiVars, memVars, Return, Goto, Fault, Syncing
  <1>1. ASSUME NEW p \in Pods, SyncBegin(p) PROVE LeaseInv'
    <2> USE <1>1 DEF SyncBegin
    <2>1. TypeOK'
      BY DEF TypeOK, Steps
    <2>2. TimesPast'
      BY DEF TypeOK, TimesPast, Never
    <2>3. WriterKnows'
      BY DEF TypeOK, TimesPast, WriterKnows
    <2>4. BeliefBounded'
      BY DEF TypeOK, TimesPast, WriterKnows, BeliefBounded
    <2> QED
      BY <2>1, <2>2, <2>3, <2>4
  <1>2. ASSUME NEW p \in Pods, GetOK(p) PROVE LeaseInv'
    <2> USE <1>2 DEF GetOK, FreshHolder
    <2>1. TypeOK'
      <3>1. rvCurrent' \in [Pods -> BOOLEAN]
        BY DEF TypeOK
      <3>2. pc' \in [Pods -> Steps] /\ now' \in [Pods -> Nat]
        BY DEF TypeOK, Steps
      <3>3. amLeader' \in [Pods -> BOOLEAN] /\ lastRenewed' \in [Pods -> Int]
        BY DEF TypeOK
      <3> QED
        BY <3>1, <3>2, <3>3 DEF TypeOK
    <2>2. TimesPast'
      BY DEF TypeOK, TimesPast, Never
    <2>3. WriterKnows'
      BY DEF TypeOK, TimesPast, WriterKnows
    <2>4. BeliefBounded'
      BY DEF TypeOK, TimesPast, WriterKnows, BeliefBounded
    <2> QED
      BY <2>1, <2>2, <2>3, <2>4
  <1>3. ASSUME NEW p \in Pods, WriteOK(p) PROVE LeaseInv'
    <2> USE <1>3 DEF WriteOK, Accepted, WriteLease
    <2>1. TypeOK'
      BY DEF TypeOK, Steps
    <2>2. TimesPast'
      BY DEF TypeOK, TimesPast, Never
    <2>3. WriterKnows'
      BY DEF TypeOK, TimesPast, WriterKnows
    <2>4. BeliefBounded'
      BY DEF TypeOK, TimesPast, WriterKnows, BeliefBounded
    <2> QED
      BY <2>1, <2>2, <2>3, <2>4
  <1>4. ASSUME NEW p \in Pods, WriteConflict(p) PROVE LeaseInv'
    <2> USE <1>4 DEF WriteConflict, Accepted
    <2>1. TypeOK'
      BY DEF TypeOK, Steps
    <2>2. TimesPast'
      BY DEF TypeOK, TimesPast, Never
    <2>3. WriterKnows'
      BY DEF TypeOK, TimesPast, WriterKnows
    <2>4. BeliefBounded'
      BY DEF TypeOK, TimesPast, WriterKnows, BeliefBounded
    <2> QED
      BY <2>1, <2>2, <2>3, <2>4
  <1>5. ASSUME NEW p \in Pods, Classify(p) PROVE LeaseInv'
    <2> USE <1>5 DEF Classify, FreshHolder
    <2>1. TypeOK'
      BY DEF TypeOK, Steps
    <2>2. TimesPast'
      BY DEF TypeOK, TimesPast, Never
    <2>3. WriterKnows'
      BY DEF TypeOK, TimesPast, WriterKnows
    <2>4. BeliefBounded'
      BY DEF TypeOK, TimesPast, WriterKnows, BeliefBounded
    <2> QED
      BY <2>1, <2>2, <2>3, <2>4
  <1>6. ASSUME NEW p \in Pods, GetError(p) PROVE LeaseInv'
    <2> USE <1>6 DEF GetError
    <2>1. TypeOK'
      BY DEF TypeOK, Steps
    <2>2. TimesPast'
      BY DEF TypeOK, TimesPast, Never
    <2>3. WriterKnows'
      BY DEF TypeOK, TimesPast, WriterKnows
    <2>4. BeliefBounded'
      BY DEF TypeOK, TimesPast, WriterKnows, BeliefBounded
    <2> QED
      BY <2>1, <2>2, <2>3, <2>4
  <1>7. ASSUME NEW p \in Pods, WriteLost(p) PROVE LeaseInv'
    <2> USE <1>7 DEF WriteLost, Accepted, WriteLease, LeaderAfterError
    <2>1. TypeOK'
      BY DEF TypeOK, Steps
    <2>2. TimesPast'
      BY DEF TypeOK, TimesPast, Never
    <2>3. WriterKnows'
      BY DEF TypeOK, TimesPast, WriterKnows
    <2>4. BeliefBounded'
      BY DEF TypeOK, TimesPast, WriterKnows, BeliefBounded
    <2> QED
      BY <2>1, <2>2, <2>3, <2>4
  <1>8. ASSUME NEW p \in Pods, WriteRetried(p) PROVE LeaseInv'
    <2> USE <1>8 DEF WriteRetried, Accepted, WriteLease
    <2>1. TypeOK'
      BY DEF TypeOK, Steps
    <2>2. TimesPast'
      BY DEF TypeOK, TimesPast, Never
    <2>3. WriterKnows'
      BY DEF TypeOK, TimesPast, WriterKnows
    <2>4. BeliefBounded'
      BY DEF TypeOK, TimesPast, WriterKnows, BeliefBounded
    <2> QED
      BY <2>1, <2>2, <2>3, <2>4
  <1>9. ASSUME NEW p \in Pods, WriteError(p) PROVE LeaseInv'
    <2> USE <1>9 DEF WriteError, LeaderAfterError
    <2>1. TypeOK'
      BY DEF TypeOK, Steps
    <2>2. TimesPast'
      BY DEF TypeOK, TimesPast, Never
    <2>3. WriterKnows'
      BY DEF TypeOK, TimesPast, WriterKnows
    <2>4. BeliefBounded'
      BY DEF TypeOK, TimesPast, WriterKnows, BeliefBounded
    <2> QED
      BY <2>1, <2>2, <2>3, <2>4
  <1>10. ASSUME NEW p \in Pods, ClassifyError(p) PROVE LeaseInv'
    <2> USE <1>10 DEF ClassifyError
    <2>1. TypeOK'
      BY DEF TypeOK, Steps
    <2>2. TimesPast'
      BY DEF TypeOK, TimesPast, Never
    <2>3. WriterKnows'
      BY DEF TypeOK, TimesPast, WriterKnows
    <2>4. BeliefBounded'
      BY DEF TypeOK, TimesPast, WriterKnows, BeliefBounded
    <2> QED
      BY <2>1, <2>2, <2>3, <2>4
  <1>11. ASSUME NEW p \in Pods, Crash(p) PROVE LeaseInv'
    <2> USE <1>11 DEF Crash
    <2>1. TypeOK'
      <3>1. Never \in Int
        BY DEF Never
      <3> QED
        BY <3>1 DEF TypeOK, Steps
    <2>2. TimesPast'
      BY DEF TypeOK, TimesPast, Never
    <2>3. WriterKnows'
      BY DEF TypeOK, TimesPast, WriterKnows
    <2>4. BeliefBounded'
      BY DEF TypeOK, TimesPast, WriterKnows, BeliefBounded, Never
    <2> QED
      BY <2>1, <2>2, <2>3, <2>4
  <1>12. ASSUME NEW p \in Pods, Restart(p) PROVE LeaseInv'
    <2> USE <1>12 DEF Restart
    <2>1. TypeOK'
      BY DEF TypeOK, Steps
    <2>2. TimesPast'
      BY DEF TypeOK, TimesPast, Never
    <2>3. WriterKnows'
      BY DEF TypeOK, TimesPast, WriterKnows
    <2>4. BeliefBounded'
      BY DEF TypeOK, TimesPast, WriterKnows, BeliefBounded
    <2> QED
      BY <2>1, <2>2, <2>3, <2>4
  <1>13. CASE ForeignEdit
    BY <1>13 DEF ForeignEdit, Never, TypeOK, TimesPast, WriterKnows, BeliefBounded
  <1>14. CASE ForeignDelete
    BY <1>14 DEF ForeignDelete, TypeOK, TimesPast, WriterKnows, BeliefBounded
  <1>15. CASE Tick
    BY <1>15 DEF Tick, Never, TypeOK, TimesPast, WriterKnows, BeliefBounded
  <1>16. CASE UNCHANGED vars
    BY <1>16 DEF vars, TypeOK, TimesPast, WriterKnows, BeliefBounded
  <1> QED
    BY <1>1, <1>2, <1>3, <1>4, <1>5, <1>6, <1>7, <1>8, <1>9, <1>10, <1>11,
       <1>12, <1>13, <1>14, <1>15, <1>16 DEF Next, Sync, Failure

\* The inductive invariant holds in every reachable state.
THEOREM LeaseInvariant == Spec => []LeaseInv
  BY LeaseInvInit, LeaseInvNext, PTL DEF Spec

\* CanDecide of lease.go is exclusive: until somebody else writes the lease, two
\* pods never pass it at once, whatever the number of pods, the intervals, the
\* interleaving of API calls, lost responses, client retries and restarts.
THEOREM MutualExclusion == Spec => []AtMostOneDecider
  <1>1. LeaseInv => AtMostOneDecider
    BY DEF LeaseInv, TypeOK, BeliefBounded, AtMostOneDecider, CanDecide
  <1> QED
    BY <1>1, LeaseInvariant, PTL

\* With or without outside writes, a pod that passes CanDecide was the lease
\* holder at most StaleAfter ago.
THEOREM BoundedBelief == Spec => []DeciderHeldRecently
  <1>1. LeaseInv => DeciderHeldRecently
    BY DEF LeaseInv, TypeOK, TimesPast, DeciderHeldRecently, CanDecide
  <1> QED
    BY <1>1, LeaseInvariant, PTL
\* The only writes of the lease are WriteLease(p) steps accepted by the API
\* server, and the deletion by an outsider.
LEMMA LeaseWrites ==
  ASSUME LeaseInv, [Next]_vars, <<holder, renewTime>>' # <<holder, renewTime>>
  PROVE  \/ \E p \in Pods : WriteOK(p) \/ WriteLost(p) \/ WriteRetried(p)
         \/ holder' = NoHolder /\ outsiders'
  BY DEF Next, Sync, Failure, vars, apiVars, memVars, SyncBegin, GetOK, WriteOK,
         WriteConflict, Classify, GetError, WriteLost, WriteRetried, WriteError,
         ClassifyError, Crash, Restart, ForeignEdit, ForeignDelete, Tick

\* Sync takes the lease from another pod only when it is stale at the moment
\* of the write.
THEOREM TakeoverOnlyWhenStale == Spec => NoStealing
  <1>1. LeaseInv /\ [Next]_vars =>
          [ /\ holder # NoHolder /\ holder' # NoHolder
            /\ holder' # holder
            => clock - renewTime > StaleAfter ]_holder
    <2> SUFFICES ASSUME LeaseInv, [Next]_vars, holder # NoHolder,
                        holder' # NoHolder, holder' # holder
                 PROVE  clock - renewTime > StaleAfter
      OBVIOUS
    <2>1. PICK p \in Pods : WriteOK(p) \/ WriteLost(p) \/ WriteRetried(p)
      BY LeaseWrites
    <2>2. /\ pc[p] \in {"renew", "takeover", "create"} /\ Accepted(p)
          /\ holder' = p /\ renewTime' = now[p]
      BY <2>1 DEF WriteOK, WriteLost, WriteRetried, WriteLease
    <2> QED
      BY <2>2 DEF Accepted, LeaseInv, TypeOK, TimesPast, WriterKnows
  <1> QED
    BY <1>1, LeaseInvariant, PTL DEF Spec, NoStealing

\* renewTime of an existing lease never decreases.
THEOREM RenewalsMonotone == Spec => RenewTimeMonotone
  <1>1. LeaseInv /\ [Next]_vars =>
          [ holder # NoHolder /\ holder' # NoHolder
            => renewTime' >= renewTime ]_renewTime
    <2> SUFFICES ASSUME LeaseInv, [Next]_vars, holder # NoHolder,
                        holder' # NoHolder, renewTime' # renewTime
                 PROVE  renewTime' >= renewTime
      OBVIOUS
    <2>1. PICK p \in Pods : WriteOK(p) \/ WriteLost(p) \/ WriteRetried(p)
      BY LeaseWrites
    <2>2. /\ pc[p] \in {"renew", "takeover", "create"} /\ Accepted(p)
          /\ holder' = p /\ renewTime' = now[p]
      BY <2>1 DEF WriteOK, WriteLost, WriteRetried, WriteLease
    <2> QED
      BY <2>2 DEF Accepted, LeaseInv, TypeOK, TimesPast, WriterKnows, Syncing
  <1> QED
    BY <1>1, LeaseInvariant, PTL DEF Spec, RenewTimeMonotone
\* An outsider's write is never forgotten.
LEMMA OnlyOutsidersInterfere ==
  ASSUME LeaseInv, [Next]_vars, outsiders
  PROVE  outsiders' = outsiders
  BY DEF Next, Sync, Failure, vars, apiVars, memVars, SyncBegin, GetOK, WriteOK,
         WriteConflict, Classify, GetError, WriteLost, WriteRetried, WriteError,
         ClassifyError, Crash, Restart, ForeignEdit, ForeignDelete, Tick, LeaseInv, TypeOK

\* Until somebody else writes the lease, only the lease holder can decide.
LEMMA OnlyHolderDecides ==
  ASSUME LeaseInv, ~outsiders
  PROVE  Deciders \subseteq {holder} /\ (Deciders # {} => holder \in Pods)
  BY DEF LeaseInv, TypeOK, BeliefBounded, Deciders, CanDecide

\* A pod whose write of the lease is accepted is the only one that could be
\* deciding, and if it was, it still is after the write.
LEMMA WriterDecidesAlone ==
  ASSUME LeaseInv, ~outsiders, NEW p \in Pods,
         WriteOK(p) \/ WriteLost(p) \/ WriteRetried(p)
  PROVE  Deciders \subseteq {p} /\ (p \in Deciders => p \in Deciders')
  <1>1. pc[p] \in {"renew", "takeover", "create"} /\ Accepted(p) /\ clock' = clock
    BY DEF WriteOK, WriteLost, WriteRetried
  <1>2. Deciders \subseteq {p}
    BY <1>1 DEF LeaseInv, TypeOK, TimesPast, WriterKnows, BeliefBounded, Deciders,
                CanDecide, Accepted
  <1>3. ASSUME p \in Deciders PROVE p \in Deciders'
    <2>1. pc[p] = "renew"
      BY <1>1, <1>3, OnlyHolderDecides DEF LeaseInv, WriterKnows
    <2>2. amLeader'[p] /\ lastRenewed'[p] \in {lastRenewed[p], now[p]}
      BY <1>3, <2>1 DEF WriteOK, WriteLost, WriteRetried, Return, Goto,
         LeaderAfterError, LeaseInv, TypeOK, Deciders, CanDecide
    <2> QED
      BY <1>1, <1>3, <2>1, <2>2 DEF LeaseInv, TypeOK, TimesPast, Deciders, CanDecide, Syncing
  <1> QED
    BY <1>2, <1>3

\* The lease protocol implements the abstract election, up to the first write by
\* somebody else.
THEOREM LeaseImplementsElection == Spec => ImplementsElection
  <1>1. Init => Election!Init
    BY DEF Init, Election!Init, Deciders, CanDecide
  <1>2. LeaseInv /\ LeaseInv' /\ [Next]_vars => [Election!Next]_(Election!vars)
    <2> SUFFICES ASSUME LeaseInv, LeaseInv', [Next]_vars
                 PROVE  [Election!Next]_(Election!vars)
      OBVIOUS
    <2>1. CASE outsiders
      <3>1. outsiders' = outsiders
        BY <2>1, OnlyOutsidersInterfere
      <3> QED
        BY <2>1, <3>1 DEF Election!vars
    <2>2. CASE ~outsiders /\ outsiders'
      BY <2>2 DEF Election!Next, Election!Interfere
    <2>3. CASE ~outsiders /\ ~outsiders'
      <3>1. Deciders' \subseteq {holder'} /\ (Deciders' # {} => holder' \in Pods)
        BY <2>3 DEF LeaseInv, TypeOK, BeliefBounded, Deciders, CanDecide
      <3>2. CASE holder' = holder
        <4>1. Deciders' = Deciders \/ Deciders' = {} \/ (Deciders' = {holder} /\ holder \in Pods /\ Deciders \subseteq {holder})
          BY <2>3, <3>1, <3>2, OnlyHolderDecides
        <4> QED
          BY <2>3, <3>2, <4>1 DEF Election!Next, Election!Acquire, Election!Lose, Election!vars
      <3>3. CASE holder' # holder
        <4>1. PICK p \in Pods : WriteOK(p) \/ WriteLost(p) \/ WriteRetried(p)
          BY <2>3, <3>3, LeaseWrites
        <4>2. holder' = p /\ Deciders \subseteq {p} /\ (p \in Deciders => p \in Deciders')
          BY <2>3, <4>1, WriterDecidesAlone DEF WriteOK, WriteLost, WriteRetried, WriteLease
        <4>3. Deciders' = Deciders \/ Deciders' = {p}
          BY <3>1, <4>2
        <4> QED
          BY <2>3, <4>2, <4>3 DEF Election!Next, Election!Acquire, Election!AcquireUnaware
      <3> QED
        BY <3>2, <3>3
    <2> QED
      BY <2>1, <2>2, <2>3
  <1> QED
    BY <1>1, <1>2, LeaseInvariant, PTL DEF Spec, ImplementsElection, Election!Spec
=============================================================================
