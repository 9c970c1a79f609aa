------------------------- MODULE LeaderLeaseProofs -------------------------
(***************************************************************************)
(* Proofs about LeaderLease, for every set of nodes, TTL and clock         *)
(* difference.                                                             *)
(*                                                                         *)
(* NoSplitBrain is not inductive: it follows from KnownExpiryIsSafe, which *)
(* needs two more facts.  A takeover compares expires_at with an instant   *)
(* that was read earlier, so that instant must not lie ahead of the        *)
(* node's clock (ReadInstantsArePast); and the race for the INSERT starts  *)
(* from a row that nobody owns (AbsentRowIsBlank).                         *)
(***************************************************************************)
EXTENDS LeaderLease, TLAPS

\* The `now` of a call in progress was read from the node's own clock.
ReadInstantsArePast == \A n \in Node : now[n] <= clock + offset[n]

\* A row that does not exist has no leader and no expiry.
AbsentRowIsBlank ==
  lease.version = 0 => lease.leader = NoOne /\ lease.expires_at = EPOCH

IInv == TypeOK /\ ReadInstantsArePast /\ AbsentRowIsBlank /\ KnownExpiryIsSafe

(* The initial states satisfy the inductive invariant: nothing is known yet. *)
LEMMA InitEstablishesIInv == Init => IInv
  BY LeaseAssumption
     DEF Init, IInv, TypeOK, ReadInstantsArePast, AbsentRowIsBlank,
         KnownExpiryIsSafe, Steps, EPOCH

(* Every statement of every call preserves the types of the row and of what *)
(* the nodes remember.                                                      *)
LEMMA StepPreservesTypes == TypeOK /\ [Next]_vars => TypeOK'
<1> SUFFICES ASSUME TypeOK, [Next]_vars PROVE TypeOK'
  OBVIOUS
<1> USE LeaseAssumption DEF TypeOK, Steps
<1>1. CASE Tick
  BY <1>1 DEF Tick
<1>2. ASSUME NEW n \in Node, AcquireCall(n) \/ RenewCall(n) \/ IsLeaderCall(n)
      PROVE  TypeOK'
  BY <1>2 DEF AcquireCall, RenewCall, IsLeaderCall, Call
<1>3. ASSUME NEW n \in Node, AcquireUpdate(n) PROVE TypeOK'
  BY <1>3 DEF AcquireUpdate, ReturnTrue, Goto
<1>4. ASSUME NEW n \in Node, AcquireGet(n) PROVE TypeOK'
  BY <1>4 DEF AcquireGet, ReturnTrue, ReturnFalse, Goto
<1>5. ASSUME NEW n \in Node, AcquireInsert(n) PROVE TypeOK'
  BY <1>5 DEF AcquireInsert, ReturnTrue, ReturnFalse, Goto
<1>6. ASSUME NEW n \in Node, RenewUpdate(n) PROVE TypeOK'
  BY <1>6 DEF RenewUpdate, ReturnTrue, ReturnFalse, Goto
<1>7. ASSUME NEW n \in Node, IsLeaderGet(n) PROVE TypeOK'
  BY <1>7 DEF IsLeaderGet, ReturnTrue, ReturnFalse, Goto
<1>8. ASSUME NEW n \in Node, Release(n) PROVE TypeOK'
  BY <1>8 DEF Release, EPOCH
<1>9. ASSUME NEW n \in Node, Crash(n) PROVE TypeOK'
  BY <1>9 DEF Crash
<1>10. CASE UNCHANGED vars
  BY <1>10 DEF vars
<1> QED
  BY <1>1, <1>2, <1>3, <1>4, <1>5, <1>6, <1>7, <1>8, <1>9, <1>10 DEF Next

(* Every step preserves the two facts about calls in progress and the       *)
(* missing row.                                                             *)
LEMMA StepPreservesCalls ==
  IInv /\ [Next]_vars => ReadInstantsArePast' /\ AbsentRowIsBlank'
<1> SUFFICES ASSUME IInv, [Next]_vars
             PROVE  ReadInstantsArePast' /\ AbsentRowIsBlank'
  OBVIOUS
<1> USE LeaseAssumption
    DEF IInv, TypeOK, ReadInstantsArePast, AbsentRowIsBlank
<1>1. CASE Tick
  BY <1>1 DEF Tick
<1>2. ASSUME NEW n \in Node, AcquireCall(n) \/ RenewCall(n) \/ IsLeaderCall(n)
      PROVE  ReadInstantsArePast' /\ AbsentRowIsBlank'
  BY <1>2 DEF AcquireCall, RenewCall, IsLeaderCall, Call
<1>3. ASSUME NEW n \in Node, AcquireUpdate(n)
      PROVE  ReadInstantsArePast' /\ AbsentRowIsBlank'
  BY <1>3 DEF AcquireUpdate, Exists
<1>4. ASSUME NEW n \in Node, AcquireGet(n)
      PROVE  ReadInstantsArePast' /\ AbsentRowIsBlank'
  BY <1>4 DEF AcquireGet
<1>5. ASSUME NEW n \in Node, AcquireInsert(n)
      PROVE  ReadInstantsArePast' /\ AbsentRowIsBlank'
  BY <1>5 DEF AcquireInsert
<1>6. ASSUME NEW n \in Node, RenewUpdate(n)
      PROVE  ReadInstantsArePast' /\ AbsentRowIsBlank'
  BY <1>6 DEF RenewUpdate
<1>7. ASSUME NEW n \in Node, IsLeaderGet(n) \/ Crash(n)
      PROVE  ReadInstantsArePast' /\ AbsentRowIsBlank'
  BY <1>7 DEF IsLeaderGet, Crash
<1>8. ASSUME NEW n \in Node, Release(n)
      PROVE  ReadInstantsArePast' /\ AbsentRowIsBlank'
  BY <1>8 DEF Release
<1>9. CASE UNCHANGED vars
  BY <1>9 DEF vars
<1> QED
  BY <1>1, <1>2, <1>3, <1>4, <1>5, <1>6, <1>7, <1>8, <1>9 DEF Next

(* Every step keeps what the nodes believe about the lease safe.  The step  *)
(* that matters is the takeover: the old leader's expiry lies before the    *)
(* instant the new leader read, hence before clock + MaxOffset.             *)
LEMMA StepPreservesKnownExpiry == IInv /\ [Next]_vars => KnownExpiryIsSafe'
<1> SUFFICES ASSUME IInv, [Next]_vars PROVE KnownExpiryIsSafe'
  OBVIOUS
<1> USE LeaseAssumption DEF IInv, TypeOK, KnownExpiryIsSafe
<1>1. CASE Tick
  BY <1>1 DEF Tick
<1>2. ASSUME NEW n \in Node, AcquireCall(n) \/ RenewCall(n) \/ IsLeaderCall(n)
      PROVE  KnownExpiryIsSafe'
  BY <1>2 DEF AcquireCall, RenewCall, IsLeaderCall, Call
<1>3. ASSUME NEW n \in Node, AcquireUpdate(n) PROVE KnownExpiryIsSafe'
  <2>1. CASE lease' = lease /\ until' = until /\ clock' = clock
    BY <2>1
  <2>2. CASE lease.expires_at < now[n]
             /\ lease' = [leader |-> n, expires_at |-> now[n] + TTL,
                          version |-> lease.version + 1]
             /\ until' = [until EXCEPT ![n] = now[n] + TTL]
             /\ clock' = clock
    <3>1. lease.expires_at < clock + MaxOffset
      BY <2>2 DEF ReadInstantsArePast
    <3>2. lease'.leader = n /\ lease'.expires_at = now[n] + TTL
      BY <2>2
    <3>3. ASSUME NEW m \in Node, until'[m] > 0
          PROVE  \/ lease'.leader = m /\ until'[m] <= lease'.expires_at
                 \/ lease'.leader # m /\ until'[m] < clock' + MaxOffset
      BY <2>2, <3>1, <3>2, <3>3
    <3> QED
      BY <3>3
  <2> QED
    BY <1>3, <2>1, <2>2 DEF AcquireUpdate, ReturnTrue
<1>4. ASSUME NEW n \in Node, AcquireGet(n) PROVE KnownExpiryIsSafe'
  BY <1>4 DEF AcquireGet, ReturnTrue, ReturnFalse
<1>5. ASSUME NEW n \in Node, AcquireInsert(n) PROVE KnownExpiryIsSafe'
  BY <1>5 DEF AcquireInsert, ReturnTrue, ReturnFalse, AbsentRowIsBlank, Exists
<1>6. ASSUME NEW n \in Node, RenewUpdate(n) PROVE KnownExpiryIsSafe'
  BY <1>6 DEF RenewUpdate, ReturnTrue, ReturnFalse
<1>7. ASSUME NEW n \in Node, IsLeaderGet(n) PROVE KnownExpiryIsSafe'
  BY <1>7 DEF IsLeaderGet, ReturnTrue, ReturnFalse
<1>8. ASSUME NEW n \in Node, Release(n) PROVE KnownExpiryIsSafe'
  BY <1>8 DEF Release
<1>9. ASSUME NEW n \in Node, Crash(n) PROVE KnownExpiryIsSafe'
  BY <1>9 DEF Crash
<1>10. CASE UNCHANGED vars
  BY <1>10 DEF vars
<1> QED
  BY <1>1, <1>2, <1>3, <1>4, <1>5, <1>6, <1>7, <1>8, <1>9, <1>10 DEF Next

(* What a node knows about its own lease is safe in every reachable state,  *)
(* however late its statements run (acquire_lease, renew_lease,             *)
(* release_lease, is_leader).                                               *)
THEOREM LeaseInvariant == Spec => []IInv
<1>1. IInv /\ [Next]_vars => IInv'
  BY StepPreservesTypes, StepPreservesCalls, StepPreservesKnownExpiry DEF IInv
<1> QED
  BY InitEstablishesIInv, <1>1, PTL DEF Spec

(* The lease row and the nodes' memory always have their types. *)
THEOREM LeaseTypes == Spec => []TypeOK
  BY LeaseInvariant, PTL DEF IInv

(* A deposed leader's knowledge has run out on the new leader's clock.      *)
THEOREM LeaseKnowledge == Spec => []KnownExpiryIsSafe
  BY LeaseInvariant, PTL DEF IInv

(* acquire_lease is free of split-brain up to the clock difference: at most *)
(* one node holds a granted lease that reaches MaxOffset past true time.    *)
THEOREM LeaseNoSplitBrain == Spec => []NoSplitBrain
<1>1. IInv => NoSplitBrain
  <2> SUFFICES ASSUME IInv, NEW n \in Node, NEW m \in Node, n # m,
                      until[n] >= clock + MaxOffset,
                      until[m] >= clock + MaxOffset
               PROVE  FALSE
    BY DEF NoSplitBrain
  <2>1. until[n] > 0 /\ until[m] > 0
    BY LeaseAssumption DEF IInv, TypeOK
  <2>2. lease.leader = n /\ lease.leader = m
    BY <2>1, LeaseAssumption DEF IInv, TypeOK, KnownExpiryIsSafe
  <2> QED
    BY <2>2
<1> QED
  BY <1>1, LeaseInvariant, PTL

(* The row changes hands only after expiry on the taker's clock, and the    *)
(* version records every takeover.                                          *)
THEOREM LeaseTakeover == Spec => TakeoverOnlyAfterExpiry
<1> DEFINE Fair == lease'.leader # lease.leader =>
                     /\ lease.expires_at < clock + MaxOffset
                     /\ lease'.version = lease.version + 1
<1>1. IInv /\ [Next]_vars => [Fair]_vars
  <2> SUFFICES ASSUME IInv, Next, lease'.leader # lease.leader
               PROVE  /\ lease.expires_at < clock + MaxOffset
                      /\ lease'.version = lease.version + 1
    BY DEF vars
  <2> USE LeaseAssumption DEF IInv, TypeOK, ReadInstantsArePast
  <2>1. PICK n \in Node : AcquireUpdate(n) \/ AcquireInsert(n)
    BY DEF Next, Tick, AcquireCall, RenewCall, IsLeaderCall, Call, AcquireGet,
           RenewUpdate, IsLeaderGet, Release, Crash
  <2>2. CASE AcquireUpdate(n)
    BY <2>2 DEF AcquireUpdate
  <2>3. CASE AcquireInsert(n)
    BY <2>3 DEF AcquireInsert, AbsentRowIsBlank, Exists, EPOCH
  <2> QED
    BY <2>1, <2>2, <2>3
<1> QED
  BY <1>1, LeaseInvariant, PTL DEF Spec, TakeoverOnlyAfterExpiry

=============================================================================
