----------------------- MODULE ConcurrencySlotsProofs -----------------------
(***************************************************************************)
(* Proofs about ConcurrencySlots for every number of requests, processes   *)
(* and faults and every limit: the types, the limit, and the queue bound.  *)
(***************************************************************************)
EXTENDS ConcurrencySlots, FiniteSetTheorems, TLAPS

\* Every set of requests is finite and has a size.
LEMMA RequestSets ==
    ASSUME NEW S \in SUBSET Requests
    PROVE  IsFiniteSet(S) /\ Cardinality(S) \in Nat
BY SlotsAssumption, FS_Subset, FS_CardinalityType

\* A part of a set of requests is no larger than the set.
LEMMA Smaller ==
    ASSUME NEW S \in SUBSET Requests, NEW R \in SUBSET S
    PROVE  Cardinality(R) <= Cardinality(S)
BY RequestSets, FS_Subset

\* One more request makes a set larger by at most one.
LEMMA OneMore ==
    ASSUME NEW S \in SUBSET Requests, NEW q \in Requests
    PROVE  /\ Cardinality(S \cup {q}) <= Cardinality(S) + 1
           /\ q \in S => Cardinality(S \ {q}) = Cardinality(S) - 1
           /\ q \in S => Cardinality(S) >= 1
<1>1. IsFiniteSet(S) /\ Cardinality(S) \in Nat
  BY RequestSets
<1>2. Cardinality(S \cup {q}) <= Cardinality(S) + 1
  BY <1>1, FS_AddElement
<1>3. q \in S => Cardinality(S \ {q}) = Cardinality(S) - 1
  BY <1>1, FS_RemoveElement
<1>4. Cardinality(S \ {q}) \in Nat
  BY RequestSets
<1> QED
  BY <1>1, <1>2, <1>3, <1>4

\* Requests counted in one of two sets, or in both, are at most as many as the
\* members of the two.
LEMMA InEither ==
    ASSUME NEW S \in SUBSET Requests, NEW R \in SUBSET Requests
    PROVE  Cardinality(S \cup R) <= Cardinality(S) + Cardinality(R)
<1>1. /\ IsFiniteSet(S) /\ Cardinality(S) \in Nat
      /\ IsFiniteSet(R) /\ Cardinality(R) \in Nat
      /\ Cardinality(S \cap R) \in Nat
  BY RequestSets
<1>2. Cardinality(S \cup R) = Cardinality(S) + Cardinality(R) - Cardinality(S \cap R)
  BY <1>1, FS_Union
<1> QED
  BY <1>1, <1>2

-----------------------------------------------------------------------------
LEMMA SetTypes ==
    ASSUME NEW ttl \in Nat \ {0}, NEW set \in [Requests -> Absent .. ttl]
    PROVE  /\ Purged(set) \in [Requests -> Absent .. ttl]
           /\ Aged(set) \in [Requests -> Absent .. ttl]
           /\ Members(Purged(set)) \subseteq Members(set)
           /\ Members(Aged(set)) = Members(set)
           /\ Members(set) \subseteq Requests
           /\ \A q \in Requests : set[q] > 0 => Purged(set)[q] = set[q]
BY DEF Purged, Aged, Members, Absent

LEMMA InitTypes == Init => TypeOK
<1> SUFFICES ASSUME Init PROVE TypeOK
  OBVIOUS
<1>1. Absent \in Absent .. SlotTTL /\ Absent \in Absent .. LiveTTL /\ "idle" \in Pcs
  BY SlotsAssumption DEF Absent, Pcs
<1>2. lost \in BOOLEAN /\ miscounted \in BOOLEAN
  BY Zenon DEF Init
<1>3. wait \in Nat /\ waitLeft \in 0 .. WaitTTL /\ faults \in 0 .. MaxFaults
  BY SlotsAssumption DEF Init
<1> QED
  BY <1>1, <1>2, <1>3 DEF Init, TypeOK

LEMMA AcquireTypes ==
    ASSUME TypeOK, NEW q \in Requests, NEW ok \in Pcs, NEW full \in Pcs, NEW err \in Pcs,
           Acquire(q, ok, full, err)
    PROVE  /\ pc' \in [Requests -> Pcs]
           /\ slot' \in [Requests -> Absent .. SlotTTL]
           /\ lease' \in [Requests -> Absent .. LiveTTL]
           /\ faults' \in 0 .. MaxFaults
<1>1. /\ Purged(slot) \in [Requests -> Absent .. SlotTTL]
      /\ Purged(lease) \in [Requests -> Absent .. LiveTTL]
  BY SetTypes, SlotsAssumption DEF TypeOK
<1>2. SlotTTL \in Absent .. SlotTTL
  BY SlotsAssumption DEF Absent
<1> QED
  BY <1>1, <1>2, SlotsAssumption DEF Acquire, Goto, Fault, TypeOK

LEMMA WorkTypes ==
    ASSUME TypeOK, NEW q \in Requests, Arrive(q) \/ Work(q) \/ GiveUp(q) \/ Disconnect(q) \/ Refresh(q)
    PROVE  TypeOK'
<1>0. /\ Purged(slot) \in [Requests -> Absent .. SlotTTL]
      /\ Purged(lease) \in [Requests -> Absent .. LiveTTL]
      /\ Purged([slot EXCEPT ![q] = Absent]) \in [Requests -> Absent .. SlotTTL]
      /\ Absent \in Absent .. LiveTTL /\ LiveTTL \in Absent .. LiveTTL
  <2>1. [slot EXCEPT ![q] = Absent] \in [Requests -> Absent .. SlotTTL]
    BY SlotsAssumption DEF TypeOK, Absent
  <2>2. Absent \in Absent .. LiveTTL /\ LiveTTL \in Absent .. LiveTTL
    BY SlotsAssumption DEF Absent
  <2> QED
    BY <2>1, <2>2, SetTypes, SlotsAssumption DEF TypeOK
<1>1. CASE Arrive(q)
  <2>1. {"lease", "done", "serve", "enqueue"} \subseteq Pcs
    BY DEF Pcs
  <2>2. /\ pc' \in [Requests -> Pcs]
        /\ slot' \in [Requests -> Absent .. SlotTTL]
        /\ lease' \in [Requests -> Absent .. LiveTTL]
        /\ faults' \in 0 .. MaxFaults
    BY <1>1, <2>1, AcquireTypes DEF Arrive
  <2> QED
    BY <1>1, <2>2 DEF Arrive, TypeOK
<1>2. CASE Enqueue(q)
  <2>1. miscounted' \in BOOLEAN
    BY <1>2, Zenon DEF Enqueue, TypeOK
  <2>2. wait' \in Nat /\ waitLeft' \in 0 .. WaitTTL /\ faults' \in 0 .. MaxFaults
    BY <1>2, SlotsAssumption DEF Enqueue, Expire, Fault, TypeOK
  <2>3. pc' \in [Requests -> Pcs]
    BY <1>2 DEF Enqueue, Goto, TypeOK, Pcs
  <2> QED
    BY <1>2, <2>1, <2>2, <2>3 DEF Enqueue, TypeOK
<1>3. CASE Poll(q)
  <2>1. {"got", "wait", "leave"} \subseteq Pcs
    BY DEF Pcs
  <2>2. /\ pc' \in [Requests -> Pcs]
        /\ slot' \in [Requests -> Absent .. SlotTTL]
        /\ lease' \in [Requests -> Absent .. LiveTTL]
        /\ faults' \in 0 .. MaxFaults
    BY <1>3, <2>1, AcquireTypes DEF Poll
  <2> QED
    BY <1>3, <2>2 DEF Poll, TypeOK
<1>4. CASE DecrementWait(q)
  BY <1>0, <1>4, SlotsAssumption DEF DecrementWait, Decremented, Goto, Fault, TypeOK, Pcs
<1>5. CASE Release(q) \/ Disconnect(q)
  <2>1. pc' \in [Requests -> Pcs]
    BY <1>5 DEF Release, Disconnect, Goto, TypeOK, Pcs
  <2>2. slot' \in [Requests -> Absent .. SlotTTL]
    <3>1. slot' = Purged([slot EXCEPT ![q] = Absent]) \/ slot' = slot
      BY <1>5 DEF Release, Disconnect, ReleaseSlot
    <3> QED
      BY <1>0, <3>1 DEF TypeOK
  <2>3. faults' \in 0 .. MaxFaults
    BY <1>5, SlotsAssumption DEF Release, Disconnect, ReleaseSlot, Fault, TypeOK
  <2> QED
    BY <1>5, <2>1, <2>2, <2>3 DEF Release, Disconnect, ReleaseSlot, TypeOK
<1>6. CASE Lease(q)
  BY <1>0, <1>6, SlotsAssumption DEF Lease, Goto, Fault, TypeOK, Pcs
<1>7. CASE Dial(q)
  BY <1>0, <1>7, SlotsAssumption DEF Dial, ReleaseLease, Goto, Fault, TypeOK, Pcs
<1>8. CASE Finalize(q)
  BY <1>0, <1>8, SlotsAssumption DEF Finalize, Goto, Fault, TypeOK, Pcs
<1>9. CASE GiveUp(q) \/ RunOut(q)
  BY <1>9 DEF GiveUp, RunOut, redis, Goto, TypeOK, Pcs
<1>10. CASE Refresh(q)
  BY <1>0, <1>10, SlotsAssumption DEF Refresh, Renew, Ended, ReleaseLease, Goto, Fault, TypeOK, Pcs
<1> QED
  BY <1>1, <1>2, <1>3, <1>4, <1>5, <1>6, <1>7, <1>8, <1>9, <1>10 DEF Work

LEMMA StepTypes ==
    ASSUME TypeOK, [Next]_vars
    PROVE  TypeOK'
<1>0. /\ Purged(slot) \in [Requests -> Absent .. SlotTTL]
      /\ Purged(lease) \in [Requests -> Absent .. LiveTTL]
      /\ Aged(slot) \in [Requests -> Absent .. SlotTTL]
      /\ Aged(lease) \in [Requests -> Absent .. LiveTTL]
      /\ Absent \in Absent .. SlotTTL
  <2>1. Absent \in Absent .. SlotTTL
    BY SlotsAssumption DEF Absent
  <2> QED
    BY <2>1, SetTypes, SlotsAssumption DEF TypeOK
<1>1. CASE \E q \in Requests : Arrive(q) \/ Work(q) \/ GiveUp(q) \/ Disconnect(q) \/ Refresh(q)
  BY <1>1, WorkTypes
<1>2. CASE \E p \in Processes : Crash(p)
  BY <1>2, SlotsAssumption DEF Crash, redis, Fault, TypeOK, Pcs
<1>3. CASE \E p \in Processes : Sweep(p) \/ Start(p)
  <2>1. lost' \in BOOLEAN /\ miscounted' \in BOOLEAN
    BY <1>3, Zenon DEF Sweep, Start, TypeOK
  <2> QED
    BY <1>0, <1>3, <2>1, SlotsAssumption DEF Sweep, Start, TypeOK
<1>4. CASE Reap
  BY <1>0, <1>4 DEF Reap, TypeOK
<1>5. CASE Tick
  <2>1. lost' \in BOOLEAN /\ miscounted' \in BOOLEAN
    BY <1>5, Zenon DEF Tick, TypeOK
  <2> QED
    BY <1>0, <1>5, <2>1, SlotsAssumption DEF Tick, TypeOK
<1>6. CASE UNCHANGED vars
  BY <1>6 DEF vars, TypeOK
<1> QED
  BY <1>1, <1>2, <1>3, <1>4, <1>5, <1>6 DEF Next

\* Type correctness of the slots, the leases, the wait counter and the requests,
\* for every limit and any number of requests, processes and faults.
THEOREM TypeCorrect == Spec => []TypeOK
<1>1. Init => TypeOK
  BY InitTypes
<1>2. TypeOK /\ [Next]_vars => TypeOK'
  BY StepTypes
<1> QED
  BY <1>1, <1>2, PTL DEF Spec

-----------------------------------------------------------------------------
\* While no member was lost, every request that is served is a member: on its
\* slot until the handover, on its lease from then on.
HeldInv ==
    ~lost => /\ \A q \in OnSlot : slot[q] > 0
             /\ \A q \in OnLease : lease[q] > 0

\* ... and the members of the two sets together are at most Max requests, though
\* a call that holds both is counted twice.
Counted == Members(slot) \cup Members(lease)
CountInv == ~lost => Cardinality(Counted) <= Max

LEMMA AcquireHeld ==
    ASSUME TypeOK, HeldInv, NEW q \in Requests, NEW ok, NEW full, NEW err,
           Acquire(q, ok, full, err), UNCHANGED lost,
           q \notin OnLease,
           ok \in {"serve", "got", "lease"},
           full \in {"done", "enqueue", "wait"}, err \in {"done", "leave"}
    PROVE  HeldInv'
<1>1. \A r \in Requests : /\ slot[r] > 0 => Purged(slot)[r] > 0
                          /\ lease[r] > 0 => Purged(lease)[r] > 0
  BY SetTypes, SlotsAssumption DEF TypeOK
<1>2. Purged(slot) \in [Requests -> Absent .. SlotTTL]
  BY SetTypes, SlotsAssumption DEF TypeOK
<1>3. /\ \A r \in Requests : slot[r] > 0 => slot'[r] > 0
      /\ \A r \in Requests : lease[r] > 0 => lease'[r] > 0
      /\ pc'[q] = ok => slot'[q] > 0
  BY <1>1, <1>2, SlotsAssumption DEF Acquire, Goto, TypeOK
<1>4. /\ \A r \in Requests : r # q => pc'[r] = pc[r]
      /\ pc'[q] \in {ok, full, err}
  BY DEF Acquire, Goto, TypeOK
<1> QED
  BY <1>3, <1>4 DEF HeldInv, OnSlot, OnLease

LEMMA WorkHeld ==
    ASSUME TypeOK, HeldInv, NEW q \in Requests,
           Arrive(q) \/ Work(q) \/ GiveUp(q) \/ Disconnect(q) \/ Refresh(q)
    PROVE  HeldInv'
<1>1. \A r \in Requests : /\ slot[r] > 0 => Purged(slot)[r] > 0
                          /\ lease[r] > 0 => Purged(lease)[r] > 0
                          /\ r # q => (slot[r] > 0 => Purged([slot EXCEPT ![q] = Absent])[r] > 0)
  BY SlotsAssumption DEF TypeOK, Purged, Absent
<1>2. /\ Purged(slot) \in [Requests -> Absent .. SlotTTL]
      /\ Purged(lease) \in [Requests -> Absent .. LiveTTL]
  BY SetTypes, SlotsAssumption DEF TypeOK
<1>3. CASE Arrive(q)
  BY <1>3, AcquireHeld DEF Arrive, OnLease
<1>4. CASE Enqueue(q)
  BY <1>4 DEF Enqueue, Goto, TypeOK, HeldInv, OnSlot, OnLease
<1>5. CASE Poll(q)
  BY <1>5, AcquireHeld DEF Poll, OnLease
<1>6. CASE DecrementWait(q)
  BY <1>1, <1>6 DEF DecrementWait, Goto, TypeOK, HeldInv, OnSlot, OnLease
<1>7. CASE Release(q) \/ Disconnect(q)
  BY <1>1, <1>7 DEF Release, Disconnect, ReleaseSlot, Goto, TypeOK, HeldInv, OnSlot, OnLease
<1>8. CASE Lease(q)
  BY <1>1, <1>2, <1>8, SlotsAssumption DEF Lease, Goto, TypeOK, HeldInv, OnSlot, OnLease
<1>9. CASE Dial(q)
  BY <1>9 DEF Dial, ReleaseLease, Goto, TypeOK, HeldInv, OnSlot, OnLease
<1>10. CASE Finalize(q)
  BY <1>10 DEF Finalize, Goto, TypeOK, HeldInv, OnSlot, OnLease
<1>11. CASE GiveUp(q) \/ RunOut(q)
  BY <1>11 DEF GiveUp, RunOut, redis, Goto, TypeOK, HeldInv, OnSlot, OnLease
<1>12. CASE Refresh(q)
  BY <1>1, <1>2, <1>12, SlotsAssumption
     DEF Refresh, Renew, Ended, ReleaseLease, Goto, TypeOK, HeldInv, OnSlot, OnLease
<1> QED
  BY <1>3, <1>4, <1>5, <1>6, <1>7, <1>8, <1>9, <1>10, <1>11, <1>12 DEF Work

LEMMA StepHeld ==
    ASSUME TypeOK, HeldInv, [Next]_vars
    PROVE  HeldInv'
<1>1. CASE \E q \in Requests : Arrive(q) \/ Work(q) \/ GiveUp(q) \/ Disconnect(q) \/ Refresh(q)
  BY <1>1, WorkHeld
<1>2. CASE \E p \in Processes : Crash(p)
  BY <1>2 DEF Crash, redis, TypeOK, HeldInv, OnSlot, OnLease
<1>3. CASE \E p \in Processes : Sweep(p) \/ Start(p)
  <2>1. ~lost' => ~lost /\ (UNCHANGED slot \/ OnSlot = {})
    BY <1>3, Zenon DEF Sweep, Start
  <2>2. UNCHANGED <<pc, lease>>
    BY <1>3 DEF Sweep, Start
  <2>3. UNCHANGED OnSlot /\ UNCHANGED OnLease
    BY <2>2 DEF OnSlot, OnLease
  <2> QED
    BY <2>1, <2>2, <2>3 DEF HeldInv
<1>4. CASE Reap
  <2>1. \A r \in Requests : /\ slot[r] > 0 => Purged(slot)[r] > 0
                            /\ lease[r] > 0 => Purged(lease)[r] > 0
    BY SetTypes, SlotsAssumption DEF TypeOK
  <2> QED
    BY <1>4, <2>1 DEF Reap, TypeOK, HeldInv, OnSlot, OnLease
<1>5. CASE Tick
  <2>1. \A r \in Requests : /\ slot[r] > 1 => Aged(slot)[r] > 0
                            /\ lease[r] > 1 => Aged(lease)[r] > 0
                            /\ slot[r] \in Int /\ lease[r] \in Int
    BY SlotsAssumption DEF TypeOK, Aged, Absent
  <2> QED
    <3>1. ~lost' => /\ ~lost
                    /\ \A q \in OnSlot : ~(slot[q] <= 1)
                    /\ \A q \in OnLease : ~(lease[q] <= 1)
      BY <1>5, Zenon DEF Tick
    <3>2. slot' = Aged(slot) /\ lease' = Aged(lease) /\ UNCHANGED OnSlot /\ UNCHANGED OnLease
      BY <1>5 DEF Tick, OnSlot, OnLease
    <3>3. OnSlot \subseteq Requests /\ OnLease \subseteq Requests
      BY DEF OnSlot, OnLease
    <3> QED
      BY <2>1, <3>1, <3>2, <3>3 DEF HeldInv
<1>6. CASE UNCHANGED vars
  BY <1>6 DEF vars, HeldInv, OnSlot, OnLease
<1> QED
  BY <1>1, <1>2, <1>3, <1>4, <1>5, <1>6 DEF Next

\* A step that adds no member keeps the count.
LEMMA Shrinks ==
    ASSUME TypeOK, CountInv, lost => lost',
           Members(slot)' \subseteq Members(slot), Members(lease)' \subseteq Members(lease)
    PROVE  CountInv'
<1>1. Counted \in SUBSET Requests /\ Counted' \subseteq Counted
  BY DEF Counted, Members
<1>2. Cardinality(Counted') <= Cardinality(Counted)
  BY <1>1, Smaller
<1>3. Cardinality(Counted') \in Nat /\ Cardinality(Counted) \in Nat
  BY <1>1, RequestSets
<1> QED
  BY <1>2, <1>3, SlotsAssumption DEF CountInv

LEMMA AcquireCount ==
    ASSUME TypeOK, CountInv, NEW q \in Requests, NEW ok, NEW full, NEW err,
           Acquire(q, ok, full, err), UNCHANGED lost
    PROVE  CountInv'
<1> DEFINE S == Members(Purged(slot))
           L == Members(Purged(lease))
<1>1. /\ S \subseteq Members(slot) /\ L \subseteq Members(lease)
      /\ S \in SUBSET Requests /\ L \in SUBSET Requests
  BY SetTypes, SlotsAssumption DEF TypeOK, Members
<1>2. CASE Room /\ slot' = [Purged(slot) EXCEPT ![q] = SlotTTL] /\ lease' = Purged(lease)
  <2>1. Counted' = (S \cup L) \cup {q}
    <3>1. Purged(slot) \in [Requests -> Absent .. SlotTTL]
      BY SetTypes, SlotsAssumption DEF TypeOK
    <3>2. Members(slot)' = S \cup {q}
      BY <1>2, <3>1, SlotsAssumption DEF Members, Absent
    <3>3. Members(lease)' = L
      BY <1>2 DEF Members
    <3> QED
      BY <3>2, <3>3 DEF Counted
  <2>2. /\ Cardinality((S \cup L) \cup {q}) <= Cardinality(S \cup L) + 1
        /\ Cardinality(S \cup L) <= Cardinality(S) + Cardinality(L)
    <3>1. S \cup L \in SUBSET Requests
      BY <1>1
    <3>2. Cardinality((S \cup L) \cup {q}) <= Cardinality(S \cup L) + 1
      BY <3>1, OneMore
    <3>3. Cardinality(S \cup L) <= Cardinality(S) + Cardinality(L)
      BY <1>1, InEither
    <3> QED
      BY <3>2, <3>3
  <2>3. /\ Cardinality((S \cup L) \cup {q}) \in Nat /\ Cardinality(S \cup L) \in Nat
        /\ Cardinality(S) \in Nat /\ Cardinality(L) \in Nat
    <3>1. S \cup L \in SUBSET Requests /\ (S \cup L) \cup {q} \in SUBSET Requests
      BY <1>1
    <3> QED
      BY <1>1, <3>1, RequestSets
  <2>4. Cardinality(S) + Cardinality(L) < Max
    BY <1>2 DEF Room
  <2> HIDE DEF S, L
  <2> QED
    BY <2>1, <2>2, <2>3, <2>4, SlotsAssumption DEF CountInv
<1>3. CASE slot' = Purged(slot) /\ lease' = Purged(lease)
  <2>1. Members(slot)' = S /\ Members(lease)' = L
    BY <1>3 DEF Members
  <2> QED
    BY <1>1, <2>1, Shrinks
<1>4. CASE UNCHANGED <<slot, lease>>
  BY <1>4, Shrinks DEF Members
<1> QED
  BY <1>2, <1>3, <1>4 DEF Acquire

\* The lease of a call that still has its slot adds no request to the count: this
\* is where the allowance of one would go wrong for a call whose slot is lost.
LEMMA LeaseCount ==
    ASSUME TypeOK, HeldInv, CountInv, NEW q \in Requests, Lease(q)
    PROVE  CountInv'
<1>1. /\ Members(Purged(lease)) \subseteq Members(lease)
      /\ Purged(lease) \in [Requests -> Absent .. LiveTTL]
  BY SetTypes, SlotsAssumption DEF TypeOK
<1>2. CASE lease' = [Purged(lease) EXCEPT ![q] = LiveTTL]
  <2> SUFFICES ASSUME ~lost PROVE CountInv'
    BY <1>2 DEF Lease, CountInv
  <2>1. q \in Members(slot)
    BY DEF Lease, HeldInv, OnSlot, Members, Absent
  <2>2. Members(slot)' = Members(slot)
    BY DEF Lease, Members
  <2>3. Members(lease)' \subseteq Members(lease) \cup {q}
    BY <1>1, <1>2 DEF Members
  <2>4. Counted \in SUBSET Requests /\ Counted' \subseteq Counted
    BY <2>1, <2>2, <2>3 DEF Counted, Members
  <2>5. Cardinality(Counted') <= Cardinality(Counted)
    BY <2>4, Smaller
  <2>6. Cardinality(Counted') \in Nat /\ Cardinality(Counted) \in Nat
    BY <2>4, RequestSets
  <2> QED
    BY <2>5, <2>6, SlotsAssumption DEF CountInv
<1>3. CASE lease' \in {lease, Purged(lease)}
  BY <1>1, <1>3, Shrinks DEF Lease, Members
<1> QED
  BY <1>2, <1>3 DEF Lease

LEMMA WorkCount ==
    ASSUME TypeOK, HeldInv, CountInv, NEW q \in Requests,
           Arrive(q) \/ Work(q) \/ GiveUp(q) \/ Disconnect(q) \/ Refresh(q)
    PROVE  CountInv'
<1>1. /\ Members(Purged(slot)) \subseteq Members(slot)
      /\ Members(Purged(lease)) \subseteq Members(lease)
      /\ Purged(lease) \in [Requests -> Absent .. LiveTTL]
  BY SetTypes, SlotsAssumption DEF TypeOK
<1>2. /\ Members([lease EXCEPT ![q] = Absent]) \subseteq Members(lease)
      /\ Members(Purged([slot EXCEPT ![q] = Absent])) \subseteq Members(slot)
  BY DEF Members, Purged, TypeOK
<1>3. CASE Arrive(q)
  BY <1>3, AcquireCount DEF Arrive
<1>4. CASE Poll(q)
  BY <1>4, AcquireCount DEF Poll
<1>5. CASE Lease(q)
  BY <1>5, LeaseCount
<1>6. CASE Enqueue(q) \/ GiveUp(q) \/ RunOut(q)
  BY <1>6, Shrinks DEF Enqueue, GiveUp, RunOut, redis, Members
<1>7. CASE DecrementWait(q)
  BY <1>1, <1>7, Shrinks DEF DecrementWait, Members
<1>8. CASE Release(q) \/ Disconnect(q)
  <2>1. /\ slot' = Purged([slot EXCEPT ![q] = Absent]) \/ slot' = slot
        /\ lease' = lease /\ lost' = lost
    BY <1>8 DEF Release, Disconnect, ReleaseSlot
  <2>2. Members(slot)' \subseteq Members(slot) /\ Members(lease)' = Members(lease)
    BY <1>2, <2>1 DEF Members
  <2> QED
    BY <2>1, <2>2, Shrinks
<1>9. CASE Dial(q)
  BY <1>2, <1>9, Shrinks DEF Dial, ReleaseLease, Members
<1>10. CASE Finalize(q)
  BY <1>2, <1>10, Shrinks DEF Finalize, Members
<1>11. CASE Refresh(q)
  <2>1. lease[q] > 0 => q \in Members(lease)
    BY DEF Members, Absent
  <2>2. Members(lease)' \subseteq Members(lease)
    BY <1>1, <1>2, <1>11, <2>1 DEF Refresh, Renew, ReleaseLease, Members
  <2> QED
    BY <1>11, <2>2, Shrinks DEF Refresh, Members
<1> QED
  BY <1>3, <1>4, <1>5, <1>6, <1>7, <1>8, <1>9, <1>10, <1>11 DEF Work

LEMMA StepCount ==
    ASSUME TypeOK, HeldInv, CountInv, [Next]_vars
    PROVE  CountInv'
<1>1. /\ Members(Purged(slot)) \subseteq Members(slot)
      /\ Members(Purged(lease)) \subseteq Members(lease)
      /\ Members(Aged(slot)) = Members(slot)
      /\ Members(Aged(lease)) = Members(lease)
  BY SetTypes, SlotsAssumption DEF TypeOK
<1>2. CASE \E q \in Requests : Arrive(q) \/ Work(q) \/ GiveUp(q) \/ Disconnect(q) \/ Refresh(q)
  BY <1>2, WorkCount
<1>3. CASE \E p \in Processes : Crash(p)
  BY <1>3, Shrinks DEF Crash, redis, Members
<1>4. CASE \E p \in Processes : Sweep(p) \/ Start(p)
  <2>1. Members(slot)' \subseteq Members(slot) /\ UNCHANGED lease
    BY <1>4 DEF Sweep, Start, Members, Absent
  <2>2. lost => lost'
    BY <1>4, Zenon DEF Sweep, Start
  <2> QED
    BY <2>1, <2>2, Shrinks DEF Members
<1>5. CASE Reap
  BY <1>1, <1>5, Shrinks DEF Reap, Members
<1>6. CASE Tick
  <2>1. lost => lost'
    BY <1>6, Zenon DEF Tick
  <2> QED
    BY <1>1, <1>6, <2>1, Shrinks DEF Tick, Members
<1>7. CASE UNCHANGED vars
  BY <1>7, Shrinks DEF vars, Members
<1> QED
  BY <1>2, <1>3, <1>4, <1>5, <1>6, <1>7 DEF Next

LEMMA CountGivesLimit == TypeOK /\ HeldInv /\ CountInv => LimitKept
<1> SUFFICES ASSUME TypeOK, HeldInv, CountInv, ~lost
             PROVE  Cardinality(Attended) <= Max
  BY DEF LimitKept
<1>1. Attended \subseteq Counted /\ Counted \in SUBSET Requests
  BY DEF Attended, OnSlot, OnLease, HeldInv, Counted, Members, Absent
<1>2. Cardinality(Attended) <= Cardinality(Counted)
  BY <1>1, Smaller
<1>3. Cardinality(Attended) \in Nat /\ Cardinality(Counted) \in Nat
  BY <1>1, RequestSets
<1> QED
  BY <1>2, <1>3, SlotsAssumption DEF CountInv

\* The limit holds for any number of requests, Live calls, processes and faults:
\* while no attended request lost its member, at most Max requests are attended,
\* however many others run on without their client.
THEOREM Limited == Spec => []LimitKept
<1>1. Init => HeldInv /\ CountInv
  <2>1. ASSUME Init PROVE Counted = {} /\ HeldInv
    BY <2>1 DEF Init, Counted, Members, HeldInv, OnSlot, OnLease
  <2>2. Cardinality({}) = 0
    BY FS_EmptySet
  <2> QED
    BY <2>1, <2>2, SlotsAssumption DEF CountInv
<1>2. TypeOK /\ HeldInv /\ CountInv /\ [Next]_vars => HeldInv' /\ CountInv'
  BY StepHeld, StepCount
<1>3. TypeOK /\ HeldInv /\ CountInv => LimitKept
  BY CountGivesLimit
<1> QED
  BY <1>1, <1>2, <1>3, TypeCorrect, PTL DEF Spec

-----------------------------------------------------------------------------
\* The counter stays within the limit and, while no wait went uncounted, counts
\* at least every request that has still to decrement it.
WaitInv ==
    /\ wait <= QueueLimit
    /\ ~miscounted => Cardinality(Queued) <= wait

\* A step by which nobody joins the queue and the counter stays keeps WaitInv.
LEMMA QueueShrinks ==
    ASSUME TypeOK, WaitInv, miscounted => miscounted', UNCHANGED wait, Queued' \subseteq Queued
    PROVE  WaitInv'
<1>1. Queued \in SUBSET Requests /\ Queued' \in SUBSET Requests
  BY DEF Queued
<1>2. /\ Cardinality(Queued') <= Cardinality(Queued)
      /\ Cardinality(Queued') \in Nat /\ Cardinality(Queued) \in Nat
  BY <1>1, Smaller, RequestSets
<1> QED
  BY <1>2 DEF WaitInv, TypeOK

LEMMA AcquireQueue ==
    ASSUME TypeOK, NEW q \in Requests, NEW ok, NEW full, NEW err, Acquire(q, ok, full, err)
    PROVE  /\ \A r \in Requests : r # q => pc'[r] = pc[r]
           /\ pc'[q] \in {ok, full, err}
BY DEF Acquire, Goto, TypeOK

LEMMA WorkWait ==
    ASSUME TypeOK, WaitInv, NEW q \in Requests,
           Arrive(q) \/ Work(q) \/ GiveUp(q) \/ Disconnect(q) \/ Refresh(q)
    PROVE  WaitInv'
<1>1. Queued \in SUBSET Requests
  BY DEF Queued
<1>2. CASE Enqueue(q)
  <2>1. CASE QueueFull /\ Goto(q, "done") /\ UNCHANGED <<wait, miscounted>>
    <3>1. Queued' \subseteq Queued
      BY <2>1 DEF Goto, Queued, TypeOK
    <3> QED
      BY <2>1, <3>1, QueueShrinks
  <2>2. CASE ~QueueFull /\ wait' = wait + 1 /\ Goto(q, "wait") /\ UNCHANGED miscounted
    <3>1. Queued' = Queued \cup {q}
      BY <2>2 DEF Goto, Queued, TypeOK
    <3>2. /\ Cardinality(Queued') <= Cardinality(Queued) + 1
          /\ Cardinality(Queued) \in Nat /\ Cardinality(Queued') \in Nat
      <4>1. Queued' \in SUBSET Requests
        BY <1>1, <3>1
      <4> QED
        BY <1>1, <3>1, <4>1, OneMore, RequestSets
    <3> QED
      BY <2>2, <3>2, SlotsAssumption DEF QueueFull, WaitInv, TypeOK
  <2>3. CASE miscounted' = TRUE /\ UNCHANGED wait
    BY <2>3 DEF WaitInv
  <2> QED
    BY <1>2, <2>1, <2>2, <2>3 DEF Enqueue
<1>3. CASE DecrementWait(q)
  <2>1. q \in Queued /\ Queued' = Queued \ {q} /\ UNCHANGED miscounted
    BY <1>3 DEF DecrementWait, Goto, Queued, TypeOK
  <2>2. CASE wait' = Decremented
    <3>1. /\ Cardinality(Queued') = Cardinality(Queued) - 1
          /\ Cardinality(Queued) \in Nat /\ Cardinality(Queued) >= 1
      BY <1>1, <2>1, OneMore, RequestSets
    <3> QED
      BY <2>1, <2>2, <3>1, SlotsAssumption DEF Decremented, WaitInv, TypeOK
  <2>3. CASE UNCHANGED wait
    BY <2>1, <2>3, QueueShrinks
  <2> QED
    BY <1>3, <2>2, <2>3 DEF DecrementWait
<1>4. CASE Arrive(q)
  <2>1. \A r \in Requests : r # q => pc'[r] = pc[r]
    BY <1>4, AcquireQueue DEF Arrive
  <2>2. pc'[q] \in {"lease", "done", "serve", "enqueue"}
    BY <1>4, AcquireQueue DEF Arrive
  <2>3. Queued' \subseteq Queued
    BY <2>1, <2>2 DEF Queued
  <2> QED
    BY <1>4, <2>3, QueueShrinks DEF Arrive
<1>5. CASE Poll(q)
  <2>1. \A r \in Requests : r # q => pc'[r] = pc[r]
    BY <1>5, AcquireQueue DEF Poll
  <2>2. q \in Queued
    BY <1>5 DEF Poll, Queued
  <2>3. Queued' \subseteq Queued
    BY <2>1, <2>2 DEF Queued
  <2> QED
    BY <1>5, <2>3, QueueShrinks DEF Poll
<1>6. CASE \/ Release(q) \/ Disconnect(q) \/ RunOut(q) \/ Lease(q) \/ Dial(q) \/ Finalize(q)
           \/ GiveUp(q) \/ Refresh(q)
  <2>1. Queued' \subseteq Queued
    BY <1>6 DEF Release, Disconnect, RunOut, Lease, Dial, Finalize, GiveUp, Refresh, Ended, Goto,
       Queued, TypeOK
  <2>2. UNCHANGED <<wait, miscounted>>
    BY <1>6 DEF Release, Disconnect, ReleaseSlot, RunOut, Lease, Dial, Finalize, GiveUp, Refresh, redis
  <2> QED
    BY <2>1, <2>2, QueueShrinks
<1> QED
  BY <1>2, <1>3, <1>4, <1>5, <1>6 DEF Work

LEMMA StepWait ==
    ASSUME TypeOK, WaitInv, [Next]_vars
    PROVE  WaitInv'
<1>1. CASE \E q \in Requests : Arrive(q) \/ Work(q) \/ GiveUp(q) \/ Disconnect(q) \/ Refresh(q)
  BY <1>1, WorkWait
<1>2. CASE \E p \in Processes : Crash(p)
  <2>1. Queued' \subseteq Queued
    BY <1>2 DEF Crash, Queued
  <2>2. UNCHANGED <<wait, miscounted>>
    BY <1>2 DEF Crash, redis
  <2> QED
    BY <2>1, <2>2, QueueShrinks
<1>3. ASSUME UNCHANGED pc, miscounted => miscounted',
             \/ UNCHANGED wait
             \/ wait' = 0 /\ (~miscounted' => Queued = {})
      PROVE  WaitInv'
  <2>1. UNCHANGED Queued
    BY <1>3 DEF Queued
  <2>2. CASE UNCHANGED wait
    BY <1>3, <2>1, <2>2, QueueShrinks
  <2>3. CASE wait' = 0 /\ (~miscounted' => Queued = {})
    <3>1. Cardinality({}) = 0
      BY FS_EmptySet
    <3> QED
      BY <2>1, <2>3, <3>1, SlotsAssumption DEF WaitInv
  <2> QED
    BY <1>3, <2>2, <2>3
<1>4. CASE \E p \in Processes : Sweep(p) \/ Start(p)
  <2>1. UNCHANGED wait \/ (wait' = 0 /\ miscounted' = (miscounted \/ Queued # {}))
    BY <1>4, Zenon DEF Sweep, Start
  <2>2. miscounted => miscounted'
    BY <1>4, Zenon DEF Sweep, Start
  <2> QED
    BY <1>3, <1>4, <2>1, <2>2 DEF Sweep, Start
<1>5. CASE Reap
  BY <1>3, <1>5 DEF Reap
<1>6. CASE Tick
  <2>1. /\ miscounted => miscounted'
        /\ ~miscounted' => ~(waitLeft = 1 /\ Queued # {})
    BY <1>6, Zenon DEF Tick
  <2>2. (waitLeft = 1 /\ wait' = 0) \/ UNCHANGED wait
    BY <1>6 DEF Tick
  <2> QED
    BY <1>3, <1>6, <2>1, <2>2 DEF Tick
<1>7. CASE UNCHANGED vars
  BY <1>3, <1>7 DEF vars
<1> QED
  BY <1>1, <1>2, <1>4, <1>5, <1>6, <1>7 DEF Next

\* The queue bound holds for any number of requests, processes and faults: while
\* no wait went uncounted, at most QueueLimit requests wait.
THEOREM QueueLimited == Spec => []QueueBounded
<1>1. Init => WaitInv
  <2>1. ASSUME Init PROVE Queued = {} /\ wait = 0
    BY <2>1 DEF Init, Queued
  <2>2. Cardinality({}) = 0
    BY FS_EmptySet
  <2> QED
    BY <2>1, <2>2, SlotsAssumption DEF WaitInv
<1>2. TypeOK /\ WaitInv /\ [Next]_vars => WaitInv'
  BY StepWait
<1>3. TypeOK /\ WaitInv => QueueBounded
  <2>1. Cardinality(Queued) \in Nat
    BY RequestSets DEF Queued
  <2> QED
    BY <2>1, SlotsAssumption DEF WaitInv, QueueBounded, TypeOK
<1> QED
  BY <1>1, <1>2, <1>3, TypeCorrect, PTL DEF Spec
=============================================================================
