-------------------------- MODULE ConcurrencySlots --------------------------
(***************************************************************************)
(* The concurrency limit of one user.  Every gateway process counts its    *)
(* requests in two sorted sets of the shared Redis, ordinary slots and the *)
(* leases of Live calls, and queues what does not fit behind a counter     *)
(* (service/concurrency_service.go, repository/concurrency_cache.go,       *)
(* handler/gateway_helper.go, and the Live calls of service/openai_live.go *)
(* as far as they hold a slot or a lease).  A script or a transaction is   *)
(* one step; everything between two of them interleaves.                   *)
(***************************************************************************)
EXTENDS Integers, FiniteSets

CONSTANTS
    Requests,   \* the user's requests; each generates its own member of the sets
    Calls,      \* those of them that create a Live call
    Processes,  \* gateway processes on the same Redis
    Max,        \* maxConcurrency of the user
    QueueLimit, \* queueLimit of acquireUserSlotWithWaitTimeout
    SlotTTL,    \* slotTTLSeconds
    LiveTTL,    \* liveLeaseTTLSeconds
    WaitTTL,    \* waitQueueTTLSeconds
    MaxFaults   \* bound: failing calls, failovers and crashes

ASSUME SlotsAssumption ==
    /\ IsFiniteSet(Requests) /\ Calls \subseteq Requests
    /\ Max \in Nat \ {0} /\ QueueLimit \in Nat \ {0}
    /\ SlotTTL \in Nat \ {0} /\ LiveTTL \in Nat \ {0} /\ WaitTTL \in Nat \ {0}
    /\ MaxFaults \in Nat

VARIABLES
    up,        \* the processes that run
    pc,        \* where each request is
    home,      \* the processes that serve it: none yet, or one
    slot,      \* the user's ordinary slots: time left of each member
    lease,     \* the user's Live leases: time left of each member
    wait,      \* the wait counter; 0 stands for a missing key, too
    waitLeft,  \* the time left of its key; 0: a key that has no expiry
    faults,    \* how many faults have happened
    lost,      \* history: an attended request's member was expired or swept
    miscounted \* history: a waiting request was not counted, or its count was dropped

redis == <<slot, lease, wait, waitLeft>>
vars == <<up, pc, home, slot, lease, wait, waitLeft, faults, lost, miscounted>>

\* A member is Absent, or has that much time left; at 0 it is expired and stays
\* until a script or a reader removes it.
Absent == -1

Pcs == {"idle", "enqueue", "wait", "got", "leave", "serve",
        "lease", "dial", "handover", "live", "finish", "adrift", "done"}

\* Types of the state.
TypeOK ==
    /\ up \subseteq Processes
    /\ pc \in [Requests -> Pcs]
    /\ home \in [Requests -> SUBSET Processes]
    /\ slot \in [Requests -> Absent .. SlotTTL]
    /\ lease \in [Requests -> Absent .. LiveTTL]
    /\ wait \in Nat
    /\ waitLeft \in 0 .. WaitTTL
    /\ faults \in 0 .. MaxFaults
    /\ lost \in BOOLEAN
    /\ miscounted \in BOOLEAN

Init ==
    /\ up = {}
    /\ pc = [q \in Requests |-> "idle"]
    /\ home = [q \in Requests |-> {}]
    /\ slot = [q \in Requests |-> Absent]
    /\ lease = [q \in Requests |-> Absent]
    /\ wait = 0
    /\ waitLeft = 0
    /\ faults = 0
    /\ lost = FALSE
    /\ miscounted = FALSE

-----------------------------------------------------------------------------
\* The sorted sets: ZCARD counts the Members, ZREMRANGEBYSCORE leaves Purged.
Members(set) == {q \in Requests : set[q] # Absent}
\* mutant: no ZREMRANGEBYSCORE
PurgedNot(set) == set
Purged(set) == [q \in Requests |-> IF set[q] = 0 THEN Absent ELSE set[q]]
Aged(set) == [q \in Requests |-> IF set[q] > 0 THEN set[q] - 1 ELSE set[q]]

\* The requests that are to be counted: their client waits for them, or a
\* controller watches their call.  One that is adrift runs on at the provider with
\* neither.  Then those whose wait is counted, and the members relied on.
Attended == {q \in Requests : pc[q] \in {"got", "serve", "lease", "dial", "handover", "live"}}
Queued == {q \in Requests : pc[q] \in {"wait", "got", "leave"}}
OnSlot == {q \in Requests : pc[q] \in {"got", "serve", "lease", "dial"}}
OnLease == {q \in Requests : pc[q] \in {"dial", "handover", "live"}}

Goto(q, l) == pc' = [pc EXCEPT ![q] = l]

Fault == faults < MaxFaults /\ faults' = faults + 1

\* mutant: Live not counted
RoomForSlots == Cardinality(Members(Purged(slot))) < Max

\* acquireScript: both sets are purged and counted, and the member is added.
Room == Cardinality(Members(Purged(slot))) + Cardinality(Members(Purged(lease))) < Max

\* AcquireUserSlot, from which the request goes on at ok, full or err.  A failed
\* call may have added the member, which then nobody releases: its id is gone.
Acquire(q, ok, full, err) ==
    \/ /\ Room
       /\ slot' = [Purged(slot) EXCEPT ![q] = SlotTTL]
       /\ lease' = Purged(lease)
       /\ \/ Goto(q, ok) /\ UNCHANGED faults
          \/ Goto(q, err) /\ Fault
    \/ /\ ~Room
       /\ slot' = Purged(slot)
       /\ lease' = Purged(lease)
       /\ Goto(q, full)
       /\ UNCHANGED faults
    \/ /\ Goto(q, err) /\ Fault
       /\ UNCHANGED <<slot, lease>>

\* The first attempt.  A Live call does not wait for a slot.
Arrive(q) ==
    /\ pc[q] = "idle"
    /\ \E p \in up : home' = [home EXCEPT ![q] = {p}]
    /\ IF q \in Calls
       THEN Acquire(q, "lease", "done", "done")
       ELSE Acquire(q, "serve", "enqueue", "done")
    /\ UNCHANGED <<up, wait, waitLeft, lost, miscounted>>

\* mutant: off by one
QueueFullLate == wait > QueueLimit
\* mutant: no EXPIRE
ExpireNot == 0

\* incrementWaitScript: a full queue is refused, and its key's time runs on; an
\* increment starts that time anew.
QueueFull == wait >= QueueLimit
Expire == WaitTTL

\* IncrementWaitCount.  ConcurrencyService turns an error into "may wait", and the
\* request will decrement a counter it may not have incremented.
Enqueue(q) ==
    /\ pc[q] = "enqueue"
    /\ \/ /\ QueueFull
          /\ Goto(q, "done")
          /\ UNCHANGED <<wait, waitLeft, faults, miscounted>>
       \/ /\ ~QueueFull
          /\ wait' = wait + 1
          /\ waitLeft' = Expire
          /\ Goto(q, "wait")
          /\ UNCHANGED <<faults, miscounted>>
       \/ /\ Fault
          /\ Goto(q, "wait")
          /\ miscounted' = TRUE
          /\ UNCHANGED <<wait, waitLeft>>
    /\ UNCHANGED <<up, home, slot, lease, lost>>

\* A round of waitForSlotWithPingTimeout: the backoff timer fires.
Poll(q) ==
    /\ pc[q] = "wait"
    /\ Acquire(q, "got", "wait", "leave")
    /\ UNCHANGED <<up, home, wait, waitLeft, lost, miscounted>>

\* Its deadline passes, the client goes, or a ping cannot be written.
GiveUp(q) ==
    /\ pc[q] = "wait"
    /\ Goto(q, "leave")
    /\ UNCHANGED <<up, home, redis, faults, lost, miscounted>>

\* mutant: decrements a missing counter
DecrementedBelow == wait - 1
Decremented == IF wait > 0 THEN wait - 1 ELSE 0

\* The deferred DecrementWaitCount: never below zero, then the refresh of the
\* active index, which purges the slots.
DecrementWait(q) ==
    /\ pc[q] \in {"got", "leave"}
    /\ Goto(q, IF pc[q] = "got" THEN "serve" ELSE "done")
    /\ \/ /\ wait' = Decremented
          /\ slot' = Purged(slot)
          /\ UNCHANGED faults
       \/ Fault /\ UNCHANGED <<wait, slot>>
    /\ UNCHANGED <<up, home, lease, waitLeft, lost, miscounted>>

\* ReleaseUserSlot.  A failed call leaves the member to its TTL.
ReleaseSlot(q) ==
    /\ \/ slot' = Purged([slot EXCEPT ![q] = Absent]) /\ UNCHANGED faults
       \/ Fault /\ UNCHANGED slot
    /\ UNCHANGED <<up, home, lease, wait, waitLeft, lost, miscounted>>

\* The handler returns, and its deferred call releases the slot.
Release(q) ==
    /\ pc[q] \in {"serve", "handover", "finish"}
    /\ Goto(q, IF pc[q] = "handover" THEN "live" ELSE "done")
    /\ ReleaseSlot(q)

\* The client of an ordinary request goes: wrapReleaseOnDone releases the slot at
\* once, and sync.Once keeps the deferred call from doing it again.  The handler
\* goes on reading the provider's answer, which has to be billed.
Disconnect(q) ==
    /\ pc[q] = "serve"
    /\ Goto(q, "adrift")
    /\ ReleaseSlot(q)

\* The provider's answer has been drained, or its call ends.
RunOut(q) ==
    /\ pc[q] = "adrift"
    /\ Goto(q, "done")
    /\ UNCHANGED <<up, home, redis, faults, lost, miscounted>>

-----------------------------------------------------------------------------
\* acquireLiveLeaseScript purges the leases only, and one more than Max may be
\* counted, since the call's own ordinary slot is about to be given back.
LeaseRoom == Cardinality(Members(slot)) + Cardinality(Members(Purged(lease))) < Max + 1

Lease(q) ==
    /\ pc[q] = "lease"
    /\ \/ /\ LeaseRoom
          /\ lease' = [Purged(lease) EXCEPT ![q] = LiveTTL]
          /\ \/ Goto(q, "dial") /\ UNCHANGED faults
             \/ Goto(q, "finish") /\ Fault
       \/ /\ ~LeaseRoom
          /\ lease' = Purged(lease)
          /\ Goto(q, "finish")
          /\ UNCHANGED faults
       \/ /\ Goto(q, "finish") /\ Fault
          /\ UNCHANGED lease
    /\ UNCHANGED <<up, home, slot, wait, waitLeft, lost, miscounted>>

\* releaseLiveLease ignores an error.
ReleaseLease(q) == lease' \in {lease, [lease EXCEPT ![q] = Absent]}

\* The rest of CreateLiveCall: the call is created and saved, and its observer
\* starts; or the lease is given back, to try the next account or to report the
\* error.  What a failed release left of an earlier attempt is overwritten by
\* the next one's lease here.
Dial(q) ==
    /\ pc[q] = "dial"
    /\ \/ Goto(q, "handover") /\ UNCHANGED <<lease, faults>>
       \/ (Goto(q, "finish") \/ Goto(q, "lease")) /\ ReleaseLease(q) /\ Fault
    /\ UNCHANGED <<up, home, slot, wait, waitLeft, lost, miscounted>>

\* The controller's refresh: a lease that is gone, or a failed refresh, ends the
\* control of the call, which is not closed at the provider.
Ended(q) == Goto(q, IF pc[q] = "handover" THEN "finish" ELSE "adrift")

Renew(q) == lease[q] > 0 /\ lease' = [Purged(lease) EXCEPT ![q] = LiveTTL]

Refresh(q) ==
    /\ pc[q] \in {"handover", "live"}
    /\ \/ Renew(q) /\ UNCHANGED <<pc, faults>>
       \/ /\ lease[q] <= 0
          /\ lease' = Purged(lease)
          /\ Ended(q)
          /\ UNCHANGED faults
       \/ /\ Fault
          /\ Ended(q)
          /\ ReleaseLease(q) \/ Renew(q)
    /\ UNCHANGED <<up, home, slot, wait, waitLeft, lost, miscounted>>

\* The call is closed, or its time is over: finalizeLiveCall.
Finalize(q) ==
    /\ pc[q] = "live"
    /\ Goto(q, "done")
    /\ \/ lease' = [lease EXCEPT ![q] = Absent] /\ UNCHANGED faults
       \/ UNCHANGED lease /\ Fault
    /\ UNCHANGED <<up, home, slot, wait, waitLeft, lost, miscounted>>

-----------------------------------------------------------------------------
\* A process dies with the requests that it serves; a call that it has created
\* goes on at the provider.
Crash(p) ==
    /\ p \in up /\ Fault
    /\ up' = up \ {p}
    /\ pc' = [q \in Requests |->
                 IF home[q] # {p} THEN pc[q]
                 ELSE IF q \in OnLease THEN "adrift" ELSE "done"]
    /\ UNCHANGED <<home, redis, lost, miscounted>>

\* CleanupStaleProcessSlots, before the process serves anything: no member has its
\* prefix, so the slots go, those of other running processes too; the leases stay.
Sweep(p) ==
    /\ p \notin up
    /\ slot' = [q \in Requests |-> Absent]
    /\ lost' = (lost \/ OnSlot # {})
    /\ UNCHANGED <<up, pc, home, lease, wait, waitLeft, faults, miscounted>>

\* Then the wait counter goes, and the process starts.  The cleanup finds the user
\* through the active index, which is kept on a best-effort basis, and stops at an
\* error: it may leave the slots, the counter or both.
Start(p) ==
    /\ p \notin up
    /\ up' = up \cup {p}
    /\ \/ wait' = 0 /\ waitLeft' = 0 /\ miscounted' = (miscounted \/ Queued # {})
       \/ UNCHANGED <<wait, waitLeft, miscounted>>
    /\ UNCHANGED <<pc, home, slot, lease, faults, lost>>

\* The slot cleanup worker, and every reader of the counts.
Reap ==
    /\ up # {}
    /\ slot' = Purged(slot)
    /\ lease' \in {lease, Purged(lease)}
    /\ UNCHANGED <<up, pc, home, wait, waitLeft, faults, lost, miscounted>>

\* The time of Redis goes on; a key that has none left disappears.
Tick ==
    /\ slot' = Aged(slot)
    /\ lease' = Aged(lease)
    /\ waitLeft' = IF waitLeft > 0 THEN waitLeft - 1 ELSE 0
    /\ wait' = IF waitLeft = 1 THEN 0 ELSE wait
    /\ lost' = (lost \/ (\E q \in OnSlot : slot[q] <= 1) \/ (\E q \in OnLease : lease[q] <= 1))
    /\ miscounted' = (miscounted \/ (waitLeft = 1 /\ Queued # {}))
    /\ UNCHANGED <<up, pc, home, faults>>

Work(q) ==
    \/ Enqueue(q) \/ Poll(q) \/ DecrementWait(q) \/ Release(q)
    \/ Lease(q) \/ Dial(q) \/ Finalize(q) \/ RunOut(q)

Next ==
    \/ \E q \in Requests : Arrive(q) \/ Work(q) \/ GiveUp(q) \/ Disconnect(q) \/ Refresh(q)
    \/ \E p \in Processes : Crash(p) \/ Sweep(p) \/ Start(p)
    \/ Reap
    \/ Tick

Spec == Init /\ [][Next]_vars

\* A running handler goes on and time passes.  Nobody has to give up waiting or to
\* disconnect.
FairSpec ==
    /\ Spec
    /\ \A q \in Requests : WF_vars(Work(q))
    /\ WF_vars(Tick)

-----------------------------------------------------------------------------
\* The limit of AcquireUserSlot holds across processes, ordinary requests and Live
\* calls, the handover from slot to lease, crashes and calls whose answer is
\* lost: as long as no attended request lost its member, at most Max are attended.
\* What runs on at the provider without a client or a controller is not bounded.
LimitKept == ~lost => Cardinality(Attended) <= Max

\* The queue is bounded: as long as no wait went uncounted, at most QueueLimit
\* requests wait, however increments, decrements and crashes interleave.
QueueBounded == ~miscounted => Cardinality(Queued) <= QueueLimit

\* What a dead process, a lost answer or a failed release left behind does not
\* starve the others: who keeps waiting leaves the queue without its deadline.
WaiterServed == \A q \in Requests : (pc[q] = "wait") ~> (pc[q] # "wait")

\* A queue that counts the waits of requests that died is not full for ever.
QueueReopens == QueueFull ~> ~QueueFull
=============================================================================
