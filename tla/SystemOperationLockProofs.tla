--------------------- MODULE SystemOperationLockProofs ---------------------
(***************************************************************************)
(* Proofs about SystemOperationLock: type correctness, and that nobody     *)
(* takes the lock from the operation that created its row while that one   *)
(* renews in time.                                                         *)
(***************************************************************************)
EXTENDS SystemOperationLock, TLAPS

\* A row of the lock has the type of its fields.
LEMMA RowFields ==
    ASSUME NEW r \in Rows
    PROVE  /\ r.id \in Nat /\ r.fp \in OperationIds \cup {"none"} /\ r.status \in Statuses
           /\ r.locked \in Nat /\ r.expires \in Nat
           /\ r.body \in {"none", "released"} /\ r.whole \in BOOLEAN
BY DEF Rows, Row

\* The statements of the store keep the type of the row.
LEMMA RowTypes ==
    ASSUME NEW r \in Rows, NEW id \in Nat, NEW fp \in OperationIds,
           NEW locked \in Nat, NEW expires \in Nat, NEW status \in Statuses
    PROVE  /\ WithState(r, status, locked, expires) \in Rows
           /\ CreateProcessing(r, id, fp, locked, expires) \in Rows
           /\ MarkSucceeded(r, id, "released", TRUE, expires) \in Rows
           /\ MarkFailedRetryable(r, id, locked, expires) \in Rows
           /\ NoRow \in Rows
<1>1. WithState(r, status, locked, expires) \in Rows
  BY RowFields DEF WithState, Rows, Row
<1>2. CreateProcessing(r, id, fp, locked, expires) \in Rows
  BY DEF CreateProcessing, Rows, Row, Statuses, Processing
<1>3. MarkSucceeded(r, id, "released", TRUE, expires) \in Rows
  BY RowFields DEF MarkSucceeded, Rows, Row, Statuses, Succeeded
<1>4. MarkFailedRetryable(r, id, locked, expires) \in Rows
  BY RowFields DEF MarkFailedRetryable, WithState, Rows, Row, Statuses, FailedRetryable
<1>5. NoRow \in Rows
  BY DEF NoRow, Rows, Row, Statuses
<1> QED
  BY <1>1, <1>2, <1>3, <1>4, <1>5

LEMMA InitTypes == Init => TypeOK
<1> SUFFICES ASSUME Init PROVE TypeOK
  OBVIOUS
<1>1. row \in Rows
  BY DEF Init, NoRow, Rows, Row, Statuses
<1>2. late \in BOOLEAN /\ inserted \in [Operations -> BOOLEAN]
  BY Zenon DEF Init
<1>3. /\ pc \in [Operations -> Pcs] /\ opId \in [Operations -> OperationIds \cup {"none"}]
      /\ seen \in [Operations -> [id : Nat, status : Statuses]]
  BY DEF Init, Pcs, Statuses
<1> QED
  BY <1>1, <1>2, <1>3 DEF Init, TypeOK

\* The operation at work has an id: what Acquire needs to write the row.
Identified == \A o \in Operations : pc[o] # "idle" => opId[o] \in OperationIds

LEMMA AcquiredTypes ==
    ASSUME TypeOK, NEW o \in Operations, NEW id \in Nat, NEW byInsert \in BOOLEAN,
           Acquired(o, id, byInsert)
    PROVE  /\ pc' \in [Operations -> Pcs] /\ rid' \in [Operations -> Nat]
           /\ due' \in [Operations -> Nat] /\ inserted' \in [Operations -> BOOLEAN]
           /\ late' \in BOOLEAN
<1>1. late' \in BOOLEAN
  BY Zenon DEF Acquired, TypeOK
<1>2. inserted' \in [Operations -> BOOLEAN]
  BY DEF Acquired, TypeOK
<1>3. due' \in [Operations -> Nat]
  BY LockAssumption DEF Acquired, TypeOK
<1> QED
  BY <1>1, <1>2, <1>3 DEF Acquired, Goto, TypeOK, Pcs

LEMMA StepTypes ==
    ASSUME TypeOK, Identified, [Next]_vars
    PROVE  TypeOK' /\ Identified'
<1>1. ASSUME NEW o \in Operations, Begin(o)
      PROVE  TypeOK' /\ Identified'
  <2>1. opId' \in [Operations -> OperationIds \cup {"none"}] /\ opId'[o] \in OperationIds
    BY <1>1 DEF Begin, TypeOK
  <2>2. pc' \in [Operations -> Pcs] /\ at' \in [Operations -> Nat]
    BY <1>1 DEF Begin, Goto, TypeOK, Pcs, Acquiring
  <2>3. \A p \in Operations : p # o => opId'[p] = opId[p] /\ pc'[p] = pc[p]
    BY <1>1 DEF Begin, Goto, TypeOK
  <2> QED
    BY <1>1, <2>1, <2>2, <2>3 DEF Begin, TypeOK, Identified
<1>2. ASSUME NEW o \in Operations, Create(o)
      PROVE  TypeOK' /\ Identified'
  <2>1. opId[o] \in OperationIds
    BY <1>2 DEF Create, Identified
  <2>2. row' \in Rows
    <3>1. at[o] + Lease \in Nat /\ at[o] + TTL \in Nat /\ Processing \in Statuses
      BY LockAssumption DEF TypeOK, Statuses
    <3>2. CreateProcessing(row, nextId, opId[o], at[o] + Lease, at[o] + TTL) \in Rows
      BY <2>1, <3>1, RowTypes DEF TypeOK
    <3> QED
      BY <1>2, <3>2 DEF Create
  <2>3. CASE row.id = 0
    <3>1. /\ pc' \in [Operations -> Pcs] /\ rid' \in [Operations -> Nat]
          /\ due' \in [Operations -> Nat] /\ inserted' \in [Operations -> BOOLEAN]
          /\ late' \in BOOLEAN
      BY <1>2, <2>3, AcquiredTypes DEF Create, TypeOK
    <3>2. \A p \in Operations : p # o => pc'[p] = pc[p]
      BY <1>2, <2>3 DEF Create, Acquired, Goto, TypeOK
    <3>3. nextId' \in Nat
      BY <1>2, <2>3 DEF Create, TypeOK
    <3> QED
      BY <1>2, <2>1, <2>2, <3>1, <3>2, <3>3 DEF Create, TypeOK, Identified
  <2>4. CASE row.id # 0
    BY <1>2, <2>1, <2>2, <2>4 DEF Create, Goto, TypeOK, Identified, Pcs, Acquiring
  <2> QED
    BY <2>3, <2>4
<1>3. ASSUME NEW o \in Operations, GetExisting(o)
      PROVE  TypeOK' /\ Identified'
  <2>1. seen' \in [Operations -> [id : Nat, status : Statuses]]
    BY <1>3, RowFields DEF GetExisting, TypeOK
  <2>2. pc' \in [Operations -> Pcs]
    BY <1>3 DEF GetExisting, Goto, TypeOK, Pcs, Acquiring
  <2>3. Identified'
    BY <1>3 DEF GetExisting, Goto, TypeOK, Identified
  <2> QED
    BY <1>3, <2>1, <2>2, <2>3 DEF GetExisting, TypeOK
<1>4. ASSUME NEW o \in Operations, Reclaim(o)
      PROVE  TypeOK' /\ Identified'
  <2>1. opId[o] \in OperationIds
    BY <1>4 DEF Reclaim, Identified
  <2>2. seen[o].id \in Nat
    BY DEF TypeOK
  <2>3. CASE Reclaimable(row, seen[o].id, seen[o].status, at[o])
    <3>1. row' \in Rows
      <4>1. at[o] + Lease \in Nat /\ at[o] + TTL \in Nat /\ Processing \in Statuses
        BY LockAssumption DEF TypeOK, Statuses
      <4>2. WithState(row, Processing, at[o] + Lease, at[o] + TTL) \in Rows
        BY <2>1, <2>2, <4>1, RowTypes DEF TypeOK
      <4> QED
        BY <1>4, <2>3, <4>2 DEF Reclaim, Reclaimed
    <3>2. /\ pc' \in [Operations -> Pcs] /\ rid' \in [Operations -> Nat]
          /\ due' \in [Operations -> Nat] /\ inserted' \in [Operations -> BOOLEAN]
          /\ late' \in BOOLEAN
      BY <1>4, <2>2, <2>3, AcquiredTypes DEF Reclaim
    <3>3. \A p \in Operations : p # o => pc'[p] = pc[p]
      BY <1>4, <2>3 DEF Reclaim, Acquired, Goto, TypeOK
    <3> QED
      BY <1>4, <2>1, <3>1, <3>2, <3>3 DEF Reclaim, TypeOK, Identified
  <2>4. CASE ~Reclaimable(row, seen[o].id, seen[o].status, at[o])
    BY <1>4, <2>1, <2>4 DEF Reclaim, Goto, TypeOK, Identified, Pcs
  <2> QED
    BY <2>3, <2>4
<1>5. ASSUME NEW o \in Operations, Renew(o)
      PROVE  TypeOK' /\ Identified'
  <2>1. row' \in Rows
    <3>1. row.status \in Statuses
      BY RowFields DEF TypeOK
    <3>2. WithState(row, row.status, now + Lease, now + TTL) \in Rows
      BY <3>1, RowFields, LockAssumption DEF WithState, Rows, Row, TypeOK
    <3> QED
      BY <1>5, <3>2 DEF Renew, Extended, TypeOK
  <2>2. due' \in [Operations -> Nat]
    BY <1>5, LockAssumption DEF Renew, TypeOK
  <2> QED
    BY <1>5, <2>1, <2>2 DEF Renew, TypeOK, Identified
<1>6. ASSUME NEW o \in Operations, RenewError(o)
      PROVE  TypeOK' /\ Identified'
  <2>1. due' \in [Operations -> Nat]
    BY <1>6, LockAssumption DEF RenewError, TypeOK
  <2>2. late' \in BOOLEAN
    BY <1>6, Zenon DEF RenewError
  <2> QED
    BY <1>6, <2>1, <2>2 DEF RenewError, TypeOK, Identified
<1>7. ASSUME NEW o \in Operations, Release(o)
      PROVE  TypeOK' /\ Identified'
  <2>1. rid[o] \in Nat /\ opId[o] \in OperationIds
    BY <1>7 DEF Release, TypeOK, Identified
  <2>2. row' \in Rows
    <3>1. now \in Nat /\ now + TTL \in Nat /\ Processing \in Statuses
      BY LockAssumption DEF TypeOK, Statuses
    <3>2. /\ MarkSucceeded(row, rid[o], "released", TRUE, now + TTL) \in Rows
          /\ MarkFailedRetryable(row, rid[o], now, now + TTL) \in Rows
      BY <2>1, <3>1, RowTypes DEF TypeOK
    <3> QED
      BY <1>7, <3>2 DEF Release, TypeOK
  <2>3. pc' \in [Operations -> Pcs] /\ due' \in [Operations -> Nat]
    BY <1>7 DEF Release, Goto, TypeOK, Pcs
  <2>4. Identified'
    BY <1>7, <2>1 DEF Release, Goto, TypeOK, Identified
  <2> QED
    BY <1>7, <2>2, <2>3, <2>4 DEF Release, TypeOK
<1>8. ASSUME NEW o \in Operations, Crash(o)
      PROVE  TypeOK' /\ Identified'
  <2>1. pc' \in [Operations -> Pcs] /\ due' \in [Operations -> Nat]
    BY <1>8 DEF Crash, Goto, TypeOK, Pcs
  <2>2. Identified'
    BY <1>8 DEF Crash, Goto, TypeOK, Identified, Acquiring
  <2> QED
    BY <1>8, <2>1, <2>2 DEF Crash, TypeOK
<1>9. CASE Tick
  BY <1>9 DEF Tick, TypeOK, Identified
<1>10. CASE Cleanup
  <2>1. row' \in Rows
    BY <1>10 DEF Cleanup, DeleteExpired, NoRow, Rows, Row, Statuses
  <2> QED
    BY <1>10, <2>1 DEF Cleanup, TypeOK, Identified
<1>11. CASE UNCHANGED vars
  BY <1>11 DEF vars, TypeOK, Identified
<1> QED
  BY <1>1, <1>2, <1>3, <1>4, <1>5, <1>6, <1>7, <1>8, <1>9, <1>10, <1>11 DEF Next, Step

\* Type correctness of the lock's row, the operations and their renewals, for any
\* number of operations and ids and any lease.
THEOREM TypeCorrect == Spec => []TypeOK
<1>1. Init => TypeOK /\ Identified
  BY InitTypes DEF Init, Identified
<1>2. TypeOK /\ Identified /\ [Next]_vars => TypeOK' /\ Identified'
  BY StepTypes
<1> QED
  BY <1>1, <1>2, PTL DEF Spec

-----------------------------------------------------------------------------
\* Clocks and ids: Acquire's clock is not ahead, the ids of rows come from nextId,
\* and only a held lock is renewed.
OrderInv ==
    /\ row.id < nextId
    /\ \A o \in Operations :
           at[o] <= now /\ rid[o] < nextId /\ (due[o] # 0 => pc[o] = "held")

\* What the operation that created the row can count on while it renews: the row
\* is its own and running, no other holder has its id, and its lease and its
\* expiry lie behind the next renewal.
Owns(o) ==
    /\ row.id = rid[o] /\ row.id # 0
    /\ row.status = Processing /\ row.fp = opId[o]
    /\ due[o] # 0 /\ now <= due[o]
    /\ row.locked + RenewInterval = due[o] + Lease
    /\ row.expires + RenewInterval = due[o] + TTL
    /\ \A p \in Operations : p # o /\ pc[p] = "held" => rid[p] # row.id

Creator(o) == pc[o] = "held" /\ inserted[o]

OwnInv == ~late => \A o \in Operations : Creator(o) => Owns(o)

LockInv == TypeOK /\ Identified /\ OrderInv /\ OwnInv

LEMMA StepOrder ==
    ASSUME LockInv, [Next]_vars
    PROVE  OrderInv'
<1> USE DEF LockInv
<1>1. ASSUME NEW o \in Operations, Begin(o) \/ GetExisting(o)
      PROVE  OrderInv'
  BY <1>1 DEF Begin, GetExisting, Goto, TypeOK, OrderInv
<1>2. ASSUME NEW o \in Operations, Create(o)
      PROVE  OrderInv'
  <2>1. CASE row.id = 0
    <3>1. row'.id < nextId'
      BY <1>2, <2>1 DEF Create, CreateProcessing, TypeOK
    <3>2. /\ at' = at /\ now' = now /\ nextId' = nextId + 1
          /\ pc' = [pc EXCEPT ![o] = "held"] /\ rid' = [rid EXCEPT ![o] = nextId]
          /\ due' = [due EXCEPT ![o] = now + RenewInterval]
      BY <1>2, <2>1 DEF Create, Acquired, Goto
    <3> QED
      BY <3>1, <3>2, LockAssumption DEF TypeOK, OrderInv
  <2>2. CASE row.id # 0
    <3>1. /\ row' = row /\ pc' = [pc EXCEPT ![o] = "get"]
          /\ UNCHANGED <<nextId, rid, due, at, now>>
      BY <1>2, <2>2 DEF Create, CreateProcessing, Goto
    <3>2. pc[o] = "create"
      BY <1>2 DEF Create
    <3> QED
      BY <3>1, <3>2 DEF TypeOK, OrderInv
  <2> QED
    BY <2>1, <2>2
<1>3. ASSUME NEW o \in Operations, Reclaim(o)
      PROVE  OrderInv'
  <2>1. CASE Reclaimable(row, seen[o].id, seen[o].status, at[o])
    <3>1. /\ row'.id = row.id /\ at' = at /\ now' = now /\ nextId' = nextId
          /\ pc' = [pc EXCEPT ![o] = "held"] /\ rid' = [rid EXCEPT ![o] = row.id]
          /\ due' = [due EXCEPT ![o] = now + RenewInterval]
      BY <1>3, <2>1 DEF Reclaim, Reclaimable, Reclaimed, WithState, Acquired, Goto
    <3> QED
      BY <3>1, LockAssumption DEF TypeOK, OrderInv
  <2>2. CASE ~Reclaimable(row, seen[o].id, seen[o].status, at[o])
    BY <1>3, <2>2 DEF Reclaim, Goto, TypeOK, OrderInv
  <2> QED
    BY <2>1, <2>2
<1>4. ASSUME NEW o \in Operations, Renew(o) \/ RenewError(o)
      PROVE  OrderInv'
  <2>1. row'.id = row.id
    BY <1>4 DEF Renew, RenewError, Extended, WithState
  <2>2. /\ due[o] # 0 /\ UNCHANGED <<at, now, nextId, rid, pc>>
        /\ \E d \in Nat : due' = [due EXCEPT ![o] = d]
    BY <1>4, LockAssumption DEF Renew, RenewError, TypeOK
  <2> QED
    BY <2>1, <2>2 DEF TypeOK, OrderInv
<1>5. ASSUME NEW o \in Operations, Release(o) \/ Crash(o)
      PROVE  OrderInv'
  <2>1. row'.id = row.id
    BY <1>5 DEF Release, Crash, MarkSucceeded, MarkFailedRetryable, WithState
  <2>2. /\ UNCHANGED <<at, now, nextId, rid>>
        /\ pc' = [pc EXCEPT ![o] = "done"] /\ due' = [due EXCEPT ![o] = 0]
    BY <1>5 DEF Release, Crash, Goto
  <2> QED
    BY <2>1, <2>2 DEF TypeOK, OrderInv
<1>6. CASE Tick
  BY <1>6 DEF Tick, TypeOK, OrderInv
<1>7. CASE Cleanup
  <2>1. row'.id = row.id \/ row'.id = 0
    BY <1>7 DEF Cleanup, DeleteExpired, NoRow
  <2>2. row.id \in Nat
    BY RowFields DEF TypeOK
  <2> QED
    BY <1>7, <2>1, <2>2 DEF Cleanup, TypeOK, OrderInv
<1>8. CASE UNCHANGED vars
  BY <1>8 DEF vars, OrderInv
<1> QED
  BY <1>1, <1>2, <1>3, <1>4, <1>5, <1>6, <1>7, <1>8 DEF Next, Step

\* The lease and the expiry of an owner's row have not lapsed.
LEMMA OwnerCovered ==
    ASSUME LockInv, ~late, NEW o \in Operations, Creator(o)
    PROVE  Owns(o) /\ row.locked > now /\ row.expires > now
<1>1. Owns(o)
  BY DEF LockInv, OwnInv
<1>2. row.locked \in Nat /\ row.expires \in Nat
  BY RowFields DEF LockInv, TypeOK
<1>3. now \in Nat /\ due[o] \in Nat
  BY DEF LockInv, TypeOK
<1> QED
  BY <1>1, <1>2, <1>3, LockAssumption DEF Owns

\* Nobody acquires the lock next to an owner.
LEMMA NoneAcquires ==
    ASSUME LockInv, ~late, NEW o \in Operations, Creator(o), NEW p \in Operations
    PROVE  /\ Create(p) => row.id # 0
           /\ ~Reclaimable(row, seen[p].id, seen[p].status, at[p])
<1>1. Owns(o) /\ row.locked > now
  BY OwnerCovered
<1>2. at[p] <= now /\ at[p] \in Nat /\ now \in Nat
  BY DEF LockInv, OrderInv, TypeOK
<1>3. row.locked \in Nat
  BY RowFields DEF LockInv, TypeOK
<1> QED
  BY <1>1, <1>2, <1>3 DEF Owns, Reclaimable

\* A step that leaves the row, the owner and the clock alone, and by which nobody
\* else acquires the lock, leaves the owner what it counts on.
LEMMA OwnsFrame ==
    ASSUME LockInv, NEW o \in Operations, Owns(o), UNCHANGED <<row, now, rid>>,
           opId'[o] = opId[o], due'[o] = due[o],
           \A p \in Operations : p # o /\ pc'[p] = "held" => pc[p] = "held"
    PROVE  Owns(o)'
BY DEF Owns

LEMMA StepOwn ==
    ASSUME LockInv, [Next]_vars
    PROVE  OwnInv'
<1> SUFFICES ASSUME ~late', NEW o \in Operations, Creator(o)'
             PROVE  Owns(o)'
  BY DEF OwnInv
<1> USE DEF LockInv
<1>0. ~late
  <2>1. ASSUME NEW p \in Operations, Step(p) PROVE late => late'
    BY <2>1, Zenon DEF Step, Begin, Create, GetExisting, Reclaim, Acquired, Renew, RenewError,
                       Release, Crash
  <2>2. Tick \/ Cleanup \/ UNCHANGED vars => (late => late')
    BY Zenon DEF Tick, Cleanup, vars
  <2> QED
    BY <2>1, <2>2 DEF Next
<1>1. ASSUME NEW p \in Operations, Begin(p) \/ GetExisting(p) PROVE Owns(o)'
  <2>1. \A q \in Operations : pc'[q] = "held" => pc[q] = "held" /\ q # p
    BY <1>1 DEF Begin, GetExisting, Goto, TypeOK
  <2>2. o # p /\ Creator(o)
    BY <1>1, <2>1 DEF Creator, Begin, GetExisting
  <2>3. /\ UNCHANGED <<row, now, rid>> /\ opId'[o] = opId[o] /\ due'[o] = due[o]
    BY <1>1, <2>2 DEF Begin, GetExisting, TypeOK
  <2>4. Owns(o)
    BY <1>0, <2>2, OwnerCovered
  <2> QED
    BY <2>1, <2>3, <2>4, OwnsFrame
<1>2. ASSUME NEW p \in Operations, Create(p) PROVE Owns(o)'
  <2>1. CASE row.id = 0
    <3>1. ~Creator(o)
      BY <1>0, <1>2, <2>1, NoneAcquires
    <3>2. /\ pc' = [pc EXCEPT ![p] = "held"] /\ rid' = [rid EXCEPT ![p] = nextId]
          /\ due' = [due EXCEPT ![p] = now + RenewInterval]
          /\ UNCHANGED <<now, opId, at>>
          /\ row' = [id |-> nextId, fp |-> opId[p], status |-> Processing,
                     locked |-> at[p] + Lease, expires |-> at[p] + TTL,
                     body |-> "none", whole |-> TRUE]
      BY <1>2, <2>1 DEF Create, Acquired, Goto, CreateProcessing
    <3>3. inserted' = [inserted EXCEPT ![p] = TRUE]
      BY <1>2, <2>1 DEF Create, Acquired
    <3>4. o = p
      BY <3>1, <3>2, <3>3 DEF Creator, TypeOK
    <3>5. at[p] = now
      BY <1>2, <2>1, Zenon DEF Create, Acquired
    <3>6. \A q \in Operations : q # o /\ pc'[q] = "held" => rid'[q] # row'.id
      BY <3>2, <3>4 DEF OrderInv, TypeOK
    <3>7. nextId # 0
      BY RowFields DEF OrderInv, TypeOK
    <3>8. /\ row'.id = rid'[o] /\ row'.id # 0
          /\ row'.status = Processing /\ row'.fp = opId'[o]
          /\ due'[o] = now + RenewInterval
          /\ row'.locked = now + Lease /\ row'.expires = now + TTL /\ now' = now
      BY <3>2, <3>4, <3>5, <3>7 DEF TypeOK
    <3>9. now \in Nat
      BY DEF TypeOK
    <3> QED
      BY <3>6, <3>8, <3>9, LockAssumption DEF Owns
  <2>2. CASE row.id # 0
    <3>1. /\ pc' = [pc EXCEPT ![p] = "get"]
          /\ UNCHANGED <<row, now, rid, opId, due, inserted>>
      BY <1>2, <2>2 DEF Create, CreateProcessing, Goto
    <3>2. Creator(o) /\ \A q \in Operations : pc'[q] = "held" => pc[q] = "held"
      BY <3>1 DEF Creator, TypeOK
    <3>3. Owns(o)
      BY <1>0, <3>2, OwnerCovered
    <3> QED
      BY <3>1, <3>2, <3>3, OwnsFrame
  <2> QED
    BY <2>1, <2>2
<1>3. ASSUME NEW p \in Operations, Reclaim(p) PROVE Owns(o)'
  <2>1. CASE Reclaimable(row, seen[p].id, seen[p].status, at[p])
    <3>1. /\ pc' = [pc EXCEPT ![p] = "held"] /\ inserted' = [inserted EXCEPT ![p] = FALSE]
      BY <1>3, <2>1 DEF Reclaim, Acquired, Goto
    <3>2. o # p
      BY <3>1 DEF Creator, TypeOK
    <3>3. Creator(o)
      BY <3>1, <3>2 DEF Creator, TypeOK
    <3> QED
      BY <1>0, <2>1, <3>3, NoneAcquires
  <2>2. CASE ~Reclaimable(row, seen[p].id, seen[p].status, at[p])
    <3>1. /\ pc' = [pc EXCEPT ![p] = "busy"]
          /\ UNCHANGED <<row, now, rid, opId, due, inserted>>
      BY <1>3, <2>2 DEF Reclaim, Goto
    <3>2. Creator(o) /\ \A q \in Operations : pc'[q] = "held" => pc[q] = "held"
      BY <3>1 DEF Creator, TypeOK
    <3>3. Owns(o)
      BY <1>0, <3>2, OwnerCovered
    <3> QED
      BY <3>1, <3>2, <3>3, OwnsFrame
  <2> QED
    BY <2>1, <2>2
<1>4. ASSUME NEW p \in Operations, Renew(p) PROVE Owns(o)'
  <2>1. UNCHANGED <<pc, now, rid, opId, inserted>> /\ pc[p] = "held"
    BY <1>4 DEF Renew, OrderInv
  <2>2. Creator(o) /\ Owns(o)
    <3>1. Creator(o)
      BY <2>1 DEF Creator
    <3> QED
      BY <1>0, <3>1, OwnerCovered
  <2>3. CASE p = o
    <3>1. Extendable(row, rid[o], opId[o])
      BY <2>2 DEF Owns, Extendable
    <3>2. /\ row'.id = row.id /\ row'.fp = row.fp /\ row'.status = row.status
          /\ row'.locked = now + Lease /\ row'.expires = now + TTL
          /\ due'[o] = now + RenewInterval
      BY <1>4, <2>3, <3>1 DEF Renew, Extended, WithState, TypeOK
    <3>3. now \in Nat
      BY DEF TypeOK
    <3> QED
      BY <2>1, <2>2, <3>2, <3>3, LockAssumption DEF Owns
  <2>4. CASE p # o
    <3>1. ~Extendable(row, rid[p], opId[p])
      BY <2>1, <2>2, <2>4 DEF Owns, Extendable
    <3>2. UNCHANGED row /\ due'[o] = due[o]
      BY <1>4, <2>4, <3>1 DEF Renew, TypeOK
    <3> QED
      BY <2>1, <2>2, <3>2, OwnsFrame
  <2> QED
    BY <2>3, <2>4
<1>5. ASSUME NEW p \in Operations, RenewError(p) PROVE FALSE
  BY <1>5, Zenon DEF RenewError
<1>6. ASSUME NEW p \in Operations, Release(p) \/ Crash(p) PROVE Owns(o)'
  <2>1. /\ pc' = [pc EXCEPT ![p] = "done"] /\ due' = [due EXCEPT ![p] = 0]
        /\ UNCHANGED <<now, rid, opId, inserted>>
    BY <1>6 DEF Release, Crash, Goto
  <2>2. o # p /\ Creator(o) /\ \A q \in Operations : pc'[q] = "held" => pc[q] = "held"
    BY <2>1 DEF Creator, TypeOK
  <2>3. Owns(o)
    BY <1>0, <2>2, OwnerCovered
  <2>4. UNCHANGED row
    <3>1. CASE Crash(p)
      BY <3>1 DEF Crash
    <3>2. CASE Release(p)
      <4>1. rid[p] # row.id
        BY <2>2, <2>3, <3>2 DEF Release, Owns
      <4> QED
        BY <3>2, <4>1 DEF Release, MarkSucceeded, MarkFailedRetryable
    <3> QED
      BY <1>6, <3>1, <3>2
  <2>5. due'[o] = due[o]
    BY <2>1, <2>2 DEF TypeOK
  <2> QED
    BY <2>1, <2>2, <2>3, <2>4, <2>5, OwnsFrame
<1>7. CASE Tick
  <2>1. Creator(o)
    BY <1>7 DEF Tick, Creator
  <2>2. Owns(o)
    BY <1>0, <2>1, OwnerCovered
  <2>3. now' <= due[o]
    BY <1>7, <2>2 DEF Tick, Owns, TypeOK
  <2> QED
    BY <1>7, <2>2, <2>3 DEF Tick, Owns
<1>8. CASE Cleanup
  <2>1. Creator(o)
    BY <1>8 DEF Cleanup, Creator
  <2>2. row.expires > now
    BY <1>0, <2>1, OwnerCovered
  <2>3. row.expires \in Nat /\ now \in Nat
    BY RowFields DEF TypeOK
  <2> QED
    BY <1>8, <2>2, <2>3 DEF Cleanup
<1>9. CASE UNCHANGED vars
  <2>1. Creator(o)
    BY <1>9 DEF vars, Creator
  <2>2. Owns(o)
    BY <1>0, <2>1, OwnerCovered
  <2> QED
    BY <1>9, <2>2, OwnsFrame DEF vars
<1> QED
  BY <1>1, <1>2, <1>3, <1>4, <1>5, <1>6, <1>7, <1>8, <1>9 DEF Next, Step

LEMMA StepKeepsLock ==
    ASSUME LockInv, [Next]_vars, NEW o \in Operations, NEW p \in Operations,
           o # p, ~late', pc[o] = "held", inserted[o], pc[p] # "held", pc'[p] = "held"
    PROVE  FALSE
<1> USE DEF LockInv
<1>0. ~late
  <2>1. ASSUME NEW q \in Operations, Step(q) PROVE late => late'
    BY <2>1, Zenon DEF Step, Begin, Create, GetExisting, Reclaim, Acquired, Renew, RenewError,
                       Release, Crash
  <2>2. Tick \/ Cleanup \/ UNCHANGED vars => (late => late')
    BY Zenon DEF Tick, Cleanup, vars
  <2> QED
    BY <2>1, <2>2 DEF Next
<1>1. Creator(o)
  BY DEF Creator
<1>2. ASSUME NEW q \in Operations, Create(q) PROVE FALSE
  <2>1. row.id # 0
    BY <1>0, <1>1, <1>2, NoneAcquires
  <2> QED
    BY <1>2, <2>1 DEF Create, Goto, TypeOK
<1>3. ASSUME NEW q \in Operations, Reclaim(q) PROVE FALSE
  <2>1. ~Reclaimable(row, seen[q].id, seen[q].status, at[q])
    BY <1>0, <1>1, NoneAcquires
  <2> QED
    BY <1>3, <2>1 DEF Reclaim, Goto, TypeOK
<1>4. ASSUME NEW q \in Operations, Begin(q) \/ GetExisting(q) \/ Release(q) \/ Crash(q)
      PROVE  FALSE
  BY <1>4 DEF Begin, GetExisting, Release, Crash, Goto, TypeOK
<1>5. ASSUME UNCHANGED pc PROVE FALSE
  BY <1>5
<1> QED
  BY <1>2, <1>3, <1>4, <1>5 DEF Next, Step, Renew, RenewError, Tick, Cleanup, vars

\* While the operation that created the lock's row runs and renews in time, no
\* other operation acquires the lock, for any number of operations and any lease
\* longer than the renewal interval.
THEOREM CreatorKeeps == Spec => CreatorKeepsLock
<1>1. Init => LockInv
  <2>1. ASSUME Init PROVE OrderInv
    BY <2>1 DEF Init, OrderInv, NoRow
  <2>2. ASSUME Init PROVE OwnInv
    BY <2>2 DEF Init, OwnInv, Creator
  <2> QED
    BY <2>1, <2>2, InitTypes DEF LockInv, Init, Identified
<1>2. LockInv /\ [Next]_vars => LockInv'
  BY StepTypes, StepOrder, StepOwn DEF LockInv
<1>3. LockInv /\ [Next]_vars =>
        [\A o, p \in Operations :
           /\ o # p /\ ~late'
           /\ pc[o] = "held" /\ inserted[o]
           => ~(pc[p] # "held" /\ pc'[p] = "held")]_vars
  BY StepKeepsLock
<1> QED
  BY <1>1, <1>2, <1>3, PTL DEF Spec, CreatorKeepsLock
=============================================================================
