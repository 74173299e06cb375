------------------------ MODULE SystemOperationLock ------------------------
(***************************************************************************)
(* SystemOperationLockService (service/system_operation_lock_service.go):  *)
(* update, rollback and restart take a global lease, which is one row of   *)
(* the idempotency store, renew it from a goroutine, and give it back.     *)
(* Operations run in one or several server processes on one database.      *)
(***************************************************************************)
EXTENDS IdempotencyStore

CONSTANTS
    Operations,     \* calls of update, rollback, restart
    OperationIds,   \* what buildSystemOperationID can return
    Lease,          \* s.lease
    RenewInterval,  \* s.renewInterval
    TTL,            \* s.ttl
    MaxTime         \* bound: the clock stops here

ASSUME LockAssumption ==
    /\ Lease \in Nat /\ RenewInterval \in Nat \ {0} /\ TTL \in Nat /\ MaxTime \in Nat
    /\ RenewInterval < Lease /\ Lease <= TTL
    /\ "none" \notin OperationIds

VARIABLES
    now,      \* time.Now()
    row,      \* the row of the global lock
    nextId,   \* the id sequence
    pc,       \* where each operation is
    opId,     \* its operation id
    at,       \* the `now` that Acquire captured
    rid,      \* lock.recordID
    seen,     \* id and status of `existing`, as Acquire read it
    due,      \* when the renew goroutine's ticker fires next; 0: no goroutine
    inserted, \* history: the lock was acquired by inserting the row
    late      \* history: a renewal failed or a lock was acquired with a stale clock

vars == <<now, row, nextId, pc, opId, at, rid, seen, due, inserted, late>>

Rows == Row(OperationIds \cup {"none"}, {"none", "released"})
Acquiring == {"create", "get", "reclaim"}
Pcs == {"idle", "held", "busy", "done"} \cup Acquiring

\* Types of the state.
TypeOK ==
    /\ now \in Nat
    /\ row \in Rows
    /\ nextId \in Nat
    /\ pc \in [Operations -> Pcs]
    /\ opId \in [Operations -> OperationIds \cup {"none"}]
    /\ at \in [Operations -> Nat]
    /\ rid \in [Operations -> Nat]
    /\ seen \in [Operations -> [id : Nat, status : Statuses]]
    /\ due \in [Operations -> Nat]
    /\ inserted \in [Operations -> BOOLEAN]
    /\ late \in BOOLEAN

Init ==
    /\ now = 0
    /\ row = NoRow
    /\ nextId = 1
    /\ pc = [o \in Operations |-> "idle"]
    /\ opId = [o \in Operations |-> "none"]
    /\ at = [o \in Operations |-> 0]
    /\ rid = [o \in Operations |-> 0]
    /\ seen = [o \in Operations |-> [id |-> 0, status |-> "none"]]
    /\ due = [o \in Operations |-> 0]
    /\ inserted = [o \in Operations |-> FALSE]
    /\ late = FALSE

Goto(o, l) == pc' = [pc EXCEPT ![o] = l]

\* The handler has built an operation id: the hash of the client's
\* Idempotency-Key, so two calls may share one, or a fresh one.
Begin(o) ==
    /\ pc[o] = "idle"
    /\ \E i \in OperationIds : opId' = [opId EXCEPT ![o] = i]
    /\ at' = [at EXCEPT ![o] = now]
    /\ Goto(o, "create")
    /\ UNCHANGED <<now, row, nextId, rid, seen, due, inserted, late>>

\* Acquire succeeded: the lock is handed out and `go s.renewLoop(lock)` starts.
Acquired(o, id, byInsert) ==
    /\ Goto(o, "held")
    /\ rid' = [rid EXCEPT ![o] = id]
    /\ due' = [due EXCEPT ![o] = now + RenewInterval]
    /\ inserted' = [inserted EXCEPT ![o] = byInsert]
    /\ late' = (late \/ at[o] # now)

Create(o) ==
    /\ pc[o] = "create"
    /\ row' = CreateProcessing(row, nextId, opId[o], at[o] + Lease, at[o] + TTL)
    /\ IF row.id = 0
       THEN nextId' = nextId + 1 /\ Acquired(o, nextId, TRUE)
       ELSE Goto(o, "get") /\ UNCHANGED <<nextId, rid, due, inserted, late>>
    /\ UNCHANGED <<now, opId, at, seen>>

GetExisting(o) ==
    /\ pc[o] = "get"
    /\ seen' = [seen EXCEPT ![o] = [id |-> row.id, status |-> row.status]]
    /\ Goto(o, IF row.id = 0 \/ (row.status = Processing /\ row.locked > at[o])
               THEN "busy" ELSE "reclaim")
    /\ UNCHANGED <<now, row, nextId, opId, at, rid, due, inserted, late>>

Reclaim(o) ==
    /\ pc[o] = "reclaim"
    /\ IF Reclaimable(row, seen[o].id, seen[o].status, at[o])
       THEN /\ row' = Reclaimed(row, at[o] + Lease, at[o] + TTL)
            /\ Acquired(o, seen[o].id, FALSE)
       ELSE Goto(o, "busy") /\ UNCHANGED <<row, rid, due, inserted, late>>
    /\ UNCHANGED <<now, nextId, opId, at, seen>>

\* One round of renewLoop.  A failing store is tried again at the next tick; an
\* update that matches no row ends the goroutine.
Renew(o) ==
    /\ due[o] # 0 /\ now >= due[o]
    /\ IF Extendable(row, rid[o], opId[o])
       THEN /\ row' = Extended(row, now + Lease, now + TTL)
            /\ due' = [due EXCEPT ![o] = now + RenewInterval]
       ELSE /\ due' = [due EXCEPT ![o] = 0]
            /\ UNCHANGED row
    /\ UNCHANGED <<now, nextId, pc, opId, at, rid, seen, inserted, late>>

RenewError(o) ==
    /\ due[o] # 0 /\ now >= due[o]
    /\ due' = [due EXCEPT ![o] = now + RenewInterval]
    /\ late' = TRUE
    /\ UNCHANGED <<now, row, nextId, pc, opId, at, rid, seen, inserted>>

\* Release: the goroutine is stopped, then the row is marked by its id.  The
\* handler ignores an error of the store.
Release(o) ==
    /\ pc[o] = "held"
    /\ Goto(o, "done")
    /\ due' = [due EXCEPT ![o] = 0]
    /\ row' \in { row,
                  MarkSucceeded(row, rid[o], "released", TRUE, now + TTL),
                  MarkFailedRetryable(row, rid[o], now, now + TTL) }
    /\ UNCHANGED <<now, nextId, opId, at, rid, seen, inserted, late>>

\* The server process dies: the operation and its goroutine end.
Crash(o) ==
    /\ pc[o] \in Acquiring \cup {"held"}
    /\ Goto(o, "done")
    /\ due' = [due EXCEPT ![o] = 0]
    /\ UNCHANGED <<now, row, nextId, opId, at, rid, seen, inserted, late>>

\* Time passes, but not past the moment at which a goroutine has to renew: the
\* ticker is punctual, and a late or failing renewal is RenewError.
Tick ==
    /\ now < MaxTime
    /\ \A o \in Operations : due[o] # 0 => now < due[o]
    /\ now' = now + 1
    /\ UNCHANGED <<row, nextId, pc, opId, at, rid, seen, due, inserted, late>>

\* IdempotencyCleanupService serves this row too.
Cleanup ==
    /\ row.id # 0
    /\ row.expires <= now
    /\ row' = DeleteExpired(row, now)
    /\ UNCHANGED <<now, nextId, pc, opId, at, rid, seen, due, inserted, late>>

Step(o) ==
    \/ Begin(o) \/ Create(o) \/ GetExisting(o) \/ Reclaim(o)
    \/ Renew(o) \/ RenewError(o) \/ Release(o) \/ Crash(o)

Next ==
    \/ \E o \in Operations : Step(o)
    \/ Tick
    \/ Cleanup

Spec == Init /\ [][Next]_vars

-----------------------------------------------------------------------------
\* While the operation that created the lock's row runs and renews in time, no
\* other operation acquires the lock: its lease never lapses, and neither the
\* cleaner nor an earlier holder's late Release can take the row from it.
CreatorKeepsLock ==
    [][\A o, p \in Operations :
           /\ o # p /\ ~late'
           /\ pc[o] = "held" /\ inserted[o]
           => ~(pc[p] # "held" /\ pc'[p] = "held")]_vars
=============================================================================
