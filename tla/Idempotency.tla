---------------------------- MODULE Idempotency ----------------------------
(***************************************************************************)
(* IdempotencyCoordinator.Execute (service/idempotency.go): HTTP requests  *)
(* that carry one Idempotency-Key race for one row, run the business       *)
(* operation, and record or replay its response.  Each store call is a     *)
(* step of its own; the clock, other requests, the cleaner, a crash and a  *)
(* failing store may come between any two of them.                         *)
(***************************************************************************)
EXTENDS IdempotencyStore

CONSTANTS
    Requests,           \* calls of Execute, one shot each; also their response bodies
    Fingerprints,       \* request fingerprints
    TTL,                \* opts.TTL / cfg.DefaultTTL
    ProcessingTimeout,  \* cfg.ProcessingTimeout
    FailedRetryBackoff, \* cfg.FailedRetryBackoff
    RequireKey,         \* opts.RequireKey
    ObserveOnly,        \* cfg.ObserveOnly
    MaxTime,            \* bound: the clock stops here, and keyed requests begin early
                        \* enough for their TTL to run out before
    MaxStall            \* bound: a request claims its row or gives up within
                        \* MaxStall of reading the clock

ASSUME IdempotencyAssumption ==
    /\ TTL \in Nat /\ ProcessingTimeout \in Nat \ {0} /\ ProcessingTimeout <= TTL
    /\ FailedRetryBackoff \in Nat /\ MaxTime \in Nat /\ MaxStall \in Nat
    /\ RequireKey \in BOOLEAN /\ ObserveOnly \in BOOLEAN
    /\ "none" \notin Requests /\ "none" \notin Fingerprints

VARIABLES
    now,      \* time.Now()
    row,      \* the row of idempotency_records
    nextId,   \* the id sequence
    pc,       \* where each request is in Execute
    fp,       \* fingerprint of each request
    at,       \* the `now` that Execute captured
    rid,      \* record.ID
    seen,     \* `existing`: the row as the request last read it
    out,      \* what Execute returned
    replay,   \* whose response a replay returned
    effect,   \* history: what the business operation did
    overran   \* history: some request held the key past its processing timeout

vars == <<now, row, nextId, pc, fp, at, rid, seen, out, replay, effect, overran>>

Claiming == {"create", "get", "reclaimExpired", "getLatest", "reclaimFailed"}
Holding == {"exec", "markSucceeded", "markFailed"}
Pcs == {"idle", "done"} \cup Claiming \cup Holding
Outcomes ==
    {"none", "ok", "replayed", "KeyRequired", "StoreUnavail", "KeyConflict",
     "InProgress", "RetryBackoff", "execError", "crashed"}

Rows == Row(Fingerprints \cup {"none"}, Requests \cup {"none"})

\* Types of the state.
TypeOK ==
    /\ now \in Nat
    /\ row \in Rows
    /\ nextId \in Nat
    /\ pc \in [Requests -> Pcs]
    /\ fp \in [Requests -> Fingerprints \cup {"none"}]
    /\ at \in [Requests -> Nat]
    /\ rid \in [Requests -> Nat]
    /\ seen \in [Requests -> Rows]
    /\ out \in [Requests -> Outcomes]
    /\ replay \in [Requests -> Requests \cup {"none"}]
    /\ effect \in [Requests -> {"none", "ok", "failed"}]
    /\ overran \in BOOLEAN

Init ==
    /\ now = 0
    /\ row = NoRow
    /\ nextId = 1
    /\ pc = [r \in Requests |-> "idle"]
    /\ fp = [r \in Requests |-> "none"]
    /\ at = [r \in Requests |-> 0]
    /\ rid = [r \in Requests |-> 0]
    /\ seen = [r \in Requests |-> NoRow]
    /\ out = [r \in Requests |-> "none"]
    /\ replay = [r \in Requests |-> "none"]
    /\ effect = [r \in Requests |-> "none"]
    /\ overran = FALSE

Goto(r, l) == pc' = [pc EXCEPT ![r] = l]

Return(r, result) ==
    /\ Goto(r, "done")
    /\ out' = [out EXCEPT ![r] = result]

LockedUntil(r) == at[r] + ProcessingTimeout
ExpiresAt(r) == at[r] + TTL

\* history: r held the key at a moment when its lease is over
Overrun(r, t) == t >= LockedUntil(r)

-----------------------------------------------------------------------------
(* Execute up to the first store call.                                     *)

\* A request without a key runs unprotected, or is refused.
ExecuteWithoutKey(r) ==
    /\ pc[r] = "idle"
    /\ \/ /\ RequireKey /\ ~ObserveOnly
          /\ Return(r, "KeyRequired")
          /\ UNCHANGED effect
       \/ /\ ~(RequireKey /\ ~ObserveOnly)
          /\ \/ Return(r, "ok") /\ effect' = [effect EXCEPT ![r] = "ok"]
             \/ Return(r, "execError") /\ effect' = [effect EXCEPT ![r] = "failed"]
    /\ UNCHANGED <<now, row, nextId, fp, at, rid, seen, replay, overran>>

Begin(r) ==
    /\ pc[r] = "idle"
    /\ now + TTL <= MaxTime
    /\ \E f \in Fingerprints : fp' = [fp EXCEPT ![r] = f]
    /\ at' = [at EXCEPT ![r] = now]
    /\ Goto(r, "create")
    /\ UNCHANGED <<now, row, nextId, rid, seen, out, replay, effect, overran>>

-----------------------------------------------------------------------------
(* Claiming the row.                                                       *)

Claim(r, id) ==
    /\ rid' = [rid EXCEPT ![r] = id]
    /\ overran' = (overran \/ Overrun(r, now))
    /\ Goto(r, "exec")

Create(r) ==
    /\ pc[r] = "create"
    /\ row' = CreateProcessing(row, nextId, fp[r], LockedUntil(r), ExpiresAt(r))
    /\ IF row.id = 0
       THEN nextId' = nextId + 1 /\ Claim(r, nextId)
       ELSE Goto(r, "get") /\ UNCHANGED <<nextId, rid, overran>>
    /\ UNCHANGED <<now, fp, at, seen, out, replay, effect>>

\* The switch on existing.Status.
Dispatch(r, existing) ==
    \/ /\ existing.status = Succeeded /\ existing.whole
       /\ Return(r, "replayed")
       /\ replay' = [replay EXCEPT ![r] = existing.body]
    \/ /\ existing.status = Succeeded /\ ~existing.whole
       /\ Return(r, "StoreUnavail")
       /\ UNCHANGED replay
    \/ /\ existing.status = Processing
       /\ Return(r, "InProgress")
       /\ UNCHANGED replay
    \/ /\ existing.status = FailedRetryable /\ existing.locked > at[r]
       /\ Return(r, "RetryBackoff")
       /\ UNCHANGED replay
    \/ /\ existing.status = FailedRetryable /\ existing.locked <= at[r]
       /\ Goto(r, "reclaimFailed")
       /\ UNCHANGED <<out, replay>>

\* GetByScopeAndKeyHash.
Read(r) ==
    /\ seen' = [seen EXCEPT ![r] = row]
    /\ UNCHANGED <<now, row, nextId, fp, at, rid, effect, overran>>

\* mutant: the stored fingerprint is not compared
MatchesAny(r, existing) == TRUE

\* existing.RequestFingerprint = fingerprint
Matches(r, existing) == existing.fp = fp[r]

\* The row went away, or belongs to another payload.
Refuse(r) ==
    /\ row.id = 0 \/ ~Matches(r, row)
    /\ Return(r, IF row.id = 0 THEN "StoreUnavail" ELSE "KeyConflict")
    /\ UNCHANGED replay

GetExisting(r) ==
    /\ pc[r] = "get"
    /\ Read(r)
    /\ \/ Refuse(r)
       \/ /\ row.id # 0 /\ Matches(r, row) /\ row.expires <= at[r]
          /\ Goto(r, "reclaimExpired")
          /\ UNCHANGED <<out, replay>>
       \/ /\ row.id # 0 /\ Matches(r, row) /\ row.expires > at[r]
          /\ Dispatch(r, row)

\* After a lost reclaim the row is read again and not asked for its expiry.
GetLatest(r) ==
    /\ pc[r] = "getLatest"
    /\ Read(r)
    /\ \/ Refuse(r)
       \/ row.id # 0 /\ Matches(r, row) /\ Dispatch(r, row)

\* TryReclaim that updates the row, and one that finds nothing to update.
TakeOver(r, fromStatus) ==
    /\ Reclaimable(row, seen[r].id, fromStatus, at[r])
    /\ row' = Reclaimed(row, LockedUntil(r), ExpiresAt(r))
    /\ Claim(r, seen[r].id)
    /\ UNCHANGED <<now, nextId, fp, at, seen, out, replay, effect>>

LoseRace(r, fromStatus) ==
    /\ ~Reclaimable(row, seen[r].id, fromStatus, at[r])
    /\ UNCHANGED <<now, row, nextId, fp, at, rid, seen, replay, effect, overran>>

ReclaimExpired(r) ==
    /\ pc[r] = "reclaimExpired"
    /\ \/ TakeOver(r, seen[r].status)
       \/ LoseRace(r, seen[r].status) /\ Goto(r, "getLatest") /\ UNCHANGED out

ReclaimFailed(r) ==
    /\ pc[r] = "reclaimFailed"
    /\ \/ TakeOver(r, FailedRetryable)
       \/ LoseRace(r, FailedRetryable) /\ Return(r, "InProgress")

-----------------------------------------------------------------------------
(* Running the business operation and recording how it ended.              *)

ExecuteBusiness(r) ==
    /\ pc[r] = "exec"
    /\ \/ Goto(r, "markSucceeded") /\ effect' = [effect EXCEPT ![r] = "ok"]
       \/ Goto(r, "markFailed") /\ effect' = [effect EXCEPT ![r] = "failed"]
    /\ UNCHANGED <<now, row, nextId, fp, at, rid, seen, out, replay, overran>>

\* The stored response is redacted and cut at MaxStoredResponseLen; a cut one
\* is no longer JSON, and a later replay of it fails.
RecordSuccess(r) ==
    /\ pc[r] = "markSucceeded"
    /\ \E whole \in BOOLEAN :
           row' = MarkSucceeded(row, rid[r], r, whole, ExpiresAt(r))
    /\ Return(r, "ok")
    /\ UNCHANGED <<now, nextId, fp, at, rid, seen, replay, effect, overran>>

RecordFailure(r) ==
    /\ pc[r] = "markFailed"
    /\ row' = MarkFailedRetryable(row, rid[r], now + FailedRetryBackoff, ExpiresAt(r))
    /\ Return(r, "execError")
    /\ UNCHANGED <<now, nextId, fp, at, rid, seen, replay, effect, overran>>

\* A store call returns an error and has had no effect.  The response is then
\* StoreUnavail, but for a failed MarkFailedRetryable, which is only counted.
StoreError(r) ==
    /\ pc[r] \in Claiming \cup {"markSucceeded", "markFailed"}
    /\ Return(r, IF pc[r] = "markFailed" THEN "execError" ELSE "StoreUnavail")
    /\ UNCHANGED <<now, row, nextId, fp, at, rid, seen, replay, effect, overran>>

\* The process dies, or the request's goroutine is lost, between two steps.
Crash(r) ==
    /\ pc[r] \in Claiming \cup Holding
    /\ Return(r, "crashed")
    /\ UNCHANGED <<now, row, nextId, fp, at, rid, seen, replay, effect, overran>>

-----------------------------------------------------------------------------
(* The environment: the clock and IdempotencyCleanupService.               *)

Tick ==
    /\ now < MaxTime
    /\ \A r \in Requests : pc[r] \in Claiming => now < at[r] + MaxStall
    /\ now' = now + 1
    /\ overran' = (overran \/ \E r \in Requests : pc[r] \in Holding /\ Overrun(r, now + 1))
    /\ UNCHANGED <<row, nextId, pc, fp, at, rid, seen, out, replay, effect>>

Cleanup ==
    /\ row.id # 0
    /\ row.expires <= now
    /\ row' = DeleteExpired(row, now)
    /\ UNCHANGED <<now, nextId, pc, fp, at, rid, seen, out, replay, effect, overran>>

Step(r) ==
    \/ ExecuteWithoutKey(r) \/ Begin(r) \/ Create(r) \/ GetExisting(r)
    \/ ReclaimExpired(r) \/ GetLatest(r) \/ ReclaimFailed(r)
    \/ ExecuteBusiness(r) \/ RecordSuccess(r) \/ RecordFailure(r)
    \/ StoreError(r) \/ Crash(r)

Next ==
    \/ \E r \in Requests : Step(r)
    \/ Tick
    \/ Cleanup

Spec == Init /\ [][Next]_vars

\* The clock runs and the cleaner is a ticker loop of the server; a request
\* may hang for ever.
FairSpec == Spec /\ WF_vars(Tick) /\ WF_vars(Cleanup)

-----------------------------------------------------------------------------
(* Properties.                                                             *)

Executing == {r \in Requests : pc[r] \in Holding}

\* A replay returns the response of an execution that succeeded, and that was
\* asked for with the same fingerprint: Execute never hands one payload's
\* response to another, however reclaims, late marks and cleanups interleave.
ReplaySound ==
    \A r \in Requests : out[r] = "replayed" =>
        /\ replay[r] \in Requests
        /\ effect[replay[r]] = "ok"
        /\ fp[replay[r]] = fp[r]

\* Two executions under one key overlap only after some request held the key
\* longer than ProcessingTimeout counted from its first look at the clock.
ExclusiveExecution ==
    ~overran => \A r, s \in Executing : r = s

\* A key whose holder died is not lost for ever: expiry and the cleaner free it.
OrphanFreed ==
    \A r \in Requests :
        (pc[r] = "done" /\ rid[r] # 0 /\ row.id = rid[r] /\ row.status = Processing)
            ~> (row.id # rid[r] \/ row.status # Processing)
=============================================================================
