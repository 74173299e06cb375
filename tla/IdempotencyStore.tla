-------------------------- MODULE IdempotencyStore --------------------------
(***************************************************************************)
(* The statements of repository/idempotency_repo.go, as operators on the   *)
(* row of one (scope, idempotency_key_hash).  Rows of different keys never *)
(* meet in a statement, so one row is enough.  A row that does not exist   *)
(* has id 0, the value the callers use for "no record"; ids are never      *)
(* reused (BIGSERIAL).  locked = 0 is locked_until IS NULL: every lock the *)
(* callers write lies in the future of the clock, so 0 is no lock time,    *)
(* and both "NULL or lapsed" and "not nil and After(now)" read it right.   *)
(***************************************************************************)
EXTENDS Naturals

Processing == "processing"
Succeeded == "succeeded"
FailedRetryable == "failed_retryable"

Statuses == {"none", Processing, Succeeded, FailedRetryable}

Row(Fps, Bodies) ==
    [id : Nat, fp : Fps, status : Statuses,
     locked : Nat, expires : Nat, body : Bodies, whole : BOOLEAN]

NoRow ==
    [id |-> 0, fp |-> "none", status |-> "none", locked |-> 0, expires |-> 0,
     body |-> "none", whole |-> TRUE]

\* The row with a new state, its identity and stored response kept.
WithState(row, status, locked, expires) ==
    [id |-> row.id, fp |-> row.fp, status |-> status, locked |-> locked,
     expires |-> expires, body |-> row.body, whole |-> row.whole]

\* INSERT ... ON CONFLICT DO NOTHING: the caller owns the row iff none existed.
CreateProcessing(row, id, fp, locked, expires) ==
    IF row.id = 0
    THEN [id |-> id, fp |-> fp, status |-> Processing, locked |-> locked,
          expires |-> expires, body |-> "none", whole |-> TRUE]
    ELSE row

\* mutant: TryReclaim without its lock window
ReclaimableWhileLocked(row, id, fromStatus, now) ==
    row.id = id /\ row.status = fromStatus

\* The WHERE clause of TryReclaim.
Reclaimable(row, id, fromStatus, now) ==
    /\ row.id = id
    /\ row.status = fromStatus
    /\ row.locked <= now

\* The SET clause of TryReclaim.  It leaves request_fingerprint and
\* response_body as they are.
Reclaimed(row, locked, expires) ==
    WithState(row, Processing, locked, expires)

\* The WHERE clause of ExtendProcessingLock.
Extendable(row, id, fp) ==
    /\ row.id = id
    /\ row.status = Processing
    /\ row.fp = fp

\* mutant: only the row's expiry is pushed out
ExtendedExpiryOnly(row, locked, expires) ==
    WithState(row, row.status, row.locked, expires)

Extended(row, locked, expires) ==
    WithState(row, row.status, locked, expires)

\* mutant: a status the readers do not know
MarkSucceededUnknown(row, id, body, whole, expires) ==
    IF row.id = id THEN WithState(row, "success", 0, expires) ELSE row

\* The two final updates are by id alone: they ask neither for the status nor
\* for who holds the row, and do nothing to a row that is gone.
MarkSucceeded(row, id, body, whole, expires) ==
    IF row.id = id
    THEN [id |-> row.id, fp |-> row.fp, status |-> Succeeded, locked |-> 0,
          expires |-> expires, body |-> body, whole |-> whole]
    ELSE row

MarkFailedRetryable(row, id, locked, expires) ==
    IF row.id = id
    THEN WithState(row, FailedRetryable, locked, expires)
    ELSE row

\* mutant: the cleaner spares rows that look busy
DeleteExpiredIdle(row, now) ==
    IF row.expires <= now /\ row.status # Processing THEN NoRow ELSE row

\* The cleaner's DELETE looks at expires_at only.
DeleteExpired(row, now) ==
    IF row.expires <= now THEN NoRow ELSE row
=============================================================================
