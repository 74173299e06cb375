------------------------- MODULE IdempotencyProofs -------------------------
(***************************************************************************)
(* Proofs about Idempotency: type correctness, that a replayed response    *)
(* belongs to the request that gets it, and that executions of one key     *)
(* exclude each other while every holder keeps to its processing timeout.  *)
(***************************************************************************)
EXTENDS Idempotency, TLAPS

-----------------------------------------------------------------------------
(* The inductive invariant.                                                *)

\* Row ids are drawn from nextId and never reused.
IdsFresh ==
    /\ nextId > 0
    /\ row.id < nextId
    /\ \A r \in Requests : rid[r] < nextId /\ seen[r].id < nextId

\* The fingerprint of a row never changes: a copy of the row that is still the
\* same row has the row's fingerprint.
FingerprintStable ==
    \A r \in Requests :
        seen[r].id = row.id /\ row.id # 0 => seen[r].fp = row.fp

\* Who is about to take a row over, or has it, asked for it with the row's own
\* fingerprint.
ClaimantMatches ==
    \A r \in Requests :
        /\ pc[r] \in {"reclaimExpired", "reclaimFailed"} =>
               seen[r].id # 0 /\ seen[r].fp = fp[r]
        /\ pc[r] \in Holding =>
               rid[r] # 0 /\ (rid[r] = row.id => fp[r] = row.fp)

\* What the business operation did, seen from where its request is.
EffectPlaced ==
    \A r \in Requests :
        /\ pc[r] = "markSucceeded" => effect[r] = "ok"
        /\ effect[r] = "ok" => pc[r] \in {"markSucceeded", "done"}
        /\ out[r] = "replayed" => pc[r] = "done"

\* A row that says "succeeded" holds the response of a successful execution
\* for its fingerprint.
StoredSound ==
    row.status = Succeeded =>
        /\ row.body \in Requests
        /\ effect[row.body] = "ok"
        /\ fp[row.body] = row.fp

\* While no lease was outlived, the row carries the lease of whoever executes.
LeaseHeld ==
    /\ \A r \in Requests : at[r] <= now
    /\ ~overran => \A r \in Requests : pc[r] \in Holding =>
           /\ row.id = rid[r]
           /\ row.status = Processing
           /\ row.locked = LockedUntil(r)
           /\ row.expires = ExpiresAt(r)
           /\ now < LockedUntil(r)

IInv ==
    /\ TypeOK
    /\ IdsFresh
    /\ FingerprintStable
    /\ ClaimantMatches
    /\ EffectPlaced
    /\ StoredSound
    /\ ReplaySound
    /\ LeaseHeld
    /\ ExclusiveExecution

-----------------------------------------------------------------------------
(* Type correctness.                                                       *)

LEMMA NoRowType == NoRow \in Rows
  BY DEF NoRow, Rows, Row, Statuses

\* Execute, the cleaner and the clock keep the state in its types.
LEMMA TypeStep == TypeOK /\ [Next]_vars => TypeOK'
<1> USE IdempotencyAssumption DEF TypeOK, Pcs, Claiming, Holding, Outcomes
<1> SUFFICES ASSUME TypeOK, [Next]_vars PROVE TypeOK'
  OBVIOUS
<1>1. ASSUME NEW r \in Requests, ExecuteWithoutKey(r) PROVE TypeOK'
  BY <1>1 DEF ExecuteWithoutKey, Return, Goto
<1>2. ASSUME NEW r \in Requests, Begin(r) PROVE TypeOK'
  BY <1>2 DEF Begin, Goto
<1>3. ASSUME NEW r \in Requests, Create(r) PROVE TypeOK'
  <2>1. row' \in Rows
    BY <1>3, NoRowType DEF Create, CreateProcessing, Rows, Row, Statuses, Processing,
       LockedUntil, ExpiresAt
  <2>2. CASE row.id = 0
    BY <1>3, <2>1, <2>2 DEF Create, Claim, Goto, Overrun
  <2>3. CASE row.id # 0
    BY <1>3, <2>1, <2>3 DEF Create, Goto
  <2>4. QED
    BY <2>2, <2>3
<1>4. ASSUME NEW r \in Requests, GetExisting(r) PROVE TypeOK'
  <2>1. row.status = Succeeded => row.body \in Requests \cup {"none"}
    BY DEF Rows, Row, Statuses
  <2>2. QED
    BY <1>4, <2>1 DEF GetExisting, Read, Refuse, Dispatch, Return, Goto
<1>5. ASSUME NEW r \in Requests, GetLatest(r) PROVE TypeOK'
  <2>1. row.body \in Requests \cup {"none"}
    BY DEF Rows, Row, Statuses
  <2>2. QED
    BY <1>5, <2>1 DEF GetLatest, Read, Refuse, Dispatch, Return, Goto
<1>6. ASSUME NEW r \in Requests, ReclaimExpired(r) \/ ReclaimFailed(r) PROVE TypeOK'
  <2>1. seen[r].id \in Nat
    BY DEF Rows, Row, Statuses
  <2>2. Reclaimed(row, LockedUntil(r), ExpiresAt(r)) \in Rows
    BY DEF Reclaimed, WithState, Rows, Row, Statuses, Processing, LockedUntil, ExpiresAt
  <2>3. QED
    BY <1>6, <2>1, <2>2 DEF ReclaimExpired, ReclaimFailed, TakeOver, LoseRace,
       Claim, Goto, Return, Overrun
<1>7. ASSUME NEW r \in Requests, ExecuteBusiness(r) PROVE TypeOK'
  BY <1>7 DEF ExecuteBusiness, Goto
<1>8. ASSUME NEW r \in Requests, RecordSuccess(r) PROVE TypeOK'
  <2>1. row' \in Rows
    BY <1>8 DEF RecordSuccess, MarkSucceeded, Rows, Row, Statuses, Succeeded, ExpiresAt
  <2>2. QED
    BY <1>8, <2>1 DEF RecordSuccess, Return, Goto
<1>9. ASSUME NEW r \in Requests, RecordFailure(r) PROVE TypeOK'
  <2>1. row' \in Rows
    BY <1>9 DEF RecordFailure, MarkFailedRetryable, WithState, Rows, Row, Statuses,
       FailedRetryable, ExpiresAt
  <2>2. QED
    BY <1>9, <2>1 DEF RecordFailure, Return, Goto
<1>10. ASSUME NEW r \in Requests, StoreError(r) \/ Crash(r) PROVE TypeOK'
  BY <1>10 DEF StoreError, Crash, Return, Goto
<1>11. CASE Tick
  BY <1>11 DEF Tick
<1>12. CASE Cleanup
  BY <1>12, NoRowType DEF Cleanup, DeleteExpired
<1>13. CASE UNCHANGED vars
  BY <1>13 DEF vars
<1>14. QED
  BY <1>1, <1>2, <1>3, <1>4, <1>5, <1>6, <1>7, <1>8, <1>9, <1>10, <1>11, <1>12,
     <1>13 DEF Next, Step

\* The initial state is well typed.
LEMMA TypeInit == Init => TypeOK
<1> SUFFICES ASSUME Init PROVE TypeOK
  OBVIOUS
<1>1. row \in Rows /\ seen \in [Requests -> Rows]
  BY NoRowType DEF Init
<1>2. overran \in BOOLEAN
  BY DEF Init
<1>3. QED
  BY <1>1, <1>2 DEF Init, TypeOK, Pcs, Outcomes

\* Every reachable state of the coordinator is well typed, for every number of
\* requests and every setting of the timeouts.
THEOREM TypeCorrect == Spec => []TypeOK
  BY TypeInit, TypeStep, PTL DEF Spec

-----------------------------------------------------------------------------
(* The conjuncts of the inductive invariant, one lemma each.                *)

\* Every id in use was drawn from the sequence.
LEMMA IdsFreshStep == TypeOK /\ IdsFresh /\ [Next]_vars => IdsFresh'
<1> USE DEF TypeOK, Rows, Row, Statuses, Claiming, Holding, IdsFresh
<1> SUFFICES ASSUME TypeOK, IdsFresh, [Next]_vars PROVE IdsFresh'
  OBVIOUS
<1>1. ASSUME NEW r \in Requests, ExecuteWithoutKey(r) PROVE IdsFresh'
  BY <1>1 DEF ExecuteWithoutKey, Return, Goto
<1>2. ASSUME NEW r \in Requests, Begin(r) PROVE IdsFresh'
  BY <1>2 DEF Begin, Goto
<1>3. ASSUME NEW r \in Requests, Create(r) PROVE IdsFresh'
  BY <1>3 DEF Create, CreateProcessing, Claim, Goto
<1>4. ASSUME NEW r \in Requests, GetExisting(r) PROVE IdsFresh'
  BY <1>4 DEF GetExisting, Read, Refuse, Matches, Dispatch, Return, Goto
<1>5. ASSUME NEW r \in Requests, GetLatest(r) PROVE IdsFresh'
  BY <1>5 DEF GetLatest, Read, Refuse, Matches, Dispatch, Return, Goto
<1>6. ASSUME NEW r \in Requests, ReclaimExpired(r) PROVE IdsFresh'
  BY <1>6 DEF ReclaimExpired, TakeOver, LoseRace, Reclaimable, Reclaimed,
     WithState, Claim, Goto
<1>7. ASSUME NEW r \in Requests, ReclaimFailed(r) PROVE IdsFresh'
  <2>1. CASE TakeOver(r, FailedRetryable)
    BY <1>7, <2>1 DEF TakeOver, Reclaimed, WithState, Claim
  <2>2. CASE LoseRace(r, FailedRetryable)
    BY <1>7, <2>2 DEF LoseRace
  <2>3. QED
    BY <1>7, <2>1, <2>2 DEF ReclaimFailed
<1>8. ASSUME NEW r \in Requests, ExecuteBusiness(r) PROVE IdsFresh'
  BY <1>8 DEF ExecuteBusiness, Goto
<1>9. ASSUME NEW r \in Requests, RecordSuccess(r) PROVE IdsFresh'
  BY <1>9 DEF RecordSuccess, MarkSucceeded, Return, Goto
<1>10. ASSUME NEW r \in Requests, RecordFailure(r) PROVE IdsFresh'
  BY <1>10 DEF RecordFailure, MarkFailedRetryable, WithState, Return, Goto
<1>11. ASSUME NEW r \in Requests, StoreError(r) \/ Crash(r) PROVE IdsFresh'
  BY <1>11 DEF StoreError, Crash, Return, Goto
<1>12. CASE Tick
  BY <1>12 DEF Tick
<1>13. CASE Cleanup
  BY <1>13 DEF Cleanup, DeleteExpired, NoRow
<1>14. CASE UNCHANGED vars
  BY <1>14 DEF vars
<1>15. QED
  BY <1>1, <1>2, <1>3, <1>4, <1>5, <1>6, <1>7, <1>8, <1>9, <1>10, <1>11, <1>12,
     <1>13, <1>14 DEF Next, Step

\* No statement of the store rewrites a fingerprint.
LEMMA FingerprintStep == TypeOK /\ IdsFresh /\ FingerprintStable /\ [Next]_vars
     => FingerprintStable'
<1> USE DEF TypeOK, Rows, Row, Statuses, Claiming, Holding, IdsFresh, FingerprintStable
<1> SUFFICES ASSUME TypeOK, IdsFresh, FingerprintStable, [Next]_vars PROVE
     FingerprintStable'
  OBVIOUS
<1>1. ASSUME NEW r \in Requests, ExecuteWithoutKey(r) PROVE FingerprintStable'
  BY <1>1 DEF ExecuteWithoutKey, Return, Goto
<1>2. ASSUME NEW r \in Requests, Begin(r) PROVE FingerprintStable'
  BY <1>2 DEF Begin, Goto
<1>3. ASSUME NEW r \in Requests, Create(r) PROVE FingerprintStable'
  BY <1>3 DEF Create, CreateProcessing, Claim, Goto
<1>4. ASSUME NEW r \in Requests, GetExisting(r) PROVE FingerprintStable'
  BY <1>4 DEF GetExisting, Read, Refuse, Matches, Dispatch, Return, Goto
<1>5. ASSUME NEW r \in Requests, GetLatest(r) PROVE FingerprintStable'
  BY <1>5 DEF GetLatest, Read, Refuse, Matches, Dispatch, Return, Goto
<1>6. ASSUME NEW r \in Requests, ReclaimExpired(r) PROVE FingerprintStable'
  BY <1>6 DEF ReclaimExpired, TakeOver, LoseRace, Reclaimable, Reclaimed,
     WithState, Claim, Goto
<1>7. ASSUME NEW r \in Requests, ReclaimFailed(r) PROVE FingerprintStable'
  BY <1>7 DEF ReclaimFailed, TakeOver, LoseRace, Reclaimable, Reclaimed,
     WithState, Claim, Return, Goto
<1>8. ASSUME NEW r \in Requests, ExecuteBusiness(r) PROVE FingerprintStable'
  BY <1>8 DEF ExecuteBusiness, Goto
<1>9. ASSUME NEW r \in Requests, RecordSuccess(r) PROVE FingerprintStable'
  BY <1>9 DEF RecordSuccess, MarkSucceeded, Return, Goto
<1>10. ASSUME NEW r \in Requests, RecordFailure(r) PROVE FingerprintStable'
  BY <1>10 DEF RecordFailure, MarkFailedRetryable, WithState, Return, Goto
<1>11. ASSUME NEW r \in Requests, StoreError(r) \/ Crash(r) PROVE
     FingerprintStable'
  BY <1>11 DEF StoreError, Crash, Return, Goto
<1>12. CASE Tick
  BY <1>12 DEF Tick
<1>13. CASE Cleanup
  BY <1>13 DEF Cleanup, DeleteExpired, NoRow
<1>14. CASE UNCHANGED vars
  BY <1>14 DEF vars
<1>15. QED
  BY <1>1, <1>2, <1>3, <1>4, <1>5, <1>6, <1>7, <1>8, <1>9, <1>10, <1>11, <1>12,
     <1>13, <1>14 DEF Next, Step

\* A claim is made with the row's own fingerprint.
LEMMA ClaimantStep == TypeOK /\ IdsFresh /\ FingerprintStable /\ ClaimantMatches
     /\ [Next]_vars => ClaimantMatches'
<1> USE DEF TypeOK, Rows, Row, Statuses, Claiming, Holding, IdsFresh, FingerprintStable,
     ClaimantMatches
<1> SUFFICES ASSUME TypeOK, IdsFresh, FingerprintStable, ClaimantMatches,
     [Next]_vars PROVE ClaimantMatches'
  OBVIOUS
<1>1. ASSUME NEW r \in Requests, ExecuteWithoutKey(r) PROVE ClaimantMatches'
  BY <1>1 DEF ExecuteWithoutKey, Return, Goto
<1>2. ASSUME NEW r \in Requests, Begin(r) PROVE ClaimantMatches'
  BY <1>2 DEF Begin, Goto
<1>3. ASSUME NEW r \in Requests, Create(r) PROVE ClaimantMatches'
  BY <1>3 DEF Create, CreateProcessing, Claim, Goto
<1>4. ASSUME NEW r \in Requests, GetExisting(r) PROVE ClaimantMatches'
  BY <1>4 DEF GetExisting, Read, Refuse, Matches, Dispatch, Return, Goto
<1>5. ASSUME NEW r \in Requests, GetLatest(r) PROVE ClaimantMatches'
  BY <1>5 DEF GetLatest, Read, Refuse, Matches, Dispatch, Return, Goto
<1>6. ASSUME NEW r \in Requests, ReclaimExpired(r) PROVE ClaimantMatches'
  BY <1>6 DEF ReclaimExpired, TakeOver, LoseRace, Reclaimable, Reclaimed,
     WithState, Claim, Goto
<1>7. ASSUME NEW r \in Requests, ReclaimFailed(r) PROVE ClaimantMatches'
  BY <1>7 DEF ReclaimFailed, TakeOver, LoseRace, Reclaimable, Reclaimed,
     WithState, Claim, Return, Goto
<1>8. ASSUME NEW r \in Requests, ExecuteBusiness(r) PROVE ClaimantMatches'
  BY <1>8 DEF ExecuteBusiness, Goto
<1>9. ASSUME NEW r \in Requests, RecordSuccess(r) PROVE ClaimantMatches'
  BY <1>9 DEF RecordSuccess, MarkSucceeded, Return, Goto
<1>10. ASSUME NEW r \in Requests, RecordFailure(r) PROVE ClaimantMatches'
  BY <1>10 DEF RecordFailure, MarkFailedRetryable, WithState, Return, Goto
<1>11. ASSUME NEW r \in Requests, StoreError(r) \/ Crash(r) PROVE ClaimantMatches'
  BY <1>11 DEF StoreError, Crash, Return, Goto
<1>12. CASE Tick
  BY <1>12 DEF Tick
<1>13. CASE Cleanup
  BY <1>13 DEF Cleanup, DeleteExpired, NoRow
<1>14. CASE UNCHANGED vars
  BY <1>14 DEF vars
<1>15. QED
  BY <1>1, <1>2, <1>3, <1>4, <1>5, <1>6, <1>7, <1>8, <1>9, <1>10, <1>11, <1>12,
     <1>13, <1>14 DEF Next, Step

\* The business operation runs once per request, before the request is done.
LEMMA EffectStep == TypeOK /\ EffectPlaced /\ [Next]_vars => EffectPlaced'
<1> USE DEF TypeOK, Rows, Row, Statuses, Claiming, Holding, EffectPlaced
<1> SUFFICES ASSUME TypeOK, EffectPlaced, [Next]_vars PROVE EffectPlaced'
  OBVIOUS
<1>1. ASSUME NEW r \in Requests, ExecuteWithoutKey(r) PROVE EffectPlaced'
  BY <1>1 DEF ExecuteWithoutKey, Return, Goto
<1>2. ASSUME NEW r \in Requests, Begin(r) PROVE EffectPlaced'
  BY <1>2 DEF Begin, Goto
<1>3. ASSUME NEW r \in Requests, Create(r) PROVE EffectPlaced'
  BY <1>3 DEF Create, CreateProcessing, Claim, Goto
<1>4. ASSUME NEW r \in Requests, GetExisting(r) PROVE EffectPlaced'
  BY <1>4 DEF GetExisting, Read, Refuse, Matches, Dispatch, Return, Goto
<1>5. ASSUME NEW r \in Requests, GetLatest(r) PROVE EffectPlaced'
  BY <1>5 DEF GetLatest, Read, Refuse, Matches, Dispatch, Return, Goto
<1>6. ASSUME NEW r \in Requests, ReclaimExpired(r) PROVE EffectPlaced'
  BY <1>6 DEF ReclaimExpired, TakeOver, LoseRace, Reclaimable, Reclaimed,
     WithState, Claim, Goto
<1>7. ASSUME NEW r \in Requests, ReclaimFailed(r) PROVE EffectPlaced'
  BY <1>7 DEF ReclaimFailed, TakeOver, LoseRace, Reclaimable, Reclaimed,
     WithState, Claim, Return, Goto
<1>8. ASSUME NEW r \in Requests, ExecuteBusiness(r) PROVE EffectPlaced'
  BY <1>8 DEF ExecuteBusiness, Goto
<1>9. ASSUME NEW r \in Requests, RecordSuccess(r) PROVE EffectPlaced'
  BY <1>9 DEF RecordSuccess, MarkSucceeded, Return, Goto
<1>10. ASSUME NEW r \in Requests, RecordFailure(r) PROVE EffectPlaced'
  BY <1>10 DEF RecordFailure, MarkFailedRetryable, WithState, Return, Goto
<1>11. ASSUME NEW r \in Requests, StoreError(r) \/ Crash(r) PROVE EffectPlaced'
  BY <1>11 DEF StoreError, Crash, Return, Goto
<1>12. CASE Tick
  BY <1>12 DEF Tick
<1>13. CASE Cleanup
  BY <1>13 DEF Cleanup, DeleteExpired, NoRow
<1>14. CASE UNCHANGED vars
  BY <1>14 DEF vars
<1>15. QED
  BY <1>1, <1>2, <1>3, <1>4, <1>5, <1>6, <1>7, <1>8, <1>9, <1>10, <1>11, <1>12,
     <1>13, <1>14 DEF Next, Step

\* Only a holder with the row's fingerprint and a successful effect stores a
\* response.
LEMMA StoredStep == TypeOK /\ IdsFresh /\ ClaimantMatches /\ EffectPlaced /\
     StoredSound /\ [Next]_vars => StoredSound'
<1> USE DEF TypeOK, Rows, Row, Statuses, Claiming, Holding, IdsFresh, ClaimantMatches,
     EffectPlaced, StoredSound, Processing, Succeeded, FailedRetryable
<1> SUFFICES ASSUME TypeOK, IdsFresh, ClaimantMatches, EffectPlaced,
     StoredSound, [Next]_vars PROVE StoredSound'
  OBVIOUS
<1>1. ASSUME NEW r \in Requests, ExecuteWithoutKey(r) PROVE StoredSound'
  BY <1>1 DEF ExecuteWithoutKey, Return, Goto
<1>2. ASSUME NEW r \in Requests, Begin(r) PROVE StoredSound'
  BY <1>2 DEF Begin, Goto
<1>3. ASSUME NEW r \in Requests, Create(r) PROVE StoredSound'
  BY <1>3 DEF Create, CreateProcessing, Claim, Goto
<1>4. ASSUME NEW r \in Requests, GetExisting(r) PROVE StoredSound'
  BY <1>4 DEF GetExisting, Read, Refuse, Matches, Dispatch, Return, Goto
<1>5. ASSUME NEW r \in Requests, GetLatest(r) PROVE StoredSound'
  BY <1>5 DEF GetLatest, Read, Refuse, Matches, Dispatch, Return, Goto
<1>6. ASSUME NEW r \in Requests, ReclaimExpired(r) PROVE StoredSound'
  BY <1>6 DEF ReclaimExpired, TakeOver, LoseRace, Reclaimable, Reclaimed,
     WithState, Claim, Goto
<1>7. ASSUME NEW r \in Requests, ReclaimFailed(r) PROVE StoredSound'
  BY <1>7 DEF ReclaimFailed, TakeOver, LoseRace, Reclaimable, Reclaimed,
     WithState, Claim, Return, Goto
<1>8. ASSUME NEW r \in Requests, ExecuteBusiness(r) PROVE StoredSound'
  BY <1>8 DEF ExecuteBusiness, Goto
<1>9. ASSUME NEW r \in Requests, RecordSuccess(r) PROVE StoredSound'
  BY <1>9 DEF RecordSuccess, MarkSucceeded, Return, Goto
<1>10. ASSUME NEW r \in Requests, RecordFailure(r) PROVE StoredSound'
  BY <1>10 DEF RecordFailure, MarkFailedRetryable, WithState, Return, Goto
<1>11. ASSUME NEW r \in Requests, StoreError(r) \/ Crash(r) PROVE StoredSound'
  BY <1>11 DEF StoreError, Crash, Return, Goto
<1>12. CASE Tick
  BY <1>12 DEF Tick
<1>13. CASE Cleanup
  BY <1>13 DEF Cleanup, DeleteExpired, NoRow
<1>14. CASE UNCHANGED vars
  BY <1>14 DEF vars
<1>15. QED
  BY <1>1, <1>2, <1>3, <1>4, <1>5, <1>6, <1>7, <1>8, <1>9, <1>10, <1>11, <1>12,
     <1>13, <1>14 DEF Next, Step

\* A replay copies the stored response of a row that matches.
LEMMA ReplayStep == TypeOK /\ EffectPlaced /\ StoredSound /\ ReplaySound /\
     [Next]_vars => ReplaySound'
<1> USE DEF TypeOK, Rows, Row, Statuses, Claiming, Holding, EffectPlaced, StoredSound,
     ReplaySound
<1> SUFFICES ASSUME TypeOK, EffectPlaced, StoredSound, ReplaySound, [Next]_vars
     PROVE ReplaySound'
  OBVIOUS
<1>1. ASSUME NEW r \in Requests, ExecuteWithoutKey(r) PROVE ReplaySound'
  BY <1>1 DEF ExecuteWithoutKey, Return, Goto
<1>2. ASSUME NEW r \in Requests, Begin(r) PROVE ReplaySound'
  BY <1>2 DEF Begin, Goto
<1>3. ASSUME NEW r \in Requests, Create(r) PROVE ReplaySound'
  BY <1>3 DEF Create, CreateProcessing, Claim, Goto
<1>4. ASSUME NEW r \in Requests, GetExisting(r) PROVE ReplaySound'
  BY <1>4 DEF GetExisting, Read, Refuse, Matches, Dispatch, Return, Goto
<1>5. ASSUME NEW r \in Requests, GetLatest(r) PROVE ReplaySound'
  BY <1>5 DEF GetLatest, Read, Refuse, Matches, Dispatch, Return, Goto
<1>6. ASSUME NEW r \in Requests, ReclaimExpired(r) PROVE ReplaySound'
  BY <1>6 DEF ReclaimExpired, TakeOver, LoseRace, Reclaimable, Reclaimed,
     WithState, Claim, Goto
<1>7. ASSUME NEW r \in Requests, ReclaimFailed(r) PROVE ReplaySound'
  BY <1>7 DEF ReclaimFailed, TakeOver, LoseRace, Reclaimable, Reclaimed,
     WithState, Claim, Return, Goto
<1>8. ASSUME NEW r \in Requests, ExecuteBusiness(r) PROVE ReplaySound'
  BY <1>8 DEF ExecuteBusiness, Goto
<1>9. ASSUME NEW r \in Requests, RecordSuccess(r) PROVE ReplaySound'
  BY <1>9 DEF RecordSuccess, MarkSucceeded, Return, Goto
<1>10. ASSUME NEW r \in Requests, RecordFailure(r) PROVE ReplaySound'
  BY <1>10 DEF RecordFailure, MarkFailedRetryable, WithState, Return, Goto
<1>11. ASSUME NEW r \in Requests, StoreError(r) \/ Crash(r) PROVE ReplaySound'
  BY <1>11 DEF StoreError, Crash, Return, Goto
<1>12. CASE Tick
  BY <1>12 DEF Tick
<1>13. CASE Cleanup
  BY <1>13 DEF Cleanup, DeleteExpired, NoRow
<1>14. CASE UNCHANGED vars
  BY <1>14 DEF vars
<1>15. QED
  BY <1>1, <1>2, <1>3, <1>4, <1>5, <1>6, <1>7, <1>8, <1>9, <1>10, <1>11, <1>12,
     <1>13, <1>14 DEF Next, Step

-----------------------------------------------------------------------------
(* Mutual exclusion of executions.                                         *)

\* While no request outlives its lease, nobody else can take the row: every
\* claim asks for a lock that has lapsed, or for no row at all.
LEMMA LeaseStep ==
  TypeOK /\ IdsFresh /\ ClaimantMatches /\ LeaseHeld /\ ExclusiveExecution
    /\ [Next]_vars => LeaseHeld' /\ ExclusiveExecution'
<1> USE IdempotencyAssumption
    DEF TypeOK, Rows, Row, Statuses, Claiming, Holding, IdsFresh, ClaimantMatches, LeaseHeld,
        ExclusiveExecution, Executing, LockedUntil, ExpiresAt, Overrun
<1> DEFINE Goal == LeaseHeld' /\ ExclusiveExecution'
<1> SUFFICES ASSUME TypeOK, IdsFresh, ClaimantMatches, LeaseHeld, ExclusiveExecution,
                    [Next]_vars
             PROVE  Goal
  OBVIOUS
<1>1. ASSUME NEW r \in Requests, ExecuteWithoutKey(r) PROVE Goal
  BY <1>1 DEF ExecuteWithoutKey, Return, Goto
<1>2. ASSUME NEW r \in Requests, Begin(r) PROVE Goal
  BY <1>2 DEF Begin, Goto
<1>3. ASSUME NEW r \in Requests, Create(r) PROVE Goal
  <2>1. CASE row.id = 0
    <3>1. ~overran => \A s \in Requests : pc[s] \notin Holding
      BY <2>1
    <3>2. row'.id = nextId /\ row'.status = Processing
          /\ row'.locked = LockedUntil(r) /\ row'.expires = ExpiresAt(r)
      BY <1>3, <2>1 DEF Create, CreateProcessing
    <3> ~overran' => ~overran /\ ~(now >= LockedUntil(r))
      BY <1>3, <2>1, Zenon DEF Create, Claim
    <3>3. /\ rid' = [rid EXCEPT ![r] = nextId]
          /\ pc' = [pc EXCEPT ![r] = "exec"]
          /\ UNCHANGED <<now, at>>
      BY <1>3, <2>1 DEF Create, Claim, Goto
    <3>4. CASE overran'
      BY <3>3, <3>4
    <3>5. CASE ~overran'
      <4>1. \A s \in Requests : pc'[s] \in Holding <=> s = r
        BY <3>1, <3>3, <3>5
      <4>2. QED
        BY <3>2, <3>3, <3>5, <4>1
    <3>6. QED
      BY <3>4, <3>5
  <2>2. CASE row.id # 0
    BY <1>3, <2>2 DEF Create, CreateProcessing, Goto
  <2>3. QED
    BY <2>1, <2>2
<1>4. ASSUME NEW r \in Requests, GetExisting(r) PROVE Goal
  <2>1. /\ UNCHANGED <<now, row, at, rid, overran>>
        /\ \E l \in {"done", "reclaimExpired", "reclaimFailed"} : pc' = [pc EXCEPT ![r] = l]
    BY <1>4, Zenon DEF GetExisting, Read, Refuse, Dispatch, Return, Goto
  <2>2. QED
    BY <2>1
<1>5. ASSUME NEW r \in Requests, GetLatest(r) PROVE Goal
  <2>1. /\ UNCHANGED <<now, row, at, rid, overran>>
        /\ \E l \in {"done", "reclaimFailed"} : pc' = [pc EXCEPT ![r] = l]
    BY <1>5, Zenon DEF GetLatest, Read, Refuse, Dispatch, Return, Goto
  <2>2. QED
    BY <2>1
<1>6. ASSUME NEW r \in Requests, NEW st, TakeOver(r, st), pc[r] \in Claiming PROVE Goal
  <2>1. ~overran => \A s \in Requests : pc[s] \notin Holding
    BY <1>6 DEF TakeOver, Reclaimable
  <2>2. row'.id = seen[r].id /\ row'.status = Processing
        /\ row'.locked = LockedUntil(r) /\ row'.expires = ExpiresAt(r)
    BY <1>6 DEF TakeOver, Reclaimable, Reclaimed, WithState
  <2> ~overran' => ~overran /\ ~(now >= LockedUntil(r))
    BY <1>6, Zenon DEF TakeOver, Claim
  <2>3. /\ rid' = [rid EXCEPT ![r] = seen[r].id]
        /\ pc' = [pc EXCEPT ![r] = "exec"]
        /\ UNCHANGED <<now, at>>
    BY <1>6 DEF TakeOver, Claim, Goto
  <2>4. CASE overran'
    BY <2>3, <2>4
  <2>5. CASE ~overran'
    <3>1. \A s \in Requests : pc'[s] \in Holding <=> s = r
      BY <2>1, <2>3, <2>5
    <3>2. QED
      BY <2>2, <2>3, <2>5, <3>1
  <2>6. QED
    BY <2>4, <2>5
<1>7. ASSUME NEW r \in Requests, ReclaimExpired(r) \/ ReclaimFailed(r) PROVE Goal
  BY <1>6, <1>7 DEF ReclaimExpired, ReclaimFailed, LoseRace, Return, Goto
<1>8. ASSUME NEW r \in Requests, ExecuteBusiness(r) PROVE Goal
  BY <1>8 DEF ExecuteBusiness, Goto
<1>9. ASSUME NEW r \in Requests, RecordSuccess(r) \/ RecordFailure(r) PROVE Goal
  BY <1>9 DEF RecordSuccess, RecordFailure, Return, Goto
<1>10. ASSUME NEW r \in Requests, StoreError(r) \/ Crash(r) PROVE Goal
  BY <1>10 DEF StoreError, Crash, Return, Goto
<1>11. CASE Tick
  <2>1. /\ now' = now + 1
        /\ UNCHANGED <<row, pc, rid, at>>
    BY <1>11 DEF Tick
  <2> /\ ~overran' => ~overran
      /\ ~overran' => \A r \in Requests : pc[r] \in Holding => ~(now + 1 >= LockedUntil(r))
    BY <1>11, Zenon DEF Tick
  <2>2. CASE overran'
    BY <2>1, <2>2
  <2>3. CASE ~overran'
    BY <2>1, <2>3
  <2>4. QED
    BY <2>2, <2>3
<1>12. CASE Cleanup
  BY <1>12 DEF Cleanup, DeleteExpired
<1>13. CASE UNCHANGED vars
  BY <1>13 DEF vars
<1>14. QED
  BY <1>1, <1>2, <1>3, <1>4, <1>5, <1>7, <1>8, <1>9, <1>10, <1>11, <1>12, <1>13
     DEF Next, Step

-----------------------------------------------------------------------------
(* The theorems.                                                           *)

\* The inductive invariant holds when the server starts.
LEMMA IInvInit == Init => IInv
<1> SUFFICES ASSUME Init PROVE IInv
  OBVIOUS
<1>1. TypeOK
  BY TypeInit
<1>2. IdsFresh /\ FingerprintStable /\ ClaimantMatches /\ EffectPlaced
  BY DEF Init, NoRow, IdsFresh, FingerprintStable, ClaimantMatches, EffectPlaced,
     Holding
<1>3. StoredSound /\ ReplaySound
  BY DEF Init, NoRow, StoredSound, ReplaySound, Succeeded
<1>4. LeaseHeld /\ ExclusiveExecution
  BY DEF Init, LeaseHeld, ExclusiveExecution, Executing, Holding
<1>5. QED
  BY <1>1, <1>2, <1>3, <1>4 DEF IInv

\* The inductive invariant is invariant.
LEMMA IInvInvariant == Spec => []IInv
<1>1. IInv /\ [Next]_vars => IInv'
  BY TypeStep, IdsFreshStep, FingerprintStep, ClaimantStep, EffectStep, StoredStep,
     ReplayStep, LeaseStep DEF IInv
<1>2. QED
  BY <1>1, IInvInit, PTL DEF Spec

\* For any number of requests, payloads, retries, crashes and cleanups, a
\* replayed response is that of a successful execution of the same payload.
THEOREM ReplayCorrect == Spec => []ReplaySound
  BY IInvInvariant, PTL DEF IInv

\* For any number of requests, executions under one key do not overlap while
\* every holder keeps to its processing timeout.
THEOREM ExecutionExclusive == Spec => []ExclusiveExecution
  BY IInvInvariant, PTL DEF IInv
=============================================================================
