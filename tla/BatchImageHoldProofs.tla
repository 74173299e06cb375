----------------------- MODULE BatchImageHoldProofs -----------------------
(***************************************************************************)
(* The safety half of the refinement: a batch image job moves its hold as  *)
(* BalanceHold says.  Two of the races break it, so they are excluded: a   *)
(* Cancel before the hold is reserved, and a worker that outlives its job  *)
(* lock.  So does a job whose capture went through and whose settlement    *)
(* fails until it is given up, so fewer calls fail than are retried.       *)
(***************************************************************************)
EXTENDS BatchImageJobProofs

\* A process that lives renews its job lock and its entries in time.
Heartbeats == "stall" \notin Races

Regular ==
    /\ Heartbeats
    /\ "earlyCancel" \notin Races
    /\ MaxFaults < MaxRetries

-----------------------------------------------------------------------------
(* The invariant.                                                          *)

\* Nobody else acts on the job before the hold is reserved.
StartInv ==
    sub = "reserve" =>
        /\ status = "created" /\ ~stale /\ claims = {}
        /\ ready = 0 /\ ~delayed /\ ~active
        /\ own = "idle" /\ rec = "idle" /\ \A w \in Workers : pc[w] = "idle"

\* A worker at work holds the job lock.
LockInv == \A w \in Workers : pc[w] \in Working => lock = w

\* The labels at which the job is known not to be settled, and to be settling.
Fetching == {"get", "toRunning", "toIndexing", "toFailed", "toCancelled", "index", "toSettling"}
Charging == {"capture", "record", "mark", "exRelease", "exRecord", "exFail"}

PlaceInv ==
    /\ own = "cancelRelease" => status \in {"failed", "cancelled"}
    /\ rec = "recRelease" => status \in {"failed", "cancelled"}
    /\ \A w \in Workers :
           /\ pc[w] = "release" => status \in {"failed", "cancelled"}
           /\ pc[w] \in Fetching => status \in InProgress \cup {"failed", "cancelled"}
           /\ pc[w] \in Charging => status = "settling"

\* The failures of a job that can be charged are counted by the faults.
CountInv ==
    /\ status \in Unsubmitted \cup InProgress => retries = 0
    /\ verdict = "valid" => retries <= faults
    /\ \A w \in Workers :
           /\ pc[w] = "record" /\ verdict = "valid" => retries < faults
           /\ pc[w] = "capture" => verdict = "valid" /\ retries < MaxRetries
           /\ pc[w] \in {"exRelease", "exRecord", "exFail"} => retries = MaxRetries

\* The balance says what the dedup rows say, and they are never of both kinds.
HoldInv ==
    /\ sub \in {"items", "upload", "submit", "save", "enqueue"} \/ named => "hold" \in claims
    /\ claims = {"hold"} => frozen = Others + 1
    /\ claims # {"hold"} => frozen = Others
    /\ "capture" \in claims =>
           /\ "hold" \in claims /\ "release" \notin claims /\ verdict = "valid"
           /\ status \in {"settling", "completed", "output_deleted"}
    /\ "release" \in claims /\ status = "settling" => retries = MaxRetries

HInv == StartInv /\ LockInv /\ PlaceInv /\ CountInv /\ HoldInv

-----------------------------------------------------------------------------
(* What the steps do.                                                      *)

LEMMA StartStep ==
    ASSUME Regular, TypeOK, StartInv, [Next]_vars PROVE StartInv'
<1> SUFFICES ASSUME sub' = "reserve" PROVE StartInv'
  BY DEF StartInv
<1>1. CASE Submit \/ SubmitCrash
  BY <1>1 DEF Submit, SubmitCrash, ReserveHold, CreatePendingItems, StartUpload,
     SubmitToProvider, SaveProviderJob, AbortOrphanProviderJob, EnqueueSubmitted,
     ReleaseFailedSubmitHold, RecordSubmitFailure, EnqueueSubmitRetry
<1>2. CASE UNCHANGED vars
  BY <1>2 DEF vars, jobVars, moneyVars, queueVars, StartInv
<1>3. CASE BeginCancel \/ RepeatSubmit \/ OwnerStep \/ OwnerCrash
  BY <1>3 DEF BeginCancel, RepeatSubmit, OwnerStep, OwnerCrash, CancelUpstream, CancelUnsubmitted,
     CancelRelease, CancelEnqueue, OwnFrame, Regular, StartInv
<1>4. CASE Recovery \/ RecoveryCrash
  BY <1>4 DEF Recovery, RecoveryCrash, FailStale, StaleUnsubmitted, RecoveryRelease,
     EnqueueReleaseRetry, RecFrame, StartInv
<1>5. ASSUME NEW w \in Workers, Work(w) \/ WorkerCrash(w) PROVE FALSE
  <2>1. sub' = sub
    BY <1>5 DEF Work, WorkerCrash, ReadJob, LoadJob, GetStatus, ReadSettlement, RereadJob, ReadTo,
       Reserve, TryAcquireJobLock, FinishAck, FinishRequeue, Unlock, IndexResults,
       ReleaseTerminalHold, CaptureHold, RecordSettlementFailure, MarkSettled,
       ReleaseExhausted, RecordReleaseFailure, WorkerTransition, WorkFrame
  <2>2. pc[w] = "idle" /\ ready = 0
    BY <2>1 DEF StartInv
  <2>3. QED
    BY <1>5, <2>2 DEF Work, WorkerCrash, ReadJob, LoadJob, GetStatus, ReadSettlement, RereadJob,
       Reserve, TryAcquireJobLock, FinishAck, FinishRequeue, Unlock, IndexResults,
       ReleaseTerminalHold, CaptureHold, RecordSettlementFailure, MarkSettled,
       ReleaseExhausted, RecordReleaseFailure, WorkerTransition
<1>6. CASE \/ MoveDueDelayed \/ RecoverStaleActive \/ LockExpires \/ GrowStale
           \/ UpstreamEnds \/ CleanupOutput
  BY <1>6 DEF MoveDueDelayed, RecoverStaleActive, LockExpires, GrowStale, UpstreamEnds,
     CleanupOutput, Outside, Stalled, Regular, Heartbeats, StartInv, moneyVars
<1>7. QED
  BY <1>1, <1>2, <1>3, <1>4, <1>5, <1>6 DEF Next

\* A step of one worker leaves the labels of the others alone, and takes none
\* of them past the lock.
LEMMA WorkerAlone ==
    ASSUME TypeOK, NEW w \in Workers, Work(w) \/ WorkerCrash(w)
    PROVE  /\ WorkFrame
           /\ \A v \in Workers \ {w} : pc'[v] = pc[v]
           /\ pc'[w] \in Working => pc[w] \in Working \/ (lock = NoLock /\ lock' = w)
           /\ pc'[w] \in Working /\ pc[w] \in Working => lock' = lock
           /\ pc[w] \notin Working => lock' \in {lock, w, Dead} \/ lock = w
           /\ lock' # lock => lock \in {NoLock, w}
<1>1. WorkFrame
  BY DEF Work, WorkerCrash, ReadJob, LoadJob, GetStatus, ReadSettlement, RereadJob, ReadTo,
     Reserve, TryAcquireJobLock, FinishAck, FinishRequeue, Unlock, IndexResults,
     ReleaseTerminalHold, CaptureHold, RecordSettlementFailure, MarkSettled,
     ReleaseExhausted, RecordReleaseFailure, WorkerTransition
<1>2. \A v \in Workers \ {w} : pc'[v] = pc[v]
  BY DEF Work, WorkerCrash, ReadJob, LoadJob, GetStatus, ReadSettlement, RereadJob, ReadTo,
     Reserve, TryAcquireJobLock, FinishAck, FinishRequeue, Unlock, IndexResults,
     ReleaseTerminalHold, CaptureHold, RecordSettlementFailure, MarkSettled,
     ReleaseExhausted, RecordReleaseFailure, WorkerTransition, Goto, TypeOK
<1>3. CASE Reserve(w) \/ TryAcquireJobLock(w) \/ Unlock(w) \/ WorkerCrash(w)
  BY <1>1, <1>2, <1>3 DEF Reserve, TryAcquireJobLock, LockFree, Unlock, WorkerCrash, Goto, TypeOK,
     Working
<1>4. CASE ~(Reserve(w) \/ TryAcquireJobLock(w) \/ Unlock(w) \/ WorkerCrash(w))
  <2>1. lock' = lock /\ pc[w] \in Working
    BY <1>4 DEF Work, ReadJob, LoadJob, GetStatus, ReadSettlement, RereadJob, ReadTo, FinishAck,
       FinishRequeue, IndexResults, ReleaseTerminalHold, CaptureHold, RecordSettlementFailure,
       MarkSettled, ReleaseExhausted, RecordReleaseFailure, WorkerTransition, Working
  <2>2. QED
    BY <1>1, <1>2, <2>1
<1>5. QED
  BY <1>3, <1>4

\* Steps of the others leave the workers and the lock of a living one alone.
LEMMA OthersSteps ==
    ASSUME Heartbeats, TypeOK, [Next]_vars, ~\E w \in Workers : Work(w) \/ WorkerCrash(w)
    PROVE  /\ pc' = pc /\ verdict' = verdict /\ retries' = retries
           /\ lock' = lock \/ lock \in {NoLock, Dead}
           /\ faults <= faults'
<1>1. CASE Submit \/ SubmitCrash
  BY <1>1 DEF Submit, SubmitCrash, ReserveHold, CreatePendingItems, StartUpload,
     SubmitToProvider, SaveProviderJob, AbortOrphanProviderJob, EnqueueSubmitted,
     ReleaseFailedSubmitHold, RecordSubmitFailure, EnqueueSubmitRetry, SubFrame, Fails, Fault,
     NoFault, TypeOK
<1>2. CASE UNCHANGED vars
  BY <1>2 DEF vars, jobVars, TypeOK
<1>3. CASE BeginCancel \/ RepeatSubmit \/ OwnerStep \/ OwnerCrash
  BY <1>3 DEF BeginCancel, RepeatSubmit, OwnerStep, OwnerCrash, CancelUpstream, CancelUnsubmitted,
     CancelRelease, CancelEnqueue, OwnFrame, Fails, Fault, NoFault, TypeOK
<1>4. CASE Recovery \/ RecoveryCrash
  BY <1>4 DEF Recovery, RecoveryCrash, FailStale, RecoveryRelease, EnqueueReleaseRetry, RecFrame,
     Fails, Fault, NoFault, TypeOK
<1>5. CASE \/ MoveDueDelayed \/ RecoverStaleActive \/ LockExpires \/ GrowStale
           \/ UpstreamEnds \/ CleanupOutput
  BY <1>5 DEF MoveDueDelayed, RecoverStaleActive, LockExpires, GrowStale, UpstreamEnds,
     CleanupOutput, Outside, Stalled, Heartbeats, Fault, NoFault, TypeOK
<1>6. QED
  BY <1>1, <1>2, <1>3, <1>4, <1>5 DEF Next

LEMMA LockStep ==
    ASSUME Heartbeats, TypeOK, LockInv, [Next]_vars PROVE LockInv'
<1>1. ASSUME NEW w \in Workers, Work(w) \/ WorkerCrash(w) PROVE LockInv'
  BY <1>1, WorkerAlone, BatchAssumption DEF LockInv, TypeOK
<1>2. CASE ~\E w \in Workers : Work(w) \/ WorkerCrash(w)
  BY <1>2, OthersSteps, BatchAssumption DEF LockInv
<1>3. QED
  BY <1>1, <1>2

LEMMA WorkerPlace ==
    ASSUME TypeOK, JobInv, PlaceInv, NEW w \in Workers, Work(w) \/ WorkerCrash(w)
    PROVE  /\ pc'[w] = "release" => status' \in {"failed", "cancelled"}
           /\ pc'[w] \in Fetching => status' \in InProgress \cup {"failed", "cancelled"}
           /\ pc'[w] \in Charging => status' = "settling"
           /\ status' # status => pc[w] \in Working
<1>1. CASE \/ ReadJob(w) \/ LoadJob(w) \/ GetStatus(w) \/ ReadSettlement(w) \/ RereadJob(w)
  <2>1. status' = status
    BY <1>1 DEF ReadJob, LoadJob, GetStatus, ReadSettlement, RereadJob, ReadTo
  <2>2. CASE ReadJob(w) \/ RereadJob(w)
    BY <2>1, <2>2 DEF ReadJob, RereadJob, ReadTo, Goto, TypeOK, Fetching, Charging
  <2>3. CASE LoadJob(w)
    <3>1. pc'[w] \in {LoadPath, "requeue"}
      BY <2>3 DEF LoadJob, ReadTo, Goto, TypeOK
    <3>2. QED
      BY <2>1, <3>1 DEF LoadPath, Done, TypeOK, Statuses, Unsubmitted, InProgress, Terminal,
         Fetching, Charging, JobInv, SubmittedInv
  <2>4. CASE GetStatus(w)
    <3>1. pc[w] = "get" /\ pc'[w] \in {"toRunning", "toIndexing", "toFailed", "toCancelled", "requeue"}
      BY <2>4 DEF GetStatus, ReadTo, Goto, TypeOK
    <3>2. QED
      BY <2>1, <3>1 DEF PlaceInv, Fetching, Charging
  <2>5. CASE ReadSettlement(w)
    <3>1. pc'[w] \in {SettlePath, "requeue"}
      BY <2>5 DEF ReadSettlement, ReadTo, Goto, TypeOK
    <3>2. QED
      BY <2>1, <3>1 DEF SettlePath, Fetching, Charging
  <2>6. QED
    BY <1>1, <2>2, <2>3, <2>4, <2>5
<1>2. CASE \/ WorkerTransition(w, "toRunning", "running", "requeue")
           \/ WorkerTransition(w, "toIndexing", "indexing", "index")
           \/ WorkerTransition(w, "toFailed", "failed", "release")
           \/ WorkerTransition(w, "toCancelled", "cancelled", "release")
           \/ WorkerTransition(w, "toSettling", "settling", "requeue")
           \/ WorkerTransition(w, "exFail", "failed", "reread")
  BY <1>2 DEF WorkerTransition, Goto, TypeOK, InProgress, Fetching, Charging, Working
<1>3. CASE \/ Reserve(w) \/ TryAcquireJobLock(w) \/ FinishAck(w) \/ FinishRequeue(w)
           \/ Unlock(w) \/ WorkerCrash(w)
  BY <1>3 DEF Reserve, TryAcquireJobLock, FinishAck, FinishRequeue, Unlock, WorkerCrash, Goto,
     TypeOK, Fetching, Charging
<1>4. CASE \/ IndexResults(w) \/ ReleaseTerminalHold(w) \/ CaptureHold(w)
           \/ RecordSettlementFailure(w) \/ MarkSettled(w) \/ ReleaseExhausted(w)
           \/ RecordReleaseFailure(w)
  BY <1>4 DEF IndexResults, ReleaseTerminalHold, CaptureHold, RecordSettlementFailure, AfterFailure,
     MarkSettled, ReleaseExhausted, RecordReleaseFailure, Goto, TypeOK, InProgress, Fetching,
     Charging, Working, PlaceInv
<1>5. QED
  BY <1>1, <1>2, <1>3, <1>4 DEF Work

\* What others than the workers write into the row.
LEMMA OthersRow ==
    ASSUME TypeOK, JobInv, [Next]_vars, ~\E w \in Workers : Work(w) \/ WorkerCrash(w)
    PROVE  \/ status' = status
           \/ status \in Unsubmitted /\ status' \in {"uploading", "submitted", "failed", "cancelled"}
           \/ status \in {"submitted", "running"} /\ status' = "cancelled"
           \/ status \in {"failed", "cancelled"} /\ status' = "failed"
           \/ status = "completed" /\ status' = "output_deleted"
<1>1. CASE Submit \/ SubmitCrash
  BY <1>1 DEF Submit, SubmitCrash, ReserveHold, CreatePendingItems, StartUpload,
     SubmitToProvider, SaveProviderJob, AbortOrphanProviderJob, EnqueueSubmitted,
     ReleaseFailedSubmitHold, RecordSubmitFailure, EnqueueSubmitRetry, Transition, CanTransition,
     JobInv, SubmittedInv, TypeOK, Statuses, Unsubmitted, InProgress, Terminal
<1>2. CASE UNCHANGED vars
  BY <1>2 DEF vars, jobVars
<1>3. CASE BeginCancel \/ RepeatSubmit \/ OwnerStep \/ OwnerCrash
  BY <1>3 DEF BeginCancel, RepeatSubmit, OwnerStep, OwnerCrash, CancelUpstream, CancelUnsubmitted,
     CancelRelease, CancelEnqueue, Transition, CanTransition, Unsubmitted, Terminal
<1>4. CASE Recovery \/ RecoveryCrash
  BY <1>4 DEF Recovery, RecoveryCrash, FailStale, StaleUnsubmitted, RecoveryRelease,
     EnqueueReleaseRetry
<1>5. CASE \/ MoveDueDelayed \/ RecoverStaleActive \/ LockExpires \/ GrowStale
           \/ UpstreamEnds \/ CleanupOutput
  BY <1>5 DEF MoveDueDelayed, RecoverStaleActive, LockExpires, GrowStale, UpstreamEnds,
     CleanupOutput
<1>6. QED
  BY <1>1, <1>2, <1>3, <1>4, <1>5 DEF Next

\* What the owner and the recovery are about to release has failed or was
\* cancelled.
LEMMA ReleasingStatus ==
    ASSUME TypeOK, JobInv, PlaceInv, [Next]_vars
    PROVE  /\ own' = "cancelRelease" => own = "cancelRelease" \/ status' \in {"failed", "cancelled"}
           /\ rec' = "recRelease" => rec = "recRelease" \/ status' \in {"failed", "cancelled"}
           /\ status \in {"failed", "cancelled"} => status' \in {"failed", "cancelled"}
<1>1. status \in {"failed", "cancelled"} => status' \in {"failed", "cancelled"}
  BY RowSteps DEF RowMoves, CanTransition, Unsubmitted, Terminal
<1>2. CASE BeginCancel \/ RepeatSubmit \/ OwnerStep \/ OwnerCrash
  BY <1>1, <1>2 DEF BeginCancel, CancelPath, RepeatSubmit, OwnerStep, OwnerCrash, CancelUpstream,
     CancelUnsubmitted, CancelRelease, CancelEnqueue, Transition, OwnFrame
<1>3. CASE Recovery \/ RecoveryCrash
  BY <1>1, <1>3 DEF Recovery, RecoveryCrash, FailStale, RecoveryRelease, EnqueueReleaseRetry, RecFrame
<1>4. ASSUME NEW w \in Workers, Work(w) \/ WorkerCrash(w) PROVE own' = own /\ rec' = rec
  BY <1>4, WorkerAlone DEF WorkFrame
<1>5. CASE Submit \/ SubmitCrash
  BY <1>1, <1>5 DEF Submit, SubmitCrash, ReserveHold, CreatePendingItems, StartUpload,
     SubmitToProvider, SaveProviderJob, AbortOrphanProviderJob, EnqueueSubmitted,
     ReleaseFailedSubmitHold, RecordSubmitFailure, EnqueueSubmitRetry, SubFrame
<1>6. CASE \/ MoveDueDelayed \/ RecoverStaleActive \/ LockExpires \/ GrowStale
           \/ UpstreamEnds \/ CleanupOutput
  BY <1>1, <1>6 DEF MoveDueDelayed, RecoverStaleActive, LockExpires, GrowStale, UpstreamEnds,
     CleanupOutput, Outside
<1>7. CASE UNCHANGED vars
  BY <1>1, <1>7 DEF vars
<1>8. QED
  BY <1>1, <1>2, <1>3, <1>4, <1>5, <1>6, <1>7 DEF Next

LEMMA PlaceStep ==
    ASSUME Heartbeats, TypeOK, JobInv, LockInv, PlaceInv, [Next]_vars PROVE PlaceInv'
<1>1. /\ own' = "cancelRelease" => status' \in {"failed", "cancelled"}
      /\ rec' = "recRelease" => status' \in {"failed", "cancelled"}
  BY ReleasingStatus DEF PlaceInv
<1>2. ASSUME NEW w \in Workers, Work(w) \/ WorkerCrash(w) PROVE PlaceInv'
  <2>1. ASSUME NEW v \in Workers \ {w}, pc[v] \in Working PROVE status' = status
    BY <1>2, <2>1, WorkerPlace DEF LockInv
  <2>2. ASSUME NEW v \in Workers, v # w
        PROVE  /\ pc'[v] = "release" => status' \in {"failed", "cancelled"}
               /\ pc'[v] \in Fetching => status' \in InProgress \cup {"failed", "cancelled"}
               /\ pc'[v] \in Charging => status' = "settling"
    BY <1>2, <2>1, <2>2, WorkerAlone DEF PlaceInv, Fetching, Charging, Working
  <2>3. QED
    BY <1>1, <1>2, <2>2, WorkerPlace DEF PlaceInv
<1>3. CASE ~\E w \in Workers : Work(w) \/ WorkerCrash(w)
  BY <1>1, <1>3, OthersRow, OthersSteps DEF PlaceInv, InProgress, Unsubmitted
<1>4. QED
  BY <1>2, <1>3

-----------------------------------------------------------------------------
(* Counting the failed settlements.                                        *)

\* Whoever captures finds the hold.
LEMMA CaptureFindsHold ==
    ASSUME TypeOK, JobInv, PlaceInv, CountInv, HoldInv, NEW w \in Workers, pc[w] = "capture"
    PROVE  /\ status = "settling" /\ "hold" \in claims /\ "release" \notin claims
           /\ Capturable
<1>1. status = "settling" /\ named /\ retries < MaxRetries
  BY DEF PlaceInv, Charging, CountInv, JobInv, SubmittedInv, Unsubmitted
<1>2. "hold" \in claims /\ "release" \notin claims
  BY <1>1, BatchAssumption DEF HoldInv, TypeOK
<1>3. CASE "capture" \in claims
  BY <1>1, <1>2, <1>3 DEF Capturable
<1>4. CASE "capture" \notin claims
  <2>1. claims = {"hold"}
    BY <1>2, <1>4 DEF TypeOK
  <2>2. frozen = Others + 1
    BY <2>1 DEF HoldInv
  <2>3. QED
    BY <1>1, <1>2, <2>2, BatchAssumption DEF Capturable
<1>5. QED
  BY <1>3, <1>4

LEMMA WorkerCount ==
    ASSUME TypeOK, JobInv, PlaceInv, CountInv, HoldInv, NEW w \in Workers,
           Work(w) \/ WorkerCrash(w)
    PROVE  /\ faults <= faults'
           /\ verdict' # verdict => pc[w] = "index" /\ status = "indexing" /\ retries' = retries
           /\ retries' # retries =>
                 /\ retries' = retries + 1 /\ retries < MaxRetries
                 /\ pc[w] \in {"record", "exRecord"} /\ verdict' = verdict
           /\ pc'[w] = "record" /\ verdict' = "valid" => retries' < faults'
           /\ pc'[w] = "capture" => verdict' = "valid" /\ retries' < MaxRetries
           /\ pc'[w] \in {"exRelease", "exRecord", "exFail"} => retries' = MaxRetries
<1> USE BatchAssumption DEF TypeOK
<1>1. faults <= faults'
  BY DEF Work, WorkerCrash, ReadJob, LoadJob, GetStatus, ReadSettlement, RereadJob, ReadTo,
     Reserve, TryAcquireJobLock, FinishAck, FinishRequeue, Unlock, IndexResults,
     ReleaseTerminalHold, CaptureHold, RecordSettlementFailure, MarkSettled,
     ReleaseExhausted, RecordReleaseFailure, WorkerTransition, Fails, Fault, NoFault
<1>2. CASE \/ ReadJob(w) \/ LoadJob(w) \/ GetStatus(w) \/ RereadJob(w)
           \/ Reserve(w) \/ TryAcquireJobLock(w) \/ FinishAck(w) \/ FinishRequeue(w)
           \/ Unlock(w) \/ WorkerCrash(w) \/ ReleaseTerminalHold(w) \/ MarkSettled(w)
  <2>1. retries' = retries /\ verdict' = verdict
    BY <1>2 DEF ReadJob, LoadJob, GetStatus, RereadJob, ReadTo, Reserve, TryAcquireJobLock,
       FinishAck, FinishRequeue, Unlock, WorkerCrash, ReleaseTerminalHold, MarkSettled
  <2>2. pc'[w] \notin {"record", "capture", "exRelease", "exRecord", "exFail"}
    BY <1>2 DEF ReadJob, LoadJob, LoadPath, GetStatus, RereadJob, ReadTo, Reserve,
       TryAcquireJobLock, FinishAck, FinishRequeue, Unlock, WorkerCrash, ReleaseTerminalHold,
       MarkSettled, Goto
  <2>3. QED
    BY <1>1, <2>1, <2>2
<1>3. CASE \/ WorkerTransition(w, "toRunning", "running", "requeue")
           \/ WorkerTransition(w, "toIndexing", "indexing", "index")
           \/ WorkerTransition(w, "toFailed", "failed", "release")
           \/ WorkerTransition(w, "toCancelled", "cancelled", "release")
           \/ WorkerTransition(w, "toSettling", "settling", "requeue")
           \/ WorkerTransition(w, "exFail", "failed", "reread")
  <2>1. retries' = retries /\ verdict' = verdict
    BY <1>3 DEF WorkerTransition
  <2>2. pc'[w] \notin {"record", "capture", "exRelease", "exRecord", "exFail"}
    BY <1>3 DEF WorkerTransition, Goto
  <2>3. QED
    BY <1>1, <2>1, <2>2
<1>4. CASE ReadSettlement(w)
  <2>1. retries' = retries /\ verdict' = verdict /\ pc'[w] \in {SettlePath, "requeue"}
    BY <1>4 DEF ReadSettlement, ReadTo, Goto
  <2>2. QED
    BY <1>1, <2>1 DEF SettlePath, RetryExhausted
<1>5. CASE IndexResults(w)
  BY <1>1, <1>5 DEF IndexResults, Goto
<1>6. CASE CaptureHold(w)
  <2>1. Capturable /\ pc[w] = "capture"
    BY <1>6, CaptureFindsHold DEF CaptureHold
  <2>2. retries' = retries /\ verdict' = verdict /\ pc'[w] \in {"mark", "record"}
    BY <1>6 DEF CaptureHold, Goto
  <2>3. pc'[w] = "record" => faults' = faults + 1
    BY <1>6, <2>1 DEF CaptureHold, Goto, Fails, Fault
  <2>4. verdict = "valid" /\ retries <= faults
    BY <2>1 DEF CountInv
  <2>5. QED
    BY <1>1, <2>2, <2>3, <2>4
<1>7. CASE RecordSettlementFailure(w)
  <2>1. pc[w] = "record" /\ verdict' = verdict
    BY <1>7 DEF RecordSettlementFailure
  <2>2. \/ retries' = Retried /\ pc'[w] = (IF Retried = MaxRetries THEN "exRelease" ELSE AfterFailure)
        \/ retries' \in {retries, Retried} /\ pc'[w] = AfterFailure
    BY <1>7 DEF RecordSettlementFailure, Goto
  <2>3. QED
    BY <1>1, <2>1, <2>2 DEF Retried, AfterFailure
<1>8. CASE ReleaseExhausted(w)
  <2>1. retries = MaxRetries
    BY <1>8 DEF ReleaseExhausted, CountInv
  <2>2. retries' = retries /\ verdict' = verdict /\ pc'[w] \in {"exFail", "exRecord"}
    BY <1>8 DEF ReleaseExhausted, Goto
  <2>3. QED
    BY <1>1, <2>1, <2>2
<1>9. CASE RecordReleaseFailure(w)
  <2>1. retries = MaxRetries
    BY <1>9 DEF RecordReleaseFailure, CountInv
  <2>2. retries' \in {retries, Retried} /\ verdict' = verdict /\ pc'[w] = "reread"
    BY <1>9 DEF RecordReleaseFailure, Goto
  <2>3. QED
    BY <1>1, <2>1, <2>2 DEF Retried
<1>10. QED
  BY <1>2, <1>3, <1>4, <1>5, <1>6, <1>7, <1>8, <1>9 DEF Work

LEMMA CountStep ==
    ASSUME Regular, TypeOK, JobInv, LockInv, PlaceInv, CountInv, HoldInv, [Next]_vars
    PROVE  CountInv'
<1> USE BatchAssumption
<1>1. ASSUME NEW w \in Workers, Work(w) \/ WorkerCrash(w) PROVE CountInv'
  <2>1. ASSUME NEW v \in Workers, v # w, pc[v] \in Working
        PROVE  retries' = retries /\ verdict' = verdict /\ faults <= faults'
    BY <1>1, <2>1, WorkerCount DEF LockInv, Working
  <2>2. ASSUME NEW v \in Workers, v # w
        PROVE  /\ pc'[v] = "record" /\ verdict' = "valid" => retries' < faults'
               /\ pc'[v] = "capture" => verdict' = "valid" /\ retries' < MaxRetries
               /\ pc'[v] \in {"exRelease", "exRecord", "exFail"} => retries' = MaxRetries
    <3>1. pc'[v] = pc[v]
      BY <1>1, <2>2, WorkerAlone
    <3>2. faults' \in Nat /\ faults \in Nat /\ retries \in Nat
      BY <1>1, WorkType DEF TypeOK
    <3>3. QED
      BY <2>1, <2>2, <3>1, <3>2 DEF CountInv, Working
  <2>3. verdict' = "valid" => retries' <= faults'
    <3>1. faults' \in Nat /\ faults \in Nat /\ retries \in Nat /\ faults <= faults'
      BY <1>1, WorkType, WorkerCount DEF TypeOK
    <3>2. CASE retries' # retries
      BY <1>1, <3>1, <3>2, WorkerCount DEF CountInv
    <3>3. CASE retries' = retries /\ verdict' # verdict
      BY <1>1, <3>1, <3>3, WorkerCount DEF CountInv, InProgress
    <3>4. CASE retries' = retries /\ verdict' = verdict
      BY <3>1, <3>4 DEF CountInv
    <3>5. QED
      BY <3>2, <3>3, <3>4
  <2>4. status' \in Unsubmitted \cup InProgress => retries' = 0
    <3>1. status' \in Unsubmitted \cup InProgress => status \in Unsubmitted \cup InProgress
      BY RowSteps, PastClosed DEF JobInv, TypeOK, Statuses, Past, Terminal, InProgress, Unsubmitted
    <3>2. retries' # retries => status = "settling"
      BY <1>1, WorkerCount DEF PlaceInv, Charging
    <3>3. QED
      BY <3>1, <3>2 DEF CountInv, InProgress, Unsubmitted
  <2>5. QED
    BY <1>1, <2>2, <2>3, <2>4, WorkerCount DEF CountInv
<1>2. CASE ~\E w \in Workers : Work(w) \/ WorkerCrash(w)
  <2>1. /\ pc' = pc /\ verdict' = verdict /\ retries' = retries /\ faults <= faults'
        /\ faults' \in Nat /\ faults \in Nat /\ retries \in Nat
    BY <1>2, OthersSteps, TypeStep DEF TypeOK, Regular
  <2>2. status' \in Unsubmitted \cup InProgress => status \in Unsubmitted \cup InProgress
    BY <1>2, OthersRow DEF Unsubmitted, InProgress
  <2>3. QED
    BY <2>1, <2>2 DEF CountInv
<1>3. QED
  BY <1>1, <1>2

-----------------------------------------------------------------------------
(* The dedup rows and the balance.                                         *)

\* A step moves no money, reserves, captures or releases.
MoneyMoves ==
    \/ claims' = claims /\ frozen' = frozen
    \/ sub = "reserve" /\ sub' # "reserve" /\ ReserveBalance
    \/ /\ Capturable /\ CaptureBalance /\ verdict' = verdict /\ status' = status
       /\ \E w \in Workers : pc[w] = "capture"
    \/ /\ Releasable /\ ReleaseBalance /\ retries' = retries /\ status' = status
       /\ sub \in {"undo", "undoQuiet"} \/ Releasing

LEMMA MoneyMove == ASSUME TypeOK, [Next]_vars PROVE MoneyMoves
<1>1. CASE Submit \/ SubmitCrash
  BY <1>1 DEF Submit, SubmitCrash, ReserveHold, CreatePendingItems, StartUpload,
     SubmitToProvider, SaveProviderJob, AbortOrphanProviderJob, EnqueueSubmitted,
     ReleaseFailedSubmitHold, RecordSubmitFailure, EnqueueSubmitRetry, SubFrame, moneyVars,
     MoneyMoves
<1>2. CASE UNCHANGED vars
  BY <1>2 DEF vars, moneyVars, MoneyMoves
<1>3. CASE BeginCancel \/ RepeatSubmit \/ OwnerStep \/ OwnerCrash
  BY <1>3 DEF BeginCancel, RepeatSubmit, OwnerStep, OwnerCrash, CancelUpstream, CancelUnsubmitted,
     CancelRelease, CancelEnqueue, OwnFrame, moneyVars, MoneyMoves, Releasing
<1>4. CASE Recovery \/ RecoveryCrash
  BY <1>4 DEF Recovery, RecoveryCrash, FailStale, RecoveryRelease, EnqueueReleaseRetry, RecFrame,
     moneyVars, MoneyMoves, Releasing
<1>5. ASSUME NEW w \in Workers, Work(w) \/ WorkerCrash(w) PROVE MoneyMoves
  <2>1. CASE CaptureHold(w)
    BY <2>1 DEF CaptureHold, moneyVars, MoneyMoves
  <2>2. CASE ReleaseTerminalHold(w) \/ ReleaseExhausted(w)
    BY <2>2 DEF ReleaseTerminalHold, ReleaseExhausted, moneyVars, MoneyMoves, Releasing
  <2>3. CASE ~(CaptureHold(w) \/ ReleaseTerminalHold(w) \/ ReleaseExhausted(w))
    BY <1>5, <2>3 DEF Work, WorkerCrash, ReadJob, LoadJob, GetStatus, ReadSettlement, RereadJob,
       ReadTo, Reserve, TryAcquireJobLock, FinishAck, FinishRequeue, Unlock, IndexResults,
       RecordSettlementFailure, MarkSettled, RecordReleaseFailure, WorkerTransition, moneyVars,
       MoneyMoves
  <2>4. QED
    BY <2>1, <2>2, <2>3
<1>6. CASE \/ MoveDueDelayed \/ RecoverStaleActive \/ LockExpires \/ GrowStale
           \/ UpstreamEnds \/ CleanupOutput
  BY <1>6 DEF MoveDueDelayed, RecoverStaleActive, LockExpires, GrowStale, UpstreamEnds,
     CleanupOutput, Outside, moneyVars, MoneyMoves
<1>7. QED
  BY <1>1, <1>2, <1>3, <1>4, <1>5, <1>6 DEF Next

\* Nobody who releases meets a captured hold.
LEMMA ReleaseNotCaptured ==
    ASSUME Regular, TypeOK, JobInv, PlaceInv, CountInv, HoldInv,
           sub \in {"undo", "undoQuiet"} \/ Releasing
    PROVE  "capture" \notin claims
<1> SUFFICES ASSUME "capture" \in claims PROVE FALSE
  OBVIOUS
<1>1. status \in {"settling", "completed", "output_deleted"} /\ verdict = "valid"
  BY DEF HoldInv
<1>2. named
  BY <1>1 DEF JobInv, SubmittedInv, Unsubmitted
<1>3. sub \notin {"undo", "undoQuiet"}
  BY <1>2 DEF JobInv, SubmittedInv
<1>4. PICK w \in Workers : pc[w] = "exRelease"
  BY <1>1, <1>3 DEF Releasing, PlaceInv
<1>5. retries = MaxRetries /\ retries <= faults
  BY <1>1, <1>4 DEF CountInv
<1>6. QED
  BY <1>5, BatchAssumption DEF Regular, TypeOK

\* The abstract hold moves as BalanceHold says.
LEMMA HoldMove ==
    ASSUME Regular, TypeOK, JobInv, StartInv, PlaceInv, CountInv, HoldInv, [Next]_vars
    PROVE  [Money!Next]_<<Hold, frozen>>
<1> USE BatchAssumption
<1>1. CASE claims' = claims /\ frozen' = frozen
  BY <1>1 DEF Hold
<1>2. CASE sub = "reserve" /\ ReserveBalance
  <2>1. claims = {} /\ claims' = {"hold"} /\ frozen' = frozen + 1
    BY <1>2 DEF StartInv, ReserveBalance
  <2>2. Hold = "none" /\ Hold' = "held"
    BY <2>1 DEF Hold
  <2>3. QED
    BY <2>1, <2>2 DEF Money!Next, Money!Reserve
<1>3. CASE CaptureBalance /\ \E w \in Workers : pc[w] = "capture"
  <2>1. "hold" \in claims /\ "release" \notin claims
    BY <1>3, CaptureFindsHold
  <2>2. CASE "capture" \in claims
    BY <1>3, <2>1, <2>2 DEF CaptureBalance, Hold
  <2>3. CASE "capture" \notin claims
    <3>1. Hold = "held" /\ Hold' = "captured" /\ frozen' = frozen - 1
      BY <1>3, <2>1, <2>3 DEF CaptureBalance, Hold
    <3>2. QED
      BY <3>1 DEF Money!Next, Money!Settle
  <2>4. QED
    BY <2>2, <2>3
<1>4. CASE ReleaseBalance /\ (sub \in {"undo", "undoQuiet"} \/ Releasing)
  <2>1. "capture" \notin claims
    BY <1>4, ReleaseNotCaptured
  <2>2. CASE "release" \in claims \/ "hold" \notin claims
    BY <1>4, <2>1, <2>2 DEF ReleaseBalance, Hold
  <2>3. CASE "release" \notin claims /\ "hold" \in claims
    <3>1. Hold = "held" /\ Hold' = "released" /\ frozen' = frozen - 1
      BY <1>4, <2>1, <2>3 DEF ReleaseBalance, Hold
    <3>2. QED
      BY <3>1 DEF Money!Next, Money!Settle
  <2>4. QED
    BY <2>2, <2>3
<1>5. QED
  BY <1>1, <1>2, <1>3, <1>4, MoneyMove DEF MoneyMoves

\* A settled charge is not undone: the job leaves settling by its mark only.
LEMMA SettlingStays ==
    ASSUME Regular, TypeOK, JobInv, PlaceInv, CountInv, HoldInv, [Next]_vars,
           "capture" \in claims
    PROVE  status' \in {"settling", "completed", "output_deleted"} /\ verdict' = verdict
<1>1. status \in {"settling", "completed", "output_deleted"} /\ verdict = "valid"
  BY DEF HoldInv
<1>2. CASE ~\E w \in Workers : Work(w) \/ WorkerCrash(w)
  BY <1>1, <1>2, OthersRow, OthersSteps DEF Unsubmitted, Regular
<1>3. ASSUME NEW w \in Workers, Work(w) \/ WorkerCrash(w)
      PROVE  status' \in {"settling", "completed", "output_deleted"} /\ verdict' = verdict
  <2>1. verdict' = verdict
    BY <1>1, <1>3, WorkerCount
  <2>2. pc[w] \notin {"toRunning", "toIndexing", "toFailed", "toCancelled", "toSettling"}
    BY <1>1 DEF PlaceInv, Fetching, InProgress
  <2>3. pc[w] # "exFail"
    BY <1>1, BatchAssumption DEF CountInv, Regular, TypeOK
  <2>4. status' \in {status, "completed"}
    BY <1>3, <2>2, <2>3 DEF Work, WorkerCrash, ReadJob, LoadJob, GetStatus, ReadSettlement,
       RereadJob, ReadTo, Reserve, TryAcquireJobLock, FinishAck, FinishRequeue, Unlock,
       IndexResults, ReleaseTerminalHold, CaptureHold, RecordSettlementFailure, MarkSettled,
       ReleaseExhausted, RecordReleaseFailure, WorkerTransition
  <2>5. QED
    BY <1>1, <2>1, <2>4
<1>4. QED
  BY <1>2, <1>3

\* Submit names the job with its hold reserved.
LEMMA SubmitHolds ==
    ASSUME TypeOK, HoldInv, [Next]_vars
    PROVE  sub' \in {"items", "upload", "submit", "save", "enqueue"} \/ named' => "hold" \in claims'
<1>1. claims \subseteq claims'
  BY MoneySteps
<1>2. CASE Submit \/ SubmitCrash
  BY <1>1, <1>2 DEF Submit, SubmitCrash, ReserveHold, CreatePendingItems, StartUpload,
     SubmitToProvider, SaveProviderJob, AbortOrphanProviderJob, EnqueueSubmitted,
     ReleaseFailedSubmitHold, RecordSubmitFailure, EnqueueSubmitRetry, ReserveBalance, HoldInv
<1>3. CASE ~(Submit \/ SubmitCrash)
  <2>1. sub' = sub /\ named' = named
    <3>1. CASE BeginCancel \/ RepeatSubmit \/ OwnerStep \/ OwnerCrash
      BY <3>1 DEF BeginCancel, RepeatSubmit, OwnerStep, OwnerCrash, CancelUpstream,
         CancelUnsubmitted, CancelRelease, CancelEnqueue, OwnFrame
    <3>2. CASE Recovery \/ RecoveryCrash
      BY <3>2 DEF Recovery, RecoveryCrash, FailStale, RecoveryRelease, EnqueueReleaseRetry, RecFrame
    <3>3. ASSUME NEW w \in Workers, Work(w) \/ WorkerCrash(w) PROVE sub' = sub /\ named' = named
      BY <3>3, WorkerAlone DEF WorkFrame
    <3>4. CASE \/ MoveDueDelayed \/ RecoverStaleActive \/ LockExpires \/ GrowStale
               \/ UpstreamEnds \/ CleanupOutput
      BY <3>4 DEF MoveDueDelayed, RecoverStaleActive, LockExpires, GrowStale, UpstreamEnds,
         CleanupOutput, Outside
    <3>5. CASE UNCHANGED vars
      BY <3>5 DEF vars, jobVars
    <3>6. QED
      BY <1>3, <3>1, <3>2, <3>3, <3>4, <3>5 DEF Next
  <2>2. QED
    BY <1>1, <2>1 DEF HoldInv
<1>4. QED
  BY <1>2, <1>3

LEMMA HoldStep ==
    ASSUME Regular, TypeOK, JobInv, StartInv, LockInv, PlaceInv, CountInv, HoldInv, [Next]_vars
    PROVE  HoldInv'
<1> USE BatchAssumption
<1>1. MoneyMoves /\ claims \subseteq claims' /\ claims' \subseteq {"hold", "capture", "release"}
  BY MoneyMove, MoneySteps, TypeStep DEF TypeOK
<1>2. /\ claims' = {"hold"} => frozen' = Others + 1
      /\ claims' # {"hold"} => frozen' = Others
  <2>1. CASE claims' = claims /\ frozen' = frozen
    BY <2>1 DEF HoldInv
  <2>2. CASE sub = "reserve" /\ ReserveBalance
    BY <2>2 DEF StartInv, ReserveBalance, HoldInv
  <2>3. CASE CaptureBalance /\ \E w \in Workers : pc[w] = "capture"
    <3>1. "hold" \in claims /\ "release" \notin claims
      BY <2>3, CaptureFindsHold
    <3>2. "capture" \notin claims => claims = {"hold"}
      BY <3>1 DEF TypeOK
    <3>3. QED
      BY <2>3, <3>1, <3>2 DEF CaptureBalance, HoldInv
  <2>4. CASE ReleaseBalance /\ (sub \in {"undo", "undoQuiet"} \/ Releasing)
    <3>1. "capture" \notin claims
      BY <2>4, ReleaseNotCaptured
    <3>2. "hold" \in claims /\ "release" \notin claims => claims = {"hold"}
      BY <3>1 DEF TypeOK
    <3>3. QED
      BY <2>4, <3>1, <3>2 DEF ReleaseBalance, HoldInv
  <2>5. QED
    BY <1>1, <2>1, <2>2, <2>3, <2>4 DEF MoneyMoves
<1>3. ASSUME "capture" \in claims'
      PROVE  /\ "hold" \in claims' /\ "release" \notin claims' /\ verdict' = "valid"
             /\ status' \in {"settling", "completed", "output_deleted"}
  <2>1. CASE "capture" \in claims
    <3>1. "hold" \in claims /\ "release" \notin claims /\ verdict = "valid"
      BY <2>1 DEF HoldInv
    <3>2. "release" \notin claims'
      BY <1>1, <2>1, <3>1, ReleaseNotCaptured DEF MoneyMoves, ReserveBalance, CaptureBalance
    <3>3. QED
      BY <1>1, <2>1, <3>1, <3>2, SettlingStays
  <2>2. CASE "capture" \notin claims
    <3>1. /\ CaptureBalance /\ verdict' = verdict /\ status' = status
          /\ \E w \in Workers : pc[w] = "capture"
      BY <1>1, <1>3, <2>2 DEF MoneyMoves, ReserveBalance, ReleaseBalance
    <3>2. /\ status = "settling" /\ "hold" \in claims /\ "release" \notin claims
          /\ verdict = "valid"
      BY <3>1, CaptureFindsHold DEF CountInv
    <3>3. QED
      BY <1>1, <3>1, <3>2 DEF CaptureBalance
  <2>3. QED
    BY <2>1, <2>2
<1>4. ASSUME "release" \in claims', status' = "settling" PROVE retries' = MaxRetries
  <2>1. CASE "release" \in claims
    <3>1. status = "settling"
      BY <1>4, <2>1, RowSteps DEF RowMoves, CanTransition, JobInv, ReleasedInv, ReleasedIsOver,
         InProgress, Unsubmitted
    <3>2. retries = MaxRetries
      BY <2>1, <3>1 DEF HoldInv
    <3>3. retries' = retries
      BY <3>2, OthersSteps, WorkerCount DEF Regular
    <3>4. QED
      BY <3>2, <3>3
  <2>2. CASE "release" \notin claims
    <3>1. /\ retries' = retries /\ status' = status
          /\ sub \in {"undo", "undoQuiet"} \/ Releasing
      BY <1>1, <1>4, <2>2 DEF MoneyMoves, ReserveBalance, CaptureBalance
    <3>2. \E w \in Workers : pc[w] = "exRelease"
      BY <1>4, <3>1 DEF Releasing, PlaceInv, JobInv, SubmittedInv, Unsubmitted
    <3>3. QED
      BY <3>1, <3>2 DEF CountInv
  <2>3. QED
    BY <2>1, <2>2
<1>5. QED
  BY <1>2, <1>3, <1>4, SubmitHolds DEF HoldInv

-----------------------------------------------------------------------------

LEMMA HoldInit == Init => HInv
<1> SUFFICES ASSUME Init PROVE HInv
  OBVIOUS
<1>1. StartInv
  BY DEF Init, StartInv
<1>2. LockInv /\ PlaceInv
  BY DEF Init, LockInv, PlaceInv, Working, Fetching, Charging
<1>3. CountInv
  BY DEF Init, CountInv
<1>4. HoldInv
  BY DEF Init, HoldInv
<1>5. QED
  BY <1>1, <1>2, <1>3, <1>4 DEF HInv

\* The job moves its hold as BalanceHold allows, for any number of workers and
\* of other holds: frozen once, then captured or released, never both.
THEOREM HoldSafe == ASSUME Regular PROVE Spec => HoldSafely
<1>1. Init => Money!Init
  BY DEF Init, Money!Init, Hold
<1>2. TypeOK /\ JobInv /\ HInv /\ [Next]_vars => HInv'
  BY StartStep, LockStep, PlaceStep, CountStep, HoldStep DEF HInv, Regular
<1>3. TypeOK /\ JobInv /\ HInv /\ [Next]_vars => [Money!Next]_<<Hold, frozen>>
  BY HoldMove DEF HInv
<1>4. Spec => []HInv
  BY <1>2, HoldInit, JobInvariant, PTL DEF Spec
<1>5. QED
  BY <1>1, <1>3, <1>4, JobInvariant, PTL DEF Spec, HoldSafely, Money!Safe, Money!holdVars
=============================================================================
