------------------------ MODULE BatchImageJobProofs ------------------------
(***************************************************************************)
(* Proofs about BatchImageJob, for any set of workers, any faults and any  *)
(* of the races: what a completed and what a released job rests on, and    *)
(* that a job which has ended stays ended.                                 *)
(***************************************************************************)
EXTENDS BatchImageJob, TLAPS

-----------------------------------------------------------------------------
(* Types.                                                                  *)

\* The branches of Cancel, of the processor and of Settle lead to labels.
LEMMA PathTypes ==
    ASSUME TypeOK
    PROVE  /\ CancelPath \in OwnLabels
           /\ LoadPath \in Labels
           /\ SettlePath \in Labels
           /\ AfterFailure \in Labels
           /\ Retried \in 0..MaxRetries
<1>1. CancelPath \in OwnLabels
  BY DEF TypeOK, CancelPath, OwnLabels, Done, Statuses, Terminal, InProgress, Unsubmitted
<1>2. LoadPath \in Labels
  BY DEF TypeOK, LoadPath, Labels, Working, Done, Statuses, Terminal, InProgress, Unsubmitted
<1>3. SettlePath \in Labels
  BY DEF TypeOK, SettlePath, Labels, Working
<1>4. AfterFailure \in Labels
  BY DEF AfterFailure, Labels, Working
<1>5. Retried \in 0..MaxRetries
  BY BatchAssumption DEF TypeOK, Retried
<1>6. QED
  BY <1>1, <1>2, <1>3, <1>4, <1>5

LEMMA FaultType ==
    ASSUME TypeOK, Fault \/ NoFault PROVE faults' \in 0..MaxFaults
  BY BatchAssumption DEF TypeOK, Fault, NoFault

\* A balance that moves stays a number: the UPDATEs ask for frozen_balance >= hold.
LEMMA MoneyType ==
    ASSUME TypeOK,
           \/ ReserveBalance
           \/ Capturable /\ CaptureBalance
           \/ Releasable /\ ReleaseBalance
           \/ UNCHANGED moneyVars
    PROVE  /\ claims' \subseteq {"hold", "capture", "release"}
           /\ frozen' \in Nat
<1>1. CASE ReserveBalance
  BY <1>1 DEF TypeOK, ReserveBalance
<1>2. CASE Capturable /\ CaptureBalance
  BY <1>2 DEF TypeOK, Capturable, CaptureBalance
<1>3. CASE Releasable /\ ReleaseBalance
  BY <1>3 DEF TypeOK, Releasable, ReleaseBalance
<1>4. CASE UNCHANGED moneyVars
  BY <1>4 DEF TypeOK, moneyVars
<1>5. QED
  BY <1>1, <1>2, <1>3, <1>4

LEMMA TransitionType ==
    ASSUME NEW to, CanTransition(status, to) PROVE to \in Statuses
  BY DEF CanTransition, Statuses, Terminal, InProgress, Unsubmitted

LEMMA GotoType ==
    ASSUME TypeOK, NEW w \in Workers, NEW l \in Labels, Goto(w, l)
    PROVE  pc' \in [Workers -> Labels]
  BY DEF TypeOK, Goto

\* The steps of Submit.
LEMMA SubmitType == ASSUME TypeOK, Submit \/ SubmitCrash PROVE TypeOK'
<1> USE BatchAssumption DEF TypeOK, SubFrame, SubLabels
<1>1. /\ verdict' = verdict /\ retries' = retries /\ delayed' = delayed /\ active' = active
      /\ lock' = lock /\ own' = own /\ rec' = rec /\ pc' = pc
  BY DEF Submit, SubmitCrash, ReserveHold, CreatePendingItems, StartUpload, SubmitToProvider,
     SaveProviderJob, AbortOrphanProviderJob, EnqueueSubmitted, ReleaseFailedSubmitHold,
     RecordSubmitFailure, EnqueueSubmitRetry
<1>2. faults' \in 0..MaxFaults
  BY FaultType DEF Submit, SubmitCrash, ReserveHold, CreatePendingItems, StartUpload,
     SubmitToProvider, SaveProviderJob, AbortOrphanProviderJob, EnqueueSubmitted,
     ReleaseFailedSubmitHold, RecordSubmitFailure, EnqueueSubmitRetry, Fails
<1>3. claims' \subseteq {"hold", "capture", "release"} /\ frozen' \in Nat
  BY MoneyType DEF Submit, SubmitCrash, ReserveHold, CreatePendingItems, StartUpload,
     SubmitToProvider, SaveProviderJob, AbortOrphanProviderJob, EnqueueSubmitted,
     ReleaseFailedSubmitHold, RecordSubmitFailure, EnqueueSubmitRetry
<1>4. sub' \in SubLabels
  BY DEF Submit, SubmitCrash, ReserveHold, CreatePendingItems, StartUpload,
     SubmitToProvider, SaveProviderJob, AbortOrphanProviderJob, EnqueueSubmitted,
     ReleaseFailedSubmitHold, RecordSubmitFailure, EnqueueSubmitRetry
<1>5. status' \in Statuses /\ named' \in BOOLEAN /\ stale' \in BOOLEAN
  <2>1. status' \in {status, "uploading", "submitted", "failed"}
    BY DEF Submit, SubmitCrash, ReserveHold, CreatePendingItems, StartUpload,
       SubmitToProvider, SaveProviderJob, AbortOrphanProviderJob, EnqueueSubmitted,
       ReleaseFailedSubmitHold, RecordSubmitFailure, EnqueueSubmitRetry, Transition
  <2>2. named' \in {named, TRUE} /\ stale' \in {stale, FALSE}
    BY DEF Submit, SubmitCrash, ReserveHold, CreatePendingItems, StartUpload,
       SubmitToProvider, SaveProviderJob, AbortOrphanProviderJob, EnqueueSubmitted,
       ReleaseFailedSubmitHold, RecordSubmitFailure, EnqueueSubmitRetry
  <2>3. QED
    BY <2>1, <2>2 DEF Statuses, Unsubmitted, InProgress, Terminal
<1>6. upstream' \in {"none", "running", "cancelling", "succeeded", "failed", "cancelled"}
  BY DEF Submit, SubmitCrash, ReserveHold, CreatePendingItems, StartUpload,
     SubmitToProvider, SaveProviderJob, AbortOrphanProviderJob, EnqueueSubmitted,
     ReleaseFailedSubmitHold, RecordSubmitFailure, EnqueueSubmitRetry, Aborted
<1>7. ready' \in {ready, Pushed} /\ inflight' \in {inflight, TRUE}
  BY DEF Submit, SubmitCrash, ReserveHold, CreatePendingItems, StartUpload,
     SubmitToProvider, SaveProviderJob, AbortOrphanProviderJob, EnqueueSubmitted,
     ReleaseFailedSubmitHold, RecordSubmitFailure, EnqueueSubmitRetry
<1>8. ready' \in Nat /\ inflight' \in BOOLEAN
  <2>1. ready' \in Nat
    BY <1>7 DEF Pushed
  <2>2. inflight' \in BOOLEAN
    BY <1>7, Zenon
  <2>3. QED
    BY <2>1, <2>2
<1>9. QED
  BY <1>1, <1>2, <1>3, <1>4, <1>5, <1>6, <1>8

\* The steps of Cancel and of a repeated Submit.
LEMMA OwnerType ==
    ASSUME TypeOK, BeginCancel \/ RepeatSubmit \/ OwnerStep \/ OwnerCrash
    PROVE  TypeOK'
<1> USE BatchAssumption DEF TypeOK
<1>1. /\ named' = named /\ stale' = stale /\ verdict' = verdict /\ retries' = retries
      /\ delayed' = delayed /\ active' = active /\ lock' = lock /\ sub' = sub /\ rec' = rec
      /\ pc' = pc
  BY DEF BeginCancel, RepeatSubmit, OwnerStep, OwnerCrash, CancelUpstream, CancelUnsubmitted,
     CancelRelease, CancelEnqueue, OwnFrame
<1>2. faults' \in 0..MaxFaults
  BY FaultType DEF BeginCancel, RepeatSubmit, OwnerStep, OwnerCrash, CancelUpstream,
     CancelUnsubmitted, CancelRelease, CancelEnqueue, Fails
<1>3. claims' \subseteq {"hold", "capture", "release"} /\ frozen' \in Nat
  BY MoneyType DEF BeginCancel, RepeatSubmit, OwnerStep, OwnerCrash, CancelUpstream,
     CancelUnsubmitted, CancelRelease, CancelEnqueue, moneyVars
<1>4. own' \in OwnLabels
  BY PathTypes DEF BeginCancel, RepeatSubmit, OwnerStep, OwnerCrash, CancelUpstream,
     CancelUnsubmitted, CancelRelease, CancelEnqueue, OwnLabels
<1>5. status' \in {status, "cancelled"}
  BY DEF BeginCancel, RepeatSubmit, OwnerStep, OwnerCrash, CancelUpstream,
     CancelUnsubmitted, CancelRelease, CancelEnqueue, Transition
<1>6. upstream' \in {upstream, Aborted}
  BY DEF BeginCancel, RepeatSubmit, OwnerStep, OwnerCrash, CancelUpstream,
     CancelUnsubmitted, CancelRelease, CancelEnqueue
<1>7. ready' \in {ready, Pushed} /\ inflight' \in {inflight, TRUE}
  BY DEF BeginCancel, RepeatSubmit, OwnerStep, OwnerCrash, CancelUpstream,
     CancelUnsubmitted, CancelRelease, CancelEnqueue
<1>8. ready' \in Nat /\ inflight' \in BOOLEAN
  <2>1. ready' \in Nat
    BY <1>7 DEF Pushed
  <2>2. inflight' \in BOOLEAN
    BY <1>7, Zenon
  <2>3. QED
    BY <2>1, <2>2
<1>9. QED
  BY <1>1, <1>2, <1>3, <1>4, <1>5, <1>6, <1>8 DEF Aborted, Statuses, Terminal

\* The steps of the stale recovery.
LEMMA RecoveryType == ASSUME TypeOK, Recovery \/ RecoveryCrash PROVE TypeOK'
<1> USE BatchAssumption DEF TypeOK
<1>1. /\ named' = named /\ stale' = stale /\ verdict' = verdict /\ retries' = retries
      /\ upstream' = upstream /\ delayed' = delayed /\ active' = active /\ lock' = lock
      /\ sub' = sub /\ own' = own /\ pc' = pc
  BY DEF Recovery, RecoveryCrash, FailStale, RecoveryRelease, EnqueueReleaseRetry, RecFrame
<1>2. faults' \in 0..MaxFaults
  BY FaultType DEF Recovery, RecoveryCrash, FailStale, RecoveryRelease, EnqueueReleaseRetry, Fails
<1>3. claims' \subseteq {"hold", "capture", "release"} /\ frozen' \in Nat
  BY MoneyType DEF Recovery, RecoveryCrash, FailStale, RecoveryRelease, EnqueueReleaseRetry,
     moneyVars
<1>4. rec' \in RecLabels
  BY DEF Recovery, RecoveryCrash, FailStale, RecoveryRelease, EnqueueReleaseRetry, RecLabels
<1>5. status' \in {status, "failed"}
  BY DEF Recovery, RecoveryCrash, FailStale, RecoveryRelease, EnqueueReleaseRetry
<1>6. ready' \in {ready, Pushed} /\ inflight' \in {inflight, TRUE}
  BY DEF Recovery, RecoveryCrash, FailStale, RecoveryRelease, EnqueueReleaseRetry
<1>7. ready' \in Nat /\ inflight' \in BOOLEAN
  <2>1. ready' \in Nat
    BY <1>6 DEF Pushed
  <2>2. inflight' \in BOOLEAN
    BY <1>6, Zenon
  <2>3. QED
    BY <2>1, <2>2
<1>8. QED
  BY <1>1, <1>2, <1>3, <1>4, <1>5, <1>7 DEF Statuses, Terminal

\* The queue's loops, the clock, the provider and the cleanup.
LEMMA OutsideType ==
    ASSUME TypeOK, \/ MoveDueDelayed \/ RecoverStaleActive \/ LockExpires \/ GrowStale
                   \/ UpstreamEnds \/ CleanupOutput
    PROVE  TypeOK'
<1> USE BatchAssumption DEF TypeOK
<1>1. /\ named' = named /\ verdict' = verdict /\ retries' = retries /\ inflight' = inflight
      /\ claims' = claims /\ frozen' = frozen
      /\ sub' = sub /\ own' = own /\ rec' = rec /\ pc' = pc
  BY DEF MoveDueDelayed, RecoverStaleActive, LockExpires, GrowStale, UpstreamEnds,
     CleanupOutput, Outside, moneyVars
<1>2. faults' \in 0..MaxFaults
  BY FaultType DEF MoveDueDelayed, RecoverStaleActive, LockExpires, GrowStale, UpstreamEnds,
     CleanupOutput, Stalled, NoFault
<1>3. status' \in {status, "output_deleted"} /\ stale' \in {stale, TRUE} /\ lock' \in {lock, NoLock}
  BY DEF MoveDueDelayed, RecoverStaleActive, LockExpires, GrowStale, UpstreamEnds, CleanupOutput
<1>4. upstream' \in {upstream, "succeeded", "failed", "cancelled"}
  BY DEF MoveDueDelayed, RecoverStaleActive, LockExpires, GrowStale, UpstreamEnds, CleanupOutput
<1>5. /\ ready' \in {ready, ready + 1}
      /\ delayed' \in {delayed, FALSE} /\ active' \in {active, FALSE}
  BY DEF MoveDueDelayed, RecoverStaleActive, LockExpires, GrowStale, UpstreamEnds, CleanupOutput
<1>6. ready' \in Nat /\ delayed' \in BOOLEAN /\ active' \in BOOLEAN
  <2>1. ready' \in Nat
    BY <1>5
  <2>2. delayed' \in BOOLEAN /\ active' \in BOOLEAN
    BY <1>5, Zenon
  <2>3. QED
    BY <2>1, <2>2
<1>7. status' \in Statuses /\ stale' \in BOOLEAN
  BY <1>3, Zenon DEF Statuses, Terminal
<1>8. QED
  BY <1>1, <1>2, <1>3, <1>4, <1>6, <1>7

\* The steps of a worker, and its death.
LEMMA WorkType ==
    ASSUME TypeOK, NEW w \in Workers, Work(w) \/ WorkerCrash(w)
    PROVE  TypeOK'
<1> USE BatchAssumption DEF TypeOK
<1> DEFINE Transitions ==
             \/ WorkerTransition(w, "toRunning", "running", "requeue")
             \/ WorkerTransition(w, "toIndexing", "indexing", "index")
             \/ WorkerTransition(w, "toFailed", "failed", "release")
             \/ WorkerTransition(w, "toCancelled", "cancelled", "release")
             \/ WorkerTransition(w, "toSettling", "settling", "requeue")
             \/ WorkerTransition(w, "exFail", "failed", "reread")
           Reads == ReadJob(w) \/ LoadJob(w) \/ GetStatus(w) \/ ReadSettlement(w) \/ RereadJob(w)
           Queues == \/ Reserve(w) \/ TryAcquireJobLock(w) \/ FinishAck(w) \/ FinishRequeue(w)
                     \/ Unlock(w) \/ WorkerCrash(w)
           Settles == \/ IndexResults(w) \/ ReleaseTerminalHold(w) \/ CaptureHold(w)
                      \/ RecordSettlementFailure(w) \/ MarkSettled(w) \/ ReleaseExhausted(w)
                      \/ RecordReleaseFailure(w)
<1>1. Transitions \/ Reads \/ Queues \/ Settles
  BY DEF Work
<1>2. /\ named' = named /\ stale' = stale /\ upstream' = upstream
      /\ sub' = sub /\ own' = own /\ rec' = rec
  <2>1. WorkFrame
    BY <1>1 DEF ReadJob, LoadJob, GetStatus, ReadSettlement, RereadJob, ReadTo, Reserve,
       TryAcquireJobLock, FinishAck, FinishRequeue, Unlock, WorkerCrash, IndexResults,
       ReleaseTerminalHold, CaptureHold, RecordSettlementFailure, MarkSettled,
       ReleaseExhausted, RecordReleaseFailure, WorkerTransition
  <2>2. QED
    BY <2>1 DEF WorkFrame
<1>3. CASE Transitions
  <2>1. /\ verdict' = verdict /\ retries' = retries /\ claims' = claims /\ frozen' = frozen
        /\ ready' = ready /\ delayed' = delayed /\ active' = active /\ inflight' = inflight
        /\ lock' = lock
    BY <1>3 DEF WorkerTransition, moneyVars, queueVars
  <2>2. faults' \in 0..MaxFaults
    BY <1>3, FaultType DEF WorkerTransition, Fails
  <2>3. status' \in {status, "running", "indexing", "failed", "cancelled", "settling"}
    BY <1>3 DEF WorkerTransition
  <2>4. \E l \in Labels : Goto(w, l)
    BY <1>3 DEF WorkerTransition, Labels, Working
  <2>5. pc' \in [Workers -> Labels]
    BY <2>4, GotoType
  <2>6. QED
    BY <1>2, <2>1, <2>2, <2>3, <2>5 DEF Statuses, InProgress, Terminal
<1>4. CASE Reads
  <2>1. /\ verdict' = verdict /\ retries' = retries /\ claims' = claims /\ frozen' = frozen
        /\ ready' = ready /\ delayed' = delayed /\ active' = active /\ inflight' = inflight
        /\ lock' = lock /\ status' = status
    BY <1>4 DEF ReadJob, LoadJob, GetStatus, ReadSettlement, RereadJob, ReadTo, moneyVars, queueVars
  <2>2. faults' \in 0..MaxFaults
    BY <1>4, FaultType DEF ReadJob, LoadJob, GetStatus, ReadSettlement, RereadJob, ReadTo, Fails
  <2>3. \E l \in Labels : ReadTo(w, l)
    BY <1>4, PathTypes DEF ReadJob, LoadJob, GetStatus, ReadSettlement, RereadJob, Labels, Working
  <2>4. "requeue" \in Labels
    BY DEF Labels, Working
  <2>5. pc' \in [Workers -> Labels]
    BY <2>3, <2>4, GotoType DEF ReadTo
  <2>6. QED
    BY <1>2, <2>1, <2>2, <2>5
<1>5. CASE Queues
  <2>1. /\ verdict' = verdict /\ retries' = retries /\ claims' = claims /\ frozen' = frozen
        /\ status' = status
    BY <1>5 DEF Reserve, TryAcquireJobLock, FinishAck, FinishRequeue, Unlock, WorkerCrash, moneyVars
  <2>2. faults' \in 0..MaxFaults
    BY <1>5, FaultType DEF Reserve, TryAcquireJobLock, FinishAck, FinishRequeue, Unlock,
       WorkerCrash, Fails, NoFault
  <2>3. \E l \in Labels : Goto(w, l)
    BY <1>5 DEF Reserve, TryAcquireJobLock, FinishAck, FinishRequeue, Unlock, WorkerCrash,
       Labels, Working
  <2>4. pc' \in [Workers -> Labels]
    BY <2>3, GotoType
  <2>5. /\ ready' \in {ready, ready - 1} /\ (ready' # ready => ready > 0)
        /\ lock' \in {lock, w, NoLock, Dead}
    BY <1>5 DEF Reserve, TryAcquireJobLock, FinishAck, FinishRequeue, Unlock, WorkerCrash,
       queueVars, RequeueAfter, Ack
  <2>6. /\ delayed' \in {delayed, TRUE, FALSE} /\ active' \in {active, TRUE, FALSE}
        /\ inflight' \in {inflight, FALSE}
    BY <1>5 DEF Reserve, TryAcquireJobLock, FinishAck, FinishRequeue, Unlock, WorkerCrash,
       queueVars, RequeueAfter, Ack
  <2>7. delayed' \in BOOLEAN /\ active' \in BOOLEAN /\ inflight' \in BOOLEAN
    BY <2>6, Zenon
  <2>8. ready' \in Nat /\ lock' \in Workers \cup {NoLock, Dead}
    BY <2>5
  <2>9. QED
    BY <1>2, <2>1, <2>2, <2>4, <2>7, <2>8
<1>6. CASE Settles
  <2>1. /\ ready' = ready /\ delayed' = delayed /\ active' = active /\ inflight' = inflight
        /\ lock' = lock
    BY <1>6 DEF IndexResults, ReleaseTerminalHold, CaptureHold, RecordSettlementFailure,
       MarkSettled, ReleaseExhausted, RecordReleaseFailure, queueVars
  <2>2. faults' \in 0..MaxFaults
    BY <1>6, FaultType DEF IndexResults, ReleaseTerminalHold, CaptureHold,
       RecordSettlementFailure, MarkSettled, ReleaseExhausted, RecordReleaseFailure, Fails, NoFault
  <2>3. \E l \in Labels : Goto(w, l)
    BY <1>6, PathTypes DEF IndexResults, ReleaseTerminalHold, CaptureHold,
       RecordSettlementFailure, MarkSettled, ReleaseExhausted, RecordReleaseFailure,
       Labels, Working
  <2>4. pc' \in [Workers -> Labels]
    BY <2>3, GotoType
  <2>5. claims' \subseteq {"hold", "capture", "release"} /\ frozen' \in Nat
    BY <1>6, MoneyType DEF IndexResults, ReleaseTerminalHold, CaptureHold,
       RecordSettlementFailure, MarkSettled, ReleaseExhausted, RecordReleaseFailure
  <2>6. /\ status' \in {status, "completed"}
        /\ verdict' \in {verdict, "valid", "invalid"}
        /\ retries' \in {retries, Retried}
    BY <1>6 DEF IndexResults, ReleaseTerminalHold, CaptureHold, RecordSettlementFailure,
       MarkSettled, ReleaseExhausted, RecordReleaseFailure
  <2>7. retries' \in 0..MaxRetries
    BY <2>6, PathTypes
  <2>8. QED
    BY <1>2, <2>1, <2>2, <2>4, <2>5, <2>6, <2>7 DEF Statuses, Terminal
<1>7. QED
  BY <1>1, <1>3, <1>4, <1>5, <1>6

LEMMA TypeInit == Init => TypeOK
<1> SUFFICES ASSUME Init PROVE TypeOK
  OBVIOUS
<1>1. "idle" \in Labels /\ "created" \in Statuses
  BY DEF Labels, Statuses, Unsubmitted
<1>2. "reserve" \in SubLabels /\ "idle" \in OwnLabels /\ "idle" \in RecLabels
  BY DEF SubLabels, OwnLabels, RecLabels
<1>3. pc \in [Workers -> Labels] /\ status \in Statuses
  BY <1>1 DEF Init
<1>4. sub \in SubLabels /\ own \in OwnLabels /\ rec \in RecLabels
  BY <1>2, Zenon DEF Init
<1>5. /\ retries \in 0..MaxRetries /\ faults \in 0..MaxFaults
      /\ frozen \in Nat /\ ready \in Nat
  BY BatchAssumption DEF Init
<1>6. QED
  BY <1>3, <1>4, <1>5 DEF Init, TypeOK

LEMMA TypeStep == TypeOK /\ [Next]_vars => TypeOK'
<1> SUFFICES ASSUME TypeOK, [Next]_vars PROVE TypeOK'
  OBVIOUS
<1>1. CASE UNCHANGED vars
  BY <1>1 DEF TypeOK, vars, jobVars, moneyVars, queueVars
<1>2. CASE Next
  BY <1>2, SubmitType, OwnerType, RecoveryType, WorkType, OutsideType DEF Next
<1>3. QED
  BY <1>1, <1>2

\* The row, the dedup rows, the balance and the queue keep their types.
THEOREM TypeCorrect == Spec => []TypeOK
  BY TypeInit, TypeStep, PTL DEF Spec

-----------------------------------------------------------------------------
(* How the row moves.                                                      *)

\* A job leaves these only for each other: nothing runs again.
Past == {"settling"} \cup Terminal

\* Who may write a status: a checked transition, the save of Submit, the
\* unchecked write of a failed Submit, the mark of the settlement, the cleanup.
RowMoves ==
    \/ status' = status /\ named' = named
    \/ /\ CanTransition(status, status') /\ named' = named
       /\ status' \in {"uploading", "running", "indexing", "settling", "failed", "cancelled"}
    \/ sub = "save" /\ status \in Unsubmitted /\ status' = "submitted" /\ named'
    \/ sub \in {"fail", "undoFail"} /\ status' = "failed" /\ named' = named
    \/ /\ status = "settling" /\ status' = "completed" /\ named' = named
       /\ \E w \in Workers : pc[w] = "mark"
    \/ status = "completed" /\ status' = "output_deleted" /\ named' = named

LEMMA RowSteps == ASSUME TypeOK, [Next]_vars PROVE RowMoves
<1>1. CASE UNCHANGED vars
  BY <1>1 DEF vars, jobVars, RowMoves
<1>2. CASE Submit \/ SubmitCrash
  <2>1. CASE StartUpload
    BY <2>1 DEF StartUpload, Transition, RowMoves
  <2>2. CASE SaveProviderJob
    BY <2>2 DEF TypeOK, Statuses, SaveProviderJob, Transition, CanTransition, RowMoves,
       Unsubmitted, InProgress, Terminal
  <2>3. CASE RecordSubmitFailure
    BY <2>3 DEF RecordSubmitFailure, RowMoves
  <2>4. CASE \/ ReserveHold \/ CreatePendingItems \/ SubmitToProvider \/ AbortOrphanProviderJob
             \/ EnqueueSubmitted \/ ReleaseFailedSubmitHold \/ EnqueueSubmitRetry \/ SubmitCrash
    BY <2>4 DEF ReserveHold, CreatePendingItems, SubmitToProvider, AbortOrphanProviderJob,
       EnqueueSubmitted, ReleaseFailedSubmitHold, EnqueueSubmitRetry, SubmitCrash, RowMoves
  <2>5. QED
    BY <1>2, <2>1, <2>2, <2>3, <2>4 DEF Submit
<1>3. CASE BeginCancel \/ RepeatSubmit \/ OwnerStep \/ OwnerCrash
  BY <1>3 DEF BeginCancel, RepeatSubmit, OwnerStep, OwnerCrash, CancelUpstream, CancelUnsubmitted,
     CancelRelease, CancelEnqueue, OwnFrame, Transition, RowMoves
<1>4. CASE Recovery \/ RecoveryCrash
  BY <1>4 DEF Recovery, RecoveryCrash, FailStale, StaleUnsubmitted, RecoveryRelease,
     EnqueueReleaseRetry, RecFrame, RowMoves, CanTransition, Unsubmitted, Terminal
<1>5. ASSUME NEW w \in Workers, Work(w) \/ WorkerCrash(w) PROVE RowMoves
  <2>1. named' = named
    BY <1>5 DEF Work, WorkerCrash, ReadJob, LoadJob, GetStatus, ReadSettlement, RereadJob, ReadTo,
       Reserve, TryAcquireJobLock, FinishAck, FinishRequeue, Unlock, IndexResults,
       ReleaseTerminalHold, CaptureHold, RecordSettlementFailure, MarkSettled,
       ReleaseExhausted, RecordReleaseFailure, WorkerTransition, WorkFrame
  <2>2. CASE \/ WorkerTransition(w, "toRunning", "running", "requeue")
             \/ WorkerTransition(w, "toIndexing", "indexing", "index")
             \/ WorkerTransition(w, "toFailed", "failed", "release")
             \/ WorkerTransition(w, "toCancelled", "cancelled", "release")
             \/ WorkerTransition(w, "toSettling", "settling", "requeue")
             \/ WorkerTransition(w, "exFail", "failed", "reread")
    BY <2>1, <2>2 DEF WorkerTransition, May, RowMoves
  <2>3. CASE MarkSettled(w)
    BY <2>1, <2>3 DEF MarkSettled, Settleable, RowMoves
  <2>4. CASE \/ ReadJob(w) \/ LoadJob(w) \/ GetStatus(w) \/ ReadSettlement(w) \/ RereadJob(w)
             \/ Reserve(w) \/ TryAcquireJobLock(w) \/ FinishAck(w) \/ FinishRequeue(w)
             \/ Unlock(w) \/ WorkerCrash(w) \/ IndexResults(w) \/ ReleaseTerminalHold(w)
             \/ CaptureHold(w) \/ RecordSettlementFailure(w) \/ ReleaseExhausted(w)
             \/ RecordReleaseFailure(w)
    BY <2>1, <2>4 DEF ReadJob, LoadJob, GetStatus, ReadSettlement, RereadJob, ReadTo, Reserve,
       TryAcquireJobLock, FinishAck, FinishRequeue, Unlock, WorkerCrash, IndexResults,
       ReleaseTerminalHold, CaptureHold, RecordSettlementFailure, ReleaseExhausted,
       RecordReleaseFailure, RowMoves
  <2>5. QED
    BY <1>5, <2>2, <2>3, <2>4 DEF Work
<1>6. CASE \/ MoveDueDelayed \/ RecoverStaleActive \/ LockExpires \/ GrowStale
           \/ UpstreamEnds \/ CleanupOutput
  BY <1>6 DEF MoveDueDelayed, RecoverStaleActive, LockExpires, GrowStale, UpstreamEnds,
     CleanupOutput, Outside, RowMoves
<1>7. QED
  BY <1>1, <1>2, <1>3, <1>4, <1>5, <1>6 DEF Next

-----------------------------------------------------------------------------
(* The inductive invariant.                                                *)

\* provider_job_name is set when Submit has nothing left to undo, and whatever
\* the provider has to do with the job needs it.
SubmittedInv ==
    /\ named => sub \in {"enqueue", "end"} /\ status \notin Unsubmitted
    /\ status \notin Unsubmitted \cup {"failed", "cancelled"} => named

\* Whoever is about to move money for a job that has left Submit has seen it
\* settling or ended, and so it still is.
Paying == {"release", "capture", "record", "mark", "exRelease", "exRecord", "exFail"}

PastInv ==
    /\ own = "cancelRelease" => status \in Past
    /\ rec = "recRelease" => status \in Past
    /\ \A w \in Workers : pc[w] \in Paying => status \in Past

CapturedInv ==
    /\ \A w \in Workers : pc[w] = "mark" => "capture" \in claims
    /\ CompletedIsCaptured

\* A released hold is not the hold of a job that Submit still goes on with.
ReleasedInv ==
    /\ ReleasedIsOver
    /\ "release" \in claims /\ status \in Unsubmitted =>
           sub \notin {"reserve", "items", "upload", "submit", "save"}

JobInv == SubmittedInv /\ PastInv /\ CapturedInv /\ ReleasedInv

LEMMA PastClosed ==
    ASSUME TypeOK, SubmittedInv, RowMoves
    PROVE  /\ status \in Past => status' \in Past
           /\ status \in Terminal => status' \in Terminal
           /\ status \in {"completed", "output_deleted"} => status' \in {"completed", "output_deleted"}
           /\ status' \in Unsubmitted => status \in Unsubmitted
  BY DEF TypeOK, Statuses, Past, Terminal, InProgress, Unsubmitted, SubmittedInv, RowMoves,
     CanTransition

\* Submit does not go back, and names the job in one step only.
LEMMA SubmitSteps ==
    ASSUME TypeOK, [Next]_vars
    PROVE  /\ sub \in {"enqueue", "end"} => sub' \in {"enqueue", "end"}
           /\ sub \notin {"reserve", "items", "upload", "submit", "save"} =>
                  sub' \notin {"reserve", "items", "upload", "submit", "save"}
           /\ named' /\ ~named => sub' = "enqueue"
<1>1. CASE Submit \/ SubmitCrash
  BY <1>1 DEF TypeOK, Submit, SubmitCrash, ReserveHold, CreatePendingItems, StartUpload,
     SubmitToProvider, SaveProviderJob, AbortOrphanProviderJob, EnqueueSubmitted,
     ReleaseFailedSubmitHold, RecordSubmitFailure, EnqueueSubmitRetry
<1>2. CASE UNCHANGED vars
  BY <1>2 DEF vars, jobVars
<1>3. CASE BeginCancel \/ RepeatSubmit \/ OwnerStep \/ OwnerCrash
  BY <1>3 DEF BeginCancel, RepeatSubmit, OwnerStep, OwnerCrash, CancelUpstream, CancelUnsubmitted,
     CancelRelease, CancelEnqueue, OwnFrame
<1>4. CASE Recovery \/ RecoveryCrash
  BY <1>4 DEF Recovery, RecoveryCrash, FailStale, RecoveryRelease, EnqueueReleaseRetry, RecFrame
<1>5. ASSUME NEW w \in Workers, Work(w) \/ WorkerCrash(w) PROVE sub' = sub /\ named' = named
  <2>1. WorkFrame
    BY <1>5 DEF Work, WorkerCrash, ReadJob, LoadJob, GetStatus, ReadSettlement, RereadJob, ReadTo,
       Reserve, TryAcquireJobLock, FinishAck, FinishRequeue, Unlock, IndexResults,
       ReleaseTerminalHold, CaptureHold, RecordSettlementFailure, MarkSettled,
       ReleaseExhausted, RecordReleaseFailure, WorkerTransition
  <2>2. QED
    BY <2>1 DEF WorkFrame
<1>6. CASE \/ MoveDueDelayed \/ RecoverStaleActive \/ LockExpires \/ GrowStale
           \/ UpstreamEnds \/ CleanupOutput
  <2>1. sub' = sub /\ named' = named
    BY <1>6 DEF MoveDueDelayed, RecoverStaleActive, LockExpires, GrowStale, UpstreamEnds,
       CleanupOutput, Outside
  <2>2. QED
    BY <2>1
<1>7. QED
  BY <1>1, <1>2, <1>3, <1>4, <1>5, <1>6 DEF Next

\* Where a release is booked from.
Releasing ==
    \/ own = "cancelRelease" \/ rec = "recRelease"
    \/ \E w \in Workers : pc[w] \in {"release", "exRelease"}

ReleaseBooked ==
    "release" \in claims' /\ "release" \notin claims =>
        \/ /\ sub \in {"undo", "undoQuiet"} /\ sub' \in {"fail", "end"}
           /\ status' = status
        \/ Releasing

\* What a step does to the labels from which money is moved.
LabelMoves ==
    /\ own' = "cancelRelease" => own = "cancelRelease" \/ status' \in Past
    /\ rec' = "recRelease" => rec = "recRelease" \/ status' \in Past
    /\ \A w \in Workers : pc'[w] \in Paying => pc[w] \in Paying \/ status' \in Past
    /\ \A w \in Workers : pc'[w] = "mark" => pc[w] = "mark" \/ "capture" \in claims'

LEMMA MoneySteps ==
    ASSUME TypeOK, [Next]_vars
    PROVE  claims \subseteq claims' /\ ReleaseBooked /\ LabelMoves
<1>1. CASE Submit \/ SubmitCrash
  <2>1. own' = own /\ rec' = rec /\ pc' = pc
    BY <1>1 DEF Submit, SubmitCrash, ReserveHold, CreatePendingItems, StartUpload,
       SubmitToProvider, SaveProviderJob, AbortOrphanProviderJob, EnqueueSubmitted,
       ReleaseFailedSubmitHold, RecordSubmitFailure, EnqueueSubmitRetry, SubFrame
  <2>2. claims \subseteq claims' /\ ReleaseBooked
    BY <1>1 DEF Submit, SubmitCrash, ReserveHold, CreatePendingItems, StartUpload,
       SubmitToProvider, SaveProviderJob, AbortOrphanProviderJob, EnqueueSubmitted,
       ReleaseFailedSubmitHold, RecordSubmitFailure, EnqueueSubmitRetry, ReserveBalance,
       ReleaseBalance, moneyVars, ReleaseBooked
  <2>3. QED
    BY <2>1, <2>2 DEF LabelMoves
<1>2. CASE BeginCancel \/ RepeatSubmit \/ OwnerStep \/ OwnerCrash
  <2>1. rec' = rec /\ pc' = pc
    BY <1>2 DEF BeginCancel, RepeatSubmit, OwnerStep, OwnerCrash, CancelUpstream,
       CancelUnsubmitted, CancelRelease, CancelEnqueue, OwnFrame
  <2>2. claims \subseteq claims' /\ ReleaseBooked
    BY <1>2 DEF BeginCancel, RepeatSubmit, OwnerStep, OwnerCrash, CancelUpstream,
       CancelUnsubmitted, CancelRelease, CancelEnqueue, ReleaseBalance, moneyVars,
       ReleaseBooked, Releasing
  <2>3. own' = "cancelRelease" => own = "cancelRelease" \/ status' \in Past
    BY <1>2 DEF BeginCancel, RepeatSubmit, OwnerStep, OwnerCrash, CancelUpstream,
       CancelUnsubmitted, CancelRelease, CancelEnqueue, CancelPath, Transition, Past, Terminal
  <2>4. QED
    BY <2>1, <2>2, <2>3 DEF LabelMoves
<1>3. CASE Recovery \/ RecoveryCrash
  BY <1>3 DEF Recovery, RecoveryCrash, FailStale, RecoveryRelease, EnqueueReleaseRetry, RecFrame,
     ReleaseBalance, moneyVars, ReleaseBooked, Releasing, LabelMoves, Past, Terminal
<1>4. ASSUME NEW w \in Workers, Work(w) \/ WorkerCrash(w)
      PROVE  claims \subseteq claims' /\ ReleaseBooked /\ LabelMoves
  <2>1. WorkFrame
    BY <1>4 DEF Work, WorkerCrash, ReadJob, LoadJob, GetStatus, ReadSettlement, RereadJob, ReadTo,
       Reserve, TryAcquireJobLock, FinishAck, FinishRequeue, Unlock, IndexResults,
       ReleaseTerminalHold, CaptureHold, RecordSettlementFailure, MarkSettled,
       ReleaseExhausted, RecordReleaseFailure, WorkerTransition
  <2>2. claims \subseteq claims' /\ ReleaseBooked
    BY <1>4 DEF Work, WorkerCrash, ReadJob, LoadJob, GetStatus, ReadSettlement, RereadJob, ReadTo,
       Reserve, TryAcquireJobLock, FinishAck, FinishRequeue, Unlock, IndexResults,
       ReleaseTerminalHold, CaptureHold, RecordSettlementFailure, MarkSettled,
       ReleaseExhausted, RecordReleaseFailure, WorkerTransition, CaptureBalance, ReleaseBalance,
       moneyVars, ReleaseBooked, Releasing
  <2>3. \A v \in Workers \ {w} : pc'[v] = pc[v]
    BY <1>4 DEF Work, WorkerCrash, ReadJob, LoadJob, GetStatus, ReadSettlement, RereadJob, ReadTo,
       Reserve, TryAcquireJobLock, FinishAck, FinishRequeue, Unlock, IndexResults,
       ReleaseTerminalHold, CaptureHold, RecordSettlementFailure, MarkSettled,
       ReleaseExhausted, RecordReleaseFailure, WorkerTransition, Goto, TypeOK
  <2>4. pc'[w] \in Paying => pc[w] \in Paying \/ status' \in Past
    BY <1>4 DEF Work, WorkerCrash, ReadJob, LoadJob, LoadPath, GetStatus, ReadSettlement,
       SettlePath, RereadJob, ReadTo, Reserve, TryAcquireJobLock, FinishAck, FinishRequeue,
       Unlock, IndexResults, ReleaseTerminalHold, CaptureHold, RecordSettlementFailure,
       MarkSettled, ReleaseExhausted, RecordReleaseFailure, WorkerTransition, Goto, TypeOK,
       Paying, Past, Terminal
  <2>5. pc'[w] = "mark" => pc[w] = "mark" \/ "capture" \in claims'
    BY <1>4 DEF Work, WorkerCrash, ReadJob, LoadJob, LoadPath, GetStatus, ReadSettlement,
       SettlePath, RereadJob, ReadTo, Reserve, TryAcquireJobLock, FinishAck, FinishRequeue,
       Unlock, IndexResults, ReleaseTerminalHold, CaptureHold, RecordSettlementFailure,
       AfterFailure, MarkSettled, ReleaseExhausted, RecordReleaseFailure, WorkerTransition, Goto,
       TypeOK, CaptureBalance
  <2>6. QED
    BY <2>1, <2>2, <2>3, <2>4, <2>5 DEF WorkFrame, LabelMoves
<1>5. CASE UNCHANGED vars
  BY <1>5 DEF vars, moneyVars, ReleaseBooked, LabelMoves
<1>6. CASE \/ MoveDueDelayed \/ RecoverStaleActive \/ LockExpires \/ GrowStale
           \/ UpstreamEnds \/ CleanupOutput
  BY <1>6 DEF MoveDueDelayed, RecoverStaleActive, LockExpires, GrowStale, UpstreamEnds,
     CleanupOutput, Outside, moneyVars, ReleaseBooked, LabelMoves
<1>7. QED
  BY <1>1, <1>2, <1>3, <1>4, <1>5, <1>6 DEF Next

LEMMA JobStep == TypeOK /\ JobInv /\ [Next]_vars => JobInv'
<1> SUFFICES ASSUME TypeOK, JobInv, [Next]_vars PROVE JobInv'
  OBVIOUS
<1>1. RowMoves /\ claims \subseteq claims' /\ ReleaseBooked /\ LabelMoves
  BY RowSteps, MoneySteps
<1>2. /\ status \in Past => status' \in Past
      /\ status' \in Unsubmitted => status \in Unsubmitted
  BY <1>1, PastClosed DEF JobInv
<1>3. SubmittedInv'
  BY <1>1, SubmitSteps DEF JobInv, SubmittedInv, RowMoves, CanTransition, TypeOK, Statuses,
     Unsubmitted, InProgress, Terminal
<1>4. PastInv'
  BY <1>1, <1>2 DEF JobInv, PastInv, LabelMoves
<1>5. CapturedInv'
  BY <1>1 DEF JobInv, CapturedInv, CompletedIsCaptured, LabelMoves, RowMoves
<1>6. ReleasedInv'
  <2>1. CASE "release" \in claims
    <3>1. status' \notin InProgress
      BY <1>1, <2>1 DEF JobInv, ReleasedInv, ReleasedIsOver, RowMoves, CanTransition, InProgress,
         Unsubmitted, Terminal
    <3>2. status' \in Unsubmitted => sub' \notin {"reserve", "items", "upload", "submit", "save"}
      BY <1>2, <2>1, SubmitSteps DEF JobInv, ReleasedInv
    <3>3. QED
      BY <3>1, <3>2 DEF ReleasedInv, ReleasedIsOver
  <2>2. CASE "release" \in claims' /\ "release" \notin claims
    <3>1. CASE Releasing
      <4>1. status' \in Past
        BY <1>2, <3>1 DEF JobInv, PastInv, Releasing, Paying
      <4>2. QED
        BY <4>1 DEF ReleasedInv, ReleasedIsOver, Past, InProgress, Unsubmitted, Terminal
    <3>2. CASE sub \in {"undo", "undoQuiet"} /\ sub' \in {"fail", "end"} /\ status' = status
      BY <3>2 DEF JobInv, SubmittedInv, ReleasedInv, ReleasedIsOver, InProgress, Unsubmitted
    <3>3. QED
      BY <1>1, <2>2, <3>1, <3>2 DEF ReleaseBooked
  <2>3. QED
    BY <2>1, <2>2 DEF ReleasedInv, ReleasedIsOver
<1>7. QED
  BY <1>3, <1>4, <1>5, <1>6 DEF JobInv

LEMMA JobInit == Init => JobInv
  BY DEF Init, JobInv, SubmittedInv, PastInv, CapturedInv, ReleasedInv, CompletedIsCaptured,
     ReleasedIsOver, Paying, Unsubmitted, InProgress

THEOREM JobInvariant == Spec => [](TypeOK /\ JobInv)
  BY TypeCorrect, JobInit, JobStep, PTL DEF Spec

\* A completed job has been captured, whatever fails, dies, stalls or overtakes.
THEOREM Captured == Spec => []CompletedIsCaptured
<1>1. JobInv => CompletedIsCaptured
  BY DEF JobInv, CapturedInv
<1>2. QED
  BY <1>1, JobInvariant, PTL

\* A job whose hold was given back does not run.
THEOREM Released == Spec => []ReleasedIsOver
<1>1. JobInv => ReleasedIsOver
  BY DEF JobInv, ReleasedInv
<1>2. QED
  BY <1>1, JobInvariant, PTL

\* No step reopens a job that has ended, or unsettles a completed one.
THEOREM Ended == Spec => EndedIsFinal
<1> DEFINE Step == /\ status \in Terminal => status' \in Terminal
                   /\ status \in {"completed", "output_deleted"} =>
                          status' \in {"completed", "output_deleted"}
<1>1. TypeOK /\ JobInv /\ [Next]_vars => [Step]_vars
  <2> SUFFICES ASSUME TypeOK, JobInv, [Next]_vars PROVE Step
    OBVIOUS
  <2>1. RowMoves
    BY RowSteps
  <2>2. QED
    BY <2>1, PastClosed DEF JobInv
<1>2. QED
  BY <1>1, JobInvariant, PTL DEF Spec, EndedIsFinal
=============================================================================
