----------------------- MODULE BatchImageQueueProofs -----------------------
(***************************************************************************)
(* Two more results about a batch image job: it is not lost from the queue *)
(* before it has ended, and its money does not go back while the provider  *)
(* still works.  Each holds under hypotheses on the constants that leave   *)
(* out exactly the faults and the races that break it.                     *)
(***************************************************************************)
EXTENDS BatchImageHoldProofs

-----------------------------------------------------------------------------
(* The job is in the queue.                                                *)

\* A worker that lives keeps its lock, and the Enqueue after a saved submission
\* is reached and succeeds.  Every other call may fail, every other step may be
\* a process's last, and Cancel may come at any time.
Queued ==
    /\ Heartbeats
    /\ "enqueue" \notin FaultAt /\ "enqueue" \notin CrashAt

InQueue == ready > 0 \/ delayed \/ active

\* The inflight key, which keeps Enqueue from pushing, stands for an entry.
InflightInv == inflight => InQueue

\* Whoever reads the job for processing has not found it settling, and whoever
\* acknowledges it knows that it has ended.
AckInv ==
    \A w \in Workers :
        /\ pc[w] = "load" => status # "settling"
        /\ pc[w] = "ack" => status \in Terminal

\* The queue forgets the job, or its inflight key, by an acknowledgement only.
LEMMA QueueSteps ==
    ASSUME TypeOK, [Next]_vars
    PROVE  \/ \E w \in Workers : pc[w] = "ack" /\ Ack /\ status' = status
           \/ /\ InQueue => InQueue'
              /\ inflight' => inflight \/ InQueue'
<1> USE DEF InQueue
<1>1. CASE Submit \/ SubmitCrash
  <2>1. delayed' = delayed /\ active' = active
    BY <1>1 DEF Submit, SubmitCrash, ReserveHold, CreatePendingItems, StartUpload,
       SubmitToProvider, SaveProviderJob, AbortOrphanProviderJob, EnqueueSubmitted,
       ReleaseFailedSubmitHold, RecordSubmitFailure, EnqueueSubmitRetry, SubFrame
  <2>2. \/ ready' = ready /\ inflight' = inflight
        \/ ready' = Pushed /\ inflight'
    BY <1>1 DEF Submit, SubmitCrash, ReserveHold, CreatePendingItems, StartUpload,
       SubmitToProvider, SaveProviderJob, AbortOrphanProviderJob, EnqueueSubmitted,
       ReleaseFailedSubmitHold, RecordSubmitFailure, EnqueueSubmitRetry
  <2>3. QED
    BY <2>1, <2>2 DEF Pushed, TypeOK
<1>2. CASE BeginCancel \/ RepeatSubmit \/ OwnerStep \/ OwnerCrash
  <2>1. delayed' = delayed /\ active' = active
    BY <1>2 DEF BeginCancel, RepeatSubmit, OwnerStep, OwnerCrash, CancelUpstream,
       CancelUnsubmitted, CancelRelease, CancelEnqueue, OwnFrame
  <2>2. \/ ready' = ready /\ inflight' = inflight
        \/ ready' = Pushed /\ inflight'
    BY <1>2 DEF BeginCancel, RepeatSubmit, OwnerStep, OwnerCrash, CancelUpstream,
       CancelUnsubmitted, CancelRelease, CancelEnqueue
  <2>3. QED
    BY <2>1, <2>2 DEF Pushed, TypeOK
<1>3. CASE Recovery \/ RecoveryCrash
  <2>1. delayed' = delayed /\ active' = active
    BY <1>3 DEF Recovery, RecoveryCrash, FailStale, RecoveryRelease, EnqueueReleaseRetry, RecFrame
  <2>2. \/ ready' = ready /\ inflight' = inflight
        \/ ready' = Pushed /\ inflight'
    BY <1>3 DEF Recovery, RecoveryCrash, FailStale, RecoveryRelease, EnqueueReleaseRetry
  <2>3. QED
    BY <2>1, <2>2 DEF Pushed, TypeOK
<1>4. ASSUME NEW w \in Workers, Work(w) \/ WorkerCrash(w)
      PROVE  \/ pc[w] = "ack" /\ Ack /\ status' = status
             \/ /\ InQueue => InQueue'
                /\ inflight' => inflight \/ InQueue'
  <2>1. CASE Reserve(w) \/ TryAcquireJobLock(w)
    BY <2>1 DEF Reserve, TryAcquireJobLock, RequeueAfter, queueVars
  <2>2. CASE FinishAck(w) \/ FinishRequeue(w)
    BY <2>2 DEF FinishAck, FinishRequeue, RequeueAfter, queueVars
  <2>3. CASE ~(Reserve(w) \/ TryAcquireJobLock(w) \/ FinishAck(w) \/ FinishRequeue(w))
    <3>1. UNCHANGED queueVars
      BY <1>4, <2>3 DEF Work, WorkerCrash, ReadJob, LoadJob, GetStatus, ReadSettlement, RereadJob,
         ReadTo, Unlock, IndexResults, ReleaseTerminalHold, CaptureHold, RecordSettlementFailure,
         MarkSettled, ReleaseExhausted, RecordReleaseFailure, WorkerTransition
    <3>2. QED
      BY <3>1 DEF queueVars
  <2>4. QED
    BY <2>1, <2>2, <2>3
<1>5. CASE \/ MoveDueDelayed \/ RecoverStaleActive \/ LockExpires \/ GrowStale
           \/ UpstreamEnds \/ CleanupOutput
  <2>1. inflight' = inflight
    BY <1>5 DEF MoveDueDelayed, RecoverStaleActive, LockExpires, GrowStale, UpstreamEnds,
       CleanupOutput, Outside
  <2>2. \/ ready' = ready + 1
        \/ ready' = ready /\ delayed' = delayed /\ active' = active
    BY <1>5 DEF MoveDueDelayed, RecoverStaleActive, LockExpires, GrowStale, UpstreamEnds,
       CleanupOutput
  <2>3. QED
    BY <2>1, <2>2 DEF TypeOK
<1>6. CASE UNCHANGED vars
  BY <1>6 DEF vars, queueVars
<1>7. QED
  BY <1>1, <1>2, <1>3, <1>4, <1>5, <1>6 DEF Next

LEMMA InflightStep == ASSUME TypeOK, InflightInv, [Next]_vars PROVE InflightInv'
  BY QueueSteps DEF InflightInv, Ack

\* How a worker comes to read the job for processing, and to acknowledge it.
LEMMA WorkerAcks ==
    ASSUME TypeOK, PlaceInv, AckInv, NEW w \in Workers, Work(w) \/ WorkerCrash(w)
    PROVE  /\ pc'[w] = "load" => status' # "settling"
           /\ pc'[w] = "ack" => status' \in Terminal
<1> USE DEF Terminal
<1>1. CASE ReadJob(w) \/ RereadJob(w)
  BY <1>1 DEF ReadJob, RereadJob, ReadTo, Goto, TypeOK
<1>2. CASE LoadJob(w)
  <2>1. pc[w] = "load" /\ pc'[w] \in {LoadPath, "requeue"} /\ status' = status
    BY <1>2 DEF LoadJob, ReadTo, Goto, TypeOK
  <2>2. QED
    BY <2>1 DEF AckInv, LoadPath, Done
<1>3. CASE ReadSettlement(w)
  <2>1. pc'[w] \in {SettlePath, "requeue"} /\ status' = status
    BY <1>3 DEF ReadSettlement, ReadTo, Goto, TypeOK
  <2>2. QED
    BY <2>1 DEF SettlePath
<1>4. CASE ReleaseTerminalHold(w)
  BY <1>4 DEF ReleaseTerminalHold, Goto, TypeOK, PlaceInv
<1>5. CASE MarkSettled(w)
  BY <1>5 DEF MarkSettled, Goto, TypeOK
<1>6. CASE \/ GetStatus(w)
           \/ WorkerTransition(w, "toRunning", "running", "requeue")
           \/ WorkerTransition(w, "toIndexing", "indexing", "index")
           \/ WorkerTransition(w, "toFailed", "failed", "release")
           \/ WorkerTransition(w, "toCancelled", "cancelled", "release")
           \/ WorkerTransition(w, "toSettling", "settling", "requeue")
           \/ WorkerTransition(w, "exFail", "failed", "reread")
  BY <1>6 DEF GetStatus, ReadTo, WorkerTransition, Goto, TypeOK
<1>7. CASE \/ Reserve(w) \/ TryAcquireJobLock(w) \/ FinishAck(w) \/ FinishRequeue(w)
           \/ Unlock(w) \/ WorkerCrash(w)
  BY <1>7 DEF Reserve, TryAcquireJobLock, FinishAck, FinishRequeue, Unlock, WorkerCrash, Goto,
     TypeOK
<1>8. CASE \/ IndexResults(w) \/ CaptureHold(w) \/ RecordSettlementFailure(w)
           \/ ReleaseExhausted(w) \/ RecordReleaseFailure(w)
  BY <1>8 DEF IndexResults, CaptureHold, RecordSettlementFailure, AfterFailure, ReleaseExhausted,
     RecordReleaseFailure, Goto, TypeOK
<1>9. QED
  BY <1>1, <1>2, <1>3, <1>4, <1>5, <1>6, <1>7, <1>8 DEF Work

\* While a worker holds the lock nobody else settles the job, and nobody at all
\* reopens it.
LEMMA AckStep ==
    ASSUME Heartbeats, TypeOK, JobInv, LockInv, PlaceInv, AckInv, [Next]_vars PROVE AckInv'
<1>1. status \in Terminal => status' \in Terminal
  BY RowSteps, PastClosed DEF JobInv
<1>2. ASSUME NEW w \in Workers, Work(w) \/ WorkerCrash(w) PROVE AckInv'
  <2>1. ASSUME NEW v \in Workers \ {w}, pc[v] \in Working PROVE status' = status
    BY <1>2, <2>1, WorkerPlace DEF LockInv
  <2>2. ASSUME NEW v \in Workers, v # w
        PROVE  /\ pc'[v] = "load" => status' # "settling"
               /\ pc'[v] = "ack" => status' \in Terminal
    BY <1>2, <2>1, <2>2, WorkerAlone DEF AckInv, Working
  <2>3. QED
    BY <1>2, <2>2, WorkerAcks DEF AckInv
<1>3. CASE ~\E w \in Workers : Work(w) \/ WorkerCrash(w)
  <2>1. pc' = pc /\ (status' = "settling" => status = "settling")
    BY <1>3, OthersRow, OthersSteps
  <2>2. QED
    BY <1>1, <2>1 DEF AckInv
<1>4. QED
  BY <1>2, <1>3

\* Nobody but Submit moves Submit, or names the job.
LEMMA SubmitOnly ==
    ASSUME TypeOK, [Next]_vars
    PROVE  Submit \/ SubmitCrash \/ (sub' = sub /\ named' = named)
<1>1. CASE BeginCancel \/ RepeatSubmit \/ OwnerStep \/ OwnerCrash
  BY <1>1 DEF BeginCancel, RepeatSubmit, OwnerStep, OwnerCrash, CancelUpstream,
     CancelUnsubmitted, CancelRelease, CancelEnqueue, OwnFrame
<1>2. CASE Recovery \/ RecoveryCrash
  BY <1>2 DEF Recovery, RecoveryCrash, FailStale, RecoveryRelease, EnqueueReleaseRetry, RecFrame
<1>3. ASSUME NEW w \in Workers, Work(w) \/ WorkerCrash(w) PROVE sub' = sub /\ named' = named
  BY <1>3, WorkerAlone DEF WorkFrame
<1>4. CASE \/ MoveDueDelayed \/ RecoverStaleActive \/ LockExpires \/ GrowStale
           \/ UpstreamEnds \/ CleanupOutput
  BY <1>4 DEF MoveDueDelayed, RecoverStaleActive, LockExpires, GrowStale, UpstreamEnds,
     CleanupOutput, Outside
<1>5. CASE UNCHANGED vars
  BY <1>5 DEF vars, jobVars
<1>6. QED
  BY <1>1, <1>2, <1>3, <1>4, <1>5 DEF Next

\* A job comes to be in progress before Submit ends, and Submit ends with its
\* Enqueue.
LEMMA TrackedStep ==
    ASSUME Queued, TypeOK, JobInv, InflightInv, AckInv, Tracked, [Next]_vars PROVE Tracked'
<1> SUFFICES ASSUME status' \in InProgress \cup {"settling"}, sub' = "end" PROVE InQueue'
  BY DEF Tracked, InQueue
<1>1. CASE sub = "end"
  <2>1. status \in InProgress \cup {"settling"}
    BY <1>1, RowSteps DEF RowMoves, CanTransition, InProgress, Unsubmitted, Terminal
  <2>2. InQueue
    BY <1>1, <2>1 DEF Tracked, InQueue
  <2>3. ~\E w \in Workers : pc[w] = "ack"
    BY <2>1 DEF AckInv, InProgress, Terminal
  <2>4. QED
    BY <2>2, <2>3, QueueSteps
<1>2. CASE sub # "end"
  <2>1. named'
    BY JobStep DEF JobInv, SubmittedInv, InProgress, Unsubmitted
  <2>2. named /\ sub = "enqueue"
    BY <1>2, <2>1, SubmitSteps DEF JobInv, SubmittedInv
  <2>3. Submit \/ SubmitCrash
    BY <1>2, SubmitOnly
  <2>4. EnqueueSubmitted
    BY <2>2, <2>3 DEF Submit, SubmitCrash, Queued, ReserveHold, CreatePendingItems, StartUpload,
       SubmitToProvider, SaveProviderJob, AbortOrphanProviderJob, ReleaseFailedSubmitHold,
       RecordSubmitFailure, EnqueueSubmitRetry
  <2>5. inflight'
    BY <2>4 DEF EnqueueSubmitted, Fails, Queued
  <2>6. QED
    BY <2>5, InflightStep DEF InflightInv
<1>3. QED
  BY <1>1, <1>2

\* A submitted job that has not ended is in the queue or being worked on, for
\* any number of workers that crash, lose answers and find the lock left behind.
THEOREM StaysTracked == ASSUME Queued PROVE Spec => []Tracked
<1> DEFINE QInv == LockInv /\ PlaceInv /\ InflightInv /\ AckInv /\ Tracked
<1>1. Init => QInv
  <2>1. Init => LockInv /\ PlaceInv
    BY HoldInit DEF HInv
  <2>2. Init => InflightInv /\ AckInv /\ Tracked
    BY DEF Init, InflightInv, AckInv, Tracked, InProgress
  <2>3. QED
    BY <2>1, <2>2
<1>2. TypeOK /\ JobInv /\ QInv /\ [Next]_vars => QInv'
  BY LockStep, PlaceStep, InflightStep, AckStep, TrackedStep DEF Queued
<1>3. QInv => Tracked
  OBVIOUS
<1> HIDE DEF QInv
<1>4. QED
  BY <1>1, <1>2, <1>3, JobInvariant, PTL DEF Spec

-----------------------------------------------------------------------------
(* The provider's batch and the refund.                                    *)

\* The answer of a created batch arrives, Submit lives to save its name or to
\* cancel it, and a Cancel that read the job before the save writes before it.
\* Every other fault and race stays allowed, stalled workers included.
Attended ==
    /\ "staleCancel" \notin Races
    /\ FaultAt \cap {"submitLost", "abort"} = {}
    /\ CrashAt \cap {"save", "abort"} = {}

Over == {"succeeded", "failed", "cancelled"}

\* Until Submit calls the provider there is no batch; a batch whose name is not
\* saved is the business of Submit alone; and a saved job that is neither
\* submitted nor running has seen its batch end.
BatchInv ==
    /\ sub \in {"reserve", "items", "upload", "submit"} => upstream = "none"
    /\ ~named => sub \in {"save", "abort"} \/ upstream # "running"
    /\ named => own # "cancel"
    /\ named /\ status \notin {"submitted", "running"} => upstream \in Over

\* Whoever is to write the outcome of the batch has read it.
OutcomeInv ==
    \A w \in Workers :
        pc[w] \in {"toIndexing", "toFailed", "toCancelled", "index"} => upstream \in Over

\* What happens at the provider: Submit creates the batch once, somebody asks
\* to cancel it, it ends.
LEMMA UpstreamSteps ==
    ASSUME TypeOK, BatchInv, [Next]_vars
    PROVE  /\ upstream \in Over => upstream' = upstream
           /\ upstream' # upstream =>
                 \/ sub = "submit" /\ SubmitToProvider
                 \/ upstream' \in Over \cup {"cancelling"}
<1>1. CASE Submit \/ SubmitCrash
  <2>1. CASE SubmitToProvider
    BY <2>1 DEF SubmitToProvider, BatchInv, Over
  <2>2. CASE AbortOrphanProviderJob
    BY <2>2 DEF AbortOrphanProviderJob, Aborted, Over
  <2>3. CASE ~(SubmitToProvider \/ AbortOrphanProviderJob)
    BY <1>1, <2>3 DEF Submit, SubmitCrash, ReserveHold, CreatePendingItems, StartUpload,
       SaveProviderJob, EnqueueSubmitted, ReleaseFailedSubmitHold, RecordSubmitFailure,
       EnqueueSubmitRetry
  <2>4. QED
    BY <2>1, <2>2, <2>3
<1>2. CASE BeginCancel \/ RepeatSubmit \/ OwnerStep \/ OwnerCrash
  BY <1>2 DEF BeginCancel, RepeatSubmit, OwnerStep, OwnerCrash, CancelUpstream,
     CancelUnsubmitted, CancelRelease, CancelEnqueue, Aborted, Over
<1>3. CASE Recovery \/ RecoveryCrash
  BY <1>3 DEF Recovery, RecoveryCrash, FailStale, RecoveryRelease, EnqueueReleaseRetry, RecFrame
<1>4. ASSUME NEW w \in Workers, Work(w) \/ WorkerCrash(w) PROVE upstream' = upstream
  BY <1>4, WorkerAlone DEF WorkFrame
<1>5. CASE \/ MoveDueDelayed \/ RecoverStaleActive \/ LockExpires \/ GrowStale
           \/ UpstreamEnds \/ CleanupOutput
  BY <1>5 DEF MoveDueDelayed, RecoverStaleActive, LockExpires, GrowStale, UpstreamEnds,
     CleanupOutput, Over
<1>6. CASE UNCHANGED vars
  BY <1>6 DEF vars
<1>7. QED
  BY <1>1, <1>2, <1>3, <1>4, <1>5, <1>6 DEF Next

\* A worker comes to write an outcome from what the provider has told it, or
\* from a job that is already indexing.
LEMMA OutcomeStep ==
    ASSUME TypeOK, BatchInv, OutcomeInv, [Next]_vars PROVE OutcomeInv'
<1> DEFINE Writing == {"toIndexing", "toFailed", "toCancelled", "index"}
<1>1. upstream \in Over => upstream' = upstream
  BY UpstreamSteps
<1>2. ASSUME NEW w \in Workers, Work(w) \/ WorkerCrash(w) PROVE OutcomeInv'
  <2>1. upstream' = upstream /\ \A v \in Workers \ {w} : pc'[v] = pc[v]
    BY <1>2, WorkerAlone DEF WorkFrame
  <2>2. pc'[w] \in Writing => upstream \in Over
    <3>1. CASE LoadJob(w)
      <4>1. pc'[w] \in {LoadPath, "requeue"}
        BY <3>1 DEF LoadJob, ReadTo, Goto, TypeOK
      <4>2. LoadPath \in Writing => named /\ status = "indexing"
        BY DEF LoadPath
      <4>3. QED
        BY <4>1, <4>2 DEF BatchInv
    <3>2. CASE GetStatus(w)
      BY <3>2 DEF GetStatus, ReadTo, Goto, TypeOK, Over
    <3>3. CASE ReadJob(w) \/ RereadJob(w) \/ ReadSettlement(w)
      BY <3>3 DEF ReadJob, RereadJob, ReadSettlement, SettlePath, ReadTo, Goto, TypeOK
    <3>4. CASE \/ WorkerTransition(w, "toRunning", "running", "requeue")
               \/ WorkerTransition(w, "toIndexing", "indexing", "index")
               \/ WorkerTransition(w, "toFailed", "failed", "release")
               \/ WorkerTransition(w, "toCancelled", "cancelled", "release")
               \/ WorkerTransition(w, "toSettling", "settling", "requeue")
               \/ WorkerTransition(w, "exFail", "failed", "reread")
      BY <3>4 DEF WorkerTransition, Goto, TypeOK, OutcomeInv
    <3>5. CASE IndexResults(w)
      BY <3>5 DEF IndexResults, OutcomeInv
    <3>6. CASE \/ Reserve(w) \/ TryAcquireJobLock(w) \/ FinishAck(w) \/ FinishRequeue(w)
               \/ Unlock(w) \/ WorkerCrash(w)
      BY <3>6 DEF Reserve, TryAcquireJobLock, FinishAck, FinishRequeue, Unlock, WorkerCrash, Goto,
         TypeOK
    <3>7. CASE \/ ReleaseTerminalHold(w) \/ CaptureHold(w) \/ RecordSettlementFailure(w)
               \/ MarkSettled(w) \/ ReleaseExhausted(w) \/ RecordReleaseFailure(w)
      BY <3>7 DEF ReleaseTerminalHold, CaptureHold, RecordSettlementFailure, AfterFailure,
         MarkSettled, ReleaseExhausted, RecordReleaseFailure, Goto, TypeOK
    <3>8. QED
      BY <1>2, <3>1, <3>2, <3>3, <3>4, <3>5, <3>6, <3>7 DEF Work
  <2>3. QED
    BY <2>1, <2>2 DEF OutcomeInv
<1>3. CASE ~\E w \in Workers : Work(w) \/ WorkerCrash(w)
  <2>1. pc' = pc
    <3>1. CASE Submit \/ SubmitCrash
      BY <3>1 DEF Submit, SubmitCrash, ReserveHold, CreatePendingItems, StartUpload,
         SubmitToProvider, SaveProviderJob, AbortOrphanProviderJob, EnqueueSubmitted,
         ReleaseFailedSubmitHold, RecordSubmitFailure, EnqueueSubmitRetry, SubFrame
    <3>2. CASE BeginCancel \/ RepeatSubmit \/ OwnerStep \/ OwnerCrash
      BY <3>2 DEF BeginCancel, RepeatSubmit, OwnerStep, OwnerCrash, CancelUpstream,
         CancelUnsubmitted, CancelRelease, CancelEnqueue, OwnFrame
    <3>3. CASE Recovery \/ RecoveryCrash
      BY <3>3 DEF Recovery, RecoveryCrash, FailStale, RecoveryRelease, EnqueueReleaseRetry, RecFrame
    <3>4. CASE \/ MoveDueDelayed \/ RecoverStaleActive \/ LockExpires \/ GrowStale
               \/ UpstreamEnds \/ CleanupOutput
      BY <3>4 DEF MoveDueDelayed, RecoverStaleActive, LockExpires, GrowStale, UpstreamEnds,
         CleanupOutput, Outside
    <3>5. QED
      BY <1>3, <3>1, <3>2, <3>3, <3>4 DEF Next, vars
  <2>2. QED
    BY <1>1, <2>1 DEF OutcomeInv
<1>4. QED
  BY <1>2, <1>3

\* The row of a named job leaves submitted and running when the batch is over.
LEMMA NamedOver ==
    ASSUME TypeOK, JobInv, BatchInv, OutcomeInv, [Next]_vars, named,
           status \in {"submitted", "running"}, status' \notin {"submitted", "running"}
    PROVE  upstream \in Over
<1>1. sub \in {"enqueue", "end"} /\ own # "cancel"
  BY DEF JobInv, SubmittedInv, BatchInv
<1>2. CASE Submit \/ SubmitCrash
  BY <1>1, <1>2 DEF Submit, SubmitCrash, ReserveHold, CreatePendingItems, StartUpload,
     SubmitToProvider, SaveProviderJob, AbortOrphanProviderJob, EnqueueSubmitted,
     ReleaseFailedSubmitHold, RecordSubmitFailure, EnqueueSubmitRetry
<1>3. CASE BeginCancel \/ RepeatSubmit \/ OwnerStep \/ OwnerCrash
  BY <1>1, <1>3 DEF BeginCancel, RepeatSubmit, OwnerStep, OwnerCrash, CancelUpstream,
     CancelUnsubmitted, CancelRelease, CancelEnqueue
<1>4. CASE Recovery \/ RecoveryCrash
  BY <1>4 DEF Recovery, RecoveryCrash, FailStale, StaleUnsubmitted, RecoveryRelease,
     EnqueueReleaseRetry, Unsubmitted
<1>5. ASSUME NEW w \in Workers, Work(w) \/ WorkerCrash(w) PROVE upstream \in Over
  <2>1. CASE \/ WorkerTransition(w, "toRunning", "running", "requeue")
             \/ WorkerTransition(w, "toIndexing", "indexing", "index")
             \/ WorkerTransition(w, "toFailed", "failed", "release")
             \/ WorkerTransition(w, "toCancelled", "cancelled", "release")
    BY <2>1 DEF WorkerTransition, OutcomeInv
  <2>2. CASE \/ WorkerTransition(w, "toSettling", "settling", "requeue")
             \/ WorkerTransition(w, "exFail", "failed", "reread")
             \/ MarkSettled(w)
    BY <2>2 DEF WorkerTransition, May, CanTransition, Terminal, MarkSettled, Settleable,
       JobInv, PastInv, Paying, Past
  <2>3. CASE \/ ReadJob(w) \/ LoadJob(w) \/ GetStatus(w) \/ ReadSettlement(w) \/ RereadJob(w)
             \/ Reserve(w) \/ TryAcquireJobLock(w) \/ FinishAck(w) \/ FinishRequeue(w)
             \/ Unlock(w) \/ WorkerCrash(w) \/ IndexResults(w) \/ ReleaseTerminalHold(w)
             \/ CaptureHold(w) \/ RecordSettlementFailure(w) \/ ReleaseExhausted(w)
             \/ RecordReleaseFailure(w)
    BY <2>3 DEF ReadJob, LoadJob, GetStatus, ReadSettlement, RereadJob, ReadTo, Reserve,
       TryAcquireJobLock, FinishAck, FinishRequeue, Unlock, WorkerCrash, IndexResults,
       ReleaseTerminalHold, CaptureHold, RecordSettlementFailure, ReleaseExhausted,
       RecordReleaseFailure
  <2>4. QED
    BY <1>5, <2>1, <2>2, <2>3 DEF Work
<1>6. CASE \/ MoveDueDelayed \/ RecoverStaleActive \/ LockExpires \/ GrowStale
           \/ UpstreamEnds \/ CleanupOutput
  BY <1>6 DEF MoveDueDelayed, RecoverStaleActive, LockExpires, GrowStale, UpstreamEnds,
     CleanupOutput
<1>7. CASE UNCHANGED vars
  BY <1>7 DEF vars, jobVars
<1>8. QED
  BY <1>2, <1>3, <1>4, <1>5, <1>6, <1>7 DEF Next

\* A Cancel that finds the job named does not take it for unsubmitted.
LEMMA CancelNamed ==
    ASSUME Attended, TypeOK, BatchInv, [Next]_vars, named' PROVE own' # "cancel"
<1>1. CASE Submit \/ SubmitCrash
  <2>1. own' = own
    BY <1>1 DEF Submit, SubmitCrash, ReserveHold, CreatePendingItems, StartUpload,
       SubmitToProvider, SaveProviderJob, AbortOrphanProviderJob, EnqueueSubmitted,
       ReleaseFailedSubmitHold, RecordSubmitFailure, EnqueueSubmitRetry, SubFrame
  <2>2. CASE SaveProviderJob
    BY <2>1, <2>2 DEF SaveProviderJob, Attended
  <2>3. CASE ~SaveProviderJob
    <3>1. named' = named
      BY <1>1, <2>3 DEF Submit, SubmitCrash, ReserveHold, CreatePendingItems, StartUpload,
         SubmitToProvider, AbortOrphanProviderJob, EnqueueSubmitted, ReleaseFailedSubmitHold,
         RecordSubmitFailure, EnqueueSubmitRetry
    <3>2. QED
      BY <2>1, <3>1 DEF BatchInv
  <2>4. QED
    BY <2>2, <2>3
<1>2. CASE ~(Submit \/ SubmitCrash)
  <2>1. named
    BY <1>2, SubmitOnly
  <2>2. CASE BeginCancel \/ RepeatSubmit \/ OwnerStep \/ OwnerCrash
    BY <2>1, <2>2 DEF BeginCancel, CancelPath, RepeatSubmit, OwnerStep, OwnerCrash, CancelUpstream,
       CancelUnsubmitted, CancelRelease, CancelEnqueue
  <2>3. CASE Recovery \/ RecoveryCrash
    BY <2>1, <2>3 DEF Recovery, RecoveryCrash, FailStale, RecoveryRelease, EnqueueReleaseRetry,
       RecFrame, BatchInv
  <2>4. CASE \E w \in Workers : Work(w) \/ WorkerCrash(w)
    BY <2>1, <2>4, WorkerAlone DEF WorkFrame, BatchInv
  <2>5. CASE \/ MoveDueDelayed \/ RecoverStaleActive \/ LockExpires \/ GrowStale
             \/ UpstreamEnds \/ CleanupOutput
    BY <2>1, <2>5 DEF MoveDueDelayed, RecoverStaleActive, LockExpires, GrowStale, UpstreamEnds,
       CleanupOutput, Outside, BatchInv
  <2>6. CASE UNCHANGED vars
    BY <2>1, <2>6 DEF vars, BatchInv
  <2>7. QED
    BY <1>2, <2>2, <2>3, <2>4, <2>5, <2>6 DEF Next
<1>3. QED
  BY <1>1, <1>2

LEMMA BatchStep ==
    ASSUME Attended, TypeOK, JobInv, BatchInv, OutcomeInv, [Next]_vars PROVE BatchInv'
<1>1. sub' \in {"reserve", "items", "upload", "submit"} => upstream' = "none"
  <2>1. CASE Submit \/ SubmitCrash
    BY <2>1 DEF Submit, SubmitCrash, ReserveHold, CreatePendingItems, StartUpload,
       SubmitToProvider, SaveProviderJob, AbortOrphanProviderJob, EnqueueSubmitted,
       ReleaseFailedSubmitHold, RecordSubmitFailure, EnqueueSubmitRetry, BatchInv
  <2>2. CASE ~(Submit \/ SubmitCrash)
    <3>1. SUFFICES ASSUME sub \in {"reserve", "items", "upload", "submit"}, upstream = "none"
                   PROVE  upstream' = "none"
      BY <2>2, SubmitOnly DEF BatchInv
    <3>2. CASE BeginCancel \/ RepeatSubmit \/ OwnerStep \/ OwnerCrash
      BY <3>1, <3>2 DEF BeginCancel, RepeatSubmit, OwnerStep, OwnerCrash, CancelUpstream,
         CancelUnsubmitted, CancelRelease, CancelEnqueue, Aborted
    <3>3. CASE Recovery \/ RecoveryCrash
      BY <3>1, <3>3 DEF Recovery, RecoveryCrash, FailStale, RecoveryRelease, EnqueueReleaseRetry,
         RecFrame
    <3>4. CASE \E w \in Workers : Work(w) \/ WorkerCrash(w)
      BY <3>1, <3>4, WorkerAlone DEF WorkFrame
    <3>5. CASE \/ MoveDueDelayed \/ RecoverStaleActive \/ LockExpires \/ GrowStale
               \/ UpstreamEnds \/ CleanupOutput
      BY <3>1, <3>5 DEF MoveDueDelayed, RecoverStaleActive, LockExpires, GrowStale, UpstreamEnds,
         CleanupOutput
    <3>6. QED
      BY <2>2, <3>1, <3>2, <3>3, <3>4, <3>5 DEF Next, vars
  <2>3. QED
    BY <2>1, <2>2
<1>2. ~named' => sub' \in {"save", "abort"} \/ upstream' # "running"
  <2>1. CASE Submit \/ SubmitCrash
    <3>1. CASE SubmitToProvider
      BY <3>1 DEF SubmitToProvider, BatchInv, Attended, Fails
    <3>2. CASE SaveProviderJob
      BY <3>2 DEF SaveProviderJob
    <3>3. CASE AbortOrphanProviderJob
      BY <3>3 DEF AbortOrphanProviderJob, Aborted, Attended, Fails
    <3>4. CASE SubmitCrash
      BY <3>4 DEF SubmitCrash, Attended, BatchInv
    <3>5. CASE ~(SubmitToProvider \/ SaveProviderJob \/ AbortOrphanProviderJob \/ SubmitCrash)
      BY <2>1, <3>5 DEF Submit, ReserveHold, CreatePendingItems, StartUpload, EnqueueSubmitted,
         ReleaseFailedSubmitHold, RecordSubmitFailure, EnqueueSubmitRetry, BatchInv
    <3>6. QED
      BY <3>1, <3>2, <3>3, <3>4, <3>5
  <2>2. CASE ~(Submit \/ SubmitCrash)
    BY <2>2, SubmitOnly, UpstreamSteps DEF BatchInv, Submit, Over
  <2>3. QED
    BY <2>1, <2>2
<1>3. named' => own' # "cancel"
  BY CancelNamed
<1>4. named' /\ status' \notin {"submitted", "running"} => upstream' \in Over
  <2>1. CASE named
    BY <2>1, NamedOver, UpstreamSteps DEF BatchInv
  <2>2. CASE ~named
    BY <2>2, RowSteps DEF RowMoves
  <2>3. QED
    BY <2>1, <2>2
<1>5. QED
  BY <1>1, <1>2, <1>3, <1>4 DEF BatchInv

\* The hold goes back only for a job that the provider does not work on, for any
\* number of workers, stalled ones included: the recovery, Cancel, the settlement
\* and Submit itself see to it that the batch has ended or is being cancelled.
THEOREM RefundAfterUpstream == ASSUME Attended PROVE Spec => []RefundStopsUpstream
<1>1. Init => BatchInv /\ OutcomeInv
  BY DEF Init, BatchInv, OutcomeInv
<1>2. TypeOK /\ JobInv /\ BatchInv /\ OutcomeInv /\ [Next]_vars => BatchInv' /\ OutcomeInv'
  BY BatchStep, OutcomeStep
<1>3. TypeOK /\ JobInv /\ BatchInv => RefundStopsUpstream
  BY DEF JobInv, SubmittedInv, ReleasedInv, ReleasedIsOver, BatchInv, RefundStopsUpstream,
     InProgress, Over
<1>4. QED
  BY <1>1, <1>2, <1>3, JobInvariant, PTL DEF Spec
=============================================================================
