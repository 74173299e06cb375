--------------------------- MODULE BatchImageJob ---------------------------
(***************************************************************************)
(* One batch image job and the balance hold it is paid from: Submit and    *)
(* Cancel (service/batch_image_public.go), the worker with its Redis queue *)
(* and lock (batch_image_worker.go, repository/batch_image_queue.go), the  *)
(* processor, the settlement, the recovery of stale submissions and the    *)
(* output cleanup.  They meet in the job's row, in the dedup rows and the  *)
(* frozen balance of the user (repository/usage_billing_repo.go) and in    *)
(* the queue.  Each statement, script or provider call is a step.          *)
(*                                                                         *)
(* frozen_balance is one number per user, counted here in holds of this    *)
(* size: Others of them belong to other jobs of the user.                  *)
(***************************************************************************)
EXTENDS Naturals

CONSTANTS
    Workers,      \* goroutines running BatchImageWorker.Run, in any process
    NoLock, Dead, \* the job lock is free; its holder has died
    Others,       \* holds of the user's other jobs in frozen_balance
    MaxRetries,   \* batchImageSettlementMaxRetries
    FaultAt,      \* calls that may fail, by the label of the caller
    CrashAt,      \* labels at which the process may die
    Races,        \* interleavings allowed: "earlyCancel", "staleCancel", "stall"
    MaxFaults     \* bound: failing calls, crashes and stalls

ASSUME BatchAssumption ==
    /\ NoLock \notin Workers /\ Dead \notin Workers /\ NoLock # Dead
    /\ Others \in Nat /\ MaxRetries \in Nat \ {0} /\ MaxFaults \in Nat

VARIABLES
    status,    \* status of the job's row
    named,     \* provider_job_name is set
    stale,     \* updated_at is older than StaleActiveAfter
    verdict,   \* do the indexed counts and the price pass the checks of Settle?
    retries,   \* retry_count, counted up to MaxRetries
    claims,    \* request ids of this job in usage_billing_dedup
    frozen,    \* frozen_balance of the user, in holds
    upstream,  \* the batch at the provider
    ready,     \* copies of the job in the ready list
    delayed, active, inflight, \* is it in the delayed set, the active set, the inflight key?
    lock,      \* who holds the job lock
    sub,       \* next call of Submit
    own,       \* next call of the owner's request (Cancel or a repeated Submit)
    rec,       \* next call of the stale recovery
    pc,        \* next call of each worker
    faults

jobVars == <<status, named, stale, verdict, retries>>
moneyVars == <<claims, frozen>>
queueVars == <<ready, delayed, active, inflight>>
vars == <<jobVars, moneyVars, queueVars, upstream, lock, sub, own, rec, pc, faults>>

Unsubmitted == {"created", "uploading"}
InProgress == {"submitted", "running", "indexing"}
Terminal == {"completed", "failed", "cancelled", "output_deleted"}
Statuses == Unsubmitted \cup InProgress \cup {"settling"} \cup Terminal

SubLabels == {"reserve", "items", "upload", "submit", "save", "enqueue", "undo", "undoQuiet",
              "undoFail", "undoRetry", "fail", "abort", "end"}
OwnLabels == {"idle", "cancelUpstream", "cancelEnqueue", "cancel", "cancelRelease", "cancelRetry"}
RecLabels == {"idle", "recRelease", "recRetry"}
Working == {"read", "load", "get", "toRunning", "toIndexing", "toFailed", "toCancelled", "index",
            "toSettling", "release", "settle", "capture", "record", "mark", "exRelease",
            "exRecord", "exFail", "reread", "ack", "requeue", "unlock"}
Labels == {"idle", "lock"} \cup Working

\* Types of the state.
TypeOK ==
    /\ status \in Statuses
    /\ named \in BOOLEAN /\ stale \in BOOLEAN
    /\ verdict \in {"none", "valid", "invalid"}
    /\ retries \in 0..MaxRetries
    /\ claims \subseteq {"hold", "capture", "release"}
    /\ frozen \in Nat
    /\ upstream \in {"none", "running", "cancelling", "succeeded", "failed", "cancelled"}
    /\ ready \in Nat
    /\ delayed \in BOOLEAN /\ active \in BOOLEAN /\ inflight \in BOOLEAN
    /\ lock \in Workers \cup {NoLock, Dead}
    /\ sub \in SubLabels /\ own \in OwnLabels /\ rec \in RecLabels
    /\ pc \in [Workers -> Labels]
    /\ faults \in 0..MaxFaults

\* CreateBatchImageJob has inserted the row; Submit is about to reserve.
Init ==
    /\ status = "created" /\ named = FALSE /\ stale = FALSE
    /\ verdict = "none" /\ retries = 0
    /\ claims = {} /\ frozen = Others
    /\ upstream = "none"
    /\ ready = 0 /\ delayed = FALSE /\ active = FALSE /\ inflight = FALSE
    /\ lock = NoLock
    /\ sub = "reserve" /\ own = "idle" /\ rec = "idle"
    /\ pc = [w \in Workers |-> "idle"]
    /\ faults = 0

-----------------------------------------------------------------------------
(* Faults.                                                                 *)

Fault == faults < MaxFaults /\ faults' = faults + 1

\* The call made at label l returns an error.
Fails(l) == l \in FaultAt /\ Fault

NoFault == UNCHANGED faults

-----------------------------------------------------------------------------
(* The job's row.                                                          *)

\* CanTransitionBatchImageJob.
CanTransition(from, to) ==
    \/ from \in Terminal \ {"output_deleted"} /\ to = "output_deleted"
    \/ from \notin Terminal /\ to = "failed"
    \/ <<from, to>> \in
         {<<"created", "uploading">>, <<"created", "submitted">>, <<"created", "cancelled">>,
          <<"uploading", "submitted">>, <<"uploading", "cancelled">>,
          <<"submitted", "running">>, <<"submitted", "indexing">>, <<"submitted", "cancelled">>,
          <<"running", "running">>, <<"running", "indexing">>, <<"running", "cancelled">>,
          <<"indexing", "settling">>, <<"settling", "completed">>}

Transition(to) == CanTransition(status, to) /\ status' = to

\* isBatchImageProcessorDoneStatus.
Done(s) == s = "settling" \/ s \in Terminal

-----------------------------------------------------------------------------
(* applyBatchImageBalanceHold: each request id is claimed once, in the     *)
(* transaction of its effect; a claimed id is a success without effect.    *)

ReserveBalance ==
    /\ claims' = claims \cup {"hold"}
    /\ frozen' = frozen + 1

Capturable == "capture" \in claims \/ frozen >= 1

CaptureBalance ==
    /\ claims' = claims \cup {"capture"}
    /\ frozen' = IF "capture" \in claims THEN frozen ELSE frozen - 1

Releasable == "release" \in claims \/ "hold" \notin claims \/ frozen >= 1

\* mutant: a release does not look at its own dedup row
ReleaseBalanceAgain ==
    /\ claims' = claims \cup {"release"}
    /\ frozen' = IF "hold" \notin claims \/ frozen = 0 THEN frozen ELSE frozen - 1

\* A release that finds no reserved hold moves nothing, and claims its id.
ReleaseBalance ==
    /\ claims' = claims \cup {"release"}
    /\ frozen' = IF "release" \in claims \/ "hold" \notin claims THEN frozen ELSE frozen - 1

-----------------------------------------------------------------------------
(* The Redis queue.                                                        *)

\* Enqueue sets the inflight key and pushes, unless the key is set.
Pushed == IF inflight THEN ready ELSE ready + 1

RequeueAfter ==
    /\ active' = FALSE
    /\ delayed' = TRUE
    /\ UNCHANGED <<ready, inflight>>

Ack ==
    /\ active' = FALSE /\ delayed' = FALSE /\ inflight' = FALSE
    /\ UNCHANGED ready

-----------------------------------------------------------------------------
(* Submit.                                                                 *)

SubFrame == UNCHANGED <<verdict, retries, delayed, active, lock, own, rec, pc>>

\* The balance may be too low.  A failed reserve is not undone, also when it
\* was committed and only the answer was lost.
ReserveHold ==
    /\ sub = "reserve"
    /\ \/ ReserveBalance /\ sub' = "items" /\ NoFault
       \/ UNCHANGED moneyVars /\ sub' = "fail" /\ NoFault
       \/ ReserveBalance /\ sub' = "fail" /\ Fails("reserveLost")
    /\ UNCHANGED <<status, named, stale, upstream, ready, inflight>> /\ SubFrame

CreatePendingItems ==
    /\ sub = "items"
    /\ \/ sub' = "upload" /\ NoFault
       \/ sub' = "undo" /\ Fails("items")
    /\ UNCHANGED <<status, named, stale, moneyVars, upstream, ready, inflight>> /\ SubFrame

\* An invalid transition means that somebody else has ended the job.
StartUpload ==
    /\ sub = "upload"
    /\ \/ Transition("uploading") /\ stale' = FALSE /\ sub' = "submit" /\ NoFault
       \/ /\ ~CanTransition(status, "uploading")
          /\ sub' = "undoQuiet" /\ NoFault /\ UNCHANGED <<status, stale>>
       \/ sub' = "undo" /\ Fails("upload") /\ UNCHANGED <<status, stale>>
    /\ UNCHANGED <<named, moneyVars, upstream, ready, inflight>> /\ SubFrame

\* provider.Submit creates the batch, refuses it, or creates it and the answer
\* is lost.
SubmitToProvider ==
    /\ sub = "submit"
    /\ \/ upstream' = "running" /\ sub' = "save" /\ NoFault
       \/ sub' = "undo" /\ NoFault /\ UNCHANGED upstream
       \/ upstream' = "running" /\ sub' = "undo" /\ Fails("submitLost")
    /\ UNCHANGED <<status, named, stale, moneyVars, ready, inflight>> /\ SubFrame

\* UpdateBatchImageJobProviderSubmit.  Unless "staleCancel" is allowed, a Cancel
\* that has read the job as unsubmitted changes it before this does.
SaveProviderJob ==
    /\ sub = "save"
    /\ "staleCancel" \in Races \/ own # "cancel"
    /\ \/ Transition("submitted") /\ named' = TRUE /\ sub' = "enqueue" /\ NoFault
       \/ /\ ~CanTransition(status, "submitted")
          /\ sub' = "abort" /\ NoFault /\ UNCHANGED <<status, named>>
       \/ sub' = "abort" /\ Fails("save") /\ UNCHANGED <<status, named>>
    /\ UNCHANGED <<stale, moneyVars, upstream, ready, inflight>> /\ SubFrame

\* mutant: the orphaned upstream job is left alone
AbortedNot == upstream

\* mutant: a state the provider does not know
AbortedTypo == "canceling"

Aborted == IF upstream = "running" THEN "cancelling" ELSE upstream

\* abortOrphanProviderJob: best effort.
AbortOrphanProviderJob ==
    /\ sub = "abort"
    /\ \/ upstream' = Aborted /\ NoFault
       \/ UNCHANGED upstream /\ Fails("abort")
    /\ sub' = "end"
    /\ UNCHANGED <<status, named, stale, moneyVars, ready, inflight>> /\ SubFrame

\* A job that cannot be queued stays submitted; the client may repeat Submit.
EnqueueSubmitted ==
    /\ sub = "enqueue"
    /\ \/ inflight' = TRUE /\ ready' = Pushed /\ NoFault
       \/ UNCHANGED <<ready, inflight>> /\ Fails("enqueue")
    /\ sub' = "end"
    /\ UNCHANGED <<status, named, stale, moneyVars, upstream>> /\ SubFrame

\* releaseFailedSubmitHold.
ReleaseFailedSubmitHold ==
    /\ sub \in {"undo", "undoQuiet"}
    /\ \/ /\ Releasable /\ ReleaseBalance /\ NoFault
          /\ sub' = IF sub = "undo" THEN "fail" ELSE "end"
       \/ ~Releasable /\ sub' = "undoFail" /\ NoFault /\ UNCHANGED moneyVars
       \/ sub' = "undoFail" /\ Fails("undo") /\ UNCHANGED moneyVars
    /\ UNCHANGED <<status, named, stale, upstream, ready, inflight>> /\ SubFrame

\* RecordBatchImageJobSubmitFailure: the status is written by batch id alone;
\* its error is ignored.
RecordSubmitFailure ==
    /\ sub \in {"fail", "undoFail"}
    /\ sub' = IF sub = "fail" THEN "end" ELSE "undoRetry"
    /\ \/ status' = "failed" /\ NoFault
       \/ UNCHANGED status /\ Fails("fail")
    /\ UNCHANGED <<named, stale, moneyVars, upstream, ready, inflight>> /\ SubFrame

\* enqueueBillingRetry, so that a worker releases the hold.
EnqueueSubmitRetry ==
    /\ sub = "undoRetry"
    /\ sub' = "end"
    /\ \/ inflight' = TRUE /\ ready' = Pushed /\ NoFault
       \/ UNCHANGED <<ready, inflight>> /\ Fails("undoRetry")
    /\ UNCHANGED <<status, named, stale, moneyVars, upstream>> /\ SubFrame

SubmitCrash ==
    /\ sub \in CrashAt /\ sub # "end"
    /\ Fault
    /\ sub' = "end"
    /\ UNCHANGED <<status, named, stale, moneyVars, upstream, ready, inflight>> /\ SubFrame

Submit ==
    \/ ReserveHold \/ CreatePendingItems \/ StartUpload \/ SubmitToProvider \/ SaveProviderJob
    \/ AbortOrphanProviderJob \/ EnqueueSubmitted \/ ReleaseFailedSubmitHold
    \/ RecordSubmitFailure \/ EnqueueSubmitRetry

-----------------------------------------------------------------------------
(* The owner: Cancel, and Submit repeated with the same idempotency key.   *)

OwnFrame == UNCHANGED <<named, stale, verdict, retries, delayed, active, lock, sub, rec, pc>>

\* What Cancel does about the job it has read.
CancelPath ==
    IF status \in {"failed", "cancelled"} THEN "cancelRelease"
    ELSE IF Done(status) THEN "idle"
    ELSE IF named THEN "cancelUpstream"
    ELSE "cancel"

BeginCancel ==
    /\ own = "idle"
    /\ "earlyCancel" \in Races \/ sub # "reserve"
    /\ own' = CancelPath
    /\ UNCHANGED <<status, moneyVars, upstream, ready, inflight, faults>> /\ OwnFrame

RepeatSubmit ==
    /\ own = "idle" /\ status = "submitted"
    /\ own' = "cancelEnqueue"
    /\ UNCHANGED <<status, moneyVars, upstream, ready, inflight, faults>> /\ OwnFrame

\* The provider may refuse.
CancelUpstream ==
    /\ own = "cancelUpstream"
    /\ \/ upstream' = Aborted /\ own' = "cancelEnqueue"
       \/ own' = "idle" /\ UNCHANGED upstream
    /\ UNCHANGED <<status, moneyVars, ready, inflight, faults>> /\ OwnFrame

CancelUnsubmitted ==
    /\ own = "cancel"
    /\ \/ Transition("cancelled") /\ own' = "cancelRelease" /\ NoFault
       \/ ~CanTransition(status, "cancelled") /\ own' = "idle" /\ NoFault /\ UNCHANGED status
       \/ own' = "idle" /\ Fails("cancel") /\ UNCHANGED status
    /\ UNCHANGED <<moneyVars, upstream, ready, inflight>> /\ OwnFrame

CancelRelease ==
    /\ own = "cancelRelease"
    /\ \/ Releasable /\ ReleaseBalance /\ own' = "idle" /\ NoFault
       \/ ~Releasable /\ own' = "cancelRetry" /\ NoFault /\ UNCHANGED moneyVars
       \/ own' = "cancelRetry" /\ Fails("cancelRelease") /\ UNCHANGED moneyVars
    /\ UNCHANGED <<status, upstream, ready, inflight>> /\ OwnFrame

CancelEnqueue ==
    /\ own \in {"cancelEnqueue", "cancelRetry"}
    /\ own' = "idle"
    /\ \/ inflight' = TRUE /\ ready' = Pushed /\ NoFault
       \/ UNCHANGED <<ready, inflight>> /\ Fails(own)
    /\ UNCHANGED <<status, moneyVars, upstream>> /\ OwnFrame

OwnerCrash ==
    /\ own \in CrashAt /\ own # "idle"
    /\ Fault
    /\ own' = "idle"
    /\ UNCHANGED <<status, moneyVars, upstream, ready, inflight>> /\ OwnFrame

OwnerStep == CancelUpstream \/ CancelUnsubmitted \/ CancelRelease \/ CancelEnqueue

-----------------------------------------------------------------------------
(* ReleaseStaleUnsubmittedOnce.                                            *)

RecFrame == UNCHANGED <<named, stale, verdict, retries, upstream, delayed, active, lock, sub, own, pc>>

StaleUnsubmitted == stale /\ status \in Unsubmitted /\ ~named

\* FailStaleUnsubmittedBatchImageJob rechecks what the list was read by.
FailStale ==
    /\ rec = "idle" /\ StaleUnsubmitted
    /\ status' = "failed"
    /\ rec' = "recRelease"
    /\ UNCHANGED <<moneyVars, ready, inflight, faults>> /\ RecFrame

RecoveryRelease ==
    /\ rec = "recRelease"
    /\ \/ Releasable /\ ReleaseBalance /\ rec' = "idle" /\ NoFault
       \/ ~Releasable /\ rec' = "recRetry" /\ NoFault /\ UNCHANGED moneyVars
       \/ rec' = "recRetry" /\ Fails("recRelease") /\ UNCHANGED moneyVars
    /\ UNCHANGED <<status, ready, inflight>> /\ RecFrame

EnqueueReleaseRetry ==
    /\ rec = "recRetry"
    /\ rec' = "idle"
    /\ \/ inflight' = TRUE /\ ready' = Pushed /\ NoFault
       \/ UNCHANGED <<ready, inflight>> /\ Fails("recRetry")
    /\ UNCHANGED <<status, moneyVars>> /\ RecFrame

RecoveryCrash ==
    /\ rec \in CrashAt /\ rec # "idle"
    /\ Fault
    /\ rec' = "idle"
    /\ UNCHANGED <<status, moneyVars, ready, inflight>> /\ RecFrame

Recovery == FailStale \/ RecoveryRelease \/ EnqueueReleaseRetry

-----------------------------------------------------------------------------
(* BatchImageWorker.RunOnce.                                               *)

WorkFrame == UNCHANGED <<named, stale, upstream, sub, own, rec>>

Goto(w, l) == pc' = [pc EXCEPT ![w] = l]

\* A step that only reads: on to l, or, when the read fails, to the requeue.
ReadTo(w, l) ==
    /\ \/ Goto(w, l) /\ NoFault
       \/ Goto(w, "requeue") /\ Fails(pc[w])
    /\ UNCHANGED <<status, verdict, retries, moneyVars, queueVars, lock>> /\ WorkFrame

\* mutant: the job is popped without being written to the active set
ReserveUntracked(w) ==
    /\ pc[w] = "idle" /\ ready > 0
    /\ ready' = ready - 1
    /\ Goto(w, "lock")
    /\ UNCHANGED <<status, verdict, retries, moneyVars, delayed, active, inflight, lock, faults>> /\ WorkFrame

Reserve(w) ==
    /\ pc[w] = "idle" /\ ready > 0
    /\ ready' = ready - 1 /\ active' = TRUE
    /\ Goto(w, "lock")
    /\ UNCHANGED <<status, verdict, retries, moneyVars, delayed, inflight, lock, faults>> /\ WorkFrame

LockFree == lock = NoLock

\* A failed call may have set the key, which nobody then releases or renews; a
\* job that is not put back either is left in the active set.
TryAcquireJobLock(w) ==
    /\ pc[w] = "lock"
    /\ \/ LockFree /\ lock' = w /\ Goto(w, "read") /\ NoFault /\ UNCHANGED queueVars
       \/ ~LockFree /\ RequeueAfter /\ Goto(w, "idle") /\ NoFault /\ UNCHANGED lock
       \/ /\ RequeueAfter \/ UNCHANGED queueVars
          /\ lock' \in {lock, IF LockFree THEN Dead ELSE lock}
          /\ Goto(w, "idle") /\ Fails("lock")
    /\ UNCHANGED <<status, verdict, retries, moneyVars>> /\ WorkFrame

FinishAck(w) ==
    /\ pc[w] = "ack"
    /\ \/ Ack /\ NoFault
       \/ UNCHANGED queueVars /\ Fails("ack")
    /\ Goto(w, "unlock")
    /\ UNCHANGED <<status, verdict, retries, moneyVars, lock>> /\ WorkFrame

FinishRequeue(w) ==
    /\ pc[w] = "requeue"
    /\ \/ RequeueAfter /\ NoFault
       \/ UNCHANGED queueVars /\ Fails("requeue")
    /\ Goto(w, "unlock")
    /\ UNCHANGED <<status, verdict, retries, moneyVars, lock>> /\ WorkFrame

\* The deferred lock.Release deletes the key if it still holds the token.
Unlock(w) ==
    /\ pc[w] = "unlock"
    /\ \/ lock' = (IF lock = w THEN NoLock ELSE lock) /\ NoFault
       \/ lock' = (IF lock = w THEN Dead ELSE lock) /\ Fails("unlock")
    /\ Goto(w, "idle")
    /\ UNCHANGED <<status, verdict, retries, moneyVars, queueVars>> /\ WorkFrame

WorkerCrash(w) ==
    /\ pc[w] \in CrashAt /\ pc[w] # "idle"
    /\ Fault
    /\ Goto(w, "idle")
    /\ lock' = IF lock = w THEN Dead ELSE lock
    /\ UNCHANGED <<status, verdict, retries, moneyVars, queueVars>> /\ WorkFrame

-----------------------------------------------------------------------------
(* BatchImagePipelineProcessor and BatchImageProviderProcessor.            *)

ReadJob(w) ==
    /\ pc[w] = "read"
    /\ ReadTo(w, IF status = "settling" THEN "settle" ELSE "load")

\* mutant: a job that has ended is acknowledged without releasing its hold
LoadPathDone ==
    IF Done(status) THEN "ack"
    ELSE IF ~named THEN "requeue"
    ELSE IF status = "indexing" THEN "index"
    ELSE "get"

\* A job that has become settling since the first read is acknowledged too.
LoadPath ==
    IF status \in {"failed", "cancelled"} THEN "release"
    ELSE IF Done(status) THEN "ack"
    ELSE IF ~named THEN "requeue"
    ELSE IF status = "indexing" THEN "index"
    ELSE "get"

LoadJob(w) ==
    /\ pc[w] = "load"
    /\ ReadTo(w, LoadPath)

\* provider.Get.  A batch that the provider has only queued changes nothing.
GetStatus(w) ==
    /\ pc[w] = "get"
    /\ \/ upstream \in {"running", "cancelling"} /\ (ReadTo(w, "toRunning") \/ ReadTo(w, "requeue"))
       \/ upstream = "succeeded" /\ ReadTo(w, "toIndexing")
       \/ upstream = "failed" /\ ReadTo(w, "toFailed")
       \/ upstream = "cancelled" /\ ReadTo(w, "toCancelled")

\* mutant: the transition is not checked against the present status
WorkerMay(from, to) == TRUE

May(from, to) == CanTransition(from, to)

\* TransitionBatchImageJobStatus at label l; an invalid transition and a failed
\* one are errors of Process.
WorkerTransition(w, l, to, next) ==
    /\ pc[w] = l
    /\ \/ May(status, to) /\ status' = to /\ Goto(w, next) /\ NoFault
       \/ ~May(status, to) /\ Goto(w, "requeue") /\ NoFault /\ UNCHANGED status
       \/ Goto(w, "requeue") /\ Fails(l) /\ UNCHANGED status
    /\ UNCHANGED <<verdict, retries, moneyVars, queueVars, lock>> /\ WorkFrame

\* The results are read before ReplaceBatchImageItemsForJob checks the status.
\* Results that do not parse fail the job, and so does an error of the
\* database; only a missing output is tried again.
IndexResults(w) ==
    /\ pc[w] = "index"
    /\ \/ status = "indexing" /\ verdict' \in {"valid", "invalid"} /\ Goto(w, "toSettling") /\ NoFault
       \/ status # "indexing" /\ Goto(w, "requeue") /\ NoFault /\ UNCHANGED verdict
       \/ Goto(w, "toFailed") /\ NoFault /\ UNCHANGED verdict
       \/ Goto(w, "requeue") /\ Fails("index") /\ UNCHANGED verdict
    /\ UNCHANGED <<status, retries, moneyVars, queueVars, lock>> /\ WorkFrame

ReleaseTerminalHold(w) ==
    /\ pc[w] = "release"
    /\ \/ Releasable /\ ReleaseBalance /\ Goto(w, "ack") /\ NoFault
       \/ ~Releasable /\ Goto(w, "requeue") /\ NoFault /\ UNCHANGED moneyVars
       \/ Goto(w, "requeue") /\ Fails("release") /\ UNCHANGED moneyVars
    /\ UNCHANGED <<status, verdict, retries, queueVars, lock>> /\ WorkFrame

-----------------------------------------------------------------------------
(* BatchImageSettlementService.Settle.                                     *)

RetryExhausted == retries = MaxRetries

\* mutant: a job that costs nothing is settled without a capture
SettlePathFree ==
    IF status = "completed" THEN "ack"
    ELSE IF status # "settling" THEN "requeue"
    ELSE IF RetryExhausted THEN "exRelease"
    ELSE IF verdict = "valid" THEN "capture"
    ELSE "mark"

SettlePath ==
    IF status = "completed" THEN "ack"
    ELSE IF status # "settling" THEN "requeue"
    ELSE IF RetryExhausted THEN "exRelease"
    ELSE IF verdict = "valid" THEN "capture"
    ELSE "record"

ReadSettlement(w) ==
    /\ pc[w] = "settle"
    /\ ReadTo(w, SettlePath)

CaptureHold(w) ==
    /\ pc[w] = "capture"
    /\ \/ Capturable /\ CaptureBalance /\ Goto(w, "mark") /\ NoFault
       \/ ~Capturable /\ Goto(w, "record") /\ NoFault /\ UNCHANGED moneyVars
       \/ Goto(w, "record") /\ Fails("capture") /\ UNCHANGED moneyVars
       \/ Capturable /\ CaptureBalance /\ Goto(w, "record") /\ Fails("captureLost")
    /\ UNCHANGED <<status, verdict, retries, queueVars, lock>> /\ WorkFrame

\* mutant: the failure is not counted
RetriedNot == retries

Retried == IF retries < MaxRetries THEN retries + 1 ELSE retries

\* A failed check is an error of Process; a failed capture has the pipeline
\* read the job again.
AfterFailure == IF verdict = "valid" THEN "reread" ELSE "requeue"

\* An error may have kept the count: the event is appended after it.
RecordSettlementFailure(w) ==
    /\ pc[w] = "record"
    /\ \/ /\ retries' = Retried
          /\ Goto(w, IF Retried = MaxRetries THEN "exRelease" ELSE AfterFailure)
          /\ NoFault
       \/ Goto(w, AfterFailure) /\ Fails("record") /\ retries' \in {retries, Retried}
    /\ UNCHANGED <<status, verdict, moneyVars, queueVars, lock>> /\ WorkFrame

Settleable == status = "settling"

\* MarkBatchImageJobSettled.
MarkSettled(w) ==
    /\ pc[w] = "mark"
    /\ \/ Settleable /\ status' = "completed" /\ Goto(w, "ack") /\ NoFault
       \/ ~Settleable /\ Goto(w, "requeue") /\ NoFault /\ UNCHANGED status
       \/ Goto(w, "requeue") /\ Fails("mark") /\ UNCHANGED status
    /\ UNCHANGED <<verdict, retries, moneyVars, queueVars, lock>> /\ WorkFrame

\* failExhaustedSettlement: release first, then fail.
ReleaseExhausted(w) ==
    /\ pc[w] = "exRelease"
    /\ \/ Releasable /\ ReleaseBalance /\ Goto(w, "exFail") /\ NoFault
       \/ ~Releasable /\ Goto(w, "exRecord") /\ NoFault /\ UNCHANGED moneyVars
       \/ Goto(w, "exRecord") /\ Fails("exRelease") /\ UNCHANGED moneyVars
    /\ UNCHANGED <<status, verdict, retries, queueVars, lock>> /\ WorkFrame

RecordReleaseFailure(w) ==
    /\ pc[w] = "exRecord"
    /\ retries' \in {retries, Retried}
    /\ Goto(w, "reread")
    /\ UNCHANGED <<status, verdict, moneyVars, queueVars, lock, faults>> /\ WorkFrame

RereadJob(w) ==
    /\ pc[w] = "reread"
    /\ ReadTo(w, IF status \in Terminal THEN "ack" ELSE "requeue")

Work(w) ==
    \/ Reserve(w) \/ TryAcquireJobLock(w) \/ ReadJob(w) \/ LoadJob(w) \/ GetStatus(w)
    \/ WorkerTransition(w, "toRunning", "running", "requeue")
    \/ WorkerTransition(w, "toIndexing", "indexing", "index")
    \/ WorkerTransition(w, "toFailed", "failed", "release")
    \/ WorkerTransition(w, "toCancelled", "cancelled", "release")
    \/ WorkerTransition(w, "toSettling", "settling", "requeue")
    \/ WorkerTransition(w, "exFail", "failed", "reread")
    \/ IndexResults(w) \/ ReleaseTerminalHold(w)
    \/ ReadSettlement(w) \/ CaptureHold(w) \/ RecordSettlementFailure(w) \/ MarkSettled(w)
    \/ ReleaseExhausted(w) \/ RecordReleaseFailure(w) \/ RereadJob(w)
    \/ FinishAck(w) \/ FinishRequeue(w) \/ Unlock(w)

-----------------------------------------------------------------------------
(* The queue's loops, time, the provider, the cleanup.                     *)

Outside == UNCHANGED <<named, verdict, retries, moneyVars, inflight, sub, own, rec, pc>>

MoveDueDelayed ==
    /\ delayed
    /\ delayed' = FALSE /\ ready' = ready + 1
    /\ UNCHANGED <<status, stale, upstream, active, lock, faults>> /\ Outside

\* The heartbeat of a running worker keeps the entry fresh, unless it stalls.
Stalled(alive) == IF alive THEN "stall" \in Races /\ Fault ELSE NoFault

RecoverStaleActive ==
    /\ active
    /\ Stalled(\E w \in Workers : pc[w] # "idle")
    /\ active' = FALSE /\ ready' = ready + 1
    /\ UNCHANGED <<status, stale, upstream, delayed, lock>> /\ Outside

LockExpires ==
    /\ lock # NoLock
    /\ Stalled(lock # Dead)
    /\ lock' = NoLock
    /\ UNCHANGED <<status, stale, upstream, ready, delayed, active>> /\ Outside

\* The heartbeat of runSubmitHeartbeat, and the short calls around it.
GrowStale ==
    /\ ~stale /\ status \in Unsubmitted
    /\ Stalled(sub # "end")
    /\ stale' = TRUE
    /\ UNCHANGED <<status, upstream, ready, delayed, active, lock>> /\ Outside

UpstreamEnds ==
    /\ upstream \in {"running", "cancelling"}
    /\ upstream' \in {"succeeded", "failed", "cancelled"}
    /\ UNCHANGED <<status, stale, ready, delayed, active, lock, faults>> /\ Outside

\* MarkBatchImageOutputDeleted, on request or when the output expires.
CleanupOutput ==
    /\ status = "completed"
    /\ status' = "output_deleted"
    /\ UNCHANGED <<stale, upstream, ready, delayed, active, lock, faults>> /\ Outside

Next ==
    \/ Submit \/ SubmitCrash
    \/ BeginCancel \/ RepeatSubmit \/ OwnerStep \/ OwnerCrash
    \/ Recovery \/ RecoveryCrash
    \/ \E w \in Workers : Work(w) \/ WorkerCrash(w)
    \/ MoveDueDelayed \/ RecoverStaleActive \/ LockExpires \/ GrowStale
    \/ UpstreamEnds \/ CleanupOutput

Spec == Init /\ [][Next]_vars

\* Started requests and workers go on, the loops of BatchImageWorkerRuntime run,
\* time passes and the provider ends its batch.  The owner need not do anything.
FairSpec ==
    /\ Spec
    /\ WF_vars(Submit) /\ WF_vars(OwnerStep) /\ WF_vars(Recovery)
    /\ \A w \in Workers : WF_vars(Work(w))
    /\ WF_vars(MoveDueDelayed) /\ WF_vars(RecoverStaleActive) /\ WF_vars(LockExpires)
    /\ WF_vars(GrowStale) /\ WF_vars(UpstreamEnds)

-----------------------------------------------------------------------------
(* Properties.                                                             *)

\* Only a job whose cost was captured is completed, through crashes between
\* the capture and the mark, lost locks and workers that overtake each other.
CompletedIsCaptured ==
    status \in {"completed", "output_deleted"} => "capture" \in claims

\* Once the release of the hold is booked the job does not run: it was never
\* submitted, has ended, or was given up in settlement.  Neither Submit nor a
\* worker that read the job earlier can bring it back.
ReleasedIsOver == "release" \in claims => status \notin InProgress

\* A job that has ended stays ended, and a completed one stays completed: no
\* late Cancel, Submit failure, recovery or stalled worker reopens it.
EndedIsFinal ==
    [][/\ status \in Terminal => status' \in Terminal
       /\ status \in {"completed", "output_deleted"} => status' \in {"completed", "output_deleted"}]_vars

\* A submitted job that has not ended is in the queue or being worked on, so
\* that a worker will see it again.
Tracked ==
    status \in InProgress \cup {"settling"} /\ sub = "end" => ready > 0 \/ delayed \/ active

\* The comment in ReleaseStaleUnsubmittedOnce: the hold must never be given
\* back while the provider's job goes on and costs money.
RefundStopsUpstream ==
    "release" \in claims /\ sub = "end" => upstream # "running"

Hold ==
    IF "hold" \notin claims THEN "none"
    ELSE IF "capture" \in claims THEN "captured"
    ELSE IF "release" \in claims THEN "released"
    ELSE "held"

Money == INSTANCE BalanceHold WITH hold <- Hold

\* The job moves its hold as BalanceHold allows, across Submit, Cancel, the
\* recovery, retries and restarts: it is frozen once, then captured or released,
\* never both and never twice, and other jobs' frozen money is not touched.
HoldSafely == Money!Safe

\* The other half of BalanceHold: no crash, lost answer or lost race leaves the
\* user's money frozen for ever.
HoldSettled == Money!Live

\* Every job ends: settled, failed or cancelled, also when its worker dies, its
\* lock is left behind or its settlement never succeeds.
JobEnds == <>(status \in Terminal)
=============================================================================
