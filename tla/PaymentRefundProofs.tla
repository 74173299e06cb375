------------------------ MODULE PaymentRefundProofs ------------------------
(***************************************************************************)
(* Proofs about PaymentRefund, for any set of workers and any faults: what *)
(* a refunded order rests on, when executions exclude each other, and that *)
(* rollbacks never exceed deductions, and that a retry does not deduct     *)
(* while a deduction stands.  Then, for requests that do not overlap: a    *)
(* refunded order has cost its amount once.                                *)
(***************************************************************************)
EXTENDS PaymentRefund, FiniteSets, FiniteSetTheorems, TLAPS

\* Types of what one worker holds.
WorkerTypes ==
    /\ job \in [Workers -> {"none", "refund", "finalize"}]
    /\ pc \in [Workers -> Pcs]
    /\ plan \in [Workers -> Plans]

\* The call a worker is at tells its job.
JobByStep ==
    \A w \in Workers :
        /\ pc[w] \in (Locked \ {"markOk"}) \cup {"lock", "auditPending"} => job[w] = "refund"
        /\ pc[w] \in {"detail", "query", "finCheck", "finDeduct", "finFail"} => job[w] = "finalize"
        /\ pc[w] \in {"markOk", "auditOk"} => job[w] \in {"refund", "finalize"}

\* Whoever is about to finish a refund has seen the money returned, and a refund
\* the provider has paid stays paid.
BackedByStep ==
    /\ \A w \in Workers : pc[w] \in {"finCheck", "finDeduct", "markOk"} =>
           gateway = "refunded" \/ offlined
    /\ RefundBacked

\* REFUNDING is the lock of the one worker that executes.
LockHeld ==
    ~intruded =>
        /\ \A w \in Executing : status = OrderStatusRefunding
        /\ \A v, w \in Executing : v = w

\* What a retry may find, and what the execution under way has left to do: no
\* deduction stands, or the row REFUND_ROLLBACK_FAILED tells of it.
NoneStands == deducted = 0 \/ rollbackFailed
StandsByStep(w) ==
    /\ pc[w] \in {"check", "restore", "markPending"} => NoneStands
    /\ pc[w] = "deduct" => deducted = 0 /\ ~rollbackFailed
    /\ pc[w] \in {"check", "deduct"} => plan[w].take = 1
    /\ pc[w] \in {"gateway", "rollback"} =>
           IF plan[w].take = 1 THEN deducted = 1 /\ ~rollbackFailed ELSE NoneStands
    /\ pc[w] = "gwFailed" => rollbackFailed
Guarded ==
    /\ status \in Refundable => NoneStands
    /\ \A w \in Workers : StandsByStep(w)

\* So it is while records are kept, nobody intrudes and no finalisation is about to
\* write its status.
GuardHeld ==
    intruded \/ unguarded \/ (\E w \in Workers : Finishing(w)) \/ Guarded

\* Workers whose deduction may still be rolled back.
Owing == {w \in Workers : pc[w] \in {"gateway", "rollback"} /\ plan[w].take = 1}

\* There are finitely many, and each has its unit among those deducted.
OwingCovered == IsFiniteSet(Owing) /\ Cardinality(Owing) <= deducted

-----------------------------------------------------------------------------
(* Types.                                                                  *)

LEMMA NewPlanType ==
    ASSUME NEW s \in Statuses, NEW t \in {0, 1}, NEW o \in BOOLEAN
    PROVE  NewPlan(s, t, o) \in Plans
  BY DEF NewPlan, Plans

LEMMA NoPlanType == NoPlan \in Plans /\ NoPlan.take = 0
  BY DEF NoPlan, NewPlan, Plans, Statuses, OrderStatusCompleted

\* Starting, continuing, moving and returning keep a worker's types.
LEMMA StartType ==
    ASSUME WorkerTypes, NEW w \in Workers, NEW l \in Pcs, NEW p \in Plans,
           NEW j \in {"none", "refund", "finalize"}, Start(w, j, l, p)
    PROVE  WorkerTypes'
  BY DEF WorkerTypes, Start

LEMMA ReturnType ==
    ASSUME WorkerTypes, NEW w \in Workers, Return(w) PROVE WorkerTypes'
  BY NoPlanType DEF WorkerTypes, Return, Pcs

LEMMA GotoType ==
    ASSUME WorkerTypes, NEW w \in Workers, NEW l \in Pcs, Goto(w, l) PROVE WorkerTypes'
  BY DEF WorkerTypes, Goto

LEMMA ContinueType ==
    ASSUME WorkerTypes, NEW w \in Workers, NEW l \in Pcs, NEW p \in Plans, Continue(w, l, p)
    PROVE  WorkerTypes'
  BY DEF WorkerTypes, Continue

\* The fields of a plan that a worker rewrites keep it a plan.
LEMMA PlanUpdate ==
    ASSUME WorkerTypes, NEW w \in Workers
    PROVE  /\ [plan[w] EXCEPT !.take = 0] \in Plans
           /\ \A r \in {"none", "error", "pending"} : [plan[w] EXCEPT !.resp = r] \in Plans
           /\ \A b \in BOOLEAN : [plan[w] EXCEPT !.rolledBack = b] \in Plans
           /\ plan[w].from \in Statuses
           /\ plan[w].take \in {0, 1}
           /\ plan[w].rolledBack \in BOOLEAN
  BY DEF WorkerTypes, Plans

\* Requests, providers and faults keep the state in its types.
LEMMA TypeStep == TypeOK /\ [Next]_vars => TypeOK'
<1> SUFFICES ASSUME TypeOK, [Next]_vars PROVE TypeOK'
  OBVIOUS
<1> USE RefundAssumption
<1> DEFINE RowTypes ==
             /\ status \in Statuses
             /\ rollbackFailed \in BOOLEAN /\ success \in BOOLEAN /\ settled \in BOOLEAN
             /\ pendingRow \in {"none", "ok", "notOk"}
             /\ deducted \in Int
             /\ gateway \in {"none", "pending", "refunded", "failed"}
             /\ offlined \in BOOLEAN /\ intruded \in BOOLEAN /\ unguarded \in BOOLEAN
             /\ faults \in 0..MaxFaults
<1>0. RowTypes /\ WorkerTypes
  BY DEF TypeOK, WorkerTypes
<1>1. SUFFICES RowTypes' /\ WorkerTypes'
  BY <1>1 DEF TypeOK, WorkerTypes
<1>2. CASE RequestRefund
  BY <1>0, <1>2 DEF RequestRefund, auditVars, historyVars, WorkerTypes, Statuses,
     OrderStatusRefundRequested
<1>3. CASE ProviderSettles
  BY <1>0, <1>3 DEF ProviderSettles, auditVars, historyVars, WorkerTypes
<1>4. ASSUME NEW w \in Workers, PrepareRefund(w) \/ BeginFinalize(w)
      PROVE  RowTypes' /\ WorkerTypes'
  <2>1. RowTypes'
    BY <1>0, <1>4 DEF PrepareRefund, BeginFinalize, Decision, auditVars, historyVars
  <2>2. CASE PrepareRefund(w)
    <3>1. PICK t \in Takes, o \in BOOLEAN : Start(w, "refund", "lock", NewPlan(status, t, o))
      BY <2>2 DEF PrepareRefund
    <3>2. NewPlan(status, t, o) \in Plans /\ "lock" \in Pcs
      BY <1>0, NewPlanType DEF Pcs, Unlocked
    <3>3. QED
      BY <1>0, <2>1, <3>1, <3>2, StartType
  <2>3. CASE BeginFinalize(w)
    <3>1. "detail" \in Pcs
      BY DEF Pcs, Finalizing
    <3>2. QED
      BY <1>0, <2>1, <2>3, <3>1, NoPlanType, StartType DEF BeginFinalize
  <2>4. QED
    BY <1>4, <2>2, <2>3
<1>5. ASSUME NEW w \in Workers, ExecuteRefund(w) \/ FinalizeRefund(w)
      PROVE  RowTypes' /\ WorkerTypes'
  <2>1. /\ {"check", "deduct", "gateway", "rollback", "auditRollback", "restore", "gwFailed",
            "markOk", "markPending", "auditOk", "auditPending"} \subseteq Pcs
        /\ {"query", "finCheck", "finDeduct", "finFail"} \subseteq Pcs
    BY DEF Pcs, Locked, Unlocked, Finalizing
  <2>2. /\ [plan[w] EXCEPT !.take = 0] \in Plans
        /\ \A r \in {"none", "error", "pending"} : [plan[w] EXCEPT !.resp = r] \in Plans
        /\ \A b \in BOOLEAN : [plan[w] EXCEPT !.rolledBack = b] \in Plans
        /\ plan[w].from \in Statuses /\ plan[w].take \in {0, 1}
    BY <1>0, PlanUpdate
  <2> USE <1>0, <2>1, <2>2, ReturnType, GotoType, ContinueType
      DEF auditVars, historyVars
  <2>3. CASE Lock(w)
    BY <2>3 DEF Lock, Statuses, OrderStatusRefunding
  <2>4. CASE CheckRollbackFailed(w)
    BY <2>4 DEF CheckRollbackFailed, Decision
  <2>5. CASE DeductBalance(w)
    BY <2>5 DEF DeductBalance
  <2>6. CASE RegisterOffline(w)
    BY <2>6 DEF RegisterOffline, OnSuccess
  <2>7. CASE GwRefund(w)
    BY <2>7 DEF GwRefund, OnSuccess, OnPending, OnError
  <2>8. CASE GwAnswerLost(w)
    BY <2>8 DEF GwAnswerLost, OnError, Fault
  <2>9. CASE RollbackRefund(w)
    BY <2>9 DEF RollbackRefund, RolledBack
  <2>10. CASE AuditRollbackFailed(w)
    BY <2>10 DEF AuditRollbackFailed
  <2>11. CASE RestoreStatus(w)
    BY <2>11 DEF RestoreStatus, SetStatus, Restored, Statuses, OrderStatusRefundRequested,
       OrderStatusCompleted
  <2>12. CASE MarkGwFailed(w) \/ FinalizeRefundFailed(w)
    BY <2>12 DEF MarkGwFailed, FinalizeRefundFailed, SetStatus, Statuses, OrderStatusRefundFailed
  <2>13. CASE MarkRefundOk(w)
    BY <2>13 DEF MarkRefundOk, SetStatus, Statuses, Refunded, OrderStatusRefunded,
       OrderStatusPartiallyRefunded
  <2>14. CASE SettleAndAudit(w)
    BY <2>14 DEF SettleAndAudit
  <2>15. CASE MarkRefundPending(w)
    BY <2>15 DEF MarkRefundPending, SetStatus, Statuses, OrderStatusRefundPending
  <2>16. CASE AuditPending(w)
    BY <2>16 DEF AuditPending
  <2>17. CASE LatestRefundPendingDetail(w)
    BY <2>17 DEF LatestRefundPendingDetail, Decision
  <2>18. CASE QueryRefund(w) \/ QueryAnswerUnknown(w)
    BY <2>18 DEF QueryRefund, QueryAnswerUnknown, Fault, Decision
  <2>19. CASE CheckRefundSuccess(w)
    BY <2>19 DEF CheckRefundSuccess, Decision
  <2>20. CASE FinalDeduction(w)
    BY <2>20 DEF FinalDeduction
  <2>21. QED
    BY <1>5, <2>3, <2>4, <2>5, <2>6, <2>7, <2>8, <2>9, <2>10, <2>11, <2>12, <2>13, <2>14,
       <2>15, <2>16, <2>17, <2>18, <2>19, <2>20 DEF ExecuteRefund, FinalizeRefund
<1>6. ASSUME NEW w \in Workers, CallFails(w) \/ Crash(w)
      PROVE  RowTypes' /\ WorkerTypes'
  <2>1. RowTypes'
    <3>1. unguarded' \in BOOLEAN
      BY <1>0, <1>6, Zenon DEF CallFails, Crash
    <3>2. QED
      BY <1>0, <1>6, <3>1 DEF CallFails, Crash, Fault, auditVars
  <2>2. {"deduct", "restore", "auditRollback", "gwFailed", "markPending", "query",
         "finDeduct", "markOk"} \subseteq Pcs
    BY DEF Pcs, Locked, Unlocked, Finalizing
  <2>3. WorkerTypes'
    BY <1>0, <1>6, <2>2, PlanUpdate, ReturnType, GotoType, ContinueType DEF CallFails, Crash
  <2>4. QED
    BY <2>1, <2>3
<1>7. CASE UNCHANGED vars
  BY <1>0, <1>7 DEF vars, auditVars, historyVars, WorkerTypes
<1>8. QED
  BY <1>2, <1>3, <1>4, <1>5, <1>6, <1>7 DEF Next

LEMMA TypeInit == Init => TypeOK
<1> SUFFICES ASSUME Init PROVE TypeOK
  OBVIOUS
<1>1. status \in Statuses /\ faults \in 0..MaxFaults
  BY RefundAssumption DEF Init, Statuses, OrderStatusCompleted
<1>2. "idle" \in Pcs
  BY DEF Pcs
<1>3. /\ job \in [Workers -> {"none", "refund", "finalize"}]
      /\ pc \in [Workers -> Pcs]
      /\ plan \in [Workers -> Plans]
  BY <1>2, NoPlanType DEF Init
<1>4. deducted \in Int
  BY DEF Init
<1>5. QED
  BY <1>1, <1>3, <1>4, Zenon DEF Init, TypeOK

\* TypeOK is an invariant of the refund's specification.
THEOREM TypeCorrect == Spec => []TypeOK
  BY TypeInit, TypeStep, PTL DEF Spec

-----------------------------------------------------------------------------
(* What a worker's step does to the workers.                               *)

LEMMA StartMoves ==
    ASSUME TypeOK, NEW w \in Workers, NEW j, NEW l, NEW p, Start(w, j, l, p)
    PROVE  /\ pc[w] = "idle" /\ pc'[w] = l /\ job'[w] = j /\ plan'[w] = p
           /\ \A v \in Workers \ {w} : pc'[v] = pc[v] /\ job'[v] = job[v] /\ plan'[v] = plan[v]
  BY DEF TypeOK, Start

LEMMA ContinueMoves ==
    ASSUME TypeOK, NEW w \in Workers, NEW l, NEW p, Continue(w, l, p)
    PROVE  /\ pc'[w] = l /\ job'[w] = job[w] /\ plan'[w] = p
           /\ \A v \in Workers \ {w} : pc'[v] = pc[v] /\ job'[v] = job[v] /\ plan'[v] = plan[v]
  BY DEF TypeOK, Continue

LEMMA GotoMoves ==
    ASSUME TypeOK, NEW w \in Workers, NEW l, Goto(w, l)
    PROVE  /\ pc'[w] = l /\ job'[w] = job[w] /\ plan'[w] = plan[w]
           /\ \A v \in Workers \ {w} : pc'[v] = pc[v] /\ job'[v] = job[v] /\ plan'[v] = plan[v]
  BY DEF TypeOK, Goto

LEMMA ReturnMoves ==
    ASSUME TypeOK, NEW w \in Workers, Return(w)
    PROVE  /\ pc'[w] = "idle" /\ job'[w] = "none" /\ plan'[w] = NoPlan
           /\ \A v \in Workers \ {w} : pc'[v] = pc[v] /\ job'[v] = job[v] /\ plan'[v] = plan[v]
  BY DEF TypeOK, Return

-----------------------------------------------------------------------------
(* A refunded order is backed.                                             *)

\* A refund that the provider has paid, or that was registered offline, stays so.
LEMMA BackingStable ==
    ASSUME [Next]_vars, gateway = "refunded" \/ offlined PROVE gateway' = "refunded" \/ offlined'
<1>1. CASE RequestRefund \/ ProviderSettles \/ UNCHANGED vars
  BY <1>1 DEF RequestRefund, ProviderSettles, vars, historyVars
<1>2. ASSUME NEW w \in Workers,
             PrepareRefund(w) \/ BeginFinalize(w) \/ CallFails(w) \/ Crash(w)
      PROVE  gateway' = "refunded" \/ offlined'
  BY <1>2 DEF PrepareRefund, BeginFinalize, CallFails, Crash, Decision, Fault, historyVars
<1>3. ASSUME NEW w \in Workers, ExecuteRefund(w) \/ FinalizeRefund(w)
      PROVE  gateway' = "refunded" \/ offlined'
  <2> USE DEF historyVars, Decision, SetStatus
  <2>1. CASE GwRefund(w) \/ GwAnswerLost(w) \/ RegisterOffline(w)
    BY <2>1 DEF GwRefund, GwAnswerLost, RegisterOffline, Fault
  <2>2. CASE Lock(w) \/ CheckRollbackFailed(w) \/ DeductBalance(w) \/ RollbackRefund(w)
    BY <2>2 DEF Lock, CheckRollbackFailed, DeductBalance, RollbackRefund
  <2>3. CASE AuditRollbackFailed(w) \/ RestoreStatus(w) \/ MarkGwFailed(w) \/ MarkRefundOk(w)
    BY <2>3 DEF AuditRollbackFailed, RestoreStatus, MarkGwFailed, MarkRefundOk
  <2>4. CASE SettleAndAudit(w) \/ MarkRefundPending(w) \/ AuditPending(w)
    BY <2>4 DEF SettleAndAudit, MarkRefundPending, AuditPending
  <2>5. CASE FinalizeRefund(w)
    BY <2>5 DEF FinalizeRefund, LatestRefundPendingDetail, QueryRefund, QueryAnswerUnknown, Fault,
       CheckRefundSuccess, FinalDeduction, FinalizeRefundFailed
  <2>6. QED
    BY <1>3, <2>1, <2>2, <2>3, <2>4, <2>5 DEF ExecuteRefund
<1>4. QED
  BY <1>1, <1>2, <1>3 DEF Next

\* Whoever comes to finish a refund knows it paid, and only that worker writes REFUNDED.
LEMMA BackedStep == TypeOK /\ BackedByStep /\ [Next]_vars => BackedByStep'
<1> SUFFICES ASSUME TypeOK, BackedByStep, [Next]_vars PROVE BackedByStep'
  OBVIOUS
<1> DEFINE Final == {"finCheck", "finDeduct", "markOk"}
           Backed == gateway = "refunded" \/ offlined
<1>0. Backed => Backed'
  BY BackingStable
<1>1. /\ \A v \in Workers : pc[v] \in Final => Backed
      /\ status \in Refunded => Backed
  BY DEF BackedByStep, RefundBacked
<1>2. SUFFICES Backed' \/ (/\ \A v \in Workers : pc'[v] \notin Final
                          /\ status' \notin Refunded)
  BY <1>2 DEF BackedByStep, RefundBacked
<1>3. CASE Backed
  BY <1>0, <1>3
<1>4. CASE ~Backed
  <2>0. (\A v \in Workers : pc[v] \notin Final) /\ status \notin Refunded
    BY <1>1, <1>4
  <2> USE DEF Refunded, OrderStatusRefunded, OrderStatusPartiallyRefunded, Decision
  <2>1. CASE RequestRefund \/ ProviderSettles \/ UNCHANGED vars
    BY <2>0, <2>1 DEF RequestRefund, ProviderSettles, vars, OrderStatusRefundRequested
  <2>2. ASSUME NEW w \in Workers, PrepareRefund(w) \/ BeginFinalize(w)
        PROVE  (\A v \in Workers : pc'[v] \notin Final) /\ status' \notin Refunded
    BY <2>0, <2>2, StartMoves DEF PrepareRefund, BeginFinalize
  <2>3. ASSUME NEW w \in Workers, ExecuteRefund(w) \/ FinalizeRefund(w)
        PROVE  Backed' \/ (/\ \A v \in Workers : pc'[v] \notin Final
                          /\ status' \notin Refunded)
    <3> USE <2>0, GotoMoves, ContinueMoves, ReturnMoves
    <3>1. CASE Lock(w) \/ CheckRollbackFailed(w) \/ DeductBalance(w)
      BY <3>1 DEF Lock, CheckRollbackFailed, DeductBalance, OrderStatusRefunding
    <3>2. CASE GwRefund(w) \/ GwAnswerLost(w) \/ RegisterOffline(w)
      BY <3>2 DEF GwRefund, GwAnswerLost, RegisterOffline, OnSuccess, OnPending, OnError, Fault
    <3>3. CASE RollbackRefund(w) \/ AuditRollbackFailed(w)
      BY <3>3 DEF RollbackRefund, AuditRollbackFailed
    <3>4. CASE RestoreStatus(w) \/ MarkGwFailed(w) \/ FinalizeRefundFailed(w)
      BY <3>4 DEF RestoreStatus, MarkGwFailed, FinalizeRefundFailed, SetStatus, Restored,
         OrderStatusRefundRequested, OrderStatusCompleted, OrderStatusRefundFailed
    <3>5. CASE MarkRefundOk(w) \/ CheckRefundSuccess(w) \/ FinalDeduction(w)
      BY <3>5 DEF MarkRefundOk, CheckRefundSuccess, FinalDeduction
    <3>6. CASE SettleAndAudit(w) \/ AuditPending(w)
      BY <3>6 DEF SettleAndAudit, AuditPending
    <3>7. CASE MarkRefundPending(w)
      BY <3>7 DEF MarkRefundPending, SetStatus, OrderStatusRefundPending
    <3>8. CASE LatestRefundPendingDetail(w) \/ QueryRefund(w) \/ QueryAnswerUnknown(w)
      BY <1>4, <3>8 DEF LatestRefundPendingDetail, QueryRefund, QueryAnswerUnknown, Fault
    <3>9. QED
      BY <2>3, <3>1, <3>2, <3>3, <3>4, <3>5, <3>6, <3>7, <3>8 DEF ExecuteRefund, FinalizeRefund
  <2>4. ASSUME NEW w \in Workers, CallFails(w) \/ Crash(w)
        PROVE  (\A v \in Workers : pc'[v] \notin Final) /\ status' \notin Refunded
    BY <2>0, <2>4, GotoMoves, ContinueMoves, ReturnMoves DEF CallFails, Crash, Fault
  <2>5. QED
    BY <2>1, <2>2, <2>3, <2>4 DEF Next
<1>5. QED
  BY <1>3, <1>4

LEMMA BackedInit == Init => BackedByStep
  BY DEF Init, BackedByStep, RefundBacked, Refunded, OrderStatusCompleted,
     OrderStatusRefunded, OrderStatusPartiallyRefunded

\* No order is REFUNDED or PARTIALLY_REFUNDED without a refund at the provider or a
\* registered offline refund, for any number of requests and any faults.
THEOREM BackingCorrect == Spec => []RefundBacked
<1>1. Spec => []BackedByStep
  BY TypeCorrect, BackedInit, BackedStep, PTL DEF Spec
<1>2. BackedByStep => RefundBacked
  BY DEF BackedByStep
<1>3. QED
  BY <1>1, <1>2, PTL

-----------------------------------------------------------------------------
(* REFUNDING excludes a second execution.                                  *)

\* A worker keeps its job from its first call to its last.
LEMMA JobStep == TypeOK /\ JobByStep /\ [Next]_vars => JobByStep'
<1> SUFFICES ASSUME TypeOK, JobByStep, [Next]_vars PROVE JobByStep'
  OBVIOUS
<1> DEFINE Fits(j, l) ==
             /\ l \in (Locked \ {"markOk"}) \cup {"lock", "auditPending"} => j = "refund"
             /\ l \in {"detail", "query", "finCheck", "finDeduct", "finFail"} => j = "finalize"
             /\ l \in {"markOk", "auditOk"} => j \in {"refund", "finalize"}
<1>0. \A v \in Workers : Fits(job[v], pc[v])
  BY DEF JobByStep
<1>1. SUFFICES \A v \in Workers : Fits(job'[v], pc'[v])
  BY <1>1 DEF JobByStep
<1>2. CASE RequestRefund \/ ProviderSettles \/ UNCHANGED vars
  BY <1>0, <1>2 DEF RequestRefund, ProviderSettles, vars
<1>3. ASSUME NEW w \in Workers,
             \A v \in Workers \ {w} : pc'[v] = pc[v] /\ job'[v] = job[v] /\ plan'[v] = plan[v],
             Fits(job'[w], pc'[w])
      PROVE  \A v \in Workers : Fits(job'[v], pc'[v])
  BY <1>0, <1>3
<1>4. ASSUME NEW w \in Workers, PrepareRefund(w) \/ BeginFinalize(w)
      PROVE  \A v \in Workers : Fits(job'[v], pc'[v])
  BY <1>3, <1>4, StartMoves DEF PrepareRefund, BeginFinalize, Locked
<1>5. ASSUME NEW w \in Workers, ExecuteRefund(w) \/ FinalizeRefund(w)
      PROVE  \A v \in Workers : Fits(job'[v], pc'[v])
  <2>0. Fits(job[w], pc[w])
    BY <1>0
  <2> USE <2>0, <1>3, GotoMoves, ContinueMoves, ReturnMoves DEF Locked
  <2>1. CASE Lock(w)
    BY <2>1 DEF Lock
  <2>2. CASE CheckRollbackFailed(w)
    BY <2>2 DEF CheckRollbackFailed
  <2>3. CASE DeductBalance(w)
    BY <2>3 DEF DeductBalance
  <2>4. CASE RegisterOffline(w)
    BY <2>4 DEF RegisterOffline, OnSuccess
  <2>5. CASE GwRefund(w)
    BY <2>5 DEF GwRefund, OnSuccess, OnPending, OnError
  <2>6. CASE GwAnswerLost(w)
    BY <2>6 DEF GwAnswerLost, OnError
  <2>7. CASE RollbackRefund(w)
    BY <2>7 DEF RollbackRefund
  <2>8. CASE AuditRollbackFailed(w)
    BY <2>8 DEF AuditRollbackFailed
  <2>9. CASE RestoreStatus(w) \/ MarkGwFailed(w) \/ SettleAndAudit(w) \/ AuditPending(w)
    BY <2>9 DEF RestoreStatus, MarkGwFailed, SettleAndAudit, AuditPending
  <2>10. CASE MarkRefundOk(w)
    BY <2>10 DEF MarkRefundOk
  <2>11. CASE MarkRefundPending(w)
    BY <2>11 DEF MarkRefundPending
  <2>12. CASE LatestRefundPendingDetail(w)
    BY <2>12 DEF LatestRefundPendingDetail
  <2>13. CASE QueryRefund(w) \/ QueryAnswerUnknown(w)
    BY <2>13 DEF QueryRefund, QueryAnswerUnknown, Fault
  <2>14. CASE CheckRefundSuccess(w) \/ FinalDeduction(w) \/ FinalizeRefundFailed(w)
    BY <2>14 DEF CheckRefundSuccess, FinalDeduction, FinalizeRefundFailed
  <2>15. QED
    BY <1>5, <2>1, <2>2, <2>3, <2>4, <2>5, <2>6, <2>7, <2>8, <2>9, <2>10, <2>11, <2>12,
       <2>13, <2>14 DEF ExecuteRefund, FinalizeRefund
<1>6. ASSUME NEW w \in Workers, CallFails(w) \/ Crash(w)
      PROVE  \A v \in Workers : Fits(job'[v], pc'[v])
  <2>0. Fits(job[w], pc[w])
    BY <1>0
  <2>1. QED
    BY <1>3, <1>6, <2>0, GotoMoves, ContinueMoves, ReturnMoves DEF CallFails, Crash, Locked
<1>7. QED
  BY <1>2, <1>4, <1>5, <1>6 DEF Next

\* Steps that leave the status alone and let nobody in keep the lock.
LEMMA LockKept ==
    ASSUME LockHeld, Executing' \subseteq Executing, status' = status, intruded' = intruded
    PROVE  LockHeld'
  BY DEF LockHeld

\* The status is written while nobody executes, by the worker that enters, or by the
\* one that executes and leaves; any other write is a finalisation's and counted.
LEMMA LockStep == TypeOK /\ JobByStep /\ LockHeld /\ [Next]_vars => LockHeld'
<1> SUFFICES ASSUME TypeOK, JobByStep, LockHeld, [Next]_vars PROVE LockHeld'
  OBVIOUS
<1>1. CASE RequestRefund
  BY <1>1 DEF RequestRefund, LockHeld, Executing, historyVars, OrderStatusCompleted,
     OrderStatusRefunding
<1>2. CASE ProviderSettles \/ UNCHANGED vars
  BY <1>2 DEF ProviderSettles, vars, historyVars, LockHeld, Executing
<1>3. ASSUME NEW w \in Workers, PrepareRefund(w) \/ BeginFinalize(w)
      PROVE  LockHeld'
  <2>1. Executing' \subseteq Executing
    BY <1>3, StartMoves DEF PrepareRefund, BeginFinalize, Executing, Locked
  <2>2. QED
    BY <1>3, <2>1, LockKept DEF PrepareRefund, BeginFinalize, Decision, historyVars
<1>4. ASSUME NEW w \in Workers, ExecuteRefund(w) \/ FinalizeRefund(w)
      PROVE  LockHeld'
  <2> USE GotoMoves, ContinueMoves, ReturnMoves
  <2>1. CASE Lock(w)
    <3>1. CASE status \in Refundable
      <4>1. ~intruded => Executing = {}
        BY <3>1 DEF LockHeld, Refundable, OrderStatusCompleted, OrderStatusRefundRequested,
           OrderStatusRefundPending, OrderStatusRefundFailed, OrderStatusRefunding
      <4>2. Executing' \subseteq Executing \cup {w}
        BY <2>1, <3>1 DEF Lock, Executing
      <4>3. status' = OrderStatusRefunding /\ intruded' = intruded
        BY <2>1, <3>1 DEF Lock, historyVars
      <4>4. QED
        BY <4>1, <4>2, <4>3 DEF LockHeld
    <3>2. CASE status \notin Refundable
      <4>1. Executing' \subseteq Executing
        BY <2>1, <3>2 DEF Lock, Executing, Locked
      <4>2. QED
        BY <2>1, <3>2, <4>1, LockKept DEF Lock, historyVars
    <3>3. QED
      BY <3>1, <3>2
  <2>2. CASE \/ CheckRollbackFailed(w) \/ DeductBalance(w) \/ RegisterOffline(w) \/ GwRefund(w)
             \/ GwAnswerLost(w) \/ RollbackRefund(w) \/ AuditRollbackFailed(w)
             \/ SettleAndAudit(w) \/ AuditPending(w)
    <3>1. Executing' \subseteq Executing
      <4>1. /\ job'[w] \in {job[w], "none"}
            /\ \A v \in Workers \ {w} : pc'[v] = pc[v] /\ job'[v] = job[v]
        BY <2>2 DEF CheckRollbackFailed, DeductBalance, RegisterOffline, GwRefund, GwAnswerLost,
           RollbackRefund, AuditRollbackFailed, SettleAndAudit, AuditPending, OnSuccess,
           OnPending, OnError
      <4>2. pc[w] \in Locked \/ pc'[w] = "idle"
        BY <2>2 DEF CheckRollbackFailed, DeductBalance, RegisterOffline, GwRefund, GwAnswerLost,
           RollbackRefund, AuditRollbackFailed, SettleAndAudit, AuditPending, OnSuccess,
           OnPending, OnError, Locked
      <4>3. QED
        BY <4>1, <4>2 DEF Executing, Locked
    <3>2. status' = status /\ intruded' = intruded
      BY <2>2 DEF CheckRollbackFailed, DeductBalance, RegisterOffline, GwRefund, GwAnswerLost,
         RollbackRefund, AuditRollbackFailed, SettleAndAudit, AuditPending, Decision, Fault,
         historyVars
    <3>3. QED
      BY <3>1, <3>2, LockKept
  <2>3. CASE \/ RestoreStatus(w) \/ MarkGwFailed(w) \/ MarkRefundOk(w) \/ MarkRefundPending(w)
             \/ FinalizeRefundFailed(w)
    <3>1. Executing' \subseteq Executing \ {w}
      <4>1. /\ pc'[w] \notin Locked
            /\ \A v \in Workers \ {w} : pc'[v] = pc[v] /\ job'[v] = job[v]
        BY <2>3 DEF RestoreStatus, MarkGwFailed, MarkRefundOk, MarkRefundPending,
           FinalizeRefundFailed, Locked
      <4>2. QED
        BY <4>1 DEF Executing
    <3>2. intruded' = (intruded \/ (job[w] = "finalize" /\ status # OrderStatusRefundPending))
      BY <2>3 DEF RestoreStatus, MarkGwFailed, MarkRefundOk, MarkRefundPending,
         FinalizeRefundFailed, SetStatus
    <3>3. w \in Executing \/ job[w] = "finalize"
      BY <2>3 DEF RestoreStatus, MarkGwFailed, MarkRefundOk, MarkRefundPending,
         FinalizeRefundFailed, JobByStep, Executing, Locked
    <3>4. ~intruded' => Executing' = {}
      <4>1. ~intruded' => ~intruded
        BY <3>2
      <4>2. CASE w \in Executing
        BY <3>1, <4>1, <4>2 DEF LockHeld
      <4>3. CASE w \notin Executing
        <5>1. ~intruded' => status = OrderStatusRefundPending
          BY <3>2, <3>3, <4>3
        <5>2. QED
          BY <3>1, <4>1, <5>1 DEF LockHeld, OrderStatusRefundPending, OrderStatusRefunding
      <4>4. QED
        BY <4>2, <4>3
    <3>5. QED
      BY <3>4 DEF LockHeld
  <2>4. CASE \/ LatestRefundPendingDetail(w) \/ QueryRefund(w) \/ QueryAnswerUnknown(w)
             \/ CheckRefundSuccess(w) \/ FinalDeduction(w)
    <3>1. job[w] = "finalize"
      BY <2>4 DEF LatestRefundPendingDetail, QueryRefund, QueryAnswerUnknown, Fault,
         CheckRefundSuccess, FinalDeduction, JobByStep
    <3>2. Executing' \subseteq Executing
      <4>1. /\ job'[w] \in {job[w], "none"}
            /\ \A v \in Workers \ {w} : pc'[v] = pc[v] /\ job'[v] = job[v]
        BY <2>4 DEF LatestRefundPendingDetail, QueryRefund, QueryAnswerUnknown, Fault,
           CheckRefundSuccess, FinalDeduction
      <4>2. QED
        BY <3>1, <4>1 DEF Executing
    <3>3. QED
      BY <2>4, <3>2, LockKept DEF LatestRefundPendingDetail, QueryRefund, QueryAnswerUnknown, Fault,
         CheckRefundSuccess, FinalDeduction, Decision, historyVars
  <2>5. QED
    BY <1>4, <2>1, <2>2, <2>3, <2>4 DEF ExecuteRefund, FinalizeRefund
<1>5. ASSUME NEW w \in Workers, CallFails(w) \/ Crash(w)
      PROVE  LockHeld'
  <2>1. pc'[w] \in Locked => pc[w] \in Locked \/ job[w] = "finalize"
    BY <1>5, GotoMoves, ContinueMoves, ReturnMoves DEF CallFails, Crash, Locked, JobByStep
  <2>2. job'[w] \in {job[w], "none"}
    BY <1>5, GotoMoves, ContinueMoves, ReturnMoves DEF CallFails, Crash
  <2>3. Executing' \subseteq Executing
    BY <1>5, <2>1, <2>2, GotoMoves, ContinueMoves, ReturnMoves DEF CallFails, Crash, Executing
  <2>4. QED
    BY <1>5, <2>3, LockKept DEF CallFails, Crash, Fault
<1>6. QED
  BY <1>1, <1>2, <1>3, <1>4, <1>5 DEF Next

LEMMA LockInit == Init => JobByStep /\ LockHeld
  BY DEF Init, JobByStep, LockHeld, Executing, Locked

\* As long as no finalisation overwrites a status other than REFUND_PENDING, at most
\* one request executes the refund, whatever the number of requests and faults.
THEOREM ExclusionCorrect == Spec => []RefundExclusive
<1>1. Spec => [](JobByStep /\ LockHeld)
  BY TypeCorrect, LockInit, JobStep, LockStep, PTL DEF Spec
<1>2. LockHeld => RefundExclusive
  BY DEF LockHeld, RefundExclusive
<1>3. QED
  BY <1>1, <1>2, PTL

-----------------------------------------------------------------------------
(* Rollbacks never exceed deductions.                                      *)

\* A step under which nobody new owes and nothing is given back.
LEMMA OwingKept ==
    ASSUME TypeOK, TypeOK', OwingCovered, Owing' \subseteq Owing, deducted' >= deducted
    PROVE  OwingCovered'
<1>1. IsFiniteSet(Owing') /\ Cardinality(Owing') <= Cardinality(Owing)
  BY FS_Subset DEF OwingCovered
<1>2. Cardinality(Owing) \in Nat /\ Cardinality(Owing') \in Nat
  BY <1>1, FS_CardinalityType DEF OwingCovered
<1>3. QED
  BY <1>1, <1>2 DEF OwingCovered, TypeOK

\* A deduction adds one unit and at most one worker that owes it.
LEMMA OwingGrows ==
    ASSUME TypeOK, OwingCovered, NEW w, Owing' \subseteq Owing \cup {w},
           deducted' = deducted + 1
    PROVE  OwingCovered'
<1>1. /\ IsFiniteSet(Owing \cup {w})
      /\ Cardinality(Owing \cup {w}) \in {Cardinality(Owing), Cardinality(Owing) + 1}
  BY FS_AddElement DEF OwingCovered
<1>2. IsFiniteSet(Owing') /\ Cardinality(Owing') <= Cardinality(Owing \cup {w})
  BY <1>1, FS_Subset
<1>3. Cardinality(Owing) \in Nat /\ Cardinality(Owing') \in Nat
  BY <1>2, FS_CardinalityType DEF OwingCovered
<1>4. QED
  BY <1>1, <1>2, <1>3 DEF OwingCovered, TypeOK

\* A rollback gives back a unit of a worker that owed it and owes it no more.
LEMMA OwingShrinks ==
    ASSUME TypeOK, OwingCovered, NEW w \in Owing, Owing' \subseteq Owing \ {w},
           deducted' = deducted - 1
    PROVE  OwingCovered'
<1>1. /\ IsFiniteSet(Owing \ {w})
      /\ Cardinality(Owing \ {w}) = Cardinality(Owing) - 1
  BY FS_RemoveElement DEF OwingCovered
<1>2. IsFiniteSet(Owing') /\ Cardinality(Owing') <= Cardinality(Owing \ {w})
  BY <1>1, FS_Subset
<1>3. Cardinality(Owing) \in Nat /\ Cardinality(Owing') \in Nat
  BY <1>2, FS_CardinalityType DEF OwingCovered
<1>4. QED
  BY <1>1, <1>2, <1>3 DEF OwingCovered, TypeOK

\* Only DeductBalance makes a worker owe, and only RollbackRefund gives back.
LEMMA OwingStep == TypeOK /\ TypeOK' /\ OwingCovered /\ [Next]_vars => OwingCovered'
<1> SUFFICES ASSUME TypeOK, TypeOK', OwingCovered, [Next]_vars PROVE OwingCovered'
  OBVIOUS
<1>0. deducted \in Int /\ deducted' \in Int
  BY DEF TypeOK
<1>1. CASE RequestRefund \/ ProviderSettles \/ UNCHANGED vars
  BY <1>1 DEF RequestRefund, ProviderSettles, vars, Owing, OwingCovered
<1>2. ASSUME NEW w \in Workers, PrepareRefund(w) \/ BeginFinalize(w)
      PROVE  OwingCovered'
  <2>1. Owing' \subseteq Owing
    BY <1>2, StartMoves DEF PrepareRefund, BeginFinalize, Owing
  <2>2. QED
    BY <1>0, <1>2, <2>1, OwingKept DEF PrepareRefund, BeginFinalize, Decision
<1>3. ASSUME NEW w \in Workers, ExecuteRefund(w) \/ FinalizeRefund(w)
      PROVE  OwingCovered'
  <2>0. plan[w].take \in {0, 1} /\ plan[w] \in Plans
    BY DEF TypeOK, Plans
  <2> USE <1>0, <2>0, GotoMoves, ContinueMoves, ReturnMoves
  <2>1. CASE DeductBalance(w)
    <3>1. Owing' \subseteq Owing \cup {w} /\ deducted' = deducted + 1
      BY <2>1 DEF DeductBalance, Owing
    <3>2. QED
      BY <3>1, OwingGrows
  <2>2. CASE RollbackRefund(w)
    <3>1. Owing' \subseteq Owing \ {w} /\ deducted' = deducted - plan[w].take
      BY <2>2 DEF RollbackRefund, RolledBack, Owing
    <3>2. CASE plan[w].take = 1
      <4>1. w \in Owing
        BY <2>2, <3>2 DEF RollbackRefund, Owing
      <4>2. QED
        BY <3>1, <3>2, <4>1, OwingShrinks
    <3>3. CASE plan[w].take = 0
      BY <3>1, <3>3, OwingKept
    <3>4. QED
      BY <3>2, <3>3
  <2>3. CASE Lock(w)
    <3>1. Owing' \subseteq Owing
      BY <2>3 DEF Lock, Owing
    <3>2. QED
      BY <2>3, <3>1, OwingKept DEF Lock
  <2>4. CASE CheckRollbackFailed(w)
    <3>1. /\ pc'[w] \in {"gateway", "rollback"} => plan'[w].take = 0
          /\ \A v \in Workers \ {w} : pc'[v] = pc[v] /\ plan'[v] = plan[v]
      <4>1. CASE rollbackFailed
        <5>1. plan'[w] = [plan[w] EXCEPT !.take = 0]
          BY <2>4, <4>1 DEF CheckRollbackFailed
        <5>2. plan'[w].take = 0
          BY <2>0, <5>1 DEF Plans
        <5>3. QED
          BY <2>4, <4>1, <5>2 DEF CheckRollbackFailed
      <4>2. CASE ~rollbackFailed
        BY <2>4, <4>2 DEF CheckRollbackFailed
      <4>3. QED
        BY <4>1, <4>2
    <3>2. Owing' \subseteq Owing
      BY <3>1 DEF Owing
    <3>3. QED
      BY <2>4, <3>2, OwingKept DEF CheckRollbackFailed, Decision
  <2>5. CASE RegisterOffline(w) \/ GwRefund(w) \/ GwAnswerLost(w)
    <3>1. /\ pc[w] = "gateway" /\ plan'[w].take = plan[w].take
          /\ \A v \in Workers \ {w} : pc'[v] = pc[v] /\ plan'[v] = plan[v]
      <4>1. pc[w] = "gateway" /\ (OnSuccess(w) \/ OnPending(w) \/ OnError(w))
        BY <2>5 DEF RegisterOffline, GwRefund, GwAnswerLost
      <4>2. CASE OnSuccess(w)
        BY <4>1, <4>2 DEF OnSuccess
      <4>3. CASE OnPending(w)
        <5>1. plan'[w] = [plan[w] EXCEPT !.resp = "pending"]
          BY <4>3 DEF OnPending
        <5>2. plan'[w].take = plan[w].take
          BY <2>0, <5>1 DEF Plans
        <5>3. QED
          BY <4>1, <4>3, <5>2 DEF OnPending
      <4>4. CASE OnError(w)
        <5>1. plan'[w] = [plan[w] EXCEPT !.resp = "error"]
          BY <4>4 DEF OnError
        <5>2. plan'[w].take = plan[w].take
          BY <2>0, <5>1 DEF Plans
        <5>3. QED
          BY <4>1, <4>4, <5>2 DEF OnError
      <4>5. QED
        BY <4>1, <4>2, <4>3, <4>4
    <3>2. Owing' \subseteq Owing
      BY <3>1 DEF Owing
    <3>3. deducted' = deducted
      BY <2>5 DEF RegisterOffline, GwRefund, GwAnswerLost, Fault
    <3>4. QED
      BY <3>2, <3>3, OwingKept
  <2>6. CASE \/ AuditRollbackFailed(w) \/ RestoreStatus(w) \/ MarkGwFailed(w) \/ MarkRefundOk(w)
             \/ SettleAndAudit(w) \/ MarkRefundPending(w) \/ AuditPending(w)
    <3>1. /\ pc'[w] \notin {"gateway", "rollback"}
          /\ \A v \in Workers \ {w} : pc'[v] = pc[v] /\ plan'[v] = plan[v]
      <4>1. CASE RestoreStatus(w) \/ MarkGwFailed(w) \/ SettleAndAudit(w) \/ AuditPending(w)
        BY <4>1 DEF RestoreStatus, MarkGwFailed, SettleAndAudit, AuditPending
      <4>2. CASE AuditRollbackFailed(w)
        BY <4>2 DEF AuditRollbackFailed
      <4>3. CASE MarkRefundOk(w) \/ MarkRefundPending(w)
        BY <4>3 DEF MarkRefundOk, MarkRefundPending
      <4>4. QED
        BY <2>6, <4>1, <4>2, <4>3
    <3>2. Owing' \subseteq Owing
      BY <3>1 DEF Owing
    <3>3. deducted' = deducted
      BY <2>6 DEF AuditRollbackFailed, RestoreStatus, MarkGwFailed, MarkRefundOk,
         SettleAndAudit, MarkRefundPending, AuditPending, SetStatus
    <3>4. QED
      BY <3>2, <3>3, OwingKept
  <2>7. CASE FinalizeRefund(w)
    <3>1. Owing' \subseteq Owing
      BY <2>7 DEF FinalizeRefund, LatestRefundPendingDetail, QueryRefund, QueryAnswerUnknown, Fault,
         CheckRefundSuccess, FinalDeduction, FinalizeRefundFailed, Owing
    <3>2. deducted' \in {deducted, deducted + 1}
      BY <2>7 DEF FinalizeRefund, LatestRefundPendingDetail, QueryRefund, QueryAnswerUnknown, Fault,
         CheckRefundSuccess, FinalDeduction, FinalizeRefundFailed, SetStatus, Decision
    <3>3. QED
      BY <3>1, <3>2, OwingKept
  <2>8. QED
    BY <1>3, <2>1, <2>2, <2>3, <2>4, <2>5, <2>6, <2>7 DEF ExecuteRefund
<1>4. ASSUME NEW w \in Workers, CallFails(w) \/ Crash(w)
      PROVE  OwingCovered'
  <2>1. Owing' \subseteq Owing
    BY <1>4, GotoMoves, ContinueMoves, ReturnMoves DEF CallFails, Crash, Owing
  <2>2. QED
    BY <1>0, <1>4, <2>1, OwingKept DEF CallFails, Crash, Fault
<1>5. QED
  BY <1>1, <1>2, <1>3, <1>4 DEF Next

LEMMA OwingInit == Init => OwingCovered
<1> SUFFICES ASSUME Init PROVE OwingCovered
  OBVIOUS
<1>1. Owing = {}
  BY DEF Init, Owing
<1>2. QED
  BY <1>1, FS_EmptySet DEF Init, OwingCovered

\* The rollbacks of an order never give back more than its refunds have taken,
\* whatever the number of requests, retries and faults.
THEOREM RollbackBounded == Spec => []NeverOvercredited
<1>1. Spec => []OwingCovered
  BY TypeCorrect, OwingInit, OwingStep, PTL DEF Spec
<1>2. TypeOK /\ OwingCovered => NeverOvercredited
  <2> SUFFICES ASSUME TypeOK, OwingCovered PROVE NeverOvercredited
    OBVIOUS
  <2>1. Cardinality(Owing) \in Nat
    BY FS_CardinalityType DEF OwingCovered
  <2>2. QED
    BY <2>1 DEF OwingCovered, NeverOvercredited, TypeOK
<1>3. QED
  BY <1>1, <1>2, TypeCorrect, PTL

-----------------------------------------------------------------------------
(* A retry does not deduct while a deduction stands.                       *)

\* The histories only grow.
LEMMA HistoryStable ==
    ASSUME [Next]_vars PROVE (intruded => intruded') /\ (unguarded => unguarded')
<1> USE DEF historyVars, Decision, Fault
<1>1. CASE RequestRefund \/ ProviderSettles \/ UNCHANGED vars
  BY <1>1 DEF RequestRefund, ProviderSettles, vars
<1>2. ASSUME NEW w \in Workers, PrepareRefund(w) \/ BeginFinalize(w)
      PROVE  (intruded => intruded') /\ (unguarded => unguarded')
  BY <1>2 DEF PrepareRefund, BeginFinalize
<1>3. ASSUME NEW w \in Workers, CallFails(w) \/ Crash(w)
      PROVE  (intruded => intruded') /\ (unguarded => unguarded')
  <2>1. intruded' = intruded
    BY <1>3 DEF CallFails, Crash
  <2>2. unguarded => unguarded'
    BY <1>3, Zenon DEF CallFails, Crash
  <2>3. QED
    BY <2>1, <2>2
<1>4. ASSUME NEW w \in Workers, ExecuteRefund(w) \/ FinalizeRefund(w)
      PROVE  (intruded => intruded') /\ (unguarded => unguarded')
  <2>1. CASE \/ RestoreStatus(w) \/ MarkGwFailed(w) \/ MarkRefundOk(w) \/ MarkRefundPending(w)
             \/ FinalizeRefundFailed(w)
    <3>1. (intruded => intruded') /\ unguarded' = unguarded
      BY <2>1, Zenon DEF RestoreStatus, MarkGwFailed, MarkRefundOk, MarkRefundPending,
         FinalizeRefundFailed, SetStatus
    <3>2. QED
      BY <3>1
  <2>2. CASE \/ Lock(w) \/ CheckRollbackFailed(w) \/ DeductBalance(w) \/ RegisterOffline(w)
             \/ GwRefund(w) \/ GwAnswerLost(w) \/ RollbackRefund(w) \/ AuditRollbackFailed(w)
    BY <2>2 DEF Lock, CheckRollbackFailed, DeductBalance, RegisterOffline, GwRefund,
       GwAnswerLost, RollbackRefund, AuditRollbackFailed
  <2>3. CASE SettleAndAudit(w) \/ AuditPending(w)
    <3>1. intruded' = intruded /\ unguarded' = unguarded
      <4>1. UNCHANGED historyVars
        BY <2>3, Zenon DEF SettleAndAudit, AuditPending
      <4>2. QED
        BY <4>1
    <3>2. QED
      BY <3>1
  <2>4. CASE \/ LatestRefundPendingDetail(w) \/ QueryRefund(w) \/ QueryAnswerUnknown(w)
             \/ CheckRefundSuccess(w) \/ FinalDeduction(w)
    BY <2>4 DEF LatestRefundPendingDetail, QueryRefund, QueryAnswerUnknown,
       CheckRefundSuccess, FinalDeduction
  <2>5. QED
    BY <1>4, <2>1, <2>2, <2>3, <2>4 DEF ExecuteRefund, FinalizeRefund
<1>5. QED
  BY <1>1, <1>2, <1>3, <1>4 DEF Next

\* A step of w that changes neither the deduction nor the row, and puts a status
\* back only where no deduction stands unrecorded.
LEMMA GuardKept ==
    ASSUME Guarded, NEW w \in Workers, UNCHANGED <<deducted, rollbackFailed>>,
           \A v \in Workers \ {w} : pc'[v] = pc[v] /\ job'[v] = job[v] /\ plan'[v] = plan[v],
           status' \in Refundable => status \in Refundable \/ NoneStands,
           StandsByStep(w)'
    PROVE  Guarded'
<1>1. ASSUME NEW v \in Workers, v # w PROVE StandsByStep(v)'
  BY <1>1 DEF Guarded, StandsByStep, NoneStands
<1>2. status' \in Refundable => NoneStands'
  BY DEF Guarded, NoneStands
<1>3. Refundable' = Refundable
  BY DEF Refundable, OrderStatusCompleted, OrderStatusRefundRequested,
     OrderStatusRefundPending, OrderStatusRefundFailed
<1>4. QED
  BY <1>1, <1>2, <1>3 DEF Guarded

\* A step of w that executes: the others are at none of the calls that matter.
LEMMA GuardAlone ==
    ASSUME JobByStep, LockHeld, ~intruded, NEW w \in Workers, w \in Executing,
           \A v \in Workers \ {w} : pc'[v] = pc[v] /\ job'[v] = job[v] /\ plan'[v] = plan[v],
           status' = status,
           StandsByStep(w)'
    PROVE  Guarded'
<1>1. ASSUME NEW v \in Workers, v # w PROVE StandsByStep(v)'
  <2>1. v \notin Executing
    BY <1>1 DEF LockHeld
  <2>2. pc[v] \notin Locked \ {"markOk"}
    BY <2>1 DEF JobByStep, Executing
  <2>3. pc'[v] \notin {"check", "deduct", "gateway", "rollback", "restore", "gwFailed",
                       "markPending"}
    BY <1>1, <2>2 DEF Locked
  <2>4. QED
    BY <2>3 DEF StandsByStep
<1>2. status' \notin Refundable'
  BY DEF LockHeld, Refundable, OrderStatusCompleted, OrderStatusRefundRequested,
     OrderStatusRefundPending, OrderStatusRefundFailed, OrderStatusRefunding
<1>3. QED
  BY <1>1, <1>2 DEF Guarded

\* A finalisation that has written its status leaves a refunded order, and nobody
\* was executing.
LEMMA FinishedGuards ==
    ASSUME TypeOK, JobByStep, LockHeld, [Next]_vars, NEW v \in Workers, Finishing(v),
           ~intruded', ~unguarded', \A w \in Workers : ~Finishing(w)'
    PROVE  Guarded'
<1>0. pc[v] = "markOk" /\ job[v] = "finalize" /\ ~(pc'[v] = pc[v] /\ job'[v] = job[v])
  BY DEF Finishing
<1>1. ~RequestRefund /\ ~ProviderSettles /\ ~UNCHANGED vars
  BY <1>0 DEF RequestRefund, ProviderSettles, vars
<1>2. ASSUME NEW w \in Workers, PrepareRefund(w) \/ BeginFinalize(w) PROVE FALSE
  BY <1>0, <1>2, StartMoves DEF PrepareRefund, BeginFinalize
<1>3. ASSUME NEW w \in Workers, CallFails(w) \/ Crash(w) PROVE FALSE
  <2>1. w = v
    BY <1>0, <1>3, GotoMoves, ContinueMoves, ReturnMoves DEF CallFails, Crash
  <2>2. LosesRecord(v)
    BY DEF LosesRecord
  <2>3. QED
    BY <1>3, <2>1, <2>2, Zenon DEF CallFails, Crash
<1>4. ASSUME NEW w \in Workers, ExecuteRefund(w) \/ FinalizeRefund(w)
      PROVE  w = v /\ MarkRefundOk(v)
  <2> USE GotoMoves, ContinueMoves, ReturnMoves
  <2>1. CASE \/ Lock(w) \/ CheckRollbackFailed(w) \/ DeductBalance(w) \/ RegisterOffline(w)
             \/ GwRefund(w) \/ GwAnswerLost(w)
    BY <1>0, <2>1 DEF Lock, CheckRollbackFailed, DeductBalance, RegisterOffline, GwRefund,
       GwAnswerLost, OnSuccess, OnPending, OnError
  <2>2. CASE \/ RollbackRefund(w) \/ AuditRollbackFailed(w) \/ RestoreStatus(w)
             \/ MarkGwFailed(w) \/ SettleAndAudit(w) \/ MarkRefundPending(w) \/ AuditPending(w)
    BY <1>0, <2>2 DEF RollbackRefund, AuditRollbackFailed, RestoreStatus, MarkGwFailed,
       SettleAndAudit, MarkRefundPending, AuditPending
  <2>3. CASE MarkRefundOk(w)
    BY <1>0, <2>3 DEF MarkRefundOk
  <2>4. CASE FinalizeRefund(w)
    BY <1>0, <2>4 DEF FinalizeRefund, LatestRefundPendingDetail, QueryRefund,
       QueryAnswerUnknown, CheckRefundSuccess, FinalDeduction, FinalizeRefundFailed
  <2>5. QED
    BY <1>4, <2>1, <2>2, <2>3, <2>4 DEF ExecuteRefund
<1>5. MarkRefundOk(v)
  BY <1>1, <1>2, <1>3, <1>4 DEF Next
<1>6. status = OrderStatusRefundPending /\ ~intruded
  <2>1. intruded' = (intruded \/ (job[v] = "finalize" /\ status # OrderStatusRefundPending))
    BY <1>5 DEF MarkRefundOk, SetStatus
  <2>2. QED
    BY <1>0, <2>1
<1>7. Executing = {}
  BY <1>6 DEF LockHeld, OrderStatusRefundPending, OrderStatusRefunding
<1>8. status' \notin Refundable
  BY <1>5 DEF MarkRefundOk, SetStatus, Refunded, OrderStatusRefunded,
     OrderStatusPartiallyRefunded, Refundable, OrderStatusCompleted,
     OrderStatusRefundRequested, OrderStatusRefundPending, OrderStatusRefundFailed
<1>9. ASSUME NEW u \in Workers PROVE StandsByStep(u)'
  <2>1. pc[u] \notin Locked \ {"markOk"}
    BY <1>7 DEF JobByStep, Executing
  <2>2. pc'[u] \notin {"check", "deduct", "gateway", "rollback", "restore", "gwFailed",
                       "markPending"}
    BY <1>5, <2>1, GotoMoves DEF MarkRefundOk, Locked
  <2>3. QED
    BY <2>2 DEF StandsByStep
<1>10. QED
  BY <1>8, <1>9 DEF Guarded, Refundable, OrderStatusCompleted, OrderStatusRefundRequested,
     OrderStatusRefundPending, OrderStatusRefundFailed

\* The guard holds on: every deduction of an execution is rolled back or recorded
\* before its order may be refunded again.
LEMMA GuardStep ==
    TypeOK /\ JobByStep /\ LockHeld /\ GuardHeld /\ [Next]_vars => GuardHeld'
<1> SUFFICES ASSUME TypeOK, JobByStep, LockHeld, GuardHeld, [Next]_vars,
                    ~intruded', ~unguarded', \A v \in Workers : ~Finishing(v)'
             PROVE  Guarded'
  BY DEF GuardHeld
<1>0. ~intruded /\ ~unguarded
  BY HistoryStable
<1>1. CASE \E v \in Workers : Finishing(v)
  BY <1>1, FinishedGuards
<1> SUFFICES ASSUME Guarded, \A v \in Workers : ~Finishing(v) PROVE Guarded'
  BY <1>0, <1>1 DEF GuardHeld
<1> DEFINE Still(w) ==
             \A v \in Workers \ {w} : pc'[v] = pc[v] /\ job'[v] = job[v] /\ plan'[v] = plan[v]
<1>2. CASE RequestRefund
  BY <1>2 DEF RequestRefund, Guarded, StandsByStep, NoneStands, Refundable, auditVars,
     OrderStatusCompleted, OrderStatusRefundRequested, OrderStatusRefundPending,
     OrderStatusRefundFailed
<1>3. CASE ProviderSettles \/ UNCHANGED vars
  BY <1>3 DEF ProviderSettles, vars, auditVars, Guarded, StandsByStep, NoneStands, Refundable,
     OrderStatusCompleted, OrderStatusRefundRequested, OrderStatusRefundPending,
     OrderStatusRefundFailed
<1>4. ASSUME NEW w \in Workers, PrepareRefund(w) \/ BeginFinalize(w) PROVE Guarded'
  <2>1. Still(w) /\ pc'[w] \in {"lock", "detail"}
    BY <1>4, StartMoves DEF PrepareRefund, BeginFinalize
  <2>2. StandsByStep(w)'
    BY <2>1 DEF StandsByStep
  <2>3. QED
    BY <1>4, <2>1, <2>2, GuardKept DEF PrepareRefund, BeginFinalize, Decision, auditVars
<1>5. ASSUME NEW w \in Workers, ExecuteRefund(w) PROVE Guarded'
  <2>0. StandsByStep(w) /\ plan[w] \in Plans /\ plan[w].take \in {0, 1} /\ deducted \in Int
    BY DEF Guarded, TypeOK, Plans
  <2> USE GotoMoves, ContinueMoves, ReturnMoves DEF auditVars
  <2>1. CASE Lock(w)
    <3>1. Still(w) /\ UNCHANGED <<deducted, rollbackFailed>>
      BY <2>1 DEF Lock
    <3>2. CASE status \in Refundable
      <4>1. NoneStands
        BY <3>2 DEF Guarded
      <4>2. /\ pc'[w] = IF plan[w].take = 1 THEN "check" ELSE "gateway"
            /\ plan'[w] = plan[w]
        BY <2>1, <3>2 DEF Lock
      <4>3. StandsByStep(w)'
        BY <2>0, <3>1, <4>1, <4>2 DEF StandsByStep, NoneStands
      <4>4. QED
        BY <3>1, <4>1, <4>3, GuardKept
    <3>3. CASE status \notin Refundable
      <4>1. pc'[w] = "idle" /\ status' = status
        BY <2>1, <3>3 DEF Lock
      <4>2. StandsByStep(w)'
        BY <4>1 DEF StandsByStep
      <4>3. QED
        BY <3>1, <4>1, <4>2, GuardKept
    <3>4. QED
      BY <3>2, <3>3
  <2>2. CASE CheckRollbackFailed(w)
    <3>1. Still(w) /\ UNCHANGED <<deducted, rollbackFailed, status>>
      BY <2>2 DEF CheckRollbackFailed, Decision
    <3>2. NoneStands /\ plan[w].take = 1
      BY <2>0, <2>2 DEF CheckRollbackFailed, StandsByStep
    <3>3. StandsByStep(w)'
      <4>1. CASE rollbackFailed
        <5>1. pc'[w] = "gateway" /\ plan'[w].take = 0
          BY <2>0, <2>2, <4>1 DEF CheckRollbackFailed, Plans
        <5>2. QED
          BY <3>1, <3>2, <5>1 DEF StandsByStep, NoneStands
      <4>2. CASE ~rollbackFailed
        <5>1. pc'[w] = "deduct" /\ plan'[w] = plan[w] /\ deducted = 0
          BY <2>2, <3>2, <4>2 DEF CheckRollbackFailed, NoneStands
        <5>2. QED
          BY <3>1, <3>2, <4>2, <5>1 DEF StandsByStep, NoneStands
      <4>3. QED
        BY <4>1, <4>2
    <3>4. QED
      BY <3>1, <3>3, GuardKept
  <2>3. CASE DeductBalance(w)
    <3>1. /\ Still(w) /\ status' = status
          /\ pc'[w] = "gateway" /\ plan'[w] = plan[w]
          /\ deducted' = deducted + 1 /\ rollbackFailed' = rollbackFailed
      BY <2>3 DEF DeductBalance
    <3>2. deducted = 0 /\ ~rollbackFailed /\ plan[w].take = 1
      BY <2>0, <2>3 DEF DeductBalance, StandsByStep
    <3>3. StandsByStep(w)'
      BY <3>1, <3>2 DEF StandsByStep
    <3>4. w \in Executing
      BY <2>3 DEF DeductBalance, JobByStep, Executing, Locked
    <3>5. QED
      BY <1>0, <3>1, <3>3, <3>4, GuardAlone
  <2>4. CASE RegisterOffline(w) \/ GwRefund(w) \/ GwAnswerLost(w)
    <3>1. pc[w] = "gateway" /\ (OnSuccess(w) \/ OnPending(w) \/ OnError(w))
      BY <2>4 DEF RegisterOffline, GwRefund, GwAnswerLost
    <3>2. /\ Still(w) /\ pc'[w] \in {"markOk", "rollback"}
          /\ plan'[w].take = plan[w].take
      BY <2>0, <3>1 DEF OnSuccess, OnPending, OnError, Plans
    <3>3. UNCHANGED <<deducted, rollbackFailed, status>>
      BY <2>4 DEF RegisterOffline, GwRefund, GwAnswerLost, Fault
    <3>4. StandsByStep(w)'
      BY <2>0, <3>1, <3>2, <3>3 DEF StandsByStep, NoneStands
    <3>5. QED
      BY <3>2, <3>3, <3>4, GuardKept
  <2>5. CASE RollbackRefund(w)
    <3>1. /\ Still(w) /\ status' = status /\ pc[w] = "rollback"
          /\ pc'[w] \in {"restore", "markPending"}
          /\ deducted' = deducted - plan[w].take /\ rollbackFailed' = rollbackFailed
      BY <2>5 DEF RollbackRefund, RolledBack
    <3>2. deducted' = 0 \/ rollbackFailed'
      BY <2>0, <3>1 DEF StandsByStep, NoneStands
    <3>3. StandsByStep(w)'
      BY <3>1, <3>2 DEF StandsByStep, NoneStands
    <3>4. w \in Executing
      BY <3>1 DEF JobByStep, Executing, Locked
    <3>5. QED
      BY <1>0, <3>1, <3>3, <3>4, GuardAlone
  <2>6. CASE AuditRollbackFailed(w)
    <3>1. /\ Still(w) /\ status' = status /\ pc[w] = "auditRollback"
          /\ pc'[w] \in {"gwFailed", "markPending"} /\ rollbackFailed'
      BY <2>6 DEF AuditRollbackFailed
    <3>2. StandsByStep(w)'
      BY <3>1 DEF StandsByStep, NoneStands
    <3>3. w \in Executing
      BY <3>1 DEF JobByStep, Executing, Locked
    <3>4. QED
      BY <1>0, <3>1, <3>2, <3>3, GuardAlone
  <2>7. CASE RestoreStatus(w) \/ MarkGwFailed(w) \/ MarkRefundPending(w)
    <3>1. /\ Still(w) /\ pc[w] \in {"restore", "gwFailed", "markPending"}
          /\ pc'[w] \in {"idle", "auditPending"}
          /\ UNCHANGED <<deducted, rollbackFailed>>
      BY <2>7 DEF RestoreStatus, MarkGwFailed, MarkRefundPending, SetStatus
    <3>2. NoneStands /\ StandsByStep(w)'
      BY <2>0, <3>1 DEF StandsByStep, NoneStands
    <3>3. QED
      BY <3>1, <3>2, GuardKept
  <2>8. CASE MarkRefundOk(w)
    <3>1. Still(w) /\ pc'[w] = "auditOk" /\ UNCHANGED <<deducted, rollbackFailed>>
      BY <2>8 DEF MarkRefundOk, SetStatus
    <3>2. status' \notin Refundable
      BY <2>8 DEF MarkRefundOk, SetStatus, Refunded, OrderStatusRefunded,
         OrderStatusPartiallyRefunded, Refundable, OrderStatusCompleted,
         OrderStatusRefundRequested, OrderStatusRefundPending, OrderStatusRefundFailed
    <3>3. StandsByStep(w)'
      BY <3>1 DEF StandsByStep
    <3>4. QED
      BY <3>1, <3>2, <3>3, GuardKept
  <2>9. CASE SettleAndAudit(w) \/ AuditPending(w)
    <3>1. Still(w) /\ pc'[w] = "idle" /\ UNCHANGED <<deducted, rollbackFailed, status>>
      BY <2>9 DEF SettleAndAudit, AuditPending
    <3>2. StandsByStep(w)'
      BY <3>1 DEF StandsByStep
    <3>3. QED
      BY <3>1, <3>2, GuardKept
  <2>10. QED
    BY <1>5, <2>1, <2>2, <2>3, <2>4, <2>5, <2>6, <2>7, <2>8, <2>9 DEF ExecuteRefund
<1>6. ASSUME NEW w \in Workers, FinalizeRefund(w) PROVE Guarded'
  <2> USE GotoMoves, ContinueMoves, ReturnMoves DEF auditVars
  <2>1. CASE LatestRefundPendingDetail(w) \/ QueryRefund(w) \/ QueryAnswerUnknown(w)
    <3>1. /\ Still(w) /\ pc'[w] \in {"query", "finCheck", "finFail", "idle"}
          /\ UNCHANGED <<deducted, rollbackFailed, status>>
      BY <2>1 DEF LatestRefundPendingDetail, QueryRefund, QueryAnswerUnknown, Decision, Fault
    <3>2. StandsByStep(w)'
      BY <3>1 DEF StandsByStep
    <3>3. QED
      BY <3>1, <3>2, GuardKept
  <2>2. CASE CheckRefundSuccess(w) \/ FinalDeduction(w)
    <3>1. job[w] = "finalize"
      BY <2>2 DEF CheckRefundSuccess, FinalDeduction, JobByStep
    <3>2. pc'[w] # "markOk"
      BY <2>2, <3>1 DEF CheckRefundSuccess, FinalDeduction, Finishing
    <3>3. /\ Still(w) /\ pc'[w] = "finDeduct" /\ UNCHANGED <<deducted, rollbackFailed, status>>
      BY <2>2, <3>2 DEF CheckRefundSuccess, FinalDeduction, Decision
    <3>4. StandsByStep(w)'
      BY <3>3 DEF StandsByStep
    <3>5. QED
      BY <3>3, <3>4, GuardKept
  <2>3. CASE FinalizeRefundFailed(w)
    <3>1. Still(w) /\ pc'[w] = "idle" /\ UNCHANGED <<deducted, rollbackFailed>>
      BY <2>3 DEF FinalizeRefundFailed, SetStatus
    <3>2. status = OrderStatusRefundPending
      <4>1. job[w] = "finalize"
        BY <2>3 DEF FinalizeRefundFailed, JobByStep
      <4>2. intruded' = (intruded \/ (job[w] = "finalize" /\ status # OrderStatusRefundPending))
        BY <2>3 DEF FinalizeRefundFailed, SetStatus
      <4>3. QED
        BY <4>1, <4>2
    <3>3. StandsByStep(w)' /\ status \in Refundable
      BY <3>1, <3>2 DEF StandsByStep, Refundable
    <3>4. QED
      BY <3>1, <3>3, GuardKept
  <2>4. QED
    BY <1>6, <2>1, <2>2, <2>3 DEF FinalizeRefund
<1>7. ASSUME NEW w \in Workers, CallFails(w) \/ Crash(w) PROVE Guarded'
  <2>0. StandsByStep(w)
    BY DEF Guarded
  <2>1. UNCHANGED <<deducted, rollbackFailed, status>>
    BY <1>7 DEF CallFails, Crash, Fault, auditVars
  <2>2. /\ Still(w)
        /\ \/ pc'[w] = "idle"
           \/ pc[w] = "check" /\ pc'[w] = "deduct" /\ plan'[w] = plan[w]
           \/ pc[w] = "deduct" /\ pc'[w] = "restore" /\ plan'[w] = plan[w]
           \/ pc[w] = "auditRollback"
           \/ pc'[w] \in {"auditRollback", "query", "finDeduct", "markOk"}
    BY <1>7, GotoMoves, ContinueMoves, ReturnMoves DEF CallFails, Crash
  <2>3. CASE pc'[w] = "idle" \/ pc'[w] \in {"auditRollback", "query", "finDeduct", "markOk"}
    <3>1. StandsByStep(w)'
      BY <2>3 DEF StandsByStep
    <3>2. QED
      BY <2>1, <2>2, <3>1, GuardKept
  <2>4. CASE pc[w] = "auditRollback" /\ pc'[w] # "idle"
    <3>1. CallFails(w) /\ LosesRecord(w)
      BY <1>7, <2>4, ReturnMoves DEF Crash, LosesRecord
    <3>2. QED
      BY <3>1, Zenon DEF CallFails
  <2>5. CASE pc[w] = "check" /\ pc'[w] = "deduct" /\ plan'[w] = plan[w]
    <3>1. CallFails(w)
      BY <1>7, <2>5, ReturnMoves DEF Crash
    <3>2. ~LosesRecord(w)
      BY <3>1, Zenon DEF CallFails
    <3>3. ~rollbackFailed
      BY <2>5, <3>2 DEF LosesRecord
    <3>4. StandsByStep(w)'
      BY <2>0, <2>1, <2>5, <3>3 DEF StandsByStep, NoneStands
    <3>5. QED
      BY <2>1, <2>2, <3>4, GuardKept
  <2>6. CASE pc[w] = "deduct" /\ pc'[w] = "restore" /\ plan'[w] = plan[w]
    <3>1. StandsByStep(w)'
      BY <2>0, <2>1, <2>6 DEF StandsByStep, NoneStands
    <3>2. QED
      BY <2>1, <2>2, <3>1, GuardKept
  <2>7. QED
    BY <2>2, <2>3, <2>4, <2>5, <2>6
<1>8. QED
  BY <1>2, <1>3, <1>4, <1>5, <1>6, <1>7 DEF Next

\* Under the guard, a deduction on top of another is a finalisation's.
LEMMA GuardGivesOnce ==
    TypeOK /\ JobByStep /\ GuardHeld /\ [Next]_vars =>
        [deducted' > deducted /\ deducted > 0 /\ ~intruded /\ ~unguarded
             => \E w \in Workers : Finishing(w)']_vars
<1> SUFFICES ASSUME TypeOK, JobByStep, GuardHeld, Next,
                    deducted' > deducted, deducted > 0, ~intruded, ~unguarded
             PROVE  \E w \in Workers : Finishing(w)'
  OBVIOUS
<1>0. deducted \in Int
  BY DEF TypeOK
<1>1. ASSUME NEW w \in Workers, DeductBalance(w) PROVE \E v \in Workers : Finishing(v)'
  <2>1. pc[w] = "deduct"
    BY <1>1 DEF DeductBalance
  <2>2. ~Guarded
    BY <1>0, <2>1 DEF Guarded, StandsByStep
  <2>3. PICK v \in Workers : Finishing(v)
    BY <2>2 DEF GuardHeld
  <2>4. Finishing(v)'
    BY <1>1, <2>1, <2>3, GotoMoves DEF DeductBalance, Finishing
  <2>5. QED
    BY <2>4
<1>2. ASSUME NEW w \in Workers, FinalDeduction(w) PROVE Finishing(w)'
  BY <1>2, GotoMoves DEF FinalDeduction, Finishing, JobByStep
<1>3. ~(RequestRefund \/ ProviderSettles)
  BY <1>0 DEF RequestRefund, ProviderSettles
<1>4. ASSUME NEW w \in Workers, PrepareRefund(w) \/ BeginFinalize(w) \/ CallFails(w) \/ Crash(w)
      PROVE  FALSE
  BY <1>0, <1>4 DEF PrepareRefund, BeginFinalize, CallFails, Crash, Decision, Fault
<1>5. ASSUME NEW w \in Workers, ExecuteRefund(w), ~DeductBalance(w) PROVE FALSE
  <2>0. plan[w].take \in {0, 1}
    BY DEF TypeOK, Plans
  <2>1. CASE RollbackRefund(w)
    BY <1>0, <2>0, <2>1 DEF RollbackRefund, RolledBack
  <2>2. CASE \/ Lock(w) \/ CheckRollbackFailed(w) \/ RegisterOffline(w) \/ GwRefund(w)
             \/ GwAnswerLost(w) \/ AuditRollbackFailed(w)
    BY <1>0, <2>2 DEF Lock, CheckRollbackFailed, RegisterOffline, GwRefund, GwAnswerLost,
       AuditRollbackFailed, Decision, Fault
  <2>3. CASE \/ RestoreStatus(w) \/ MarkGwFailed(w) \/ MarkRefundOk(w) \/ SettleAndAudit(w)
             \/ MarkRefundPending(w) \/ AuditPending(w)
    <3>1. deducted' = deducted
      BY <2>3, Zenon DEF RestoreStatus, MarkGwFailed, MarkRefundOk, SettleAndAudit,
         MarkRefundPending, AuditPending, SetStatus
    <3>2. QED
      BY <1>0, <3>1
  <2>4. QED
    BY <1>5, <2>1, <2>2, <2>3 DEF ExecuteRefund
<1>6. ASSUME NEW w \in Workers, FinalizeRefund(w), ~FinalDeduction(w) PROVE FALSE
  BY <1>0, <1>6 DEF FinalizeRefund, LatestRefundPendingDetail, QueryRefund,
     QueryAnswerUnknown, CheckRefundSuccess, FinalizeRefundFailed, SetStatus, Decision, Fault
<1>7. QED
  BY <1>1, <1>2, <1>3, <1>4, <1>5, <1>6 DEF Next

\* However many requests execute, retry and finalise the refund, and whatever fails,
\* the rollback too: while the row REFUND_ROLLBACK_FAILED is written and read, no
\* finalisation is cut off after its deduction and none writes over another's
\* status, an execution does not deduct on top of a deduction that stands.
THEOREM RetryCorrect == Spec => RetryDeductsOnce
<1>1. Init => GuardHeld
  BY DEF Init, GuardHeld, Guarded, StandsByStep, NoneStands
<1>2. Spec => [](JobByStep /\ LockHeld)
  BY TypeCorrect, LockInit, JobStep, LockStep, PTL DEF Spec
<1>3. Spec => []GuardHeld
  BY <1>1, <1>2, TypeCorrect, GuardStep, PTL DEF Spec
<1>4. QED
  BY <1>2, <1>3, TypeCorrect, GuardGivesOnce, PTL DEF Spec, RetryDeductsOnce

-----------------------------------------------------------------------------
(* One request at a time.                                                  *)

\* At most one request works on the order.
Alone == \A v, w \in Workers : v = w

\* Moreover every plan deducts, a rollback does not fail, and the write of
\* REFUNDED is reached and succeeds: the faults that RefundedIsDeducted cannot
\* survive.  Every other call may fail and every other step may be the last.
Sequential ==
    /\ Alone
    /\ 0 \notin Takes
    /\ FaultAt \cap {"rollback", "markOk"} = {}
    /\ "markOk" \notin CrashAt

\* What stands deducted, by the status of the order ...
DeductedByStatus ==
    /\ deducted \in {0, 1}
    /\ ~rollbackFailed /\ pendingRow # "notOk"
    /\ success => status \in Refunded
    /\ status \in Refunded => deducted = 1
    /\ status \in Refundable => deducted = 0 \/ \E w \in Workers : pc[w] = "markOk"

\* ... and by the call a worker is at.
DeductedByStep ==
    \A w \in Workers :
        /\ pc[w] \notin {"auditRollback", "gwFailed"} /\ plan[w].rolledBack
        /\ pc[w] \in {"lock", "check", "deduct", "gateway", "rollback"} => plan[w].take = 1
        /\ pc[w] \in {"check", "deduct", "restore", "markPending"} =>
               status = OrderStatusRefunding /\ deducted = 0
        /\ pc[w] \in {"gateway", "rollback"} => status = OrderStatusRefunding /\ deducted = 1
        /\ pc[w] = "markOk" =>
               status \in {OrderStatusRefunding, OrderStatusRefundPending} /\ deducted = 1
        /\ pc[w] = "auditOk" => status \in Refunded
        /\ pc[w] \in {"detail", "query", "finCheck", "finDeduct", "finFail"} =>
               status = OrderStatusRefundPending

\* Under Sequential each step keeps the account of what stands deducted.
LEMMA DeductedStep ==
    ASSUME Sequential
    PROVE  TypeOK /\ DeductedByStatus /\ DeductedByStep /\ [Next]_vars =>
               DeductedByStatus' /\ DeductedByStep'
<1> SUFFICES ASSUME TypeOK, DeductedByStatus, DeductedByStep, [Next]_vars
             PROVE  DeductedByStatus' /\ DeductedByStep'
  OBVIOUS
<1> USE DEF Refundable, Refunded, OrderStatusCompleted, OrderStatusRefundRequested,
    OrderStatusRefunding, OrderStatusRefundPending, OrderStatusRefundFailed,
    OrderStatusRefunded, OrderStatusPartiallyRefunded
<1>0. NoPlan.rolledBack
  BY DEF NoPlan, NewPlan
<1>1. CASE RequestRefund
  BY <1>1 DEF RequestRefund, DeductedByStatus, DeductedByStep, auditVars
<1>2. CASE ProviderSettles \/ UNCHANGED vars
  BY <1>2 DEF ProviderSettles, vars, DeductedByStatus, DeductedByStep, auditVars
<1>3. ASSUME NEW w \in Workers,
             \/ PrepareRefund(w) \/ BeginFinalize(w) \/ ExecuteRefund(w) \/ FinalizeRefund(w)
             \/ CallFails(w) \/ Crash(w)
      PROVE  DeductedByStatus' /\ DeductedByStep'
  <2>1. \A v \in Workers : v = w
    BY DEF Sequential, Alone
  <2>2. plan[w] \in Plans /\ deducted \in Int
    BY DEF TypeOK
  <2> USE <2>1, GotoMoves, ContinueMoves, ReturnMoves
      DEF DeductedByStatus, DeductedByStep, Decision, auditVars
  <2>3. CASE PrepareRefund(w)
    <3>1. PICK t \in Takes, o \in BOOLEAN : Start(w, "refund", "lock", NewPlan(status, t, o))
      BY <2>3 DEF PrepareRefund
    <3>2. t = 1
      BY RefundAssumption DEF Sequential
    <3>3. pc[w] = "idle" /\ pc'[w] = "lock" /\ plan'[w].take = 1 /\ plan'[w].rolledBack
      BY <3>1, <3>2, StartMoves DEF NewPlan
    <3>4. QED
      BY <2>3, <3>3 DEF PrepareRefund
  <2>4. CASE BeginFinalize(w)
    BY <1>0, <2>4, StartMoves DEF BeginFinalize
  <2>5. CASE ExecuteRefund(w)
    <3>1. CASE Lock(w)
      BY <1>0, <3>1 DEF Lock
    <3>2. CASE CheckRollbackFailed(w) \/ DeductBalance(w)
      BY <2>2, <3>2 DEF CheckRollbackFailed, DeductBalance
    <3>3. CASE RegisterOffline(w) \/ GwRefund(w) \/ GwAnswerLost(w)
      <4>1. pc[w] = "gateway" /\ (OnSuccess(w) \/ OnPending(w) \/ OnError(w))
        BY <3>3 DEF RegisterOffline, GwRefund, GwAnswerLost
      <4>2. /\ pc'[w] \in {"markOk", "rollback"}
            /\ plan'[w].take = plan[w].take /\ plan'[w].rolledBack = plan[w].rolledBack
        BY <2>2, <4>1 DEF OnSuccess, OnPending, OnError, Plans
      <4>3. UNCHANGED <<status, auditVars, deducted>>
        BY <3>3 DEF RegisterOffline, GwRefund, GwAnswerLost, Fault
      <4>4. QED
        BY <4>1, <4>2, <4>3
    <3>4. CASE RollbackRefund(w)
      BY <2>2, <3>4 DEF RollbackRefund, RolledBack
    <3>5. CASE AuditRollbackFailed(w) \/ MarkGwFailed(w)
      BY <3>5 DEF AuditRollbackFailed, MarkGwFailed
    <3>6. CASE RestoreStatus(w)
      BY <1>0, <3>6 DEF RestoreStatus, SetStatus, Restored
    <3>7. CASE MarkRefundOk(w) \/ MarkRefundPending(w)
      BY <3>7 DEF MarkRefundOk, MarkRefundPending, SetStatus
    <3>8. CASE SettleAndAudit(w)
      BY <1>0, <3>8 DEF SettleAndAudit
    <3>9. CASE AuditPending(w)
      <4>1. pendingRow' # "notOk"
        BY <3>9 DEF AuditPending
      <4>2. QED
        BY <1>0, <3>9, <4>1 DEF AuditPending
    <3>10. QED
      BY <2>5, <3>1, <3>2, <3>3, <3>4, <3>5, <3>6, <3>7, <3>8, <3>9 DEF ExecuteRefund
  <2>6. CASE FinalizeRefund(w)
    <3>1. CASE LatestRefundPendingDetail(w)
      <4>1. pc[w] = "detail" /\ pc'[w] = "query" /\ plan'[w].rolledBack
        BY <2>2, <3>1 DEF LatestRefundPendingDetail, Plans
      <4>2. QED
        BY <3>1, <4>1 DEF LatestRefundPendingDetail
    <3>2. CASE QueryRefund(w) \/ QueryAnswerUnknown(w)
      BY <1>0, <3>2 DEF QueryRefund, QueryAnswerUnknown, Fault
    <3>3. CASE CheckRefundSuccess(w)
      BY <3>3 DEF CheckRefundSuccess
    <3>4. CASE FinalDeduction(w)
      BY <2>2, <3>4 DEF FinalDeduction
    <3>5. CASE FinalizeRefundFailed(w)
      BY <1>0, <3>5 DEF FinalizeRefundFailed, SetStatus
    <3>6. QED
      BY <2>6, <3>1, <3>2, <3>3, <3>4, <3>5 DEF FinalizeRefund
  <2>7. CASE CallFails(w) \/ Crash(w)
    <3>1. UNCHANGED <<status, auditVars, deducted>>
      BY <2>7 DEF CallFails, Crash, Fault
    <3>2. pc[w] # "markOk"
      BY <2>7 DEF CallFails, Crash, Sequential
    <3>3. \/ pc'[w] = "idle" /\ plan'[w] = NoPlan
          \/ /\ plan'[w] = plan[w]
             /\ <<pc[w], pc'[w]>> \in {<<"check", "deduct">>, <<"deduct", "restore">>,
                                     <<"detail", "query">>, <<"finCheck", "finDeduct">>}
      BY <2>7 DEF CallFails, Crash, Sequential
    <3>4. QED
      BY <1>0, <3>1, <3>2, <3>3
  <2>8. QED
    BY <1>3, <2>3, <2>4, <2>5, <2>6, <2>7
<1>4. QED
  BY <1>1, <1>2, <1>3 DEF Next

LEMMA DeductedInit == Init => DeductedByStatus /\ DeductedByStep
  BY DEF Init, DeductedByStatus, DeductedByStep, NoPlan, NewPlan, Refunded,
     OrderStatusRefunded, OrderStatusPartiallyRefunded, OrderStatusCompleted

\* Where requests do not overlap, every plan deducts, and neither a rollback nor
\* the write of REFUNDED fails, a refunded order has cost the user its amount
\* exactly once, whatever else fails and wherever else a request is cut off.
THEOREM RefundCostsOnce == ASSUME Sequential PROVE Spec => []RefundedIsDeducted
<1>1. Init => DeductedByStatus /\ DeductedByStep
  BY DeductedInit
<1>2. DeductedByStatus => RefundedIsDeducted
  BY DEF DeductedByStatus, RefundedIsDeducted
<1>3. QED
  BY <1>1, <1>2, TypeCorrect, DeductedStep, PTL DEF Spec
=============================================================================
