--------------------- MODULE WorkerDelegationBookkeeping ---------------------
(***************************************************************************)
(* Bookkeeping, the conjunction of the type invariant with what makes it   *)
(* inductive, holds of every state of WorkerDelegation.                    *)
(***************************************************************************)
EXTENDS WorkerDelegationInvariant, TLAPS

(* Helpers: what a nested update keeps of a type.                           *)
LEMMA StatusUpdate ==
  ASSUME NEW f \in [Workers -> [status: WorkerStatus, parent: Tasks \cup {None}]],
         NEW w \in Workers, NEW s \in WorkerStatus
  PROVE  [f EXCEPT ![w].status = s]
           \in [Workers -> [status: WorkerStatus, parent: Tasks \cup {None}]]
  OBVIOUS

LEMMA JobWithVerdict ==
  ASSUME NEW f \in [Runners -> Jobs], NEW p \in Runners, NEW v \in Verdicts
  PROVE  [f EXCEPT ![p].verdict = v] \in [Runners -> Jobs]
  BY DEF Jobs

LEMMA JobWithFresh ==
  ASSUME NEW f \in [Runners -> Jobs], NEW p \in Runners, NEW w \in Workers
  PROVE  [f EXCEPT ![p].fresh = w] \in [Runners -> Jobs]
  BY DEF Jobs

LEMMA NewJob ==
  ASSUME NEW t \in Tasks \cup {None}, NEW w \in Workers \cup {None},
         NEW r \in Result \cup {None}, NEW v \in Verdicts \cup {None}
  PROVE  /\ [NoJob EXCEPT !.task = t, !.worker = w, !.msg = r] \in Jobs
         /\ [NoJob EXCEPT !.task = t, !.worker = w] \in Jobs
         /\ [NoJob EXCEPT !.task = t, !.verdict = v] \in Jobs
  BY DEF NoJob, Jobs

LEMMA BookkeepingInit == Init => Bookkeeping
<1> SUFFICES ASSUME Init PROVE Bookkeeping
  OBVIOUS
<1>1. TypeOK
  BY DEF Init, TypeOK, Payload, TaskStatus, WorkerStatus, RequestStatus, Phases, NoJob,
     Jobs, NothingSeen, NoView
<1>2. References
  BY DEF Init, References, Exists
<1>3. InHandOK
  BY DEF Init, InHandOK, Handling, Repairing, Delegating
<1> QED
  BY <1>1, <1>2, <1>3 DEF Bookkeeping

(* Type correctness is preserved; what a runner has in hand is needed for it. *)
LEMMA TypeStep ==
  ASSUME Bookkeeping, [Next]_vars
  PROVE  TypeOK'
<1> USE NoneAssumption, OutcomesAssumption DEF Goto, durable, private, history
<1>0. TypeOK
  BY DEF Bookkeeping
<1>1. ASSUME NEW p \in Runners, HygieneRead(p) PROVE TypeOK'
  <2>1. pc' \in [Runners -> Phases]
    BY <1>0, <1>1 DEF TypeOK, HygieneRead, Phases
  <2>2. seen' \in [Runners -> [Tasks -> TaskStatus]]
    BY <1>0, <1>1 DEF TypeOK, HygieneRead, Payload
  <2> QED
    BY <1>0, <1>1, <2>1, <2>2 DEF TypeOK, HygieneRead
<1>2. ASSUME NEW p \in Runners, HygieneClose(p) PROVE TypeOK'
  <2>1. pc' \in [Runners -> Phases]
    BY <1>0, <1>2 DEF TypeOK, HygieneClose, Phases
  <2>2. open' \subseteq Tasks
    BY <1>0, <1>2 DEF TypeOK, HygieneClose
  <2>3. latest' \in [Tasks -> {"none", "succeeded", "failed", "blocked", "cancelled"}]
    BY <1>0, <1>2 DEF TypeOK, HygieneClose, ClosedOutcome
  <2>4. seen' \in [Runners -> [Tasks -> TaskStatus]]
    BY <1>0, <1>2 DEF TypeOK, HygieneClose, NothingSeen, TaskStatus
  <2> QED
    BY <1>0, <1>2, <2>1, <2>2, <2>3, <2>4 DEF TypeOK, HygieneClose
<1>3. ASSUME NEW p \in Runners, ListResults(p) PROVE TypeOK'
  <2>1. pc' \in [Runners -> Phases]
    BY <1>0, <1>3 DEF TypeOK, ListResults, Phases
  <2>2. inbox' \in [Runners -> SUBSET Result]
    BY <1>0, <1>3 DEF TypeOK, ListResults
  <2> QED
    BY <1>0, <1>3, <2>1, <2>2 DEF TypeOK, ListResults
<1>4. ASSUME NEW p \in Runners, ReadResult(p) PROVE TypeOK'
  <2>1. pc' \in [Runners -> Phases]
    BY <1>0, <1>4 DEF TypeOK, ReadResult, Phases
  <2>2. job' \in [Runners -> Jobs]
    <3>1. PICK r \in inbox[p] :
            job' = [job EXCEPT ![p] = [NoJob EXCEPT !.task = wtask[r.worker].parent,
                                                    !.worker = r.worker, !.msg = r]]
      BY <1>4 DEF ReadResult
    <3>2. r \in Result /\ r.worker \in Workers /\ wtask[r.worker].parent \in Tasks \cup {None}
      BY <1>0 DEF TypeOK, Result
    <3> QED
      BY <1>0, <3>1, <3>2, NewJob DEF TypeOK
  <2>3. view' \in [Runners -> [Tasks -> SUBSET Workers]]
    BY <1>0, <1>4 DEF TypeOK, ReadResult, Bookkeeping, References, Exists, Result, Payload
  <2> QED
    BY <1>0, <1>4, <2>1, <2>2, <2>3 DEF TypeOK, ReadResult
<1>5. ASSUME NEW p \in Runners, SettleWorker(p) PROVE TypeOK'
  <2>1. pc' \in [Runners -> Phases]
    BY <1>0, <1>5 DEF TypeOK, SettleWorker, Phases
  <2>2. wtask' \in [Workers -> [status: WorkerStatus, parent: Tasks \cup {None}]]
    <3>1. PICK s \in Resolutions(job[p].msg) :
            wtask' = [wtask EXCEPT ![job[p].worker].status =
                        IF s = "complete" THEN "complete" ELSE "failed"]
      BY <1>5 DEF SettleWorker
    <3>2. job[p].worker \in Workers
      BY <1>0, <1>5 DEF TypeOK, SettleWorker, Bookkeeping, InHandOK, Handling,
         HoldsResult, Result
    <3>3. (IF s = "complete" THEN "complete" ELSE "failed") \in WorkerStatus
      BY DEF WorkerStatus
    <3> QED
      BY <1>0, <3>1, <3>2, <3>3, StatusUpdate DEF TypeOK
  <2>3. job' \in [Runners -> Jobs]
    <3>1. PICK s \in Resolutions(job[p].msg) : job' = [job EXCEPT ![p].verdict = s]
      BY <1>5 DEF SettleWorker
    <3>2. s \in Verdicts
      BY DEF Resolutions, Verdicts, TaskStatus
    <3> QED
      BY <1>0, <3>1, <3>2, JobWithVerdict DEF TypeOK
  <2> QED
    BY <1>0, <1>5, <2>1, <2>2, <2>3 DEF TypeOK, SettleWorker
<1>6. ASSUME NEW p \in Runners, SettleTask(p) PROVE TypeOK'
  <2>1. pc' \in [Runners -> Phases]
    BY <1>0, <1>6 DEF TypeOK, SettleTask, Phases
  <2>2. tasks' \in [Tasks -> Payload]
    <3>1. job[p].verdict \in TaskStatus
      BY <1>6 DEF SettleTask, Bookkeeping, InHandOK, Handling, HoldsResult, Resolutions,
         TaskStatus
    <3>2. job[p].task \in Tasks
      <4>1. HoldsResult(p)
        BY <1>6 DEF SettleTask, Bookkeeping, InHandOK, Handling
      <4>2. job[p].worker \in Workers /\ Exists(job[p].worker)
        BY <1>0, <4>1 DEF TypeOK, Result, Bookkeeping, References, HoldsResult
      <4> QED
        BY <4>1, <4>2 DEF Bookkeeping, References, HoldsResult
    <3>3. view[p][job[p].task] \ {job[p].worker} \in SUBSET Workers
      BY <1>0, <3>2 DEF TypeOK
    <3> QED
      BY <1>0, <1>6, <3>1, <3>3 DEF TypeOK, SettleTask, Payload
  <2> QED
    BY <1>0, <1>6, <2>1, <2>2 DEF TypeOK, SettleTask
<1>7. ASSUME NEW p \in Runners, RecordCompletion(p) PROVE TypeOK'
  <2>1. pc' \in [Runners -> Phases]
    BY <1>0, <1>7 DEF TypeOK, RecordCompletion, Phases
  <2>2. latest' \in [Tasks -> {"none", "succeeded", "failed", "blocked", "cancelled"}]
    BY <1>0, <1>7 DEF TypeOK, RecordCompletion, AttemptOutcome, Bookkeeping, InHandOK,
       Handling, HoldsResult, Result
  <2>3. recorded' \subseteq sent'
    BY <1>0, <1>7 DEF TypeOK, RecordCompletion, Bookkeeping, InHandOK, Handling, HoldsResult
  <2> QED
    BY <1>0, <1>7, <2>1, <2>2, <2>3 DEF TypeOK, RecordCompletion
<1>8. ASSUME NEW p \in Runners, Acknowledge(p) PROVE TypeOK'
  <2>1. pc' \in [Runners -> Phases]
    BY <1>0, <1>8 DEF TypeOK, Acknowledge, Phases
  <2>2. acked' \subseteq sent'
    BY <1>0, <1>8 DEF TypeOK, Acknowledge, Bookkeeping, InHandOK, Handling, HoldsResult
  <2>3. inbox' \in [Runners -> SUBSET Result]
    BY <1>0, <1>8 DEF TypeOK, Acknowledge
  <2>4. job' \in [Runners -> Jobs]
    BY <1>0, <1>8 DEF TypeOK, Acknowledge, Jobs, NoJob
  <2>5. view' \in [Runners -> [Tasks -> SUBSET Workers]]
    BY <1>0, <1>8 DEF TypeOK, Acknowledge, NoView
  <2> QED
    BY <1>0, <1>8, <2>1, <2>2, <2>3, <2>4, <2>5 DEF TypeOK, Acknowledge
<1>9. ASSUME NEW p \in Runners, StartSupervision(p) PROVE TypeOK'
  <2>1. pc' \in [Runners -> Phases]
    BY <1>0, <1>9 DEF TypeOK, StartSupervision, Phases
  <2>2. view' \in [Runners -> [Tasks -> SUBSET Workers]]
    BY <1>0, <1>9 DEF TypeOK, StartSupervision, KidsNow, Payload
  <2>3. queue' \in [Runners -> SUBSET Workers]
    BY <1>0, <1>9 DEF TypeOK, StartSupervision
  <2> QED
    BY <1>0, <1>9, <2>1, <2>2, <2>3 DEF TypeOK, StartSupervision
<1>10. ASSUME NEW p \in Runners, ObserveHealthy(p) PROVE TypeOK'
  <2>1. pc' \in [Runners -> Phases]
    BY <1>0, <1>10 DEF TypeOK, ObserveHealthy, Phases
  <2>2. wtask' \in [Workers -> [status: WorkerStatus, parent: Tasks \cup {None}]]
    <3>1. PICK w \in queue[p] : wtask' = [wtask EXCEPT ![w].status = "working"]
      BY <1>10 DEF ObserveHealthy, Refreshed
    <3>2. w \in Workers /\ "working" \in WorkerStatus
      BY <1>0 DEF TypeOK, WorkerStatus
    <3> QED
      BY <1>0, <3>1, <3>2, StatusUpdate DEF TypeOK
  <2>3. queue' \in [Runners -> SUBSET Workers]
    BY <1>0, <1>10 DEF TypeOK, ObserveHealthy
  <2> QED
    BY <1>0, <1>10, <2>1, <2>2, <2>3 DEF TypeOK, ObserveHealthy
<1>11. ASSUME NEW p \in Runners, ObserveStalled(p) PROVE TypeOK'
  <2>1. pc' \in [Runners -> Phases]
    BY <1>0, <1>11 DEF TypeOK, ObserveStalled, Phases
  <2>2. wtask' \in [Workers -> [status: WorkerStatus, parent: Tasks \cup {None}]]
    <3>1. PICK w \in queue[p] : wtask' = [wtask EXCEPT ![w].status = "working"]
      BY <1>11 DEF ObserveStalled, Refreshed
    <3>2. w \in Workers /\ "working" \in WorkerStatus
      BY <1>0 DEF TypeOK, WorkerStatus
    <3> QED
      BY <1>0, <3>1, <3>2, StatusUpdate DEF TypeOK
  <2>3. job' \in [Runners -> Jobs]
    <3>1. PICK w \in queue[p] :
            job' = [job EXCEPT ![p] = [NoJob EXCEPT !.task = wtask[w].parent, !.worker = w]]
      BY <1>11 DEF ObserveStalled
    <3>2. w \in Workers /\ wtask[w].parent \in Tasks \cup {None}
      BY <1>0 DEF TypeOK
    <3> QED
      BY <1>0, <3>1, <3>2, NewJob DEF TypeOK
  <2> QED
    BY <1>0, <1>11, <2>1, <2>2, <2>3 DEF TypeOK, ObserveStalled
<1>12. ASSUME NEW p \in Runners, WithdrawRequest(p) PROVE TypeOK'
  <2>1. pc' \in [Runners -> Phases]
    BY <1>0, <1>12 DEF TypeOK, WithdrawRequest, Phases
  <2>2. request' \in [Workers -> RequestStatus]
    BY <1>0, <1>12 DEF TypeOK, WithdrawRequest, RequestStatus
  <2>3. repaired' \subseteq Workers
    BY <1>0, <1>12 DEF TypeOK, WithdrawRequest, Bookkeeping, InHandOK, Repairing,
       HoldsWorker
  <2> QED
    BY <1>0, <1>12, <2>1, <2>2, <2>3 DEF TypeOK, WithdrawRequest
<1>13. ASSUME NEW p \in Runners, FailWorker(p) PROVE TypeOK'
  <2>1. pc' \in [Runners -> Phases]
    BY <1>0, <1>13 DEF TypeOK, FailWorker, Phases
  <2>2. wtask' \in [Workers -> [status: WorkerStatus, parent: Tasks \cup {None}]]
    <3>1. job[p].worker \in Workers
      BY <1>13 DEF FailWorker, Bookkeeping, InHandOK, Repairing, HoldsWorker
    <3> QED
      BY <1>0, <1>13, <3>1, StatusUpdate DEF TypeOK, FailWorker, WorkerStatus
  <2>3. repaired' \subseteq Workers
    BY <1>0, <1>13 DEF TypeOK, FailWorker, Bookkeeping, InHandOK, Repairing, HoldsWorker
  <2> QED
    BY <1>0, <1>13, <2>1, <2>2, <2>3 DEF TypeOK, FailWorker
<1>14. ASSUME NEW p \in Runners, BlockTask(p) PROVE TypeOK'
  <2>1. pc' \in [Runners -> Phases]
    BY <1>0, <1>14 DEF TypeOK, BlockTask, Phases
  <2>2. tasks' \in [Tasks -> Payload]
    <3>1. job[p].task \in Tasks
      BY <1>14 DEF BlockTask, Bookkeeping, References, InHandOK, Repairing, HoldsWorker
    <3>2. BaseKids(p) \in SUBSET Workers
      BY <1>0, <3>1 DEF TypeOK, BaseKids
    <3> QED
      BY <1>0, <1>14, <3>2 DEF TypeOK, BlockTask, Payload, TaskStatus
  <2>3. queue' \in [Runners -> SUBSET Workers]
    BY <1>0, <1>14 DEF TypeOK, BlockTask
  <2>4. job' \in [Runners -> Jobs]
    BY <1>0, <1>14 DEF TypeOK, BlockTask, Jobs, NoJob
  <2> QED
    BY <1>0, <1>14, <2>1, <2>2, <2>3, <2>4 DEF TypeOK, BlockTask
<1>15. ASSUME NEW p \in Runners, StartDispatch(p) PROVE TypeOK'
  <2>1. pc' \in [Runners -> Phases]
    BY <1>0, <1>15 DEF TypeOK, StartDispatch, Phases
  <2>2. view' \in [Runners -> [Tasks -> SUBSET Workers]]
    BY <1>0, <1>15 DEF TypeOK, StartDispatch, NoView
  <2> QED
    BY <1>0, <1>15, <2>1, <2>2 DEF TypeOK, StartDispatch
<1>16. ASSUME NEW p \in Runners, CreateWorker(p) PROVE TypeOK'
  <2>1. pc' \in [Runners -> Phases]
    BY <1>0, <1>16 DEF TypeOK, CreateWorker, Phases
  <2>2. wtask' \in [Workers -> [status: WorkerStatus, parent: Tasks \cup {None}]]
    BY <1>0, <1>16 DEF TypeOK, CreateWorker, Unused, WorkerStatus, Bookkeeping, InHandOK,
       Delegating, HoldsTask
  <2>3. job' \in [Runners -> Jobs]
    <3>1. PICK n \in Unused : job' = [job EXCEPT ![p].fresh = n]
      BY <1>16 DEF CreateWorker
    <3>2. n \in Workers
      BY DEF Unused
    <3> QED
      BY <1>0, <3>1, <3>2, JobWithFresh DEF TypeOK
  <2>4. lineage' \in [Workers -> Nat]
    BY <1>0, <1>16 DEF TypeOK, CreateWorker, Jobs, Unused
  <2> QED
    BY <1>0, <1>16, <2>1, <2>2, <2>3, <2>4 DEF TypeOK, CreateWorker
<1>17. ASSUME NEW p \in Runners, SendRequest(p) PROVE TypeOK'
  <2>1. pc' \in [Runners -> Phases]
    BY <1>0, <1>17 DEF TypeOK, SendRequest, Phases
  <2>2. request' \in [Workers -> RequestStatus]
    BY <1>0, <1>17 DEF TypeOK, SendRequest, RequestStatus
  <2> QED
    BY <1>0, <1>17, <2>1, <2>2 DEF TypeOK, SendRequest
<1>18. ASSUME NEW p \in Runners, LinkDispatched(p) PROVE TypeOK'
  <2>1. pc' \in [Runners -> Phases]
    BY <1>0, <1>18 DEF TypeOK, LinkDispatched, Phases
  <2>2. tasks' \in [Tasks -> Payload]
    BY <1>0, <1>18 DEF TypeOK, LinkDispatched, LinkChild, BaseKids, Payload, TaskStatus,
       Bookkeeping, InHandOK, Delegating, HoldsTask
  <2> QED
    BY <1>0, <1>18, <2>1, <2>2 DEF TypeOK, LinkDispatched
<1>19. ASSUME NEW p \in Runners, LinkReassigned(p) PROVE TypeOK'
  <2>1. pc' \in [Runners -> Phases]
    BY <1>0, <1>19 DEF TypeOK, LinkReassigned, Phases
  <2>2. tasks' \in [Tasks -> Payload]
    BY <1>0, <1>19 DEF TypeOK, LinkReassigned, LinkChild, BaseKids, Payload, TaskStatus,
       Bookkeeping, InHandOK, Delegating, HoldsTask
  <2>3. queue' \in [Runners -> SUBSET Workers]
    BY <1>0, <1>19 DEF TypeOK, LinkReassigned
  <2>4. job' \in [Runners -> Jobs]
    BY <1>0, <1>19 DEF TypeOK, LinkReassigned, Jobs, NoJob
  <2> QED
    BY <1>0, <1>19, <2>1, <2>2, <2>3, <2>4 DEF TypeOK, LinkReassigned
<1>20. ASSUME NEW p \in Runners, Select(p) PROVE TypeOK'
  <2>1. pc' \in [Runners -> Phases]
    BY <1>0, <1>20 DEF TypeOK, Select, Phases
  <2>2. job' \in [Runners -> Jobs]
    <3>1. PICK t \in Tasks, v \in {"applied", "uncertain", "refused", "delegated"} :
            job' = [job EXCEPT ![p] = [NoJob EXCEPT !.task = t, !.verdict = v]]
      BY <1>20 DEF Select
    <3>2. v \in Verdicts
      BY DEF Verdicts
    <3> QED
      BY <1>0, <3>1, <3>2, NewJob DEF TypeOK
  <2>3. picked' \in [Runners -> SUBSET Tasks]
    BY <1>0, <1>20 DEF TypeOK, Select
  <2>4. view' \in [Runners -> [Tasks -> SUBSET Workers]]
    BY <1>0, <1>20 DEF TypeOK, Select, KidsNow, Payload
  <2> QED
    BY <1>0, <1>20, <2>1, <2>2, <2>3, <2>4 DEF TypeOK, Select
<1>21. ASSUME NEW p \in Runners, RewriteTask(p) PROVE TypeOK'
  <2>1. pc' \in [Runners -> Phases]
    BY <1>0, <1>21 DEF TypeOK, RewriteTask, Phases
  <2>2. tasks' \in [Tasks -> Payload]
    BY <1>0, <1>21 DEF TypeOK, RewriteTask, DispatchedStatus, Payload, TaskStatus,
       Bookkeeping, InHandOK
  <2>3. answered' \subseteq Tasks
    BY <1>0, <1>21 DEF TypeOK, RewriteTask, Bookkeeping, InHandOK
  <2> QED
    BY <1>0, <1>21, <2>1, <2>2, <2>3 DEF TypeOK, RewriteTask
<1>22. ASSUME NEW p \in Runners, RecordAttempt(p) PROVE TypeOK'
  <2>1. pc' \in [Runners -> Phases]
    BY <1>0, <1>22 DEF TypeOK, RecordAttempt, Phases
  <2>2. open' \subseteq Tasks
    BY <1>0, <1>22 DEF TypeOK, RecordAttempt, Bookkeeping, InHandOK
  <2>3. latest' \in [Tasks -> {"none", "succeeded", "failed", "blocked", "cancelled"}]
    BY <1>0, <1>22 DEF TypeOK, RecordAttempt
  <2>4. job' \in [Runners -> Jobs]
    BY <1>0, <1>22 DEF TypeOK, RecordAttempt, Jobs, NoJob
  <2>5. view' \in [Runners -> [Tasks -> SUBSET Workers]]
    BY <1>0, <1>22 DEF TypeOK, RecordAttempt, NoView
  <2> QED
    BY <1>0, <1>22, <2>1, <2>2, <2>3, <2>4, <2>5 DEF TypeOK, RecordAttempt
<1>23. ASSUME NEW p \in Runners, ListRequests(p) PROVE TypeOK'
  <2>1. pc' \in [Runners -> Phases]
    BY <1>0, <1>23 DEF TypeOK, ListRequests, Phases
  <2>2. queue' \in [Runners -> SUBSET Workers]
    BY <1>0, <1>23 DEF TypeOK, ListRequests, PendingRequests
  <2>3. picked' \in [Runners -> SUBSET Tasks]
    BY <1>0, <1>23 DEF TypeOK, ListRequests
  <2> QED
    BY <1>0, <1>23, <2>1, <2>2, <2>3 DEF TypeOK, ListRequests
<1>24. ASSUME NEW p \in Runners, EmitResult(p) PROVE TypeOK'
  <2>1. pc' \in [Runners -> Phases]
    BY <1>0, <1>24 DEF TypeOK, EmitResult, Phases
  <2>2. sent' \subseteq Result /\ acked' \subseteq sent' /\ recorded' \subseteq sent'
    BY <1>0, <1>24 DEF TypeOK, EmitResult, Result
  <2>3. emitted' \in [Runners -> [Workers -> Nat]]
    BY <1>0, <1>24 DEF TypeOK, EmitResult
  <2>4. job' \in [Runners -> Jobs]
    BY <1>0, <1>24 DEF TypeOK, EmitResult, Jobs, NoJob
  <2> QED
    BY <1>0, <1>24, <2>1, <2>2, <2>3, <2>4 DEF TypeOK, EmitResult
<1>25. ASSUME NEW p \in Runners, ResolveRequest(p) PROVE TypeOK'
  <2>1. pc' \in [Runners -> Phases]
    BY <1>0, <1>25 DEF TypeOK, ResolveRequest, Phases
  <2>2. request' \in [Workers -> RequestStatus]
    BY <1>0, <1>25 DEF TypeOK, ResolveRequest, RequestStatus
  <2>3. queue' \in [Runners -> SUBSET Workers]
    BY <1>0, <1>25 DEF TypeOK, ResolveRequest
  <2>4. job' \in [Runners -> Jobs]
    BY <1>0, <1>25 DEF TypeOK, ResolveRequest, Jobs, NoJob
  <2> QED
    BY <1>0, <1>25, <2>1, <2>2, <2>3, <2>4 DEF TypeOK, ResolveRequest
<1>26. ASSUME NEW p \in Runners, EndCycle(p) PROVE TypeOK'
  <2>1. pc' \in [Runners -> Phases]
    BY <1>0, <1>26 DEF TypeOK, EndCycle, Phases
  <2> QED
    BY <1>0, <1>26, <2>1 DEF TypeOK, EndCycle
<1>27. ASSUME NEW p \in Runners, Crash(p) PROVE TypeOK'
  <2>1. pc' \in [Runners -> Phases]
    BY <1>0, <1>27 DEF TypeOK, Crash, Phases
  <2>2. queue' \in [Runners -> SUBSET Workers]
    BY <1>0, <1>27 DEF TypeOK, Crash
  <2>3. inbox' \in [Runners -> SUBSET Result]
    BY <1>0, <1>27 DEF TypeOK, Crash
  <2>4. picked' \in [Runners -> SUBSET Tasks]
    BY <1>0, <1>27 DEF TypeOK, Crash
  <2>5. job' \in [Runners -> Jobs]
    BY <1>0, <1>27 DEF TypeOK, Crash, Jobs, NoJob
  <2>6. seen' \in [Runners -> [Tasks -> TaskStatus]]
    BY <1>0, <1>27 DEF TypeOK, Crash, NothingSeen, TaskStatus
  <2>7. view' \in [Runners -> [Tasks -> SUBSET Workers]]
    BY <1>0, <1>27 DEF TypeOK, Crash, NoView
  <2>8. crashes' \in [Runners -> Nat]
    BY <1>0, <1>27 DEF TypeOK, Crash
  <2> QED
    BY <1>0, <1>27, <2>1, <2>2, <2>3, <2>4, <2>5, <2>6, <2>7, <2>8 DEF TypeOK, Crash
<1>28. ASSUME NEW w \in Workers, Age(w) PROVE TypeOK'
  BY <1>0, <1>28 DEF TypeOK, Age, RequestStatus
<1>30. ASSUME NEW p \in Runners, TakeIn(p) PROVE TypeOK'
  BY <1>30, <1>0 DEF TakeIn, TypeOK, Phases
<1>31. ASSUME NEW p \in Runners, BeginRun(p) PROVE TypeOK'
  BY <1>31, <1>0 DEF BeginRun, TypeOK, Phases
<1>29. CASE UNCHANGED vars
  BY <1>0, <1>29 DEF vars, TypeOK
<1> QED
  BY <1>1, <1>2, <1>3, <1>4, <1>5, <1>6, <1>7, <1>8, <1>9, <1>10, <1>11, <1>12, <1>13,
     <1>14, <1>15, <1>16, <1>17, <1>18, <1>19, <1>20, <1>21, <1>22, <1>23, <1>24, <1>25,
     <1>26, <1>27, <1>28, <1>29, <1>30, <1>31
  DEF Next, Step, Start, Reconcile, Supervise, Delegate, Dispatch, Serve

(* A worker task is never deleted and never changes its parent.            *)
WorkersKept ==
  \A v \in Workers : Exists(v) => Exists(v)' /\ wtask'[v].parent = wtask[v].parent

LEMMA WorkersPersist ==
  ASSUME Bookkeeping, [Next]_vars
  PROVE  WorkersKept
<1> USE DEF WorkersKept, Bookkeeping, TypeOK, Exists, Goto, durable, private, history
<1>1. ASSUME NEW p \in Runners, HygieneRead(p) PROVE WorkersKept
  BY <1>1 DEF HygieneRead
<1>2. ASSUME NEW p \in Runners, HygieneClose(p) PROVE WorkersKept
  BY <1>2 DEF HygieneClose
<1>3. ASSUME NEW p \in Runners, ListResults(p) PROVE WorkersKept
  BY <1>3 DEF ListResults
<1>4. ASSUME NEW p \in Runners, ReadResult(p) PROVE WorkersKept
  BY <1>4 DEF ReadResult
<1>5. ASSUME NEW p \in Runners, SettleWorker(p) PROVE WorkersKept
  BY <1>5 DEF SettleWorker, Resolutions
<1>6. ASSUME NEW p \in Runners, SettleTask(p) PROVE WorkersKept
  BY <1>6 DEF SettleTask
<1>7. ASSUME NEW p \in Runners, RecordCompletion(p) PROVE WorkersKept
  BY <1>7 DEF RecordCompletion
<1>8. ASSUME NEW p \in Runners, Acknowledge(p) PROVE WorkersKept
  BY <1>8 DEF Acknowledge
<1>9. ASSUME NEW p \in Runners, StartSupervision(p) PROVE WorkersKept
  BY <1>9 DEF StartSupervision
<1>10. ASSUME NEW p \in Runners, ObserveHealthy(p) PROVE WorkersKept
  BY <1>10 DEF ObserveHealthy, Refreshed
<1>11. ASSUME NEW p \in Runners, ObserveStalled(p) PROVE WorkersKept
  BY <1>11 DEF ObserveStalled, Refreshed, Pending
<1>12. ASSUME NEW p \in Runners, WithdrawRequest(p) PROVE WorkersKept
  BY <1>12 DEF WithdrawRequest
<1>13. ASSUME NEW p \in Runners, FailWorker(p) PROVE WorkersKept
  BY <1>13 DEF FailWorker
<1>14. ASSUME NEW p \in Runners, BlockTask(p) PROVE WorkersKept
  BY <1>14 DEF BlockTask
<1>15. ASSUME NEW p \in Runners, StartDispatch(p) PROVE WorkersKept
  BY <1>15 DEF StartDispatch
<1>16. ASSUME NEW p \in Runners, CreateWorker(p) PROVE WorkersKept
  BY <1>16 DEF CreateWorker, Unused
<1>17. ASSUME NEW p \in Runners, SendRequest(p) PROVE WorkersKept
  BY <1>17 DEF SendRequest
<1>18. ASSUME NEW p \in Runners, LinkDispatched(p) PROVE WorkersKept
  BY <1>18 DEF LinkDispatched, LinkChild
<1>19. ASSUME NEW p \in Runners, LinkReassigned(p) PROVE WorkersKept
  BY <1>19 DEF LinkReassigned, LinkChild
<1>20. ASSUME NEW p \in Runners, Select(p) PROVE WorkersKept
  BY <1>20 DEF Select
<1>21. ASSUME NEW p \in Runners, RewriteTask(p) PROVE WorkersKept
  BY <1>21 DEF RewriteTask
<1>22. ASSUME NEW p \in Runners, RecordAttempt(p) PROVE WorkersKept
  BY <1>22 DEF RecordAttempt
<1>23. ASSUME NEW p \in Runners, ListRequests(p) PROVE WorkersKept
  BY <1>23 DEF ListRequests, PendingRequests, Pending
<1>24. ASSUME NEW p \in Runners, EmitResult(p) PROVE WorkersKept
  BY <1>24 DEF EmitResult
<1>25. ASSUME NEW p \in Runners, ResolveRequest(p) PROVE WorkersKept
  BY <1>25 DEF ResolveRequest
<1>26. ASSUME NEW p \in Runners, EndCycle(p) PROVE WorkersKept
  BY <1>26 DEF EndCycle
<1>27. ASSUME NEW p \in Runners, Crash(p) PROVE WorkersKept
  BY <1>27 DEF Crash
<1>28. ASSUME NEW w \in Workers, Age(w) PROVE WorkersKept
  BY <1>28 DEF Age
<1>30. ASSUME NEW p \in Runners, TakeIn(p) PROVE WorkersKept
  BY <1>30 DEF TakeIn
<1>31. ASSUME NEW p \in Runners, BeginRun(p) PROVE WorkersKept
  BY <1>31 DEF BeginRun
<1>29. CASE UNCHANGED vars
  BY <1>29 DEF vars
<1> QED
  BY <1>1, <1>2, <1>3, <1>4, <1>5, <1>6, <1>7, <1>8, <1>9, <1>10, <1>11, <1>12, <1>13,
     <1>14, <1>15, <1>16, <1>17, <1>18, <1>19, <1>20, <1>21, <1>22, <1>23, <1>24, <1>25,
     <1>26, <1>27, <1>28, <1>29, <1>30, <1>31
  DEF Next, Step, Start, Reconcile, Supervise, Delegate, Dispatch, Serve

(* Records keep referring to records that exist.                           *)
LEMMA ReferencesStep ==
  ASSUME Bookkeeping, [Next]_vars
  PROVE  References'
<1> USE DEF Bookkeeping, TypeOK, References, Goto, durable, private, history, Exists, Result
<1>1. ASSUME NEW p \in Runners, HygieneRead(p) PROVE References'
  BY <1>1 DEF HygieneRead
<1>2. ASSUME NEW p \in Runners, HygieneClose(p) PROVE References'
  BY <1>2 DEF HygieneClose
<1>3. ASSUME NEW p \in Runners, ListResults(p) PROVE References'
  BY <1>3 DEF ListResults
<1>4. ASSUME NEW p \in Runners, ReadResult(p) PROVE References'
  BY <1>4 DEF ReadResult
<1>5. ASSUME NEW p \in Runners, SettleWorker(p) PROVE References'
  <2>1. PICK s \in {"complete", "failed"} : wtask' = [wtask EXCEPT ![job[p].worker].status = s]
    BY <1>5 DEF SettleWorker
  <2>2. job[p].worker \in Workers /\ Exists(job[p].worker)
    BY <1>5 DEF SettleWorker, InHandOK, Handling, HoldsResult
  <2>3. \A v \in Workers : (Exists(v)' <=> Exists(v)) /\ wtask'[v].parent = wtask[v].parent
    BY <2>1, <2>2
  <2>4. UNCHANGED <<request, sent, inbox, queue>>
    BY <1>5 DEF SettleWorker
  <2> QED
    BY <2>3, <2>4
<1>6. ASSUME NEW p \in Runners, SettleTask(p) PROVE References'
  BY <1>6 DEF SettleTask
<1>7. ASSUME NEW p \in Runners, RecordCompletion(p) PROVE References'
  BY <1>7 DEF RecordCompletion
<1>8. ASSUME NEW p \in Runners, Acknowledge(p) PROVE References'
  BY <1>8 DEF Acknowledge
<1>9. ASSUME NEW p \in Runners, StartSupervision(p) PROVE References'
  BY <1>9 DEF StartSupervision
<1>10. ASSUME NEW p \in Runners, ObserveHealthy(p) PROVE References'
  BY <1>10 DEF ObserveHealthy, Refreshed
<1>11. ASSUME NEW p \in Runners, ObserveStalled(p) PROVE References'
  BY <1>11 DEF ObserveStalled, Refreshed, Pending
<1>12. ASSUME NEW p \in Runners, WithdrawRequest(p) PROVE References'
  BY <1>12 DEF WithdrawRequest, InHandOK, Repairing, HoldsWorker
<1>13. ASSUME NEW p \in Runners, FailWorker(p) PROVE References'
  <2>1. wtask' = [wtask EXCEPT ![job[p].worker].status = "failed"]
    BY <1>13 DEF FailWorker
  <2>2. job[p].worker \in Workers /\ Exists(job[p].worker)
    BY <1>13 DEF FailWorker, InHandOK, Repairing, HoldsWorker
  <2>3. \A v \in Workers : (Exists(v)' <=> Exists(v)) /\ wtask'[v].parent = wtask[v].parent
    BY <2>1, <2>2
  <2>4. UNCHANGED <<request, sent, inbox, queue>>
    BY <1>13 DEF FailWorker
  <2> QED
    BY <2>3, <2>4
<1>14. ASSUME NEW p \in Runners, BlockTask(p) PROVE References'
  BY <1>14 DEF BlockTask
<1>15. ASSUME NEW p \in Runners, StartDispatch(p) PROVE References'
  BY <1>15 DEF StartDispatch
<1>16. ASSUME NEW p \in Runners, CreateWorker(p) PROVE References'
  <2>1. job[p].task \in Tasks
    BY <1>16 DEF CreateWorker, InHandOK, Delegating, HoldsTask
  <2>2. PICK n \in Unused :
          wtask' = [wtask EXCEPT ![n] = [status |-> "working", parent |-> job[p].task]]
    BY <1>16 DEF CreateWorker
  <2> QED
    BY <1>16, <2>1, <2>2 DEF CreateWorker, Unused
<1>17. ASSUME NEW p \in Runners, SendRequest(p) PROVE References'
  BY <1>17 DEF SendRequest, InHandOK, Delegating, HoldsTask
<1>18. ASSUME NEW p \in Runners, LinkDispatched(p) PROVE References'
  BY <1>18 DEF LinkDispatched, LinkChild
<1>19. ASSUME NEW p \in Runners, LinkReassigned(p) PROVE References'
  BY <1>19 DEF LinkReassigned, LinkChild
<1>20. ASSUME NEW p \in Runners, Select(p) PROVE References'
  BY <1>20 DEF Select
<1>21. ASSUME NEW p \in Runners, RewriteTask(p) PROVE References'
  BY <1>21 DEF RewriteTask
<1>22. ASSUME NEW p \in Runners, RecordAttempt(p) PROVE References'
  BY <1>22 DEF RecordAttempt
<1>23. ASSUME NEW p \in Runners, ListRequests(p) PROVE References'
  BY <1>23 DEF ListRequests, PendingRequests, Pending
<1>24. ASSUME NEW p \in Runners, EmitResult(p) PROVE References'
  BY <1>24 DEF EmitResult
<1>25. ASSUME NEW p \in Runners, ResolveRequest(p) PROVE References'
  BY <1>25 DEF ResolveRequest, InHandOK
<1>26. ASSUME NEW p \in Runners, EndCycle(p) PROVE References'
  BY <1>26 DEF EndCycle
<1>27. ASSUME NEW p \in Runners, Crash(p) PROVE References'
  BY <1>27 DEF Crash
<1>28. ASSUME NEW w \in Workers, Age(w) PROVE References'
  BY <1>28 DEF Age
<1>30. ASSUME NEW p \in Runners, TakeIn(p) PROVE References'
  BY <1>30 DEF TakeIn
<1>31. ASSUME NEW p \in Runners, BeginRun(p) PROVE References'
  BY <1>31 DEF BeginRun
<1>29. CASE UNCHANGED vars
  BY <1>29 DEF vars
<1> QED
  BY <1>1, <1>2, <1>3, <1>4, <1>5, <1>6, <1>7, <1>8, <1>9, <1>10, <1>11, <1>12, <1>13,
     <1>14, <1>15, <1>16, <1>17, <1>18, <1>19, <1>20, <1>21, <1>22, <1>23, <1>24, <1>25,
     <1>26, <1>27, <1>28, <1>29, <1>30, <1>31
  DEF Next, Step, Start, Reconcile, Supervise, Delegate, Dispatch, Serve

(* What a runner has in hand keeps fitting its phase, whatever others do.   *)
LEMMA InHandStep ==
  ASSUME Bookkeeping, [Next]_vars
  PROVE  InHandOK'
<1> USE NoneAssumption, OutcomesAssumption DEF Bookkeeping, TypeOK, References, InHandOK,
   Goto, durable, private, history, Exists, Result, Handling, Repairing, Delegating,
   HoldsResult, HoldsWorker, HoldsTask, NoJob, Jobs
<1>1. ASSUME NEW p \in Runners, HygieneRead(p) PROVE InHandOK'
  BY <1>1 DEF HygieneRead
<1>2. ASSUME NEW p \in Runners, HygieneClose(p) PROVE InHandOK'
  BY <1>2 DEF HygieneClose
<1>3. ASSUME NEW p \in Runners, ListResults(p) PROVE InHandOK'
  BY <1>3 DEF ListResults
<1>4. ASSUME NEW p \in Runners, ReadResult(p) PROVE InHandOK'
  BY <1>4 DEF ReadResult
<1>5. ASSUME NEW p \in Runners, SettleWorker(p) PROVE InHandOK'
  BY <1>5 DEF SettleWorker, Resolutions
<1>6. ASSUME NEW p \in Runners, SettleTask(p) PROVE InHandOK'
  BY <1>6 DEF SettleTask
<1>7. ASSUME NEW p \in Runners, RecordCompletion(p) PROVE InHandOK'
  BY <1>7 DEF RecordCompletion
<1>8. ASSUME NEW p \in Runners, Acknowledge(p) PROVE InHandOK'
  BY <1>8 DEF Acknowledge
<1>9. ASSUME NEW p \in Runners, StartSupervision(p) PROVE InHandOK'
  BY <1>9 DEF StartSupervision
<1>10. ASSUME NEW p \in Runners, ObserveHealthy(p) PROVE InHandOK'
  BY <1>10 DEF ObserveHealthy, Refreshed
<1>11. ASSUME NEW p \in Runners, ObserveStalled(p) PROVE InHandOK'
  BY <1>11 DEF ObserveStalled, Refreshed, Pending
<1>12. ASSUME NEW p \in Runners, WithdrawRequest(p) PROVE InHandOK'
  BY <1>12 DEF WithdrawRequest
<1>13. ASSUME NEW p \in Runners, FailWorker(p) PROVE InHandOK'
  BY <1>13 DEF FailWorker
<1>14. ASSUME NEW p \in Runners, BlockTask(p) PROVE InHandOK'
  BY <1>14 DEF BlockTask
<1>15. ASSUME NEW p \in Runners, StartDispatch(p) PROVE InHandOK'
  BY <1>15 DEF StartDispatch
<1>16. ASSUME NEW p \in Runners, CreateWorker(p) PROVE InHandOK'
  BY <1>16 DEF CreateWorker, Unused
<1>17. ASSUME NEW p \in Runners, SendRequest(p) PROVE InHandOK'
  BY <1>17 DEF SendRequest
<1>18. ASSUME NEW p \in Runners, LinkDispatched(p) PROVE InHandOK'
  BY <1>18 DEF LinkDispatched, LinkChild
<1>19. ASSUME NEW p \in Runners, LinkReassigned(p) PROVE InHandOK'
  BY <1>19 DEF LinkReassigned, LinkChild
<1>20. ASSUME NEW p \in Runners, Select(p) PROVE InHandOK'
  BY <1>20 DEF Select
<1>21. ASSUME NEW p \in Runners, RewriteTask(p) PROVE InHandOK'
  BY <1>21 DEF RewriteTask
<1>22. ASSUME NEW p \in Runners, RecordAttempt(p) PROVE InHandOK'
  BY <1>22 DEF RecordAttempt
<1>23. ASSUME NEW p \in Runners, ListRequests(p) PROVE InHandOK'
  BY <1>23 DEF ListRequests, PendingRequests, Pending
<1>24. ASSUME NEW p \in Runners, EmitResult(p) PROVE InHandOK'
  BY <1>24 DEF EmitResult
<1>25. ASSUME NEW p \in Runners, ResolveRequest(p) PROVE InHandOK'
  BY <1>25 DEF ResolveRequest
<1>26. ASSUME NEW p \in Runners, EndCycle(p) PROVE InHandOK'
  BY <1>26 DEF EndCycle
<1>27. ASSUME NEW p \in Runners, Crash(p) PROVE InHandOK'
  BY <1>27 DEF Crash
<1>28. ASSUME NEW w \in Workers, Age(w) PROVE InHandOK'
  BY <1>28 DEF Age
<1>30. ASSUME NEW p \in Runners, TakeIn(p) PROVE InHandOK'
  BY <1>30 DEF TakeIn
<1>31. ASSUME NEW p \in Runners, BeginRun(p) PROVE InHandOK'
  BY <1>31 DEF BeginRun
<1>29. CASE UNCHANGED vars
  BY <1>29 DEF vars
<1> QED
  BY <1>1, <1>2, <1>3, <1>4, <1>5, <1>6, <1>7, <1>8, <1>9, <1>10, <1>11, <1>12, <1>13,
     <1>14, <1>15, <1>16, <1>17, <1>18, <1>19, <1>20, <1>21, <1>22, <1>23, <1>24, <1>25,
     <1>26, <1>27, <1>28, <1>29, <1>30, <1>31
  DEF Next, Step, Start, Reconcile, Supervise, Delegate, Dispatch, Serve

(* What is stored and what a runner has in hand fit together, whatever the  *)
(* number of runners, tasks and workers, and wherever the runners crash.    *)
THEOREM BookkeepingInvariant == Spec => []Bookkeeping
<1>1. Bookkeeping /\ [Next]_vars => Bookkeeping'
  BY TypeStep, ReferencesStep, InHandStep DEF Bookkeeping
<1> QED
  BY <1>1, BookkeepingInit, PTL DEF Spec

(* Type correctness: no upsert of runner.py writes a status, a child or a   *)
(* result that is not one, even when it is built on an old reading.         *)
THEOREM TypeCorrect == Spec => []TypeOK
<1>1. Bookkeeping => TypeOK
  BY DEF Bookkeeping
<1> QED
  BY <1>1, BookkeepingInvariant, PTL
=============================================================================
