----------------------- MODULE WorkerDelegationSafety -----------------------
(***************************************************************************)
(* The safety properties of WorkerDelegation: those that hold for any      *)
(* number of runners and crashes, each from its own inductive invariant on *)
(* top of Bookkeeping, and those of one runner whose cycles run to their   *)
(* end, from SoloInv.                                                      *)
(***************************************************************************)
EXTENDS WorkerDelegationBookkeeping, FiniteSetTheorems

(* A request is closed only by a runner that sent its result or gave it up. *)
LEMMA NoLostDelegationStep ==
  ASSUME Bookkeeping, NoLostDelegationInv, [Next]_vars
  PROVE  NoLostDelegationInv'
<1> USE DEF NoLostDelegationInv, NoLostDelegation, EmittedBeforeResolve, Bookkeeping,
   TypeOK, Goto, durable, private, history
<1>1. ASSUME NEW p \in Runners, HygieneRead(p) PROVE NoLostDelegationInv'
  BY <1>1 DEF HygieneRead
<1>2. ASSUME NEW p \in Runners, HygieneClose(p) PROVE NoLostDelegationInv'
  BY <1>2 DEF HygieneClose
<1>3. ASSUME NEW p \in Runners, ListResults(p) PROVE NoLostDelegationInv'
  BY <1>3 DEF ListResults
<1>4. ASSUME NEW p \in Runners, ReadResult(p) PROVE NoLostDelegationInv'
  BY <1>4 DEF ReadResult
<1>5. ASSUME NEW p \in Runners, SettleWorker(p) PROVE NoLostDelegationInv'
  BY <1>5 DEF SettleWorker, Resolutions
<1>6. ASSUME NEW p \in Runners, SettleTask(p) PROVE NoLostDelegationInv'
  BY <1>6 DEF SettleTask
<1>7. ASSUME NEW p \in Runners, RecordCompletion(p) PROVE NoLostDelegationInv'
  BY <1>7 DEF RecordCompletion
<1>8. ASSUME NEW p \in Runners, Acknowledge(p) PROVE NoLostDelegationInv'
  BY <1>8 DEF Acknowledge
<1>9. ASSUME NEW p \in Runners, StartSupervision(p) PROVE NoLostDelegationInv'
  BY <1>9 DEF StartSupervision
<1>10. ASSUME NEW p \in Runners, ObserveHealthy(p) PROVE NoLostDelegationInv'
  BY <1>10 DEF ObserveHealthy, Refreshed
<1>11. ASSUME NEW p \in Runners, ObserveStalled(p) PROVE NoLostDelegationInv'
  BY <1>11 DEF ObserveStalled, Refreshed, Pending
<1>12. ASSUME NEW p \in Runners, WithdrawRequest(p) PROVE NoLostDelegationInv'
  BY <1>12 DEF WithdrawRequest, InHandOK, Repairing, Delegating, HoldsWorker, HoldsTask
<1>13. ASSUME NEW p \in Runners, FailWorker(p) PROVE NoLostDelegationInv'
  BY <1>13 DEF FailWorker
<1>14. ASSUME NEW p \in Runners, BlockTask(p) PROVE NoLostDelegationInv'
  BY <1>14 DEF BlockTask
<1>15. ASSUME NEW p \in Runners, StartDispatch(p) PROVE NoLostDelegationInv'
  BY <1>15 DEF StartDispatch
<1>16. ASSUME NEW p \in Runners, CreateWorker(p) PROVE NoLostDelegationInv'
  BY <1>16 DEF CreateWorker, Unused
<1>17. ASSUME NEW p \in Runners, SendRequest(p) PROVE NoLostDelegationInv'
  BY <1>17 DEF SendRequest, InHandOK, Repairing, Delegating, HoldsWorker, HoldsTask
<1>18. ASSUME NEW p \in Runners, LinkDispatched(p) PROVE NoLostDelegationInv'
  BY <1>18 DEF LinkDispatched, LinkChild
<1>19. ASSUME NEW p \in Runners, LinkReassigned(p) PROVE NoLostDelegationInv'
  BY <1>19 DEF LinkReassigned, LinkChild
<1>20. ASSUME NEW p \in Runners, Select(p) PROVE NoLostDelegationInv'
  BY <1>20 DEF Select
<1>21. ASSUME NEW p \in Runners, RewriteTask(p) PROVE NoLostDelegationInv'
  BY <1>21 DEF RewriteTask
<1>22. ASSUME NEW p \in Runners, RecordAttempt(p) PROVE NoLostDelegationInv'
  BY <1>22 DEF RecordAttempt
<1>23. ASSUME NEW p \in Runners, ListRequests(p) PROVE NoLostDelegationInv'
  BY <1>23 DEF ListRequests, PendingRequests, Pending
<1>24. ASSUME NEW p \in Runners, EmitResult(p) PROVE NoLostDelegationInv'
  <2>1. PICK w \in queue[p], r \in sent' :
          sent' = sent \cup {r} /\ r.worker = w /\ job' = [job EXCEPT ![p] = [NoJob EXCEPT !.worker = w]]
    BY <1>24 DEF EmitResult
  <2>2. job'[p].worker = w
    BY <2>1 DEF NoJob
  <2> QED
    BY <1>24, <2>1, <2>2 DEF EmitResult
<1>25. ASSUME NEW p \in Runners, ResolveRequest(p) PROVE NoLostDelegationInv'
  BY <1>25 DEF ResolveRequest
<1>26. ASSUME NEW p \in Runners, EndCycle(p) PROVE NoLostDelegationInv'
  BY <1>26 DEF EndCycle
<1>27. ASSUME NEW p \in Runners, Crash(p) PROVE NoLostDelegationInv'
  BY <1>27 DEF Crash
<1>28. ASSUME NEW w \in Workers, Age(w) PROVE NoLostDelegationInv'
  BY <1>28 DEF Age
<1>30. ASSUME NEW p \in Runners, TakeIn(p) PROVE NoLostDelegationInv'
  BY <1>30 DEF TakeIn
<1>31. ASSUME NEW p \in Runners, BeginRun(p) PROVE NoLostDelegationInv'
  BY <1>31 DEF BeginRun
<1>29. CASE UNCHANGED vars
  BY <1>29 DEF vars
<1> QED
  BY <1>1, <1>2, <1>3, <1>4, <1>5, <1>6, <1>7, <1>8, <1>9, <1>10, <1>11, <1>12, <1>13,
     <1>14, <1>15, <1>16, <1>17, <1>18, <1>19, <1>20, <1>21, <1>22, <1>23, <1>24, <1>25,
     <1>26, <1>27, <1>28, <1>29, <1>30, <1>31
  DEF Next, Step, Start, Reconcile, Supervise, Delegate, Dispatch, Serve

(* A result is acknowledged only by a runner that has recorded it.         *)
LEMMA AckedIsRecordedStep ==
  ASSUME Bookkeeping, AckedIsRecordedInv, [Next]_vars
  PROVE  AckedIsRecordedInv'
<1> USE DEF AckedIsRecordedInv, AckedIsRecorded, RecordedBeforeAck, Bookkeeping, TypeOK,
   Goto, durable, private, history
<1>1. ASSUME NEW p \in Runners, HygieneRead(p) PROVE AckedIsRecordedInv'
  BY <1>1 DEF HygieneRead
<1>2. ASSUME NEW p \in Runners, HygieneClose(p) PROVE AckedIsRecordedInv'
  BY <1>2 DEF HygieneClose
<1>3. ASSUME NEW p \in Runners, ListResults(p) PROVE AckedIsRecordedInv'
  BY <1>3 DEF ListResults
<1>4. ASSUME NEW p \in Runners, ReadResult(p) PROVE AckedIsRecordedInv'
  BY <1>4 DEF ReadResult
<1>5. ASSUME NEW p \in Runners, SettleWorker(p) PROVE AckedIsRecordedInv'
  BY <1>5 DEF SettleWorker, Resolutions
<1>6. ASSUME NEW p \in Runners, SettleTask(p) PROVE AckedIsRecordedInv'
  BY <1>6 DEF SettleTask
<1>7. ASSUME NEW p \in Runners, RecordCompletion(p) PROVE AckedIsRecordedInv'
  BY <1>7 DEF RecordCompletion
<1>8. ASSUME NEW p \in Runners, Acknowledge(p) PROVE AckedIsRecordedInv'
  BY <1>8 DEF Acknowledge
<1>9. ASSUME NEW p \in Runners, StartSupervision(p) PROVE AckedIsRecordedInv'
  BY <1>9 DEF StartSupervision
<1>10. ASSUME NEW p \in Runners, ObserveHealthy(p) PROVE AckedIsRecordedInv'
  BY <1>10 DEF ObserveHealthy, Refreshed
<1>11. ASSUME NEW p \in Runners, ObserveStalled(p) PROVE AckedIsRecordedInv'
  BY <1>11 DEF ObserveStalled, Refreshed, Pending
<1>12. ASSUME NEW p \in Runners, WithdrawRequest(p) PROVE AckedIsRecordedInv'
  BY <1>12 DEF WithdrawRequest
<1>13. ASSUME NEW p \in Runners, FailWorker(p) PROVE AckedIsRecordedInv'
  BY <1>13 DEF FailWorker
<1>14. ASSUME NEW p \in Runners, BlockTask(p) PROVE AckedIsRecordedInv'
  BY <1>14 DEF BlockTask
<1>15. ASSUME NEW p \in Runners, StartDispatch(p) PROVE AckedIsRecordedInv'
  BY <1>15 DEF StartDispatch
<1>16. ASSUME NEW p \in Runners, CreateWorker(p) PROVE AckedIsRecordedInv'
  BY <1>16 DEF CreateWorker, Unused
<1>17. ASSUME NEW p \in Runners, SendRequest(p) PROVE AckedIsRecordedInv'
  BY <1>17 DEF SendRequest
<1>18. ASSUME NEW p \in Runners, LinkDispatched(p) PROVE AckedIsRecordedInv'
  BY <1>18 DEF LinkDispatched, LinkChild
<1>19. ASSUME NEW p \in Runners, LinkReassigned(p) PROVE AckedIsRecordedInv'
  BY <1>19 DEF LinkReassigned, LinkChild
<1>20. ASSUME NEW p \in Runners, Select(p) PROVE AckedIsRecordedInv'
  BY <1>20 DEF Select
<1>21. ASSUME NEW p \in Runners, RewriteTask(p) PROVE AckedIsRecordedInv'
  BY <1>21 DEF RewriteTask
<1>22. ASSUME NEW p \in Runners, RecordAttempt(p) PROVE AckedIsRecordedInv'
  BY <1>22 DEF RecordAttempt
<1>23. ASSUME NEW p \in Runners, ListRequests(p) PROVE AckedIsRecordedInv'
  BY <1>23 DEF ListRequests, PendingRequests, Pending
<1>24. ASSUME NEW p \in Runners, EmitResult(p) PROVE AckedIsRecordedInv'
  BY <1>24 DEF EmitResult
<1>25. ASSUME NEW p \in Runners, ResolveRequest(p) PROVE AckedIsRecordedInv'
  BY <1>25 DEF ResolveRequest
<1>26. ASSUME NEW p \in Runners, EndCycle(p) PROVE AckedIsRecordedInv'
  BY <1>26 DEF EndCycle
<1>27. ASSUME NEW p \in Runners, Crash(p) PROVE AckedIsRecordedInv'
  BY <1>27 DEF Crash
<1>28. ASSUME NEW w \in Workers, Age(w) PROVE AckedIsRecordedInv'
  BY <1>28 DEF Age
<1>30. ASSUME NEW p \in Runners, TakeIn(p) PROVE AckedIsRecordedInv'
  BY <1>30 DEF TakeIn
<1>31. ASSUME NEW p \in Runners, BeginRun(p) PROVE AckedIsRecordedInv'
  BY <1>31 DEF BeginRun
<1>29. CASE UNCHANGED vars
  BY <1>29 DEF vars
<1> QED
  BY <1>1, <1>2, <1>3, <1>4, <1>5, <1>6, <1>7, <1>8, <1>9, <1>10, <1>11, <1>12, <1>13,
     <1>14, <1>15, <1>16, <1>17, <1>18, <1>19, <1>20, <1>21, <1>22, <1>23, <1>24, <1>25,
     <1>26, <1>27, <1>28, <1>29, <1>30, <1>31
  DEF Next, Step, Start, Reconcile, Supervise, Delegate, Dispatch, Serve

(* A request that was sent stays in the table for ever.                     *)
LEMMA RequestInHandStep ==
  ASSUME Bookkeeping, RequestInHand, [Next]_vars
  PROVE  RequestInHand'
<1> USE DEF InHandOK, Repairing, Delegating, HoldsWorker, HoldsTask, RequestInHand,
   Bookkeeping, TypeOK, Goto, durable, private, history
<1>1. ASSUME NEW p \in Runners, HygieneRead(p) PROVE RequestInHand'
  BY <1>1 DEF HygieneRead
<1>2. ASSUME NEW p \in Runners, HygieneClose(p) PROVE RequestInHand'
  BY <1>2 DEF HygieneClose
<1>3. ASSUME NEW p \in Runners, ListResults(p) PROVE RequestInHand'
  BY <1>3 DEF ListResults
<1>4. ASSUME NEW p \in Runners, ReadResult(p) PROVE RequestInHand'
  BY <1>4 DEF ReadResult
<1>5. ASSUME NEW p \in Runners, SettleWorker(p) PROVE RequestInHand'
  BY <1>5 DEF SettleWorker, Resolutions
<1>6. ASSUME NEW p \in Runners, SettleTask(p) PROVE RequestInHand'
  BY <1>6 DEF SettleTask
<1>7. ASSUME NEW p \in Runners, RecordCompletion(p) PROVE RequestInHand'
  BY <1>7 DEF RecordCompletion
<1>8. ASSUME NEW p \in Runners, Acknowledge(p) PROVE RequestInHand'
  BY <1>8 DEF Acknowledge
<1>9. ASSUME NEW p \in Runners, StartSupervision(p) PROVE RequestInHand'
  BY <1>9 DEF StartSupervision
<1>10. ASSUME NEW p \in Runners, ObserveHealthy(p) PROVE RequestInHand'
  BY <1>10 DEF ObserveHealthy, Refreshed
<1>11. ASSUME NEW p \in Runners, ObserveStalled(p) PROVE RequestInHand'
  BY <1>11 DEF ObserveStalled, Refreshed, Pending
<1>12. ASSUME NEW p \in Runners, WithdrawRequest(p) PROVE RequestInHand'
  BY <1>12 DEF WithdrawRequest
<1>13. ASSUME NEW p \in Runners, FailWorker(p) PROVE RequestInHand'
  BY <1>13 DEF FailWorker
<1>14. ASSUME NEW p \in Runners, BlockTask(p) PROVE RequestInHand'
  BY <1>14 DEF BlockTask
<1>15. ASSUME NEW p \in Runners, StartDispatch(p) PROVE RequestInHand'
  BY <1>15 DEF StartDispatch
<1>16. ASSUME NEW p \in Runners, CreateWorker(p) PROVE RequestInHand'
  BY <1>16 DEF CreateWorker, Unused
<1>17. ASSUME NEW p \in Runners, SendRequest(p) PROVE RequestInHand'
  BY <1>17 DEF SendRequest
<1>18. ASSUME NEW p \in Runners, LinkDispatched(p) PROVE RequestInHand'
  BY <1>18 DEF LinkDispatched, LinkChild
<1>19. ASSUME NEW p \in Runners, LinkReassigned(p) PROVE RequestInHand'
  BY <1>19 DEF LinkReassigned, LinkChild
<1>20. ASSUME NEW p \in Runners, Select(p) PROVE RequestInHand'
  BY <1>20 DEF Select
<1>21. ASSUME NEW p \in Runners, RewriteTask(p) PROVE RequestInHand'
  BY <1>21 DEF RewriteTask
<1>22. ASSUME NEW p \in Runners, RecordAttempt(p) PROVE RequestInHand'
  BY <1>22 DEF RecordAttempt
<1>23. ASSUME NEW p \in Runners, ListRequests(p) PROVE RequestInHand'
  BY <1>23 DEF ListRequests, PendingRequests, Pending
<1>24. ASSUME NEW p \in Runners, EmitResult(p) PROVE RequestInHand'
  BY <1>24 DEF EmitResult
<1>25. ASSUME NEW p \in Runners, ResolveRequest(p) PROVE RequestInHand'
  BY <1>25 DEF ResolveRequest
<1>26. ASSUME NEW p \in Runners, EndCycle(p) PROVE RequestInHand'
  BY <1>26 DEF EndCycle
<1>27. ASSUME NEW p \in Runners, Crash(p) PROVE RequestInHand'
  BY <1>27 DEF Crash
<1>28. ASSUME NEW w \in Workers, Age(w) PROVE RequestInHand'
  BY <1>28 DEF Age
<1>30. ASSUME NEW p \in Runners, TakeIn(p) PROVE RequestInHand'
  BY <1>30 DEF TakeIn
<1>31. ASSUME NEW p \in Runners, BeginRun(p) PROVE RequestInHand'
  BY <1>31 DEF BeginRun
<1>29. CASE UNCHANGED vars
  BY <1>29 DEF vars
<1> QED
  BY <1>1, <1>2, <1>3, <1>4, <1>5, <1>6, <1>7, <1>8, <1>9, <1>10, <1>11, <1>12, <1>13,
     <1>14, <1>15, <1>16, <1>17, <1>18, <1>19, <1>20, <1>21, <1>22, <1>23, <1>24, <1>25,
     <1>26, <1>27, <1>28, <1>29, <1>30, <1>31
  DEF Next, Step, Start, Reconcile, Supervise, Delegate, Dispatch, Serve

(* Two runners never create the same worker task.                          *)
LEMMA FreshStep ==
  ASSUME Bookkeeping, RequestInHand, FreshIsPrivate, [Next]_vars
  PROVE  FreshIsPrivate'
<1> USE NoneAssumption DEF References, InHandOK, Repairing, Delegating, HoldsWorker,
   HoldsTask, Exists, Jobs, RequestInHand, FreshIsPrivate, Bookkeeping, TypeOK, Goto,
   durable, private, history
<1>1. ASSUME NEW p \in Runners, HygieneRead(p) PROVE FreshIsPrivate'
  BY <1>1 DEF HygieneRead
<1>2. ASSUME NEW p \in Runners, HygieneClose(p) PROVE FreshIsPrivate'
  BY <1>2 DEF HygieneClose
<1>3. ASSUME NEW p \in Runners, ListResults(p) PROVE FreshIsPrivate'
  BY <1>3 DEF ListResults
<1>4. ASSUME NEW p \in Runners, ReadResult(p) PROVE FreshIsPrivate'
  BY <1>4 DEF ReadResult
<1>5. ASSUME NEW p \in Runners, SettleWorker(p) PROVE FreshIsPrivate'
  BY <1>5 DEF SettleWorker, Resolutions
<1>6. ASSUME NEW p \in Runners, SettleTask(p) PROVE FreshIsPrivate'
  BY <1>6 DEF SettleTask
<1>7. ASSUME NEW p \in Runners, RecordCompletion(p) PROVE FreshIsPrivate'
  BY <1>7 DEF RecordCompletion
<1>8. ASSUME NEW p \in Runners, Acknowledge(p) PROVE FreshIsPrivate'
  BY <1>8 DEF Acknowledge
<1>9. ASSUME NEW p \in Runners, StartSupervision(p) PROVE FreshIsPrivate'
  BY <1>9 DEF StartSupervision
<1>10. ASSUME NEW p \in Runners, ObserveHealthy(p) PROVE FreshIsPrivate'
  BY <1>10 DEF ObserveHealthy, Refreshed
<1>11. ASSUME NEW p \in Runners, ObserveStalled(p) PROVE FreshIsPrivate'
  BY <1>11 DEF ObserveStalled, Refreshed, Pending
<1>12. ASSUME NEW p \in Runners, WithdrawRequest(p) PROVE FreshIsPrivate'
  BY <1>12 DEF WithdrawRequest
<1>13. ASSUME NEW p \in Runners, FailWorker(p) PROVE FreshIsPrivate'
  BY <1>13 DEF FailWorker
<1>14. ASSUME NEW p \in Runners, BlockTask(p) PROVE FreshIsPrivate'
  BY <1>14 DEF BlockTask
<1>15. ASSUME NEW p \in Runners, StartDispatch(p) PROVE FreshIsPrivate'
  BY <1>15 DEF StartDispatch
<1>16. ASSUME NEW p \in Runners, CreateWorker(p) PROVE FreshIsPrivate'
  BY <1>16 DEF CreateWorker, Unused
<1>17. ASSUME NEW p \in Runners, SendRequest(p) PROVE FreshIsPrivate'
  BY <1>17 DEF SendRequest
<1>18. ASSUME NEW p \in Runners, LinkDispatched(p) PROVE FreshIsPrivate'
  BY <1>18 DEF LinkDispatched, LinkChild
<1>19. ASSUME NEW p \in Runners, LinkReassigned(p) PROVE FreshIsPrivate'
  BY <1>19 DEF LinkReassigned, LinkChild
<1>20. ASSUME NEW p \in Runners, Select(p) PROVE FreshIsPrivate'
  BY <1>20 DEF Select
<1>21. ASSUME NEW p \in Runners, RewriteTask(p) PROVE FreshIsPrivate'
  BY <1>21 DEF RewriteTask
<1>22. ASSUME NEW p \in Runners, RecordAttempt(p) PROVE FreshIsPrivate'
  BY <1>22 DEF RecordAttempt
<1>23. ASSUME NEW p \in Runners, ListRequests(p) PROVE FreshIsPrivate'
  BY <1>23 DEF ListRequests, PendingRequests, Pending
<1>24. ASSUME NEW p \in Runners, EmitResult(p) PROVE FreshIsPrivate'
  BY <1>24 DEF EmitResult
<1>25. ASSUME NEW p \in Runners, ResolveRequest(p) PROVE FreshIsPrivate'
  BY <1>25 DEF ResolveRequest
<1>26. ASSUME NEW p \in Runners, EndCycle(p) PROVE FreshIsPrivate'
  BY <1>26 DEF EndCycle
<1>27. ASSUME NEW p \in Runners, Crash(p) PROVE FreshIsPrivate'
  BY <1>27 DEF Crash
<1>28. ASSUME NEW w \in Workers, Age(w) PROVE FreshIsPrivate'
  BY <1>28 DEF Age
<1>30. ASSUME NEW p \in Runners, TakeIn(p) PROVE FreshIsPrivate'
  BY <1>30 DEF TakeIn
<1>31. ASSUME NEW p \in Runners, BeginRun(p) PROVE FreshIsPrivate'
  BY <1>31 DEF BeginRun
<1>29. CASE UNCHANGED vars
  BY <1>29 DEF vars
<1> QED
  BY <1>1, <1>2, <1>3, <1>4, <1>5, <1>6, <1>7, <1>8, <1>9, <1>10, <1>11, <1>12, <1>13,
     <1>14, <1>15, <1>16, <1>17, <1>18, <1>19, <1>20, <1>21, <1>22, <1>23, <1>24, <1>25,
     <1>26, <1>27, <1>28, <1>29, <1>30, <1>31
  DEF Next, Step, Start, Reconcile, Supervise, Delegate, Dispatch, Serve

(* A request served to the end is never listed again by the same runner.   *)
LEMMA ServingOnceStep ==
  ASSUME Bookkeeping, RequestInHand, FreshIsPrivate, ServedOncePerCrash, ServingOnce, [Next]_vars
  PROVE  ServingOnce'
<1> USE DEF InHandOK, Repairing, Delegating, HoldsWorker, HoldsTask, RequestInHand,
   FreshIsPrivate, ServedOncePerCrash, Closing, ServingOnce, Bookkeeping, TypeOK, Goto,
   durable, private, history
<1>1. ASSUME NEW p \in Runners, HygieneRead(p) PROVE ServingOnce'
  BY <1>1 DEF HygieneRead
<1>2. ASSUME NEW p \in Runners, HygieneClose(p) PROVE ServingOnce'
  BY <1>2 DEF HygieneClose
<1>3. ASSUME NEW p \in Runners, ListResults(p) PROVE ServingOnce'
  BY <1>3 DEF ListResults
<1>4. ASSUME NEW p \in Runners, ReadResult(p) PROVE ServingOnce'
  BY <1>4 DEF ReadResult
<1>5. ASSUME NEW p \in Runners, SettleWorker(p) PROVE ServingOnce'
  BY <1>5 DEF SettleWorker, Resolutions
<1>6. ASSUME NEW p \in Runners, SettleTask(p) PROVE ServingOnce'
  BY <1>6 DEF SettleTask
<1>7. ASSUME NEW p \in Runners, RecordCompletion(p) PROVE ServingOnce'
  BY <1>7 DEF RecordCompletion
<1>8. ASSUME NEW p \in Runners, Acknowledge(p) PROVE ServingOnce'
  BY <1>8 DEF Acknowledge
<1>9. ASSUME NEW p \in Runners, StartSupervision(p) PROVE ServingOnce'
  BY <1>9 DEF StartSupervision
<1>10. ASSUME NEW p \in Runners, ObserveHealthy(p) PROVE ServingOnce'
  BY <1>10 DEF ObserveHealthy, Refreshed
<1>11. ASSUME NEW p \in Runners, ObserveStalled(p) PROVE ServingOnce'
  BY <1>11 DEF ObserveStalled, Refreshed, Pending
<1>12. ASSUME NEW p \in Runners, WithdrawRequest(p) PROVE ServingOnce'
  BY <1>12 DEF WithdrawRequest
<1>13. ASSUME NEW p \in Runners, FailWorker(p) PROVE ServingOnce'
  BY <1>13 DEF FailWorker
<1>14. ASSUME NEW p \in Runners, BlockTask(p) PROVE ServingOnce'
  BY <1>14 DEF BlockTask
<1>15. ASSUME NEW p \in Runners, StartDispatch(p) PROVE ServingOnce'
  BY <1>15 DEF StartDispatch
<1>16. ASSUME NEW p \in Runners, CreateWorker(p) PROVE ServingOnce'
  BY <1>16 DEF CreateWorker, Unused
<1>17. ASSUME NEW p \in Runners, SendRequest(p) PROVE ServingOnce'
  BY <1>17 DEF SendRequest
<1>18. ASSUME NEW p \in Runners, LinkDispatched(p) PROVE ServingOnce'
  BY <1>18 DEF LinkDispatched, LinkChild
<1>19. ASSUME NEW p \in Runners, LinkReassigned(p) PROVE ServingOnce'
  BY <1>19 DEF LinkReassigned, LinkChild
<1>20. ASSUME NEW p \in Runners, Select(p) PROVE ServingOnce'
  BY <1>20 DEF Select
<1>21. ASSUME NEW p \in Runners, RewriteTask(p) PROVE ServingOnce'
  BY <1>21 DEF RewriteTask
<1>22. ASSUME NEW p \in Runners, RecordAttempt(p) PROVE ServingOnce'
  BY <1>22 DEF RecordAttempt
<1>23. ASSUME NEW p \in Runners, ListRequests(p) PROVE ServingOnce'
  <2>1. PICK listed \in SUBSET PendingRequests : queue' = [queue EXCEPT ![p] = listed]
    BY <1>23 DEF ListRequests
  <2>2. \A w \in listed : request[w] # "resolved"
    BY DEF PendingRequests, Pending
  <2>3. pc[p] = "dispatch" /\ pc' = [pc EXCEPT ![p] = "turn"] /\ UNCHANGED <<request, job, emitted, crashes>>
    BY <1>23 DEF ListRequests
  <2> QED
    BY <2>1, <2>2, <2>3
<1>24. ASSUME NEW p \in Runners, EmitResult(p) PROVE ServingOnce'
  BY <1>24 DEF EmitResult
<1>25. ASSUME NEW p \in Runners, ResolveRequest(p) PROVE ServingOnce'
  BY <1>25 DEF ResolveRequest
<1>26. ASSUME NEW p \in Runners, EndCycle(p) PROVE ServingOnce'
  BY <1>26 DEF EndCycle
<1>27. ASSUME NEW p \in Runners, Crash(p) PROVE ServingOnce'
  BY <1>27 DEF Crash
<1>28. ASSUME NEW w \in Workers, Age(w) PROVE ServingOnce'
  BY <1>28 DEF Age
<1>30. ASSUME NEW p \in Runners, TakeIn(p) PROVE ServingOnce'
  BY <1>30 DEF TakeIn
<1>31. ASSUME NEW p \in Runners, BeginRun(p) PROVE ServingOnce'
  BY <1>31 DEF BeginRun
<1>29. CASE UNCHANGED vars
  BY <1>29 DEF vars
<1> QED
  BY <1>1, <1>2, <1>3, <1>4, <1>5, <1>6, <1>7, <1>8, <1>9, <1>10, <1>11, <1>12, <1>13,
     <1>14, <1>15, <1>16, <1>17, <1>18, <1>19, <1>20, <1>21, <1>22, <1>23, <1>24, <1>25,
     <1>26, <1>27, <1>28, <1>29, <1>30, <1>31
  DEF Next, Step, Start, Reconcile, Supervise, Delegate, Dispatch, Serve

(* So a provider call is repeated only after a crash.                       *)
LEMMA ServedOnceStep ==
  ASSUME Bookkeeping, RequestInHand, FreshIsPrivate, ServedOncePerCrash, ServingOnce, [Next]_vars
  PROVE  ServedOncePerCrash'
<1> USE DEF RequestInHand, ServedOncePerCrash, Closing, ServingOnce, Bookkeeping, TypeOK,
   Goto, durable, private, history
<1>1. ASSUME NEW p \in Runners, HygieneRead(p) PROVE ServedOncePerCrash'
  BY <1>1 DEF HygieneRead
<1>2. ASSUME NEW p \in Runners, HygieneClose(p) PROVE ServedOncePerCrash'
  BY <1>2 DEF HygieneClose
<1>3. ASSUME NEW p \in Runners, ListResults(p) PROVE ServedOncePerCrash'
  BY <1>3 DEF ListResults
<1>4. ASSUME NEW p \in Runners, ReadResult(p) PROVE ServedOncePerCrash'
  BY <1>4 DEF ReadResult
<1>5. ASSUME NEW p \in Runners, SettleWorker(p) PROVE ServedOncePerCrash'
  BY <1>5 DEF SettleWorker, Resolutions
<1>6. ASSUME NEW p \in Runners, SettleTask(p) PROVE ServedOncePerCrash'
  BY <1>6 DEF SettleTask
<1>7. ASSUME NEW p \in Runners, RecordCompletion(p) PROVE ServedOncePerCrash'
  BY <1>7 DEF RecordCompletion
<1>8. ASSUME NEW p \in Runners, Acknowledge(p) PROVE ServedOncePerCrash'
  BY <1>8 DEF Acknowledge
<1>9. ASSUME NEW p \in Runners, StartSupervision(p) PROVE ServedOncePerCrash'
  BY <1>9 DEF StartSupervision
<1>10. ASSUME NEW p \in Runners, ObserveHealthy(p) PROVE ServedOncePerCrash'
  BY <1>10 DEF ObserveHealthy, Refreshed
<1>11. ASSUME NEW p \in Runners, ObserveStalled(p) PROVE ServedOncePerCrash'
  BY <1>11 DEF ObserveStalled, Refreshed, Pending
<1>12. ASSUME NEW p \in Runners, WithdrawRequest(p) PROVE ServedOncePerCrash'
  BY <1>12 DEF WithdrawRequest
<1>13. ASSUME NEW p \in Runners, FailWorker(p) PROVE ServedOncePerCrash'
  BY <1>13 DEF FailWorker
<1>14. ASSUME NEW p \in Runners, BlockTask(p) PROVE ServedOncePerCrash'
  BY <1>14 DEF BlockTask
<1>15. ASSUME NEW p \in Runners, StartDispatch(p) PROVE ServedOncePerCrash'
  BY <1>15 DEF StartDispatch
<1>16. ASSUME NEW p \in Runners, CreateWorker(p) PROVE ServedOncePerCrash'
  BY <1>16 DEF CreateWorker, Unused
<1>17. ASSUME NEW p \in Runners, SendRequest(p) PROVE ServedOncePerCrash'
  BY <1>17 DEF SendRequest
<1>18. ASSUME NEW p \in Runners, LinkDispatched(p) PROVE ServedOncePerCrash'
  BY <1>18 DEF LinkDispatched, LinkChild
<1>19. ASSUME NEW p \in Runners, LinkReassigned(p) PROVE ServedOncePerCrash'
  BY <1>19 DEF LinkReassigned, LinkChild
<1>20. ASSUME NEW p \in Runners, Select(p) PROVE ServedOncePerCrash'
  BY <1>20 DEF Select
<1>21. ASSUME NEW p \in Runners, RewriteTask(p) PROVE ServedOncePerCrash'
  BY <1>21 DEF RewriteTask
<1>22. ASSUME NEW p \in Runners, RecordAttempt(p) PROVE ServedOncePerCrash'
  BY <1>22 DEF RecordAttempt
<1>23. ASSUME NEW p \in Runners, ListRequests(p) PROVE ServedOncePerCrash'
  BY <1>23 DEF ListRequests, PendingRequests, Pending
<1>24. ASSUME NEW p \in Runners, EmitResult(p) PROVE ServedOncePerCrash'
  <2>1. PICK w \in queue[p] : emitted' = [emitted EXCEPT ![p][w] = emitted[p][w] + 1]
    BY <1>24 DEF EmitResult
  <2>2. pc[p] = "turn" /\ UNCHANGED crashes
    BY <1>24 DEF EmitResult
  <2>3. w \in Workers /\ emitted[p][w] \in Nat /\ crashes[p] \in Nat
    OBVIOUS
  <2>4. emitted[p][w] <= crashes[p]
    <3>1. ~ (emitted[p][w] > crashes[p])
      BY <2>1, <2>2
    <3> QED
      BY <2>3, <3>1
  <2>5. \A q \in Runners, v \in Workers : q # p \/ v # w => emitted'[q][v] = emitted[q][v]
    BY <2>1
  <2>6. emitted'[p][w] = emitted[p][w] + 1
    BY <2>1, <2>3
  <2> SUFFICES ASSUME NEW q \in Runners, NEW v \in Workers
               PROVE  emitted'[q][v] <= 1 + crashes[q]
    BY <2>2
  <2>7. CASE q = p /\ v = w
    BY <2>3, <2>4, <2>6, <2>7
  <2>8. CASE q # p \/ v # w
    BY <2>5, <2>8
  <2> QED
    BY <2>7, <2>8
<1>25. ASSUME NEW p \in Runners, ResolveRequest(p) PROVE ServedOncePerCrash'
  BY <1>25 DEF ResolveRequest
<1>26. ASSUME NEW p \in Runners, EndCycle(p) PROVE ServedOncePerCrash'
  BY <1>26 DEF EndCycle
<1>27. ASSUME NEW p \in Runners, Crash(p) PROVE ServedOncePerCrash'
  BY <1>27 DEF Crash
<1>28. ASSUME NEW w \in Workers, Age(w) PROVE ServedOncePerCrash'
  BY <1>28 DEF Age
<1>30. ASSUME NEW p \in Runners, TakeIn(p) PROVE ServedOncePerCrash'
  BY <1>30 DEF TakeIn
<1>31. ASSUME NEW p \in Runners, BeginRun(p) PROVE ServedOncePerCrash'
  BY <1>31 DEF BeginRun
<1>29. CASE UNCHANGED vars
  BY <1>29 DEF vars
<1> QED
  BY <1>1, <1>2, <1>3, <1>4, <1>5, <1>6, <1>7, <1>8, <1>9, <1>10, <1>11, <1>12, <1>13,
     <1>14, <1>15, <1>16, <1>17, <1>18, <1>19, <1>20, <1>21, <1>22, <1>23, <1>24, <1>25,
     <1>26, <1>27, <1>28, <1>29, <1>30, <1>31
  DEF Next, Step, Start, Reconcile, Supervise, Delegate, Dispatch, Serve

(* Completion needs an answer, also when a handler works on old readings.  *)
LEMMA CompletionStep ==
  ASSUME Bookkeeping, CompletionInv, [Next]_vars
  PROVE  CompletionInv'
<1> USE NoneAssumption DEF References, InHandOK, Handling, HoldsResult, CompletionInv,
   CompletionIsEarned, EarnedInHand, Earned, Exists, Result, Bookkeeping, TypeOK, Goto,
   durable, private, history
<1>1. ASSUME NEW p \in Runners, HygieneRead(p) PROVE CompletionInv'
  BY <1>1 DEF HygieneRead
<1>2. ASSUME NEW p \in Runners, HygieneClose(p) PROVE CompletionInv'
  BY <1>2 DEF HygieneClose
<1>3. ASSUME NEW p \in Runners, ListResults(p) PROVE CompletionInv'
  BY <1>3 DEF ListResults
<1>4. ASSUME NEW p \in Runners, ReadResult(p) PROVE CompletionInv'
  BY <1>4 DEF ReadResult
<1>5. ASSUME NEW p \in Runners, SettleWorker(p) PROVE CompletionInv'
  BY <1>5 DEF SettleWorker, Resolutions
<1>6. ASSUME NEW p \in Runners, SettleTask(p) PROVE CompletionInv'
  <2>1. HoldsResult(p) /\ pc[p] = "settleTask"
    BY <1>6 DEF SettleTask
  <2>2. job[p].verdict = "complete" => Earned(job[p].task)
    BY <2>1
  <2>3. tasks' = [tasks EXCEPT ![job[p].task] = [status |-> job[p].verdict,
                                                 kids   |-> view[p][job[p].task] \ {job[p].worker}]]
    BY <1>6 DEF SettleTask
  <2>4. UNCHANGED <<wtask, sent, answered, job>> /\ pc' = [pc EXCEPT ![p] = "record"]
    BY <1>6 DEF SettleTask
  <2> QED
    BY <2>2, <2>3, <2>4
<1>7. ASSUME NEW p \in Runners, RecordCompletion(p) PROVE CompletionInv'
  BY <1>7 DEF RecordCompletion
<1>8. ASSUME NEW p \in Runners, Acknowledge(p) PROVE CompletionInv'
  BY <1>8 DEF Acknowledge
<1>9. ASSUME NEW p \in Runners, StartSupervision(p) PROVE CompletionInv'
  BY <1>9 DEF StartSupervision
<1>10. ASSUME NEW p \in Runners, ObserveHealthy(p) PROVE CompletionInv'
  BY <1>10 DEF ObserveHealthy, Refreshed
<1>11. ASSUME NEW p \in Runners, ObserveStalled(p) PROVE CompletionInv'
  BY <1>11 DEF ObserveStalled, Refreshed, Pending
<1>12. ASSUME NEW p \in Runners, WithdrawRequest(p) PROVE CompletionInv'
  BY <1>12 DEF WithdrawRequest
<1>13. ASSUME NEW p \in Runners, FailWorker(p) PROVE CompletionInv'
  BY <1>13 DEF FailWorker
<1>14. ASSUME NEW p \in Runners, BlockTask(p) PROVE CompletionInv'
  BY <1>14 DEF BlockTask
<1>15. ASSUME NEW p \in Runners, StartDispatch(p) PROVE CompletionInv'
  BY <1>15 DEF StartDispatch
<1>16. ASSUME NEW p \in Runners, CreateWorker(p) PROVE CompletionInv'
  BY <1>16 DEF CreateWorker, Unused
<1>17. ASSUME NEW p \in Runners, SendRequest(p) PROVE CompletionInv'
  BY <1>17 DEF SendRequest
<1>18. ASSUME NEW p \in Runners, LinkDispatched(p) PROVE CompletionInv'
  BY <1>18 DEF LinkDispatched, LinkChild
<1>19. ASSUME NEW p \in Runners, LinkReassigned(p) PROVE CompletionInv'
  BY <1>19 DEF LinkReassigned, LinkChild
<1>20. ASSUME NEW p \in Runners, Select(p) PROVE CompletionInv'
  BY <1>20 DEF Select
<1>21. ASSUME NEW p \in Runners, RewriteTask(p) PROVE CompletionInv'
  BY <1>21 DEF RewriteTask, DispatchedStatus
<1>22. ASSUME NEW p \in Runners, RecordAttempt(p) PROVE CompletionInv'
  BY <1>22 DEF RecordAttempt
<1>23. ASSUME NEW p \in Runners, ListRequests(p) PROVE CompletionInv'
  BY <1>23 DEF ListRequests, PendingRequests, Pending
<1>24. ASSUME NEW p \in Runners, EmitResult(p) PROVE CompletionInv'
  BY <1>24 DEF EmitResult
<1>25. ASSUME NEW p \in Runners, ResolveRequest(p) PROVE CompletionInv'
  BY <1>25 DEF ResolveRequest
<1>26. ASSUME NEW p \in Runners, EndCycle(p) PROVE CompletionInv'
  BY <1>26 DEF EndCycle
<1>27. ASSUME NEW p \in Runners, Crash(p) PROVE CompletionInv'
  BY <1>27 DEF Crash
<1>28. ASSUME NEW w \in Workers, Age(w) PROVE CompletionInv'
  BY <1>28 DEF Age
<1>30. ASSUME NEW p \in Runners, TakeIn(p) PROVE CompletionInv'
  BY <1>30 DEF TakeIn
<1>31. ASSUME NEW p \in Runners, BeginRun(p) PROVE CompletionInv'
  BY <1>31 DEF BeginRun
<1>29. CASE UNCHANGED vars
  BY <1>29 DEF vars
<1> QED
  BY <1>1, <1>2, <1>3, <1>4, <1>5, <1>6, <1>7, <1>8, <1>9, <1>10, <1>11, <1>12, <1>13,
     <1>14, <1>15, <1>16, <1>17, <1>18, <1>19, <1>20, <1>21, <1>22, <1>23, <1>24, <1>25,
     <1>26, <1>27, <1>28, <1>29, <1>30, <1>31
  DEF Next, Step, Start, Reconcile, Supervise, Delegate, Dispatch, Serve

(* Results and direct answers are never deleted.                           *)
AnswersKept == sent \subseteq sent' /\ answered \subseteq answered'

LEMMA AnswersPersist ==
  ASSUME Bookkeeping, [Next]_vars
  PROVE  AnswersKept
<1> USE DEF AnswersKept, Bookkeeping, TypeOK, Goto, durable, private, history
<1>1. ASSUME NEW p \in Runners, HygieneRead(p) PROVE AnswersKept
  BY <1>1 DEF HygieneRead
<1>2. ASSUME NEW p \in Runners, HygieneClose(p) PROVE AnswersKept
  BY <1>2 DEF HygieneClose
<1>3. ASSUME NEW p \in Runners, ListResults(p) PROVE AnswersKept
  BY <1>3 DEF ListResults
<1>4. ASSUME NEW p \in Runners, ReadResult(p) PROVE AnswersKept
  BY <1>4 DEF ReadResult
<1>5. ASSUME NEW p \in Runners, SettleWorker(p) PROVE AnswersKept
  BY <1>5 DEF SettleWorker, Resolutions
<1>6. ASSUME NEW p \in Runners, SettleTask(p) PROVE AnswersKept
  BY <1>6 DEF SettleTask
<1>7. ASSUME NEW p \in Runners, RecordCompletion(p) PROVE AnswersKept
  BY <1>7 DEF RecordCompletion
<1>8. ASSUME NEW p \in Runners, Acknowledge(p) PROVE AnswersKept
  BY <1>8 DEF Acknowledge
<1>9. ASSUME NEW p \in Runners, StartSupervision(p) PROVE AnswersKept
  BY <1>9 DEF StartSupervision
<1>10. ASSUME NEW p \in Runners, ObserveHealthy(p) PROVE AnswersKept
  BY <1>10 DEF ObserveHealthy, Refreshed
<1>11. ASSUME NEW p \in Runners, ObserveStalled(p) PROVE AnswersKept
  BY <1>11 DEF ObserveStalled, Refreshed, Pending
<1>12. ASSUME NEW p \in Runners, WithdrawRequest(p) PROVE AnswersKept
  BY <1>12 DEF WithdrawRequest
<1>13. ASSUME NEW p \in Runners, FailWorker(p) PROVE AnswersKept
  BY <1>13 DEF FailWorker
<1>14. ASSUME NEW p \in Runners, BlockTask(p) PROVE AnswersKept
  BY <1>14 DEF BlockTask
<1>15. ASSUME NEW p \in Runners, StartDispatch(p) PROVE AnswersKept
  BY <1>15 DEF StartDispatch
<1>16. ASSUME NEW p \in Runners, CreateWorker(p) PROVE AnswersKept
  BY <1>16 DEF CreateWorker, Unused
<1>17. ASSUME NEW p \in Runners, SendRequest(p) PROVE AnswersKept
  BY <1>17 DEF SendRequest
<1>18. ASSUME NEW p \in Runners, LinkDispatched(p) PROVE AnswersKept
  BY <1>18 DEF LinkDispatched, LinkChild
<1>19. ASSUME NEW p \in Runners, LinkReassigned(p) PROVE AnswersKept
  BY <1>19 DEF LinkReassigned, LinkChild
<1>20. ASSUME NEW p \in Runners, Select(p) PROVE AnswersKept
  BY <1>20 DEF Select
<1>21. ASSUME NEW p \in Runners, RewriteTask(p) PROVE AnswersKept
  BY <1>21 DEF RewriteTask
<1>22. ASSUME NEW p \in Runners, RecordAttempt(p) PROVE AnswersKept
  BY <1>22 DEF RecordAttempt
<1>23. ASSUME NEW p \in Runners, ListRequests(p) PROVE AnswersKept
  BY <1>23 DEF ListRequests, PendingRequests, Pending
<1>24. ASSUME NEW p \in Runners, EmitResult(p) PROVE AnswersKept
  BY <1>24 DEF EmitResult
<1>25. ASSUME NEW p \in Runners, ResolveRequest(p) PROVE AnswersKept
  BY <1>25 DEF ResolveRequest
<1>26. ASSUME NEW p \in Runners, EndCycle(p) PROVE AnswersKept
  BY <1>26 DEF EndCycle
<1>27. ASSUME NEW p \in Runners, Crash(p) PROVE AnswersKept
  BY <1>27 DEF Crash
<1>28. ASSUME NEW w \in Workers, Age(w) PROVE AnswersKept
  BY <1>28 DEF Age
<1>30. ASSUME NEW p \in Runners, TakeIn(p) PROVE AnswersKept
  BY <1>30 DEF TakeIn
<1>31. ASSUME NEW p \in Runners, BeginRun(p) PROVE AnswersKept
  BY <1>31 DEF BeginRun
<1>29. CASE UNCHANGED vars
  BY <1>29 DEF vars
<1> QED
  BY <1>1, <1>2, <1>3, <1>4, <1>5, <1>6, <1>7, <1>8, <1>9, <1>10, <1>11, <1>12, <1>13,
     <1>14, <1>15, <1>16, <1>17, <1>18, <1>19, <1>20, <1>21, <1>22, <1>23, <1>24, <1>25,
     <1>26, <1>27, <1>28, <1>29, <1>30, <1>31
  DEF Next, Step, Start, Reconcile, Supervise, Delegate, Dispatch, Serve

(* An answer is never taken back.                                           *)
LEMMA EarnedPersists ==
  ASSUME Bookkeeping, [Next]_vars, NEW t \in Tasks, Earned(t)
  PROVE  Earned(t)'
<1>1. CASE t \in answered
  BY <1>1, AnswersPersist DEF AnswersKept, Earned
<1>2. CASE \E r \in sent : r.outcome = "applied" /\ wtask[r.worker].parent = t
  <2>1. PICK r \in sent : r.outcome = "applied" /\ wtask[r.worker].parent = t
    BY <1>2
  <2>2. r.worker \in Workers /\ Exists(r.worker)
    BY <2>1 DEF Bookkeeping, TypeOK, References, Result
  <2>3. r \in sent' /\ wtask'[r.worker].parent = t
    BY <2>1, <2>2, AnswersPersist, WorkersPersist DEF AnswersKept, WorkersKept
  <2> QED
    BY <2>1, <2>3 DEF Earned
<1> QED
  BY <1>1, <1>2 DEF Earned

(* A dependency answered when the task was selected stays answered.        *)
LEMMA DependenciesStep ==
  ASSUME Bookkeeping, CompletionInv, DependenciesInv, [Next]_vars
  PROVE  DependenciesInv'
<1>0. \A t \in Tasks : Earned(t) => Earned(t)'
  BY EarnedPersists
<1> USE DependsOnAssumption DEF References, InHandOK, Delegating, HoldsTask,
   DependenciesInv, DependenciesEarned, DelegatedIsReady, Exists, Bookkeeping, TypeOK,
   Goto, durable, private, history
<1>1. ASSUME NEW p \in Runners, HygieneRead(p) PROVE DependenciesInv'
  BY <1>1, <1>0 DEF HygieneRead
<1>2. ASSUME NEW p \in Runners, HygieneClose(p) PROVE DependenciesInv'
  BY <1>2, <1>0 DEF HygieneClose
<1>3. ASSUME NEW p \in Runners, ListResults(p) PROVE DependenciesInv'
  BY <1>3, <1>0 DEF ListResults
<1>4. ASSUME NEW p \in Runners, ReadResult(p) PROVE DependenciesInv'
  BY <1>4, <1>0 DEF ReadResult
<1>5. ASSUME NEW p \in Runners, SettleWorker(p) PROVE DependenciesInv'
  <2>1. job[p].worker \in Workers /\ Exists(job[p].worker)
    BY <1>5 DEF SettleWorker, Handling, HoldsResult, Result
  <2>2. PICK s \in {"complete", "failed"} : wtask' = [wtask EXCEPT ![job[p].worker].status = s]
    BY <1>5 DEF SettleWorker
  <2>3. \A v \in Workers : (Exists(v)' <=> Exists(v)) /\ wtask'[v].parent = wtask[v].parent
    BY <2>1, <2>2
  <2>4. DependenciesEarned'
    BY <1>0, <2>3
  <2>5. DelegatedIsReady'
    BY <1>5, <1>0 DEF SettleWorker, Delegating, HoldsTask
  <2> QED
    BY <2>4, <2>5
<1>6. ASSUME NEW p \in Runners, SettleTask(p) PROVE DependenciesInv'
  BY <1>6, <1>0 DEF SettleTask
<1>7. ASSUME NEW p \in Runners, RecordCompletion(p) PROVE DependenciesInv'
  BY <1>7, <1>0 DEF RecordCompletion
<1>8. ASSUME NEW p \in Runners, Acknowledge(p) PROVE DependenciesInv'
  BY <1>8, <1>0 DEF Acknowledge
<1>9. ASSUME NEW p \in Runners, StartSupervision(p) PROVE DependenciesInv'
  BY <1>9, <1>0 DEF StartSupervision
<1>10. ASSUME NEW p \in Runners, ObserveHealthy(p) PROVE DependenciesInv'
  BY <1>10, <1>0 DEF ObserveHealthy, Refreshed
<1>11. ASSUME NEW p \in Runners, ObserveStalled(p) PROVE DependenciesInv'
  BY <1>11, <1>0 DEF ObserveStalled, Refreshed, Pending
<1>12. ASSUME NEW p \in Runners, WithdrawRequest(p) PROVE DependenciesInv'
  BY <1>12, <1>0 DEF WithdrawRequest
<1>13. ASSUME NEW p \in Runners, FailWorker(p) PROVE DependenciesInv'
  <2>1. job[p].worker \in Workers /\ Exists(job[p].worker)
    BY <1>13 DEF FailWorker, Repairing, HoldsWorker
  <2>2. PICK s \in {"complete", "failed"} : wtask' = [wtask EXCEPT ![job[p].worker].status = s]
    BY <1>13 DEF FailWorker
  <2>3. \A v \in Workers : (Exists(v)' <=> Exists(v)) /\ wtask'[v].parent = wtask[v].parent
    BY <2>1, <2>2
  <2>4. DependenciesEarned'
    BY <1>0, <2>3
  <2>5. DelegatedIsReady'
    <3>1. pc[p] = "failWorker" /\ job[p].task = wtask[job[p].worker].parent
      BY <1>13 DEF FailWorker, Repairing, HoldsWorker
    <3>2. \A d \in DependsOn[job[p].task] : Earned(d)
      BY <2>1, <3>1
    <3>3. UNCHANGED job /\ \A q \in Runners : q # p => pc'[q] = pc[q]
      BY <1>13 DEF FailWorker
    <3> SUFFICES ASSUME NEW q \in Runners, pc'[q] = "create", NEW d \in DependsOn[job[q].task]
                 PROVE  Earned(d)'
      BY <3>3
    <3>4. CASE q = p
      BY <1>0, <2>1, <3>1, <3>2, <3>4
    <3>5. CASE q # p
      BY <1>0, <3>3, <3>5 DEF Delegating, HoldsTask
    <3> QED
      BY <3>4, <3>5
  <2> QED
    BY <2>4, <2>5
<1>14. ASSUME NEW p \in Runners, BlockTask(p) PROVE DependenciesInv'
  BY <1>14, <1>0 DEF BlockTask
<1>15. ASSUME NEW p \in Runners, StartDispatch(p) PROVE DependenciesInv'
  BY <1>15, <1>0 DEF StartDispatch
<1>16. ASSUME NEW p \in Runners, CreateWorker(p) PROVE DependenciesInv'
  BY <1>16, <1>0 DEF CreateWorker, Unused, Delegating, HoldsTask
<1>17. ASSUME NEW p \in Runners, SendRequest(p) PROVE DependenciesInv'
  BY <1>17, <1>0 DEF SendRequest
<1>18. ASSUME NEW p \in Runners, LinkDispatched(p) PROVE DependenciesInv'
  BY <1>18, <1>0 DEF LinkDispatched, LinkChild
<1>19. ASSUME NEW p \in Runners, LinkReassigned(p) PROVE DependenciesInv'
  BY <1>19, <1>0 DEF LinkReassigned, LinkChild
<1>20. ASSUME NEW p \in Runners, Select(p) PROVE DependenciesInv'
  <2>1. PICK t \in Tasks, v \in {"applied", "uncertain", "refused", "delegated"} :
          /\ PendingCandidate(t) \/ RetryCandidate(t)
          /\ job' = [job EXCEPT ![p] = [NoJob EXCEPT !.task = t, !.verdict = v]]
    BY <1>20 DEF Select
  <2>2. Resolved(t)
    BY <2>1 DEF PendingCandidate, RetryCandidate, Ready
  <2>3. \A d \in DependsOn[t] : Earned(d) /\ d \in Tasks
    BY <2>1, <2>2 DEF Resolved, CompletionInv, CompletionIsEarned
  <2>4. job'[p].task = t
    BY <2>1 DEF NoJob
  <2>5. \A q \in Runners : q # p => pc'[q] = pc[q] /\ job'[q] = job[q]
    BY <1>20, <2>1 DEF Select
  <2>6. UNCHANGED wtask
    BY <1>20 DEF Select
  <2>7. DependenciesEarned'
    BY <1>0, <2>6
  <2>8. DelegatedIsReady'
    <3> SUFFICES ASSUME NEW q \in Runners, pc'[q] = "create", NEW d \in DependsOn[job'[q].task]
                 PROVE  Earned(d)'
      OBVIOUS
    <3>1. CASE q = p
      BY <1>0, <2>3, <2>4, <3>1
    <3>2. CASE q # p
      BY <1>0, <2>5, <3>2 DEF Delegating, HoldsTask
    <3> QED
      BY <3>1, <3>2
  <2> QED
    BY <2>7, <2>8
<1>21. ASSUME NEW p \in Runners, RewriteTask(p) PROVE DependenciesInv'
  BY <1>21, <1>0 DEF RewriteTask
<1>22. ASSUME NEW p \in Runners, RecordAttempt(p) PROVE DependenciesInv'
  BY <1>22, <1>0 DEF RecordAttempt
<1>23. ASSUME NEW p \in Runners, ListRequests(p) PROVE DependenciesInv'
  BY <1>23, <1>0 DEF ListRequests, PendingRequests, Pending
<1>24. ASSUME NEW p \in Runners, EmitResult(p) PROVE DependenciesInv'
  BY <1>24, <1>0 DEF EmitResult
<1>25. ASSUME NEW p \in Runners, ResolveRequest(p) PROVE DependenciesInv'
  BY <1>25, <1>0 DEF ResolveRequest
<1>26. ASSUME NEW p \in Runners, EndCycle(p) PROVE DependenciesInv'
  BY <1>26, <1>0 DEF EndCycle
<1>27. ASSUME NEW p \in Runners, Crash(p) PROVE DependenciesInv'
  BY <1>27, <1>0 DEF Crash
<1>28. ASSUME NEW w \in Workers, Age(w) PROVE DependenciesInv'
  BY <1>28, <1>0 DEF Age
<1>30. ASSUME NEW p \in Runners, TakeIn(p) PROVE DependenciesInv'
  BY <1>30, <1>0 DEF TakeIn
<1>31. ASSUME NEW p \in Runners, BeginRun(p) PROVE DependenciesInv'
  BY <1>31, <1>0 DEF BeginRun
<1>29. CASE UNCHANGED vars
  BY <1>29, <1>0 DEF vars
<1> QED
  BY <1>1, <1>2, <1>3, <1>4, <1>5, <1>6, <1>7, <1>8, <1>9, <1>10, <1>11, <1>12, <1>13,
     <1>14, <1>15, <1>16, <1>17, <1>18, <1>19, <1>20, <1>21, <1>22, <1>23, <1>24, <1>25,
     <1>26, <1>27, <1>28, <1>29, <1>30, <1>31
  DEF Next, Step, Start, Reconcile, Supervise, Delegate, Dispatch, Serve

-----------------------------------------------------------------------------
(* One runner whose cycles run to their end.                                *)

(* What the writes of a handler make of the statuses.                       *)
LEMMA StatusWritten ==
  ASSUME Bookkeeping, NEW w \in Workers, NEW s,
         wtask' = [wtask EXCEPT ![w].status = s]
  PROVE  \A v \in Workers :
           /\ wtask'[v].parent = wtask[v].parent
           /\ wtask'[v].status = IF v = w THEN s ELSE wtask[v].status
BY DEF Bookkeeping, TypeOK

LEMMA TaskWritten ==
  ASSUME Bookkeeping, NEW t \in Tasks, NEW s, NEW k,
         tasks' = [tasks EXCEPT ![t] = [status |-> s, kids |-> k]]
  PROVE  \A u \in Tasks : tasks'[u].status = IF u = t THEN s ELSE tasks[u].status
BY DEF Bookkeeping, TypeOK

(* A worker that is settled or given up was the only one alive for its task. *)
LEMMA LastOneGone ==
  ASSUME Bookkeeping, LivesAlone, NEW w \in Workers, NEW s, s # "working",
         wtask[w].status = "working", wtask' = [wtask EXCEPT ![w].status = s]
  PROVE  \A t : Live(t)' = IF t = wtask[w].parent THEN {} ELSE Live(t)
<1>1. \A v \in Workers : /\ wtask'[v].parent = wtask[v].parent
                         /\ wtask'[v].status = IF v = w THEN s ELSE wtask[v].status
  BY DEF Bookkeeping, TypeOK
<1> QED
  BY <1>1 DEF Live, LivesAlone

(* The worker whose result is about to be settled, and the one about to be  *)
(* given up, are alive.                                                     *)
LEMMA SettledLives ==
  ASSUME Bookkeeping, SoloInv, NEW p \in Runners, pc[p] = "settleWorker"
  PROVE  /\ job[p].worker \in Workers /\ job[p].worker = job[p].msg.worker
         /\ job[p].msg \in sent \ acked /\ job[p].task = wtask[job[p].worker].parent
         /\ wtask[job[p].worker].status = "working" /\ ~ Pending(job[p].worker)
<1>1. job[p].msg \in sent \ acked /\ HoldsResult(p)
  BY DEF Bookkeeping, SoloInv, ResultsOnce, Reconciling, Handling, InHandOK
<1>2. job[p].worker \in Workers
  BY <1>1 DEF Bookkeeping, TypeOK, Result, HoldsResult
<1>3. request[job[p].worker] = "resolved" /\ wtask[job[p].worker].status = "working"
  BY <1>1 DEF SoloInv, ResultsOnce, WorkersLast, HoldsResult
<1> QED
  BY <1>1, <1>2, <1>3 DEF HoldsResult, Pending

LEMMA GivenUpLives ==
  ASSUME Bookkeeping, SoloInv, NEW p \in Runners, pc[p] = "failWorker"
  PROVE  /\ job[p].worker \in Workers /\ job[p].task = wtask[job[p].worker].parent
         /\ wtask[job[p].worker].status = "working" /\ ~ Pending(job[p].worker)
BY DEF Bookkeeping, SoloInv, WorkersLast, InHandOK, Repairing, HoldsWorker

(* What is listed is what is there: no result is missed or handled twice.    *)
LEMMA ResultsOnceStep ==
  ASSUME Bookkeeping, SoloInv, NEW p \in Runners, Runners = {p}, Step(p)
  PROVE  ResultsOnce'
<1> USE NoneAssumption DEF SoloInv, ResultsOnce, WorkersLast, Reconciling, Handling,
   Settled, Repairing, Delegating, Pending, Bookkeeping, TypeOK, References, InHandOK,
   Exists, Goto, durable, private, history
<1>1. CASE HygieneRead(p)
  BY <1>1 DEF HygieneRead
<1>2. CASE HygieneClose(p)
  BY <1>2 DEF HygieneClose
<1>3. CASE ListResults(p)
  BY <1>3 DEF ListResults
<1>4. CASE ReadResult(p)
  BY <1>4 DEF ReadResult
<1>5. CASE SettleWorker(p)
  BY <1>5 DEF SettleWorker, Resolutions
<1>6. CASE SettleTask(p)
  BY <1>6 DEF SettleTask
<1>7. CASE RecordCompletion(p)
  BY <1>7 DEF RecordCompletion
<1>8. CASE Acknowledge(p)
  BY <1>8 DEF Acknowledge
<1>9. CASE StartSupervision(p)
  BY <1>9 DEF StartSupervision
<1>10. CASE ObserveHealthy(p)
  BY <1>10 DEF ObserveHealthy, Refreshed
<1>11. CASE ObserveStalled(p)
  BY <1>11 DEF ObserveStalled, Refreshed
<1>12. CASE WithdrawRequest(p)
  BY <1>12 DEF WithdrawRequest
<1>13. CASE FailWorker(p)
  BY <1>13 DEF FailWorker
<1>14. CASE BlockTask(p)
  BY <1>14 DEF BlockTask
<1>15. CASE StartDispatch(p)
  BY <1>15 DEF StartDispatch
<1>16. CASE CreateWorker(p)
  BY <1>16 DEF CreateWorker, Unused
<1>17. CASE SendRequest(p)
  BY <1>17 DEF SendRequest
<1>18. CASE LinkDispatched(p)
  BY <1>18 DEF LinkDispatched, LinkChild
<1>19. CASE LinkReassigned(p)
  BY <1>19 DEF LinkReassigned, LinkChild
<1>20. CASE Select(p)
  BY <1>20 DEF Select
<1>21. CASE RewriteTask(p)
  BY <1>21 DEF RewriteTask
<1>22. CASE RecordAttempt(p)
  BY <1>22 DEF RecordAttempt
<1>23. CASE ListRequests(p)
  BY <1>23 DEF ListRequests, PendingRequests
<1>24. CASE EmitResult(p)
  BY <1>24 DEF EmitResult
<1>25. CASE ResolveRequest(p)
  BY <1>25 DEF ResolveRequest
<1>26. CASE EndCycle(p)
  BY <1>26 DEF EndCycle
<1>27. CASE TakeIn(p)
  BY <1>27 DEF TakeIn
<1>28. CASE BeginRun(p)
  BY <1>28 DEF BeginRun
<1> QED
  BY <1>1, <1>2, <1>3, <1>4, <1>5, <1>6, <1>7, <1>8, <1>9, <1>10, <1>11, <1>12, <1>13,
     <1>14, <1>15, <1>16, <1>17, <1>18, <1>19, <1>20, <1>21, <1>22, <1>23, <1>24,
     <1>25, <1>26, <1>27, <1>28
  DEF Step, Start, Reconcile, Supervise, Delegate, Dispatch, Serve

LEMMA SettleWorkerLasts ==
  ASSUME Bookkeeping, SoloInv, NEW p \in Runners, Runners = {p}, SettleWorker(p)
  PROVE  WorkersLast'
<1>1. PICK s \in Resolutions(job[p].msg) :
        /\ wtask' = [wtask EXCEPT ![job[p].worker].status = IF s = "complete" THEN "complete" ELSE "failed"]
        /\ job' = [job EXCEPT ![p].verdict = s]
  BY DEF SettleWorker
<1>2. PICK z \in {"complete", "failed"} : wtask' = [wtask EXCEPT ![job[p].worker].status = z]
  BY <1>1
<1>3. job'[p].msg = job[p].msg /\ job'[p].worker = job[p].worker
  BY <1>1 DEF Bookkeeping, TypeOK, Jobs
<1>4. pc[p] = "settleWorker" /\ pc'[p] = "settleTask" /\ UNCHANGED <<sent, acked, queue, request>>
  BY DEF SettleWorker, Goto, Bookkeeping, TypeOK
<1>5. \A v \in Workers : wtask'[v].status = IF v = job[p].worker THEN z ELSE wtask[v].status
  BY <1>2, <1>4, SettledLives DEF Bookkeeping, TypeOK
<1>6. \A r \in sent \ acked : r.worker \in Workers /\ (r.worker = job[p].worker => r = job[p].msg)
  BY <1>4, SettledLives DEF SoloInv, ResultsOnce, Bookkeeping, TypeOK, Result
<1>7. \A w \in Workers : Pending(w)' => wtask'[w].status = "working"
  BY <1>4, <1>5, SettledLives DEF SoloInv, WorkersLast, Pending
<1>8. \A r \in sent' \ acked' : wtask'[r.worker].status = "working" \/ job'[p].msg = r
  BY <1>3, <1>4, <1>5, <1>6 DEF SoloInv, WorkersLast, Handling
<1> QED
  BY <1>4, <1>7, <1>8 DEF WorkersLast, Handling, Replacing, Repairing, Delegating

LEMMA WithdrawLasts ==
  ASSUME Bookkeeping, SoloInv, NEW p \in Runners, Runners = {p}, WithdrawRequest(p)
  PROVE  WorkersLast'
<1>1. /\ pc[p] = "withdraw" /\ pc'[p] = "failWorker" /\ UNCHANGED <<sent, acked, queue, job, wtask>>
      /\ request' = [request EXCEPT ![job[p].worker] = "resolved"]
  BY DEF WithdrawRequest, Goto, Bookkeeping, TypeOK
<1>2. job[p].worker \in Workers
  BY <1>1 DEF Bookkeeping, InHandOK, Repairing, HoldsWorker
<1>3. \A w \in Workers : Pending(w)' => Pending(w) /\ w # job[p].worker
  BY <1>1, <1>2 DEF Pending, Bookkeeping, TypeOK
<1> QED
  BY <1>1, <1>2, <1>3 DEF SoloInv, WorkersLast, Handling, Replacing, Repairing, Delegating

LEMMA FailWorkerLasts ==
  ASSUME Bookkeeping, SoloInv, NEW p \in Runners, Runners = {p}, FailWorker(p)
  PROVE  WorkersLast'
<1>1. /\ pc[p] = "failWorker" /\ pc'[p] \in {"blockTask", "create"}
      /\ UNCHANGED <<sent, acked, queue, job, request>>
      /\ wtask' = [wtask EXCEPT ![job[p].worker].status = "failed"]
  BY DEF FailWorker, Goto, Bookkeeping, TypeOK
<1>2. \A v \in Workers : wtask'[v].status = IF v = job[p].worker THEN "failed" ELSE wtask[v].status
  BY <1>1, GivenUpLives DEF Bookkeeping, TypeOK
<1>3. sent \ acked = {} /\ job[p].worker # None
  BY <1>1, GivenUpLives, NoneAssumption DEF SoloInv, ResultsOnce, Settled, Repairing
<1>4. \A w \in Workers : Pending(w)' => wtask'[w].status = "working"
  BY <1>1, <1>2, GivenUpLives DEF SoloInv, WorkersLast, Pending
<1>5. Replacing(p)' /\ \A w \in queue[p] : wtask'[w].status = "working" \/ w = job[p].worker
  BY <1>1, <1>2, <1>3 DEF SoloInv, WorkersLast, Replacing, Repairing, Delegating, Bookkeeping, TypeOK
<1> QED
  BY <1>1, <1>3, <1>4, <1>5 DEF WorkersLast, Handling, Replacing, Repairing, Delegating

LEMMA SelectLasts ==
  ASSUME Bookkeeping, SoloInv, NEW p \in Runners, Runners = {p}, Select(p)
  PROVE  WorkersLast'
<1>1. PICK t \in Tasks, v \in {"applied", "uncertain", "refused", "delegated"} :
          job' = [job EXCEPT ![p] = [NoJob EXCEPT !.task = t, !.verdict = v]]
  BY DEF Select
<1>2. job'[p].worker = None /\ pc[p] = "dispatch" /\ pc'[p] \in {"create", "rewrite"}
      /\ UNCHANGED <<durable, queue>>
  BY <1>1 DEF NoJob, Select, Goto, Bookkeeping, TypeOK
<1> QED
  BY <1>2 DEF SoloInv, WorkersLast, Handling, Replacing, Repairing, Delegating, durable, Pending

(* A worker task lives while its request, its result or its supervision is  *)
(* under way.                                                               *)
LEMMA WorkersLastStep ==
  ASSUME Bookkeeping, SoloInv, NEW p \in Runners, Runners = {p}, Step(p)
  PROVE  WorkersLast'
<1> USE NoneAssumption DEF SoloInv, ResultsOnce, WorkersLast, LivesAlone, Reconciling,
   Handling, Replacing, Repairing, Delegating, Pending, Bookkeeping, TypeOK, References,
   InHandOK, Exists, Goto, durable, private, history
<1>1. CASE HygieneRead(p)
  BY <1>1 DEF HygieneRead
<1>2. CASE HygieneClose(p)
  BY <1>2 DEF HygieneClose
<1>3. CASE ListResults(p)
  BY <1>3 DEF ListResults
<1>4. CASE ReadResult(p)
  BY <1>4 DEF ReadResult
<1>5. CASE SettleWorker(p)
  BY <1>5, SettleWorkerLasts
<1>6. CASE SettleTask(p)
  BY <1>6 DEF SettleTask
<1>7. CASE RecordCompletion(p)
  BY <1>7 DEF RecordCompletion
<1>8. CASE Acknowledge(p)
  BY <1>8 DEF Acknowledge
<1>9. CASE StartSupervision(p)
  BY <1>9 DEF StartSupervision
<1>10. CASE ObserveHealthy(p)
  BY <1>10 DEF ObserveHealthy, Refreshed
<1>11. CASE ObserveStalled(p)
  BY <1>11 DEF ObserveStalled, Refreshed
<1>12. CASE WithdrawRequest(p)
  BY <1>12, WithdrawLasts
<1>13. CASE FailWorker(p)
  BY <1>13, FailWorkerLasts
<1>14. CASE BlockTask(p)
  BY <1>14 DEF BlockTask
<1>15. CASE StartDispatch(p)
  BY <1>15 DEF StartDispatch
<1>16. CASE CreateWorker(p)
  BY <1>16 DEF CreateWorker, Unused
<1>17. CASE SendRequest(p)
  BY <1>17 DEF SendRequest
<1>18. CASE LinkDispatched(p)
  BY <1>18 DEF LinkDispatched, LinkChild
<1>19. CASE LinkReassigned(p)
  BY <1>19 DEF LinkReassigned, LinkChild
<1>20. CASE Select(p)
  BY <1>20, SelectLasts
<1>21. CASE RewriteTask(p)
  BY <1>21 DEF RewriteTask
<1>22. CASE RecordAttempt(p)
  BY <1>22 DEF RecordAttempt
<1>23. CASE ListRequests(p)
  BY <1>23 DEF ListRequests, PendingRequests
<1>24. CASE EmitResult(p)
  BY <1>24 DEF EmitResult
<1>25. CASE ResolveRequest(p)
  BY <1>25 DEF ResolveRequest
<1>26. CASE EndCycle(p)
  BY <1>26 DEF EndCycle
<1>27. CASE TakeIn(p)
  BY <1>27 DEF TakeIn
<1>28. CASE BeginRun(p)
  BY <1>28 DEF BeginRun
<1> QED
  BY <1>1, <1>2, <1>3, <1>4, <1>5, <1>6, <1>7, <1>8, <1>9, <1>10, <1>11, <1>12, <1>13,
     <1>14, <1>15, <1>16, <1>17, <1>18, <1>19, <1>20, <1>21, <1>22, <1>23, <1>24,
     <1>25, <1>26, <1>27, <1>28
  DEF Step, Start, Reconcile, Supervise, Delegate, Dispatch, Serve

LEMMA SettleWorkerAlone ==
  ASSUME Bookkeeping, SoloInv, NEW p \in Runners, Runners = {p}, SettleWorker(p)
  PROVE  LivesAlone'
<1>1. PICK s \in Resolutions(job[p].msg) :
        /\ wtask' = [wtask EXCEPT ![job[p].worker].status = IF s = "complete" THEN "complete" ELSE "failed"]
        /\ job' = [job EXCEPT ![p].verdict = s]
  BY DEF SettleWorker
<1>2. PICK z \in {"complete", "failed"} : wtask' = [wtask EXCEPT ![job[p].worker].status = z]
  BY <1>1
<1>3. job'[p].task = job[p].task
  BY <1>1 DEF Bookkeeping, TypeOK, Jobs
<1>4. pc[p] = "settleWorker" /\ pc'[p] = "settleTask"
  BY DEF SettleWorker, Goto, Bookkeeping, TypeOK
<1>5. \A v \in Workers : /\ wtask'[v].parent = wtask[v].parent
                         /\ wtask'[v].status = "working" => wtask[v].status = "working"
  BY <1>2, <1>4, SettledLives DEF Bookkeeping, TypeOK
<1>6. \A t : t = job[p].task => Live(t)' = {}
  BY <1>2, <1>4, SettledLives, LastOneGone DEF SoloInv
<1>7. Live(job[p].task)' = {}
  BY <1>3, <1>6
<1> QED
  BY <1>4, <1>5, <1>7 DEF SoloInv, LivesAlone

LEMMA FailWorkerAlone ==
  ASSUME Bookkeeping, SoloInv, NEW p \in Runners, Runners = {p}, FailWorker(p)
  PROVE  LivesAlone'
<1>1. /\ pc[p] = "failWorker" /\ pc'[p] \in {"blockTask", "create"}
      /\ wtask' = [wtask EXCEPT ![job[p].worker].status = "failed"]
  BY DEF FailWorker, Goto, Bookkeeping, TypeOK
<1>2. \A v \in Workers : /\ wtask'[v].parent = wtask[v].parent
                         /\ wtask'[v].status = "working" => wtask[v].status = "working"
  BY <1>1, GivenUpLives DEF Bookkeeping, TypeOK
<1>3. job'[p].task = job[p].task
  BY DEF FailWorker
<1>4. \A t : t = job[p].task => Live(t)' = {}
  BY <1>1, GivenUpLives, LastOneGone DEF SoloInv
<1>5. Live(job[p].task)' = {}
  BY <1>3, <1>4
<1> QED
  BY <1>1, <1>2, <1>5 DEF SoloInv, LivesAlone

LEMMA LinkAlone ==
  ASSUME Bookkeeping, SoloInv, NEW p \in Runners, Runners = {p}, LinkDispatched(p)
  PROVE  LivesAlone'
<1>1. /\ pc[p] = "link" /\ pc'[p] = "rewrite" /\ job[p].worker = None
      /\ UNCHANGED <<job, wtask, request>>
  BY DEF LinkDispatched, Goto, Bookkeeping, TypeOK
<1>2. /\ job[p].verdict = "delegated" /\ job[p].fresh \in Workers
      /\ wtask[job[p].fresh].parent = job[p].task
  BY <1>1 DEF Bookkeeping, InHandOK, Delegating, HoldsTask
<1>3. job[p].fresh \in Live(job[p].task)
  BY <1>1, <1>2 DEF SoloInv, LivesAlone, Live
<1>4. Live(job[p].task)' = Live(job[p].task)
  BY <1>1 DEF Live
<1> QED
  BY <1>1, <1>2, <1>3, <1>4 DEF SoloInv, LivesAlone

LEMMA SelectAlone ==
  ASSUME Bookkeeping, SoloInv, NEW p \in Runners, Runners = {p}, Select(p)
  PROVE  LivesAlone'
<1>1. PICK t \in Tasks, v \in {"applied", "uncertain", "refused", "delegated"} :
          /\ PendingCandidate(t) \/ RetryCandidate(t)
          /\ job' = [job EXCEPT ![p] = [NoJob EXCEPT !.task = t, !.verdict = v]]
          /\ Goto(p, "dispatch", IF v = "delegated" THEN "create" ELSE "rewrite")
  BY DEF Select
<1>2. job'[p].task = t /\ job'[p].verdict = v
  BY <1>1 DEF NoJob, Bookkeeping, TypeOK
<1>3. /\ pc[p] = "dispatch" /\ pc'[p] = IF v = "delegated" THEN "create" ELSE "rewrite"
      /\ UNCHANGED durable
  BY <1>1 DEF Select, Goto, Bookkeeping, TypeOK
<1>4. tasks[t].status # "working"
  BY <1>1 DEF PendingCandidate, RetryCandidate
<1>5. Live(t) = {}
  BY <1>3, <1>4 DEF SoloInv, WorksWhileLive, Live
<1>6. Live(t)' = Live(t)
  BY <1>3 DEF Live, durable
<1> QED
  BY <1>2, <1>3, <1>5, <1>6 DEF SoloInv, LivesAlone, durable

(* A task is given to a new lane only when its worker is gone.              *)
LEMMA LivesAloneStep ==
  ASSUME Bookkeeping, SoloInv, NEW p \in Runners, Runners = {p}, Step(p)
  PROVE  LivesAlone'
<1> USE NoneAssumption DEF SoloInv, LivesAlone, WorkersLast, WorksWhileLive, Live,
   Handling, Replacing, Repairing, Delegating, Pending, Bookkeeping, TypeOK, References,
   InHandOK, Exists, Goto, durable, private, history
<1>1. CASE HygieneRead(p)
  BY <1>1 DEF HygieneRead
<1>2. CASE HygieneClose(p)
  BY <1>2 DEF HygieneClose
<1>3. CASE ListResults(p)
  BY <1>3 DEF ListResults
<1>4. CASE ReadResult(p)
  BY <1>4 DEF ReadResult
<1>5. CASE SettleWorker(p)
  BY <1>5, SettleWorkerAlone
<1>6. CASE SettleTask(p)
  BY <1>6 DEF SettleTask
<1>7. CASE RecordCompletion(p)
  BY <1>7 DEF RecordCompletion
<1>8. CASE Acknowledge(p)
  BY <1>8 DEF Acknowledge
<1>9. CASE StartSupervision(p)
  BY <1>9 DEF StartSupervision
<1>10. CASE ObserveHealthy(p)
  BY <1>10 DEF ObserveHealthy, Refreshed
<1>11. CASE ObserveStalled(p)
  BY <1>11 DEF ObserveStalled, Refreshed
<1>12. CASE WithdrawRequest(p)
  BY <1>12 DEF WithdrawRequest
<1>13. CASE FailWorker(p)
  BY <1>13, FailWorkerAlone
<1>14. CASE BlockTask(p)
  BY <1>14 DEF BlockTask
<1>15. CASE StartDispatch(p)
  BY <1>15 DEF StartDispatch
<1>16. CASE CreateWorker(p)
  BY <1>16 DEF CreateWorker, Unused
<1>17. CASE SendRequest(p)
  BY <1>17 DEF SendRequest
<1>18. CASE LinkDispatched(p)
  BY <1>18, LinkAlone
<1>19. CASE LinkReassigned(p)
  BY <1>19 DEF LinkReassigned, LinkChild
<1>20. CASE Select(p)
  BY <1>20, SelectAlone
<1>21. CASE RewriteTask(p)
  BY <1>21 DEF RewriteTask
<1>22. CASE RecordAttempt(p)
  BY <1>22 DEF RecordAttempt
<1>23. CASE ListRequests(p)
  BY <1>23 DEF ListRequests, PendingRequests
<1>24. CASE EmitResult(p)
  BY <1>24 DEF EmitResult
<1>25. CASE ResolveRequest(p)
  BY <1>25 DEF ResolveRequest
<1>26. CASE EndCycle(p)
  BY <1>26 DEF EndCycle
<1>27. CASE TakeIn(p)
  BY <1>27 DEF TakeIn
<1>28. CASE BeginRun(p)
  BY <1>28 DEF BeginRun
<1> QED
  BY <1>1, <1>2, <1>3, <1>4, <1>5, <1>6, <1>7, <1>8, <1>9, <1>10, <1>11, <1>12, <1>13,
     <1>14, <1>15, <1>16, <1>17, <1>18, <1>19, <1>20, <1>21, <1>22, <1>23, <1>24,
     <1>25, <1>26, <1>27, <1>28
  DEF Step, Start, Reconcile, Supervise, Delegate, Dispatch, Serve

LEMMA SettleWorkerWorks ==
  ASSUME Bookkeeping, SoloInv, NEW p \in Runners, Runners = {p}, SettleWorker(p)
  PROVE  WorksWhileLive'
<1>1. PICK s \in Resolutions(job[p].msg) :
        /\ wtask' = [wtask EXCEPT ![job[p].worker].status = IF s = "complete" THEN "complete" ELSE "failed"]
        /\ job' = [job EXCEPT ![p].verdict = s]
  BY DEF SettleWorker
<1>2. PICK z \in {"complete", "failed"} : wtask' = [wtask EXCEPT ![job[p].worker].status = z]
  BY <1>1
<1>3. job'[p].task = job[p].task
  BY <1>1 DEF Bookkeeping, TypeOK, Jobs
<1>4. pc[p] = "settleWorker" /\ pc'[p] = "settleTask" /\ UNCHANGED tasks
  BY DEF SettleWorker, Goto, Bookkeeping, TypeOK
<1>5. \A v \in Workers : /\ wtask'[v].parent = wtask[v].parent
                         /\ wtask'[v].status = "working" => wtask[v].status = "working"
  BY <1>2, <1>4, SettledLives DEF Bookkeeping, TypeOK
<1>6. \A t \in Tasks : t # job[p].task => Live(t)' = Live(t)
  BY <1>2, <1>4, SettledLives, LastOneGone DEF SoloInv
<1> QED
  BY <1>3, <1>4, <1>5, <1>6 DEF SoloInv, WorksWhileLive

LEMMA SettleTaskWorks ==
  ASSUME Bookkeeping, SoloInv, NEW p \in Runners, Runners = {p}, SettleTask(p)
  PROVE  WorksWhileLive'
<1>1. /\ pc[p] = "settleTask" /\ pc'[p] = "record" /\ UNCHANGED <<wtask, job>>
      /\ tasks' = [tasks EXCEPT ![job[p].task] = [status |-> job[p].verdict,
                                                  kids |-> view[p][job[p].task] \ {job[p].worker}]]
  BY DEF SettleTask, Goto, Bookkeeping, TypeOK
<1>2. job[p].verdict # "working" /\ Live(job[p].task) = {}
  BY <1>1 DEF SoloInv, LivesAlone, Bookkeeping, InHandOK, Handling, HoldsResult, Resolutions
<1>3. \A u \in Tasks : tasks'[u].status = IF u = job[p].task THEN job[p].verdict ELSE tasks[u].status
  BY <1>1 DEF Bookkeeping, TypeOK
<1>4. \A t : Live(t)' = Live(t)
  BY <1>1 DEF Live
<1>5. \A w \in Workers : wtask[w].status = "working" => wtask[w].parent \in Tasks /\ w \in Live(wtask[w].parent)
  BY DEF Live, Bookkeeping, References, Exists
<1> QED
  BY <1>1, <1>2, <1>3, <1>4, <1>5 DEF SoloInv, WorksWhileLive

LEMMA FailWorkerWorks ==
  ASSUME Bookkeeping, SoloInv, NEW p \in Runners, Runners = {p}, FailWorker(p)
  PROVE  WorksWhileLive'
<1>1. /\ pc[p] = "failWorker" /\ pc'[p] \in {"blockTask", "create"} /\ UNCHANGED <<job, tasks>>
      /\ wtask' = [wtask EXCEPT ![job[p].worker].status = "failed"]
  BY DEF FailWorker, Goto, Bookkeeping, TypeOK
<1>2. \A v \in Workers : /\ wtask'[v].parent = wtask[v].parent
                         /\ wtask'[v].status = "working" => wtask[v].status = "working"
  BY <1>1, GivenUpLives DEF Bookkeeping, TypeOK
<1>3. \A t \in Tasks : t # job[p].task => Live(t)' = Live(t)
  BY <1>1, GivenUpLives, LastOneGone DEF SoloInv
<1> QED
  BY <1>1, <1>2, <1>3 DEF SoloInv, WorksWhileLive

LEMMA Linked ==
  ASSUME Bookkeeping, SoloInv, NEW p \in Runners, Runners = {p}, pc[p] = "link",
         pc'[p] # "link", pc'[p] # "send", LinkChild(p), UNCHANGED wtask
  PROVE  WorksWhileLive'
<1>1. /\ job[p].fresh \in Workers /\ job[p].task \in Tasks
      /\ wtask[job[p].fresh].parent = job[p].task
  BY DEF Bookkeeping, InHandOK, Delegating, HoldsTask
<1>2. job[p].fresh \in Live(job[p].task)
  BY <1>1 DEF SoloInv, LivesAlone, Live
<1>3. \A u \in Tasks : tasks'[u].status = IF u = job[p].task THEN "working" ELSE tasks[u].status
  BY <1>1 DEF LinkChild, Bookkeeping, TypeOK
<1>4. \A t : Live(t)' = Live(t)
  BY DEF Live
<1>5. \A w \in Workers : wtask[w].status = "working" => wtask[w].parent \in Tasks
  BY DEF Bookkeeping, References, Exists
<1> QED
  BY <1>1, <1>2, <1>3, <1>4, <1>5 DEF SoloInv, WorksWhileLive

LEMMA LinkDispatchedWorks ==
  ASSUME Bookkeeping, SoloInv, NEW p \in Runners, Runners = {p}, LinkDispatched(p)
  PROVE  WorksWhileLive'
BY Linked DEF LinkDispatched, Goto, Bookkeeping, TypeOK

LEMMA LinkReassignedWorks ==
  ASSUME Bookkeeping, SoloInv, NEW p \in Runners, Runners = {p}, LinkReassigned(p)
  PROVE  WorksWhileLive'
BY Linked DEF LinkReassigned, Goto, Bookkeeping, TypeOK

LEMMA RewriteWorks ==
  ASSUME Bookkeeping, SoloInv, NEW p \in Runners, Runners = {p}, RewriteTask(p)
  PROVE  WorksWhileLive'
<1>1. /\ pc[p] = "rewrite" /\ pc'[p] = "attempt" /\ UNCHANGED <<wtask, job>>
      /\ tasks' = [tasks EXCEPT ![job[p].task] = [status |-> DispatchedStatus(job[p].verdict),
                                                  kids |-> view[p][job[p].task]]]
  BY DEF RewriteTask, Goto, Bookkeeping, TypeOK
<1>2. /\ job[p].task \in Tasks
      /\ DispatchedStatus(job[p].verdict) = "working" <=> job[p].verdict = "delegated"
      /\ Live(job[p].task) # {} <=> job[p].verdict = "delegated"
  BY <1>1 DEF SoloInv, LivesAlone, Bookkeeping, InHandOK, DispatchedStatus
<1>3. \A u \in Tasks : tasks'[u].status = IF u = job[p].task THEN DispatchedStatus(job[p].verdict)
                                          ELSE tasks[u].status
  BY <1>1, <1>2 DEF Bookkeeping, TypeOK
<1>4. \A t : Live(t)' = Live(t)
  BY <1>1 DEF Live
<1>5. \A w \in Workers : wtask[w].status = "working" => wtask[w].parent \in Tasks /\ w \in Live(wtask[w].parent)
  BY DEF Live, Bookkeeping, References, Exists
<1> QED
  BY <1>1, <1>2, <1>3, <1>4, <1>5 DEF SoloInv, WorksWhileLive

(* Tasks and their workers change status together.                          *)
LEMMA WorksWhileLiveStep ==
  ASSUME Bookkeeping, SoloInv, NEW p \in Runners, Runners = {p}, Step(p)
  PROVE  WorksWhileLive'
<1> USE NoneAssumption DEF SoloInv, LivesAlone, WorkersLast, WorksWhileLive, Live,
   Handling, Replacing, Repairing, Delegating, Pending, Bookkeeping, TypeOK, References,
   InHandOK, Exists, Goto, durable, private, history
<1>1. CASE HygieneRead(p)
  BY <1>1 DEF HygieneRead
<1>2. CASE HygieneClose(p)
  BY <1>2 DEF HygieneClose
<1>3. CASE ListResults(p)
  BY <1>3 DEF ListResults
<1>4. CASE ReadResult(p)
  BY <1>4 DEF ReadResult
<1>5. CASE SettleWorker(p)
  BY <1>5, SettleWorkerWorks
<1>6. CASE SettleTask(p)
  BY <1>6, SettleTaskWorks
<1>7. CASE RecordCompletion(p)
  BY <1>7 DEF RecordCompletion
<1>8. CASE Acknowledge(p)
  BY <1>8 DEF Acknowledge
<1>9. CASE StartSupervision(p)
  BY <1>9 DEF StartSupervision
<1>10. CASE ObserveHealthy(p)
  BY <1>10 DEF ObserveHealthy, Refreshed
<1>11. CASE ObserveStalled(p)
  BY <1>11 DEF ObserveStalled, Refreshed
<1>12. CASE WithdrawRequest(p)
  BY <1>12 DEF WithdrawRequest
<1>13. CASE FailWorker(p)
  BY <1>13, FailWorkerWorks
<1>14. CASE BlockTask(p)
  BY <1>14 DEF BlockTask
<1>15. CASE StartDispatch(p)
  BY <1>15 DEF StartDispatch
<1>16. CASE CreateWorker(p)
  BY <1>16 DEF CreateWorker, Unused
<1>17. CASE SendRequest(p)
  BY <1>17 DEF SendRequest
<1>18. CASE LinkDispatched(p)
  BY <1>18, LinkDispatchedWorks
<1>19. CASE LinkReassigned(p)
  BY <1>19, LinkReassignedWorks
<1>20. CASE Select(p)
  BY <1>20 DEF Select
<1>21. CASE RewriteTask(p)
  BY <1>21, RewriteWorks
<1>22. CASE RecordAttempt(p)
  BY <1>22 DEF RecordAttempt
<1>23. CASE ListRequests(p)
  BY <1>23 DEF ListRequests, PendingRequests
<1>24. CASE EmitResult(p)
  BY <1>24 DEF EmitResult
<1>25. CASE ResolveRequest(p)
  BY <1>25 DEF ResolveRequest
<1>26. CASE EndCycle(p)
  BY <1>26 DEF EndCycle
<1>27. CASE TakeIn(p)
  BY <1>27 DEF TakeIn
<1>28. CASE BeginRun(p)
  BY <1>28 DEF BeginRun
<1> QED
  BY <1>1, <1>2, <1>3, <1>4, <1>5, <1>6, <1>7, <1>8, <1>9, <1>10, <1>11, <1>12, <1>13,
     <1>14, <1>15, <1>16, <1>17, <1>18, <1>19, <1>20, <1>21, <1>22, <1>23, <1>24,
     <1>25, <1>26, <1>27, <1>28
  DEF Step, Start, Reconcile, Supervise, Delegate, Dispatch, Serve

LEMMA ReadResultFinds ==
  ASSUME Bookkeeping, SoloInv, NEW p \in Runners, Runners = {p}, ReadResult(p)
  PROVE  AsFound'
<1>1. PICK r \in inbox[p] :
        job' = [job EXCEPT ![p] = [NoJob EXCEPT !.task = wtask[r.worker].parent,
                                                !.worker = r.worker, !.msg = r]]
  BY DEF ReadResult
<1>2. pc[p] = "result" /\ pc'[p] = "settleWorker" /\ UNCHANGED tasks
  BY DEF ReadResult, Goto, durable, Bookkeeping, TypeOK
<1>3. job'[p].task = wtask[r.worker].parent
  BY <1>1 DEF NoJob, Bookkeeping, TypeOK
<1>4. r \in sent \ acked /\ r.worker \in Workers
  BY <1>2 DEF SoloInv, ResultsOnce, Reconciling, Bookkeeping, TypeOK, Result
<1>5. wtask[r.worker].status = "working"
  BY <1>2, <1>4 DEF SoloInv, WorkersLast, Handling
<1>6. tasks[wtask[r.worker].parent].status = "working"
  BY <1>2, <1>4, <1>5 DEF SoloInv, WorksWhileLive
<1> QED
  BY <1>2, <1>3, <1>6 DEF AsFound, Replacing, Dispatching, Repairing, Delegating

LEMMA StalledFound ==
  ASSUME Bookkeeping, SoloInv, NEW p \in Runners, Runners = {p}, ObserveStalled(p)
  PROVE  AsFound'
<1>1. PICK w \in queue[p] :
        /\ job' = [job EXCEPT ![p] = [NoJob EXCEPT !.task = wtask[w].parent, !.worker = w]]
        /\ Goto(p, "supervise", IF Pending(w) THEN "withdraw" ELSE "failWorker")
  BY DEF ObserveStalled
<1>2. /\ pc[p] = "supervise" /\ pc'[p] \in {"withdraw", "failWorker"}
      /\ UNCHANGED tasks /\ w \in Workers
  BY <1>1 DEF ObserveStalled, Goto, Bookkeeping, TypeOK
<1>3. job'[p].task = wtask[w].parent
  BY <1>1 DEF NoJob, Bookkeeping, TypeOK
<1>4. wtask[w].status = "working"
  BY <1>2 DEF SoloInv, WorkersLast, Replacing, Repairing, Delegating
<1>5. tasks[wtask[w].parent].status = "working"
  BY <1>2, <1>4 DEF SoloInv, WorksWhileLive
<1> QED
  BY <1>2, <1>3, <1>5 DEF AsFound, Replacing, Dispatching, Repairing, Delegating

(* What is in hand stays as it is through writes of other records.          *)
LEMMA KeptInHand ==
  ASSUME SoloInv, NEW p \in Runners, Runners = {p}, UNCHANGED tasks,
         job'[p].task = job[p].task, job'[p].worker = job[p].worker,
         pc[p] \in {"settleWorker", "withdraw", "failWorker", "create", "send"},
         pc[p] = "settleWorker" => pc'[p] = "settleTask",
         pc[p] # "settleWorker" => pc'[p] \in Repairing \cup Delegating,
         pc[p] \in Repairing => job[p].worker # None,
         pc'[p] \in Repairing => pc[p] \in Repairing
  PROVE  AsFound'
BY DEF SoloInv, AsFound, Replacing, Dispatching, Repairing, Delegating

LEMMA DispatchedFound ==
  ASSUME Bookkeeping, SoloInv, NEW p \in Runners, Runners = {p}, LinkDispatched(p)
  PROVE  AsFound'
<1>1. /\ pc[p] = "link" /\ pc'[p] = "rewrite" /\ job[p].worker = None /\ UNCHANGED job
      /\ job[p].task \in Tasks /\ job[p].verdict = "delegated"
  BY DEF LinkDispatched, Goto, Bookkeeping, TypeOK, InHandOK, Delegating, HoldsTask
<1>2. \A u \in Tasks : tasks'[u].status = IF u = job[p].task THEN "working" ELSE tasks[u].status
  BY <1>1 DEF LinkDispatched, LinkChild, Bookkeeping, TypeOK
<1>3. /\ tasks[job[p].task].status # "complete"
      /\ \A d \in DependsOn[job[p].task] : tasks[d].status = "complete"
  BY <1>1 DEF SoloInv, AsFound, Dispatching, Delegating
<1>4. DependsOn[job[p].task] \subseteq Tasks
  BY <1>1, DependsOnAssumption
<1>5. /\ tasks'[job[p].task].status = "working"
      /\ \A d \in DependsOn[job[p].task] : tasks'[d].status = "complete"
  BY <1>1, <1>2, <1>3, <1>4
<1> QED
  BY <1>1, <1>5 DEF AsFound, Replacing, Dispatching, Repairing, Delegating

LEMMA SelectFinds ==
  ASSUME Bookkeeping, SoloInv, NEW p \in Runners, Runners = {p}, Select(p)
  PROVE  AsFound'
<1>1. PICK t \in Tasks, v \in {"applied", "uncertain", "refused", "delegated"} :
          /\ PendingCandidate(t) \/ RetryCandidate(t)
          /\ job' = [job EXCEPT ![p] = [NoJob EXCEPT !.task = t, !.verdict = v]]
          /\ Goto(p, "dispatch", IF v = "delegated" THEN "create" ELSE "rewrite")
  BY DEF Select
<1>2. job'[p].task = t /\ job'[p].verdict = v /\ job'[p].worker = None
  BY <1>1 DEF NoJob, Bookkeeping, TypeOK
<1>3. pc'[p] = (IF v = "delegated" THEN "create" ELSE "rewrite") /\ UNCHANGED tasks
  BY <1>1 DEF Select, Goto, durable, Bookkeeping, TypeOK
<1>4. /\ tasks[t].status \notin {"complete", "working"}
      /\ \A d \in DependsOn[t] : tasks[d].status = "complete"
  BY <1>1 DEF PendingCandidate, RetryCandidate, Ready, Resolved
<1>5. /\ ~ (pc'[p] = "rewrite" /\ job'[p].verdict = "delegated")
      /\ pc'[p] \in {"create", "rewrite"}
  BY <1>2, <1>3
<1> QED
  BY <1>2, <1>3, <1>4, <1>5 DEF AsFound, Replacing, Dispatching, Repairing, Delegating

(* The task that a handler is about is as the handler found it.             *)
LEMMA AsFoundStep ==
  ASSUME Bookkeeping, SoloInv, NEW p \in Runners, Runners = {p}, Step(p)
  PROVE  AsFound'
<1> USE NoneAssumption DEF SoloInv, AsFound, Replacing, Dispatching, Repairing,
   Delegating, Bookkeeping, TypeOK, InHandOK, Goto, durable, private, history
<1>1. CASE HygieneRead(p)
  BY <1>1 DEF HygieneRead
<1>2. CASE HygieneClose(p)
  BY <1>2 DEF HygieneClose
<1>3. CASE ListResults(p)
  BY <1>3 DEF ListResults
<1>4. CASE ReadResult(p)
  BY <1>4, ReadResultFinds
<1>5. CASE SettleWorker(p)
  BY <1>5, KeptInHand DEF SettleWorker, Jobs
<1>6. CASE SettleTask(p)
  BY <1>6 DEF SettleTask
<1>7. CASE RecordCompletion(p)
  BY <1>7 DEF RecordCompletion
<1>8. CASE Acknowledge(p)
  BY <1>8 DEF Acknowledge
<1>9. CASE StartSupervision(p)
  BY <1>9 DEF StartSupervision
<1>10. CASE ObserveHealthy(p)
  BY <1>10 DEF ObserveHealthy, Refreshed
<1>11. CASE ObserveStalled(p)
  BY <1>11, StalledFound
<1>12. CASE WithdrawRequest(p)
  BY <1>12, KeptInHand DEF WithdrawRequest, HoldsWorker
<1>13. CASE FailWorker(p)
  BY <1>13, KeptInHand DEF FailWorker, HoldsWorker
<1>14. CASE BlockTask(p)
  BY <1>14 DEF BlockTask
<1>15. CASE StartDispatch(p)
  BY <1>15 DEF StartDispatch
<1>16. CASE CreateWorker(p)
  BY <1>16, KeptInHand DEF CreateWorker
<1>17. CASE SendRequest(p)
  BY <1>17, KeptInHand DEF SendRequest
<1>18. CASE LinkDispatched(p)
  BY <1>18, DispatchedFound
<1>19. CASE LinkReassigned(p)
  BY <1>19 DEF LinkReassigned, LinkChild
<1>20. CASE Select(p)
  BY <1>20, SelectFinds
<1>21. CASE RewriteTask(p)
  BY <1>21 DEF RewriteTask
<1>22. CASE RecordAttempt(p)
  BY <1>22 DEF RecordAttempt
<1>23. CASE ListRequests(p)
  BY <1>23 DEF ListRequests, PendingRequests
<1>24. CASE EmitResult(p)
  BY <1>24 DEF EmitResult
<1>25. CASE ResolveRequest(p)
  BY <1>25 DEF ResolveRequest
<1>26. CASE EndCycle(p)
  BY <1>26 DEF EndCycle
<1>27. CASE TakeIn(p)
  BY <1>27 DEF TakeIn
<1>28. CASE BeginRun(p)
  BY <1>28 DEF BeginRun
<1> QED
  BY <1>1, <1>2, <1>3, <1>4, <1>5, <1>6, <1>7, <1>8, <1>9, <1>10, <1>11, <1>12, <1>13,
     <1>14, <1>15, <1>16, <1>17, <1>18, <1>19, <1>20, <1>21, <1>22, <1>23, <1>24,
     <1>25, <1>26, <1>27, <1>28
  DEF Step, Start, Reconcile, Supervise, Delegate, Dispatch, Serve

LEMMA SoloInit ==
  ASSUME SoleRunner, Init
  PROVE  SoloInv
<1>1. /\ sent = {} /\ \A p \in Runners : pc[p] = "intake"
      /\ \A w \in Workers : wtask[w].status = "absent" /\ request[w] = "absent"
      /\ \A t \in Tasks : tasks[t].status = "pending"
  BY DEF Init
<1>2. ResultsOnce
  BY <1>1 DEF ResultsOnce, Reconciling, Handling, Settled, Repairing, Delegating
<1>3. WorkersLast
  BY <1>1 DEF WorkersLast, Handling, Replacing, Repairing, Delegating, Pending
<1>4. LivesAlone /\ WorksWhileLive
  BY <1>1 DEF LivesAlone, WorksWhileLive
<1>5. AsFound
  BY <1>1 DEF AsFound, Replacing, Dispatching, Repairing, Delegating
<1> QED
  BY <1>2, <1>3, <1>4, <1>5 DEF SoloInv

(* A request grows old beside whatever the runner does.                     *)
LEMMA SoloAges ==
  ASSUME Bookkeeping, SoloInv, NEW w \in Workers, Age(w)
  PROVE  SoloInv'
<1>1. /\ request[w] = "delivered" /\ request' = [request EXCEPT ![w] = "overdue"]
      /\ UNCHANGED <<tasks, wtask, sent, acked, private>>
  BY DEF Age
<1>2. \A v \in Workers : /\ Pending(v)' <=> Pending(v)
                         /\ request'[v] = "resolved" <=> request[v] = "resolved"
                         /\ request'[v] = "absent" <=> request[v] = "absent"
  BY <1>1 DEF Pending, Bookkeeping, TypeOK
<1>3. \A p \in Runners : /\ pc[p] = "failWorker" => job[p].worker \in Workers
                         /\ pc[p] = "send" => job[p].fresh \in Workers
                         /\ queue[p] \subseteq Workers
  BY DEF Bookkeeping, TypeOK, InHandOK, Repairing, Delegating, HoldsWorker, HoldsTask
<1>4. \A r \in sent : r.worker \in Workers
  BY DEF Bookkeeping, TypeOK, Result
<1>5. ResultsOnce'
  BY <1>1, <1>2, <1>4 DEF SoloInv, ResultsOnce, private
<1>6. WorkersLast'
  BY <1>1, <1>2, <1>3 DEF SoloInv, WorkersLast, Replacing, private
<1>7. LivesAlone'
  BY <1>1, <1>2, <1>3 DEF SoloInv, LivesAlone, Live, private
<1>8. WorksWhileLive' /\ AsFound'
  BY <1>1 DEF SoloInv, WorksWhileLive, AsFound, Replacing, Dispatching, Live, private
<1> QED
  BY <1>5, <1>6, <1>7, <1>8 DEF SoloInv

LEMMA SoloStep ==
  ASSUME SoleRunner, Bookkeeping, SoloInv, [Next]_vars
  PROVE  SoloInv'
<1>1. PICK p \in Runners : Runners = {p}
  BY DEF SoleRunner
<1>2. CASE Step(p)
  BY <1>1, <1>2, ResultsOnceStep, WorkersLastStep, LivesAloneStep, WorksWhileLiveStep,
     AsFoundStep DEF SoloInv
<1>3. CASE Crash(p)
  <2>1. crashes[p] < 0 /\ crashes[p] \in Nat
    BY <1>3 DEF Crash, SoleRunner, Bookkeeping, TypeOK
  <2> QED
    BY <2>1
<1>4. ASSUME NEW w \in Workers, Age(w) PROVE SoloInv'
  BY <1>4, SoloAges
<1>5. CASE UNCHANGED vars
  BY <1>5 DEF vars, durable, private, SoloInv, ResultsOnce, WorkersLast, LivesAlone,
     WorksWhileLive, AsFound, Live, Pending, Replacing, Dispatching
<1> QED
  BY <1>1, <1>2, <1>3, <1>4, <1>5 DEF Next

(* Nothing that a runner writes over a complete task re-opens it.           *)
LEMMA CompleteKept ==
  ASSUME SoleRunner, Bookkeeping, SoloInv, [Next]_vars,
         NEW t \in Tasks, tasks[t].status = "complete"
  PROVE  tasks'[t].status = "complete"
<1>1. PICK p \in Runners : Runners = {p}
  BY DEF SoleRunner
<1>2. CASE SettleTask(p) \/ BlockTask(p) \/ LinkDispatched(p) \/ LinkReassigned(p) \/ RewriteTask(p)
  <2>1. pc[p] \in {"settleTask", "rewrite"} \cup Repairing \cup Delegating
    BY <1>2 DEF SettleTask, BlockTask, LinkDispatched, LinkReassigned, RewriteTask, Goto,
       Repairing, Delegating
  <2>2. job[p].task # t
    BY <2>1, <1>2 DEF SoloInv, AsFound, Replacing, Dispatching
  <2>3. tasks'[t] = tasks[t]
    BY <1>2, <2>2 DEF SettleTask, BlockTask, LinkDispatched, LinkReassigned, LinkChild, RewriteTask,
       Bookkeeping, TypeOK
  <2> QED
    BY <2>3
<1>3. CASE UNCHANGED tasks
  BY <1>3
<1>4. \/ SettleTask(p) \/ BlockTask(p) \/ LinkDispatched(p) \/ LinkReassigned(p) \/ RewriteTask(p)
      \/ UNCHANGED tasks
  BY <1>1 DEF Next, vars, durable, Step, Start, TakeIn, BeginRun, Reconcile, HygieneRead,
     HygieneClose, ListResults, ReadResult, SettleWorker, RecordCompletion, Acknowledge,
     Supervise, StartSupervision, ObserveHealthy, ObserveStalled, WithdrawRequest, FailWorker,
     StartDispatch, Delegate, CreateWorker, SendRequest, Dispatch, Select, RecordAttempt,
     Serve, ListRequests, EmitResult, ResolveRequest, EndCycle, Crash, Age
<1> QED
  BY <1>2, <1>3, <1>4

-----------------------------------------------------------------------------
(* The contract, step by step: what is written and what is not.             *)
LEMMA Stutters ==
  ASSUME UNCHANGED <<tasks, wtask>>
  PROVE  UNCHANGED Contract!contractVars
BY DEF Contract!contractVars, Live, Unused

LEMMA StatusMapped ==
  ASSUME Bookkeeping, UNCHANGED wtask, NEW t \in Tasks, NEW s, NEW k,
         tasks' = [tasks EXCEPT ![t] = [status |-> s, kids |-> k]]
  PROVE  /\ [u \in Tasks |-> tasks'[u].status] = [[u \in Tasks |-> tasks[u].status] EXCEPT ![t] = s]
         /\ [u \in Tasks |-> Live(u)]' = [u \in Tasks |-> Live(u)]
         /\ (Workers \ Unused)' = Workers \ Unused
<1>1. \A u \in Tasks : tasks'[u].status = IF u = t THEN s ELSE tasks[u].status
  BY DEF Bookkeeping, TypeOK
<1>2. \A u : Live(u)' = Live(u)
  BY DEF Live
<1> QED
  BY <1>1, <1>2 DEF Unused

(* A lane is opened where there is none.                                    *)
LEMMA CreateOpens ==
  ASSUME Bookkeeping, SoloInv, NEW p \in Runners, Runners = {p}, CreateWorker(p)
  PROVE  Contract!ContractNext
<1>1. PICK n \in Unused : wtask' = [wtask EXCEPT ![n] = [status |-> "working", parent |-> job[p].task]]
  BY DEF CreateWorker
<1>2. /\ n \in Workers /\ pc[p] = "create" /\ job[p].task \in Tasks /\ UNCHANGED tasks
  BY DEF CreateWorker, Goto, Unused, Bookkeeping, InHandOK, Delegating, HoldsTask
<1>3. PICK t \in Tasks : t = job[p].task
  BY <1>2
<1>4. Live(t) = {}
  BY <1>2, <1>3 DEF SoloInv, LivesAlone
<1>5. \A w \in Workers : /\ wtask'[w].status = IF w = n THEN "working" ELSE wtask[w].status
                         /\ wtask'[w].parent = IF w = n THEN t ELSE wtask[w].parent
  BY <1>1, <1>2, <1>3 DEF Bookkeeping, TypeOK
<1>6. \A u \in Tasks : Live(u)' = IF u = t THEN {n} ELSE Live(u)
  BY <1>1, <1>2, <1>4, <1>5 DEF Live, Unused
<1>7. (Workers \ Unused)' = (Workers \ Unused) \cup {n}
  BY <1>1, <1>2, <1>5 DEF Unused
<1>8. Contract!Due(t) \/ tasks[t].status = "working"
  <2>1. CASE job[p].worker # None
    BY <1>2, <1>3, <2>1 DEF SoloInv, AsFound, Replacing, Delegating
  <2>2. CASE job[p].worker = None
    <3>1. /\ tasks[t].status \notin {"complete", "working"}
          /\ \A d \in DependsOn[t] : tasks[d].status = "complete"
      BY <1>2, <1>3, <2>2 DEF SoloInv, AsFound, Dispatching, Delegating
    <3>2. tasks[t].status \in TaskStatus /\ DependsOn[t] \subseteq Tasks
      BY DependsOnAssumption DEF Bookkeeping, TypeOK, Payload
    <3> QED
      BY <3>1, <3>2 DEF Contract!Due, Contract!Free, TaskStatus
  <2> QED
    BY <2>1, <2>2
<1>9. [u \in Tasks |-> Live(u)]' = [[u \in Tasks |-> Live(u)] EXCEPT ![t] = {n}]
  BY <1>6
<1>10. Contract!OpenLane(t, n)
  BY <1>1, <1>2, <1>4, <1>7, <1>8, <1>9 DEF Contract!OpenLane
<1> QED
  BY <1>2, <1>10 DEF Contract!ContractNext

(* A lane is closed when its worker is settled or given up.                 *)
LEMMA GoneCloses ==
  ASSUME Bookkeeping, SoloInv, NEW w \in Workers, NEW s, s \notin {"working", "absent"},
         wtask[w].status = "working", tasks[wtask[w].parent].status = "working",
         wtask' = [wtask EXCEPT ![w].status = s], UNCHANGED tasks
  PROVE  Contract!ContractNext
<1>1. PICK t \in Tasks : t = wtask[w].parent
  BY DEF Bookkeeping, References, Exists
<1>2. \A u : Live(u)' = IF u = t THEN {} ELSE Live(u)
  BY <1>1, LastOneGone DEF SoloInv
<1>3. w \in Live(t)
  BY <1>1 DEF Live
<1>4. [u \in Tasks |-> Live(u)]' = [[u \in Tasks |-> Live(u)] EXCEPT ![t] = {}]
  BY <1>2
<1>5. (Workers \ Unused)' = Workers \ Unused
  BY StatusWritten DEF Unused
<1>6. Contract!CloseLane(t)
  BY <1>1, <1>3, <1>4, <1>5 DEF Contract!CloseLane
<1> QED
  BY <1>6 DEF Contract!ContractNext

LEMMA SettleWorkerCloses ==
  ASSUME Bookkeeping, SoloInv, NEW p \in Runners, Runners = {p}, SettleWorker(p)
  PROVE  Contract!ContractNext
<1>1. PICK s \in {"complete", "failed"} : wtask' = [wtask EXCEPT ![job[p].worker].status = s]
  BY DEF SettleWorker
<1>2. pc[p] = "settleWorker" /\ UNCHANGED tasks
  BY DEF SettleWorker, Goto
<1>3. tasks[job[p].task].status = "working"
  BY <1>2 DEF SoloInv, AsFound
<1> QED
  BY <1>1, <1>2, <1>3, SettledLives, GoneCloses

LEMMA FailWorkerCloses ==
  ASSUME Bookkeeping, SoloInv, NEW p \in Runners, Runners = {p}, FailWorker(p)
  PROVE  Contract!ContractNext
<1>1. /\ pc[p] = "failWorker" /\ UNCHANGED tasks
      /\ wtask' = [wtask EXCEPT ![job[p].worker].status = "failed"]
  BY DEF FailWorker, Goto
<1>2. PICK s \in {"failed"} : wtask' = [wtask EXCEPT ![job[p].worker].status = s]
  BY <1>1
<1>3. tasks[job[p].task].status = "working"
  BY <1>1 DEF SoloInv, AsFound, Replacing, Repairing
<1> QED
  BY <1>1, <1>2, <1>3, GivenUpLives, GoneCloses

(* A task that works without a lane is settled.                             *)
LEMMA TaskSettles ==
  ASSUME Bookkeeping, UNCHANGED wtask, NEW t \in Tasks, NEW s \in {"complete", "failed", "blocked"},
         NEW k, tasks' = [tasks EXCEPT ![t] = [status |-> s, kids |-> k]],
         tasks[t].status = "working", Live(t) = {}
  PROVE  Contract!ContractNext
<1>1. Contract!Settle(t, s)
  BY StatusMapped DEF Contract!Settle
<1> QED
  BY <1>1 DEF Contract!ContractNext

LEMMA ResultSettles ==
  ASSUME Bookkeeping, SoloInv, NEW p \in Runners, Runners = {p},
         SettleTask(p) \/ BlockTask(p)
  PROVE  Contract!ContractNext
<1>1. PICK t \in Tasks : t = job[p].task
  BY DEF SettleTask, BlockTask, Goto, Bookkeeping, References, Exists, InHandOK, Handling, Repairing, HoldsResult,
     HoldsWorker, TypeOK, Result
<1>2. pc[p] \in {"settleTask", "blockTask"} /\ UNCHANGED wtask
  BY DEF SettleTask, BlockTask, Goto
<1>3. tasks[t].status = "working" /\ Live(t) = {}
  BY <1>1, <1>2 DEF SoloInv, AsFound, LivesAlone, Replacing, Repairing
<1>4. PICK s \in {"complete", "failed", "blocked"}, k \in SUBSET Workers :
        tasks' = [tasks EXCEPT ![t] = [status |-> s, kids |-> k]]
  <2>1. view[p][t] \ {job[p].worker} \in SUBSET Workers
    BY DEF Bookkeeping, TypeOK
  <2>2. CASE SettleTask(p)
    <3>1. job[p].verdict \in {"complete", "failed", "blocked"}
      BY <2>2 DEF SettleTask, Goto, Bookkeeping, InHandOK, Handling, HoldsResult, Resolutions
    <3> QED
      BY <1>1, <2>1, <2>2, <3>1 DEF SettleTask
  <2>3. CASE BlockTask(p)
    BY <1>1, <2>1, <2>3 DEF BlockTask, BaseKids
  <2> QED
    BY <2>2, <2>3
<1> QED
  BY <1>2, <1>3, <1>4, TaskSettles

(* A task begins to work once its lane is there.                            *)
LEMMA LinkBegins ==
  ASSUME Bookkeeping, SoloInv, NEW p \in Runners, Runners = {p},
         LinkDispatched(p) \/ LinkReassigned(p)
  PROVE  [Contract!ContractNext]_(Contract!contractVars)
<1>1. /\ pc[p] = "link" /\ LinkChild(p) /\ UNCHANGED wtask
      /\ job[p].task \in Tasks /\ job[p].fresh \in Workers /\ wtask[job[p].fresh].parent = job[p].task
  BY DEF LinkDispatched, LinkReassigned, Goto, Bookkeeping, InHandOK, Delegating, HoldsTask
<1>2. PICK t \in Tasks : t = job[p].task
  BY <1>1
<1>3. PICK k : tasks' = [tasks EXCEPT ![t] = [status |-> "working", kids |-> k]]
  BY <1>1, <1>2 DEF LinkChild
<1>4. job[p].fresh \in Live(t)
  BY <1>1, <1>2 DEF SoloInv, LivesAlone, Live
<1>5. CASE job[p].worker = None
  <2>1. /\ tasks[t].status \notin {"complete", "working"}
        /\ \A d \in DependsOn[t] : tasks[d].status = "complete"
    BY <1>1, <1>2, <1>5 DEF SoloInv, AsFound, Dispatching, Delegating
  <2>2. tasks[t].status \in TaskStatus /\ DependsOn[t] \subseteq Tasks
    BY DependsOnAssumption DEF Bookkeeping, TypeOK, Payload
  <2>3. Contract!Due(t)
    BY <2>1, <2>2 DEF Contract!Due, Contract!Free, TaskStatus
  <2>4. Contract!BeginWork(t)
    BY <1>1, <1>2, <1>3, <1>4, <2>3, StatusMapped DEF Contract!BeginWork
  <2> QED
    BY <2>4 DEF Contract!ContractNext
<1>6. CASE job[p].worker # None
  <2>1. tasks[t].status = "working"
    BY <1>1, <1>2, <1>6 DEF SoloInv, AsFound, Replacing, Delegating
  <2>2. [u \in Tasks |-> tasks'[u].status] = [u \in Tasks |-> tasks[u].status]
    BY <1>1, <1>3, <2>1, TaskWritten
  <2> QED
    BY <1>1, <1>3, <2>2, StatusMapped DEF Contract!contractVars
<1> QED
  BY <1>5, <1>6

(* A task is answered in place, or the working one is written once more.    *)
LEMMA RewriteAnswers ==
  ASSUME Bookkeeping, SoloInv, NEW p \in Runners, Runners = {p}, RewriteTask(p)
  PROVE  [Contract!ContractNext]_(Contract!contractVars)
<1>1. /\ pc[p] = "rewrite" /\ UNCHANGED wtask /\ job[p].task \in Tasks
      /\ job[p].verdict \in {"applied", "uncertain", "refused", "delegated"}
  BY DEF RewriteTask, Goto, Bookkeeping, InHandOK
<1>2. PICK t \in Tasks : t = job[p].task
  BY <1>1
<1>3. PICK k : tasks' = [tasks EXCEPT ![t] = [status |-> DispatchedStatus(job[p].verdict), kids |-> k]]
  BY <1>1, <1>2 DEF RewriteTask
<1>4. /\ tasks[t].status # "complete"
      /\ tasks[t].status = "working" <=> job[p].verdict = "delegated"
      /\ Live(t) # {} <=> job[p].verdict = "delegated"
      /\ \A d \in DependsOn[t] : tasks[d].status = "complete"
  BY <1>1, <1>2 DEF SoloInv, AsFound, LivesAlone, Dispatching
<1>5. CASE job[p].verdict = "delegated"
  <2>1. [u \in Tasks |-> tasks'[u].status] = [u \in Tasks |-> tasks[u].status]
    BY <1>3, <1>4, <1>5, TaskWritten DEF DispatchedStatus
  <2> QED
    BY <1>1, <1>3, <2>1, StatusMapped DEF Contract!contractVars
<1>6. CASE job[p].verdict # "delegated"
  <2>1. tasks[t].status \in TaskStatus /\ DependsOn[t] \subseteq Tasks
    BY DependsOnAssumption DEF Bookkeeping, TypeOK, Payload
  <2>2. Contract!Due(t) /\ Live(t) = {}
    BY <1>4, <1>6, <2>1 DEF Contract!Due, Contract!Free, TaskStatus
  <2>3. PICK s \in {"complete", "pending"} : s = DispatchedStatus(job[p].verdict)
    BY <1>1, <1>6 DEF DispatchedStatus
  <2>4. Contract!AnswerInPlace(t, s)
    BY <1>1, <1>3, <2>2, <2>3, StatusMapped DEF Contract!AnswerInPlace
  <2> QED
    BY <2>3, <2>4 DEF Contract!ContractNext
<1> QED
  BY <1>5, <1>6

LEMMA InitKeepsContract ==
  ASSUME Init
  PROVE  Contract!ContractInit
<1>1. \A t : Live(t) = {}
  BY DEF Init, Live
<1>2. Workers \ Unused = {}
  BY DEF Init, Unused
<1> QED
  BY <1>1, <1>2 DEF Init, Contract!ContractInit

LEMMA StepKeepsContract ==
  ASSUME SoleRunner, Bookkeeping, SoloInv, [Next]_vars
  PROVE  [Contract!ContractNext]_(Contract!contractVars)
<1>1. PICK p \in Runners : Runners = {p}
  BY DEF SoleRunner
<1>2. CASE SettleWorker(p)
  BY <1>1, <1>2, SettleWorkerCloses
<1>3. CASE FailWorker(p)
  BY <1>1, <1>3, FailWorkerCloses
<1>4. CASE SettleTask(p) \/ BlockTask(p)
  BY <1>1, <1>4, ResultSettles
<1>5. CASE CreateWorker(p)
  BY <1>1, <1>5, CreateOpens
<1>6. CASE LinkDispatched(p) \/ LinkReassigned(p)
  BY <1>1, <1>6, LinkBegins
<1>7. CASE RewriteTask(p)
  BY <1>1, <1>7, RewriteAnswers
<1>8. CASE ObserveHealthy(p) \/ ObserveStalled(p)
  <2>1. PICK w \in queue[p] : wtask' = Refreshed(w)
    BY <1>8 DEF ObserveHealthy, ObserveStalled
  <2>2. w \in Workers /\ pc[p] = "supervise" /\ UNCHANGED tasks
    BY <1>8 DEF ObserveHealthy, ObserveStalled, Goto, Bookkeeping, TypeOK
  <2>3. wtask[w].status = "working"
    BY <2>2 DEF SoloInv, WorkersLast, Replacing, Repairing, Delegating
  <2>4. wtask' = wtask
    BY <2>1, <2>2, <2>3 DEF Refreshed, Bookkeeping, TypeOK
  <2> QED
    BY <2>2, <2>4, Stutters
<1>9. CASE UNCHANGED <<tasks, wtask>>
  BY <1>9, Stutters
<1>10. CASE Step(p)
  <2>1. \/ SettleWorker(p) \/ FailWorker(p) \/ SettleTask(p) \/ BlockTask(p) \/ CreateWorker(p)
        \/ LinkDispatched(p) \/ LinkReassigned(p) \/ RewriteTask(p)
        \/ ObserveHealthy(p) \/ ObserveStalled(p) \/ UNCHANGED <<tasks, wtask>>
    BY <1>10 DEF durable, Step, Start, TakeIn, BeginRun, Reconcile, HygieneRead,
       HygieneClose, ListResults, ReadResult, RecordCompletion, Acknowledge, Supervise,
       StartSupervision, WithdrawRequest, StartDispatch, Delegate, SendRequest, Dispatch,
       Select, RecordAttempt, Serve, ListRequests, EmitResult, ResolveRequest, EndCycle
  <2> QED
    BY <2>1, <1>2, <1>3, <1>4, <1>5, <1>6, <1>7, <1>8, <1>9
<1>11. CASE ~ Step(p)
  BY <1>1, <1>9, <1>11 DEF Next, vars, durable, Crash, Age
<1> QED
  BY <1>10, <1>11

-----------------------------------------------------------------------------
(* No delegation request is closed unanswered and undecided                *)
(* (WorkerRuntime._emit_result, _repair_stalled_worker_task).               *)
THEOREM NothingLost == Spec => []NoLostDelegation
<1>1. Init => NoLostDelegationInv
  BY DEF Init, NoLostDelegationInv, NoLostDelegation, EmittedBeforeResolve
<1>2. Bookkeeping /\ NoLostDelegationInv /\ [Next]_vars => NoLostDelegationInv'
  BY NoLostDelegationStep
<1>3. NoLostDelegationInv => NoLostDelegation
  BY DEF NoLostDelegationInv
<1> QED
  BY <1>1, <1>2, <1>3, BookkeepingInvariant, PTL DEF Spec

(* No result leaves the inbox before its completion attempt is on record    *)
(* (_reconcile_worker_results).                                             *)
THEOREM NothingSkipped == Spec => []AckedIsRecorded
<1>1. Init => AckedIsRecordedInv
  BY DEF Init, AckedIsRecordedInv, AckedIsRecorded, RecordedBeforeAck
<1>2. Bookkeeping /\ AckedIsRecordedInv /\ [Next]_vars => AckedIsRecordedInv'
  BY AckedIsRecordedStep
<1>3. AckedIsRecordedInv => AckedIsRecorded
  BY DEF AckedIsRecordedInv
<1> QED
  BY <1>1, <1>2, <1>3, BookkeepingInvariant, PTL DEF Spec

(* A runner repeats the provider call of a delegation only after a crash    *)
(* (WorkerRuntime.process_pending).                                         *)
THEOREM ServedOnce == Spec => []ServedOncePerCrash
<1>1. Init => ServedOncePerCrashInv
  BY DEF Init, ServedOncePerCrashInv, ServedOncePerCrash, RequestInHand, FreshIsPrivate,
     ServingOnce
<1>2. Bookkeeping /\ ServedOncePerCrashInv /\ [Next]_vars => ServedOncePerCrashInv'
  BY RequestInHandStep, FreshStep, ServingOnceStep, ServedOnceStep DEF ServedOncePerCrashInv
<1>3. ServedOncePerCrashInv => ServedOncePerCrash
  BY DEF ServedOncePerCrashInv
<1> QED
  BY <1>1, <1>2, <1>3, BookkeepingInvariant, PTL DEF Spec

(* A runner that is about to complete a task has an applied result of its   *)
(* worker in hand (_task_from_worker_result).                               *)
THEOREM CompletionInvariant == Spec => []CompletionInv
<1>1. Init => CompletionInv
  BY DEF Init, CompletionInv, CompletionIsEarned, EarnedInHand
<1>2. Bookkeeping /\ CompletionInv /\ [Next]_vars => CompletionInv'
  BY CompletionStep
<1> QED
  BY <1>1, <1>2, BookkeepingInvariant, PTL DEF Spec

(* Complete tasks and worker tasks were answered, whatever the stale        *)
(* readings of _task_record_for_candidate write back.                       *)
THEOREM CompletionEarned == Spec => []CompletionIsEarned
<1>1. CompletionInv => CompletionIsEarned
  BY DEF CompletionInv
<1> QED
  BY <1>1, CompletionInvariant, PTL

(* No worker is created for a task before its dependencies were answered    *)
(* (_task_has_unresolved_dependencies), even by a late reassignment.        *)
THEOREM DependenciesFirst == Spec => []DependenciesEarned
<1>1. Init => DependenciesInv
  BY DEF Init, DependenciesInv, DependenciesEarned, DelegatedIsReady
<1>2. Bookkeeping /\ CompletionInv /\ DependenciesInv /\ [Next]_vars => DependenciesInv'
  BY DependenciesStep
<1>3. DependenciesInv => DependenciesEarned
  BY DEF DependenciesInv
<1> QED
  BY <1>1, <1>2, <1>3, BookkeepingInvariant, CompletionInvariant, PTL DEF Spec

(* While one runner's cycles run to their end, tasks and worker tasks       *)
(* change together: a task works exactly while one worker lives for it.     *)
THEOREM SoloInvariant == ASSUME SoleRunner PROVE Spec => []SoloInv
<1>1. Init => SoloInv
  BY SoloInit
<1>2. Bookkeeping /\ SoloInv /\ [Next]_vars => SoloInv'
  BY SoloStep
<1> QED
  BY <1>1, <1>2, BookkeepingInvariant, PTL DEF Spec

(* One runner never gives a task to a second lane while the first one may   *)
(* answer, whatever it dispatches, retries and reassigns in one cycle       *)
(* (_supervise_worker_tasks, next_candidate_assessment).                    *)
THEOREM OneLaneAtATime == ASSUME SoleRunner PROVE Spec => []OneLiveWorker
<1>1. ASSUME SoloInv PROVE OneLiveWorker
  <2> SUFFICES ASSUME NEW t \in Tasks PROVE Cardinality(Live(t)) <= 1
    BY DEF OneLiveWorker
  <2>1. CASE Live(t) = {}
    BY <2>1, FS_EmptySet
  <2>2. CASE Live(t) # {}
    <3>1. PICK w : w \in Live(t)
      BY <2>2
    <3>2. Live(t) = {w}
      BY <1>1, <3>1 DEF SoloInv, LivesAlone, Live
    <3>3. Cardinality({w}) = 1
      BY FS_Singleton
    <3> QED
      BY <3>2, <3>3
  <2> QED
    BY <2>1, <2>2
<1> QED
  BY <1>1, SoloInvariant, PTL

(* A task that one runner left working has a lane that may still answer, or *)
(* the runner has it in hand (_repair_stalled_worker_task).                 *)
THEOREM NobodyIsStranded == ASSUME SoleRunner PROVE Spec => []NoSilentStall
<1>1. ASSUME SoloInv PROVE NoSilentStall
  BY <1>1 DEF SoleRunner, SoloInv, WorksWhileLive, NoSilentStall, InHand
<1> QED
  BY <1>1, SoloInvariant, PTL

(* A complete task stays complete: what one runner writes over a record is  *)
(* never older than its answer (_task_from_worker_result,                   *)
(* _task_record_for_candidate).                                             *)
THEOREM CompleteStays == ASSUME SoleRunner PROVE Spec => CompleteIsFinal
<1>1. Bookkeeping /\ SoloInv /\ [Next]_vars =>
        [\A t \in Tasks : tasks[t].status = "complete" => tasks'[t].status = "complete"]_vars
  BY CompleteKept
<1> QED
  BY <1>1, SoloInvariant, BookkeepingInvariant, PTL DEF Spec, CompleteIsFinal

(* One runner keeps the contract of DelegationContract: whatever it reads,   *)
(* writes, retries and gives up, what the task and worker records show is    *)
(* lanes opened, work begun, lanes closed and tasks settled, in that order   *)
(* (_delegate_message_task, _reconcile_worker_results,                       *)
(* _repair_stalled_worker_task, _task_record_for_candidate).                 *)
THEOREM DelegationKeepsContract == ASSUME SoleRunner PROVE Spec => KeepsContract
<1>1. Init => Contract!ContractInit
  BY InitKeepsContract
<1>2. Bookkeeping /\ SoloInv /\ [Next]_vars => [Contract!ContractNext]_(Contract!contractVars)
  BY StepKeepsContract
<1> QED
  BY <1>1, <1>2, SoloInvariant, BookkeepingInvariant, PTL DEF Spec, KeepsContract, Contract!ContractSpec
=============================================================================
