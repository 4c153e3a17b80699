--------------------- MODULE WorkerDelegationProperties ---------------------
(***************************************************************************)
(* What the delegation life cycle promises, stated over WorkerDelegation.  *)
(***************************************************************************)
EXTENDS WorkerDelegation

Jobs == [task: Tasks \cup {None}, worker: Workers \cup {None},
         fresh: Workers \cup {None}, msg: Result \cup {None},
         verdict: Verdicts \cup {None}]

(* Types of the records, and what bookkeeping may name: a result is listed, *)
(* recorded or acknowledged only if it was sent.                            *)
TypeOK ==
  /\ tasks \in [Tasks -> Payload]
  /\ wtask \in [Workers -> [status: WorkerStatus, parent: Tasks \cup {None}]]
  /\ request \in [Workers -> RequestStatus]
  /\ sent \subseteq Result
  /\ acked \subseteq sent
  /\ recorded \subseteq sent
  /\ open \subseteq Tasks
  /\ latest \in [Tasks -> {"none", "succeeded", "failed", "blocked", "cancelled"}]
  /\ pc \in [Runners -> Phases]
  /\ seen \in [Runners -> [Tasks -> TaskStatus]]
  /\ view \in [Runners -> [Tasks -> SUBSET Workers]]
  /\ queue \in [Runners -> SUBSET Workers]
  /\ inbox \in [Runners -> SUBSET Result]
  /\ picked \in [Runners -> SUBSET Tasks]
  /\ job \in [Runners -> Jobs]
  /\ emitted \in [Runners -> [Workers -> Nat]]
  /\ repaired \subseteq Workers
  /\ answered \subseteq Tasks
  /\ lineage \in [Workers -> Nat]
  /\ crashes \in [Runners -> Nat]
  /\ swallowed \subseteq sent

-----------------------------------------------------------------------------
(* Whatever the number of runners and wherever they crash.                 *)

(* A delegation request is closed only after its worker has sent a result   *)
(* or supervision has decided about the worker: _emit_result sends before   *)
(* it resolves, _repair_stalled_worker_task records before it resolves.     *)
NoLostDelegation ==
  \A w \in Workers : request[w] = "resolved" =>
    w \in repaired \/ \E r \in sent : r.worker = w

(* A result leaves the inbox only after its completion attempt is on        *)
(* record, unless the intake has taken it for a message:                    *)
(* _reconcile_worker_results acknowledges last, so a crash repeats the      *)
(* handling of a result and never skips it.                                 *)
AckedIsRecorded == acked \subseteq recorded \cup swallowed

(* The provider call of one delegation is repeated by a runner only when    *)
(* that runner crashed in between: no runner serves a request again that it *)
(* has itself served to the end.                                            *)
ServedOncePerCrash ==
  \A p \in Runners, w \in Workers : emitted[p][w] <= 1 + crashes[p]

(* A task was answered: directly by a dispatch whose verification passed,   *)
(* or by an applied result of a worker that was created for this task.      *)
Earned(t) == \/ t \in answered
             \/ \E r \in sent : r.outcome = "applied" /\ wtask[r.worker].parent = t

(* A task, and a worker task, is "complete" only if it was answered: a      *)
(* failed, withdrawn, stale or foreign result never completes it.           *)
CompletionIsEarned ==
  /\ \A t \in Tasks : tasks[t].status = "complete" => Earned(t)
  /\ \A w \in Workers : wtask[w].status = "complete" =>
       \E r \in sent : r.worker = w /\ r.outcome = "applied"

(* No worker is ever created for a task, by a dispatch, a retry or a        *)
(* reassignment, before every dependency of the task was answered.          *)
DependenciesEarned ==
  \A w \in Workers : wtask[w].status # "absent" =>
    \A d \in DependsOn[wtask[w].parent] : Earned(d)

-----------------------------------------------------------------------------
(* One runner whose cycles run to their end.                               *)

Live(t) == {w \in Workers : wtask[w].status = "working" /\ wtask[w].parent = t}

(* A task is never in the hands of two worker lanes: it is dispatched again *)
(* only after the worker it was given to has failed or been replaced.       *)
OneLiveWorker == \A t \in Tasks : Cardinality(Live(t)) <= 1

InHand(t) == \E p \in Runners : job[p].task = t

(* A task that waits for a worker has something to wait for: a live worker  *)
(* task, a pending request, a result not yet reconciled, or a runner that   *)
(* is handling it.  Otherwise nothing ever selects or closes it again.      *)
NoSilentStall ==
  \A t \in Tasks : tasks[t].status = "working" =>
    \/ Live(t) # {}
    \/ InHand(t)
    \/ \E r \in sent \ acked : wtask[r.worker].parent = t
    \/ \E w \in Workers : Pending(w) /\ wtask[w].parent = t

(* A complete task stays complete: no late or repeated result re-opens it.  *)
CompleteIsFinal ==
  [][\A t \in Tasks : tasks[t].status = "complete" => tasks'[t].status = "complete"]_vars

(* What the records show of a delegation: the status of each task, the      *)
(* lanes that live for it, and the workers there ever were.                 *)
Contract == INSTANCE DelegationContract WITH
  status <- [t \in Tasks |-> tasks[t].status],
  lanes  <- [t \in Tasks |-> Live(t)],
  used   <- Workers \ Unused

(* The records keep the contract of a delegation: a task is taken when it   *)
(* is free and its dependencies are complete, works with one lane at a      *)
(* time, each lane a new one, is settled when its lane is gone, and is left *)
(* alone once it is complete (_delegate_message_task,                       *)
(* _reconcile_worker_results, _repair_stalled_worker_task,                  *)
(* _task_record_for_candidate).                                             *)
KeepsContract == Contract!ContractSpec

(* A delegated task does not stay "working" for ever: it is answered,       *)
(* fails, or is blocked by the supervision.                                 *)
StallsEnd == \A t \in Tasks : tasks[t].status = "working" ~> tasks[t].status # "working"

-----------------------------------------------------------------------------
(* Supervision reassigns a piece of work at most twice and then blocks it:  *)
(* retry_index < 2 in _repair_stalled_worker_task.                          *)
ReassignBudget == \A w \in Workers : lineage[w] <= 2
=============================================================================
