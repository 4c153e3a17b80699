-------------------------- MODULE WorkerDelegation --------------------------
(***************************************************************************)
(* The delegation life cycle of Astrata's Loop 0: how a governed task is   *)
(* picked, handed to a worker lane, answered, reconciled, supervised and   *)
(* retried (astrata/loop0/runner.py, workers/runtime.py, comms/lanes.py,   *)
(* storage/hygiene.py).                                                    *)
(*                                                                         *)
(* Several operating-system processes run this loop on one SQLite file:    *)
(* the loop0 daemon, the `loop0-run` command and the UI's run_loop.  Each  *)
(* write of a record is one transaction, a handler made of several writes  *)
(* is not.  So a runner is a little program here: one action per durable   *)
(* write, with the payloads it read earlier kept in its private variables, *)
(* and a crash (or an exception that abandons the cycle) possible between  *)
(* any two of them.                                                        *)
(***************************************************************************)
EXTENDS Integers, FiniteSets

CONSTANTS
  Tasks,       \* governed tasks from EXECUTABLE_MESSAGE_TASK_SOURCES
  Workers,     \* ids of the worker tasks that may be created (a bound)
  Runners,     \* processes that run the loop
  DependsOn,   \* DependsOn[t]: the task ids in t's `dependencies`
  Outcomes,    \* statuses a worker result can carry
  TurnLimit,   \* limit_per_worker of _process_all_pending_worker_turns (5)
  MaxCrashes,  \* bound on the crashes of one runner
  None         \* no task, no worker, no message, no verdict

ASSUME DependsOnAssumption == DependsOn \in [Tasks -> SUBSET Tasks]
ASSUME OutcomesAssumption == Outcomes \subseteq {"applied", "failed", "blocked"}
ASSUME NoneAssumption == None \notin Tasks \cup Workers
ASSUME BoundAssumption == TurnLimit \in Nat \ {0} /\ MaxCrashes \in Nat

TaskStatus   == {"pending", "working", "complete", "failed", "blocked"}
WorkerStatus == {"absent", "working", "complete", "failed"}
Verdicts     == TaskStatus \cup {"applied", "uncertain", "delegated", "refused"}

RequestStatus == {"absent", "delivered", "overdue", "resolved"}

Payload == [status: TaskStatus, kids: SUBSET Workers]
Result  == [worker: Workers, by: Runners, nth: Nat \ {0}, outcome: Outcomes]

Phases == {"intake", "hygiene", "close", "inbox", "result", "settleWorker", "settleTask",
           "record", "acknowledge", "supervise", "withdraw", "failWorker",
           "blockTask", "create", "send", "link", "dispatch", "rewrite",
           "attempt", "turn", "resolve"}

VARIABLES
  tasks,     \* tasks[t]: status and active_child_ids of the task record
  wtask,     \* wtask[w]: status and parent of the worker task record
  request,   \* request[w]: w's worker_delegation_request; "overdue" is a
             \* delivered request that is at least a quarter of an hour old
  sent,      \* worker_delegation_result communications ever sent
  acked,     \* those of them that were acknowledged
  open,      \* tasks with an attempt whose outcome is "running"
  latest,    \* latest[t]: outcome of the attempt with the latest ended_at
  pc,        \* pc[p]: where runner p is in its cycle
  seen,      \* seen[p]: task statuses p's hygiene pass has read
  view,      \* view[p]: active_child_ids p has read and may write back
  queue,     \* queue[p]: worker tasks p has still to serve or to supervise
  inbox,     \* inbox[p]: results p has listed and not yet handled
  picked,    \* picked[p]: seen_task_ids of p's dispatch round
  job,       \* job[p]: what p's handler has in hand
  emitted,   \* history: emitted[p][w], results p has sent for w
  recorded,  \* history: results for which a completion attempt was recorded
  repaired,  \* history: workers for which a worker_supervision artifact exists
  answered,  \* history: tasks that a dispatch answered directly
  lineage,   \* history: lineage[w], supervised reassignments that led to w
  crashes,   \* crashes[p]: crashes of runner p, at most MaxCrashes
  swallowed  \* history: results the message intake has acknowledged

durable == <<tasks, wtask, request, sent, acked, open, latest>>
private == <<pc, seen, view, queue, inbox, picked, job>>
history == <<emitted, recorded, repaired, answered, lineage, crashes, swallowed>>
vars    == <<durable, private, history>>

NoJob == [task |-> None, worker |-> None, fresh |-> None,
          msg |-> None, verdict |-> None]

(* What a runner holds between two readings, the earlier one forgotten.     *)
NothingSeen == [t \in Tasks |-> "pending"]
NoView      == [t \in Tasks |-> {}]

(* The children lists of all tasks, as one reading of the table gives them. *)
KidsNow == [t \in Tasks |-> tasks[t].kids]

Init ==
  /\ tasks = [t \in Tasks |-> [status |-> "pending", kids |-> {}]]
  /\ wtask = [w \in Workers |-> [status |-> "absent", parent |-> None]]
  /\ request = [w \in Workers |-> "absent"]
  /\ sent = {} /\ acked = {}
  /\ open = {} /\ latest = [t \in Tasks |-> "none"]
  /\ pc = [p \in Runners |-> "intake"]
  /\ seen = [p \in Runners |-> NothingSeen]
  /\ view = [p \in Runners |-> NoView]
  /\ queue = [p \in Runners |-> {}]
  /\ inbox = [p \in Runners |-> {}]
  /\ picked = [p \in Runners |-> {}]
  /\ job = [p \in Runners |-> NoJob]
  /\ emitted = [p \in Runners |-> [w \in Workers |-> 0]]
  /\ recorded = {} /\ repaired = {} /\ answered = {} /\ swallowed = {}
  /\ lineage = [w \in Workers |-> 0]
  /\ crashes = [p \in Runners |-> 0]

Goto(p, from, to) == pc[p] = from /\ pc' = [pc EXCEPT ![p] = to]

-----------------------------------------------------------------------------
(* The start of a run: process_inbound_messages.                           *)

(* Before the loop's first step the intake turns the oldest messages to     *)
(* "astrata" into tasks and acknowledges them, a worker's result no less    *)
(* than a request of the principal.  The tasks it makes are left out; how   *)
(* many results it reaches depends on what else is waiting (five at most).  *)
TakeIn(p) ==
  /\ Goto(p, "intake", "intake")
  /\ \E r \in sent \ acked :
       /\ acked' = acked \cup {r}
       /\ swallowed' = swallowed \cup {r}
  /\ UNCHANGED <<tasks, wtask, request, sent, open, latest,
                 seen, view, queue, inbox, picked, job,
                 emitted, recorded, repaired, answered, lineage, crashes>>

BeginRun(p) ==
  /\ Goto(p, "intake", "hygiene")
  /\ UNCHANGED <<durable, seen, view, queue, inbox, picked, job, history>>

-----------------------------------------------------------------------------
(* Runtime hygiene: reconcile_running_attempts.                            *)

(* The task statuses are read first... *)
HygieneRead(p) ==
  /\ Goto(p, "hygiene", "close")
  /\ seen' = [seen EXCEPT ![p] = [t \in Tasks |-> tasks[t].status]]
  /\ UNCHANGED <<durable, view, queue, inbox, picked, job, history>>

ClosedOutcome(status) ==
  CASE status = "complete" -> "succeeded"
    [] status = "failed"   -> "failed"
    [] status = "blocked"  -> "blocked"
    [] OTHER               -> "cancelled"

(* ...then every running attempt is closed by the status that was read; the *)
(* attempts of a pending or working task only when six hours old (`stale`). *)
HygieneClose(p) ==
  /\ Goto(p, "close", "inbox")
  /\ \E stale \in SUBSET Tasks :
       LET closed == {t \in open : \/ seen[p][t] \notin {"pending", "working"}
                                   \/ t \in stale}
       IN  /\ open' = open \ closed
           /\ latest' = [t \in Tasks |->
                IF t \in closed THEN ClosedOutcome(seen[p][t]) ELSE latest[t]]
  /\ seen' = [seen EXCEPT ![p] = NothingSeen]
  /\ UNCHANGED <<tasks, wtask, request, sent, acked,
                 view, queue, inbox, picked, job, history>>

-----------------------------------------------------------------------------
(* Reconciliation of worker results: _reconcile_worker_results.            *)

(* Fault: acknowledged results are listed again.                           *)
ListAllResults(p) ==
  /\ Goto(p, "inbox", "result")
  /\ inbox' = [inbox EXCEPT ![p] = sent]
  /\ UNCHANGED <<durable, seen, view, queue, picked, job, history>>

ListResults(p) ==
  /\ Goto(p, "inbox", "result")
  /\ inbox' = [inbox EXCEPT ![p] = sent \ acked]
  /\ UNCHANGED <<durable, seen, view, queue, picked, job, history>>

(* The parent's payload is read once; what is written later is built on it. *)
ReadResult(p) ==
  /\ Goto(p, "result", "settleWorker")
  /\ \E r \in inbox[p] :
       LET t == wtask[r.worker].parent IN
       /\ job' = [job EXCEPT ![p] = [NoJob EXCEPT !.task = t, !.worker = r.worker, !.msg = r]]
       /\ view' = [view EXCEPT ![p][t] = tasks[t].kids]
  /\ UNCHANGED <<durable, seen, queue, inbox, picked, history>>

(* Fault: a failed worker leaves the parent waiting.                        *)
WaitingResolutions(r) ==
  IF r.outcome = "applied" THEN {"complete"} ELSE {"working", "blocked"}

(* determine_task_resolution: a failure leaves the parent failed when it    *)
(* looks transient, otherwise blocked.                                      *)
Resolutions(r) == IF r.outcome = "applied" THEN {"complete"} ELSE {"failed", "blocked"}

SettleWorker(p) ==
  /\ Goto(p, "settleWorker", "settleTask")
  /\ \E s \in Resolutions(job[p].msg) :
       /\ wtask' = [wtask EXCEPT ![job[p].worker].status =
                      IF s = "complete" THEN "complete" ELSE "failed"]
       /\ job' = [job EXCEPT ![p].verdict = s]
  /\ UNCHANGED <<tasks, request, sent, acked, open, latest,
                 seen, view, queue, inbox, picked, history>>

(* Faults: the worker's own word for its outcome becomes the task's status; *)
(* the result is acknowledged before it is on record.                       *)
SettleVerbatim(p) ==
  /\ Goto(p, "settleTask", "record")
  /\ LET t == job[p].task IN
     tasks' = [tasks EXCEPT ![t] = [status |-> job[p].msg.outcome,
                                    kids   |-> view[p][t] \ {job[p].worker}]]
  /\ UNCHANGED <<wtask, request, sent, acked, open, latest,
                 seen, view, queue, inbox, picked, job, history>>
SettleAndAcknowledge(p) ==
  /\ Goto(p, "settleTask", "record")
  /\ LET t == job[p].task IN
     tasks' = [tasks EXCEPT ![t] = [status |-> job[p].verdict,
                                    kids   |-> view[p][t] \ {job[p].worker}]]
  /\ acked' = acked \cup {job[p].msg}
  /\ UNCHANGED <<wtask, request, sent, open, latest,
                 seen, view, queue, inbox, picked, job, history>>

SettleTask(p) ==
  /\ Goto(p, "settleTask", "record")
  /\ LET t == job[p].task IN
     tasks' = [tasks EXCEPT ![t] = [status |-> job[p].verdict,
                                    kids   |-> view[p][t] \ {job[p].worker}]]
  /\ UNCHANGED <<wtask, request, sent, acked, open, latest,
                 seen, view, queue, inbox, picked, job, history>>

AttemptOutcome(r) == IF r.outcome = "applied" THEN "succeeded" ELSE r.outcome

RecordCompletion(p) ==
  /\ Goto(p, "record", "acknowledge")
  /\ latest' = [latest EXCEPT ![job[p].task] = AttemptOutcome(job[p].msg)]
  /\ recorded' = recorded \cup {job[p].msg}
  /\ UNCHANGED <<tasks, wtask, request, sent, acked, open,
                 seen, view, queue, inbox, picked, job,
                 emitted, repaired, answered, lineage, crashes, swallowed>>

Acknowledge(p) ==
  /\ Goto(p, "acknowledge", "result")
  /\ acked' = acked \cup {job[p].msg}
  /\ inbox' = [inbox EXCEPT ![p] = @ \ {job[p].msg}]
  /\ job' = [job EXCEPT ![p] = NoJob]
  /\ view' = [view EXCEPT ![p] = NoView]
  /\ UNCHANGED <<tasks, wtask, request, sent, open, latest,
                 seen, queue, picked, history>>

-----------------------------------------------------------------------------
(* Supervision of worker tasks: _supervise_worker_tasks.                   *)

(* Both the parents and the working worker tasks come from one reading of   *)
(* the table at the start of the pass.                                      *)
StartSupervision(p) ==
  /\ inbox[p] = {}
  /\ Goto(p, "result", "supervise")
  /\ view' = [view EXCEPT ![p] = KidsNow]
  /\ queue' = [queue EXCEPT ![p] = {w \in Workers : wtask[w].status = "working"}]
  /\ UNCHANGED <<durable, seen, inbox, picked, job, history>>

Pending(w) == request[w] \in {"delivered", "overdue"}

(* No pending request (missing_request), or one too old (request_timeout).  *)
Stalled(w) == request[w] # "delivered"

(* The worker's record is written back as it was read, status "working"     *)
(* included, whatever another runner has written in the meantime.           *)
Refreshed(w) == [wtask EXCEPT ![w].status = "working"]

ObserveHealthy(p) ==
  /\ Goto(p, "supervise", "supervise")
  /\ \E w \in queue[p] :
       /\ ~ Stalled(w)
       /\ wtask' = Refreshed(w)
       /\ queue' = [queue EXCEPT ![p] = @ \ {w}]
  /\ UNCHANGED <<tasks, request, sent, acked, open, latest,
                 seen, view, inbox, picked, job, history>>

ObserveStalled(p) ==
  /\ \E w \in queue[p] :
       /\ Stalled(w)
       /\ Goto(p, "supervise", IF Pending(w) THEN "withdraw" ELSE "failWorker")
       /\ wtask' = Refreshed(w)
       /\ job' = [job EXCEPT ![p] = [NoJob EXCEPT !.task = wtask[w].parent, !.worker = w]]
  /\ UNCHANGED <<tasks, request, sent, acked, open, latest,
                 seen, view, queue, inbox, picked, history>>

(* Fault: the request is closed before the decision about it is on record.  *)
WithdrawUnrecorded(p) ==
  /\ Goto(p, "withdraw", "failWorker")
  /\ request' = [request EXCEPT ![job[p].worker] = "resolved"]
  /\ UNCHANGED <<tasks, wtask, sent, acked, open, latest,
                 seen, view, queue, inbox, picked, job, history>>

(* _repair_stalled_worker_task, the pending request: supervision artifact,  *)
(* then the request is resolved.                                            *)
WithdrawRequest(p) ==
  /\ Goto(p, "withdraw", "failWorker")
  /\ request' = [request EXCEPT ![job[p].worker] = "resolved"]
  /\ repaired' = repaired \cup {job[p].worker}
  /\ UNCHANGED <<tasks, wtask, sent, acked, open, latest,
                 seen, view, queue, inbox, picked, job,
                 emitted, recorded, answered, lineage, crashes, swallowed>>

Unused == {w \in Workers : wtask[w].status = "absent"}

(* supervision.retry_index of a worker: read by the policy, and written     *)
(* only by copying the value that was read, so it never leaves zero.        *)
RetryIndex(w) == 0

(* Fault: the work is reassigned, the record of its worker left alone.      *)
LeaveWorker(p) ==
  /\ pc[p] = "failWorker"
  /\ repaired' = repaired \cup {job[p].worker}
  /\ \/ Goto(p, "failWorker", "blockTask")
     \/ Unused # {} /\ Goto(p, "failWorker", "create")
  /\ UNCHANGED <<tasks, wtask, request, sent, acked, open, latest,
                 seen, view, queue, inbox, picked, job,
                 emitted, recorded, answered, lineage, crashes, swallowed>>

(* Reassigned when some route is available, blocked otherwise.              *)
FailWorker(p) ==
  LET w == job[p].worker IN
  /\ pc[p] = "failWorker"
  /\ wtask' = [wtask EXCEPT ![w].status = "failed"]
  /\ repaired' = repaired \cup {w}
  /\ \/ Goto(p, "failWorker", "blockTask")
     \/ RetryIndex(w) < 2 /\ Unused # {} /\ Goto(p, "failWorker", "create")
  /\ UNCHANGED <<tasks, request, sent, acked, open, latest,
                 seen, view, queue, inbox, picked, job,
                 emitted, recorded, answered, lineage, crashes, swallowed>>

(* The children a handler writes back: those it has read, less the worker   *)
(* it is replacing (None when a task is dispatched).                        *)
BaseKids(p) == view[p][job[p].task] \ {job[p].worker}

(* Fault: the worker is given up, its parent is not told.                   *)
ForgetTask(p) ==
  /\ Goto(p, "blockTask", "supervise")
  /\ tasks' = [tasks EXCEPT ![job[p].task].kids = BaseKids(p)]
  /\ queue' = [queue EXCEPT ![p] = @ \ {job[p].worker}]
  /\ job' = [job EXCEPT ![p] = NoJob]
  /\ UNCHANGED <<wtask, request, sent, acked, open, latest,
                 seen, view, inbox, picked, history>>

BlockTask(p) ==
  /\ Goto(p, "blockTask", "supervise")
  /\ tasks' = [tasks EXCEPT ![job[p].task] = [status |-> "blocked", kids |-> BaseKids(p)]]
  /\ queue' = [queue EXCEPT ![p] = @ \ {job[p].worker}]
  /\ job' = [job EXCEPT ![p] = NoJob]
  /\ UNCHANGED <<wtask, request, sent, acked, open, latest,
                 seen, view, inbox, picked, history>>

StartDispatch(p) ==
  /\ queue[p] = {}
  /\ Goto(p, "supervise", "dispatch")
  /\ view' = [view EXCEPT ![p] = NoView]
  /\ UNCHANGED <<durable, seen, queue, inbox, picked, job, history>>

-----------------------------------------------------------------------------
(* Delegation: _delegate_message_task, called by a dispatch and by a repair.*)

CreateWorker(p) ==
  /\ Goto(p, "create", "send")
  /\ \E n \in Unused :
       /\ wtask' = [wtask EXCEPT ![n] = [status |-> "working", parent |-> job[p].task]]
       /\ job' = [job EXCEPT ![p].fresh = n]
       /\ lineage' = [lineage EXCEPT ![n] =
                        IF job[p].worker = None THEN 0 ELSE lineage[job[p].worker] + 1]
  /\ UNCHANGED <<tasks, request, sent, acked, open, latest,
                 seen, view, queue, inbox, picked,
                 emitted, recorded, repaired, answered, crashes, swallowed>>

SendRequest(p) ==
  /\ Goto(p, "send", "link")
  /\ request' = [request EXCEPT ![job[p].fresh] = "delivered"]
  /\ UNCHANGED <<tasks, wtask, sent, acked, open, latest,
                 seen, view, queue, inbox, picked, job, history>>

LinkChild(p) ==
  tasks' = [tasks EXCEPT ![job[p].task] =
              [status |-> "working", kids |-> BaseKids(p) \cup {job[p].fresh}]]

LinkDispatched(p) ==
  /\ job[p].worker = None
  /\ Goto(p, "link", "rewrite")
  /\ LinkChild(p)
  /\ UNCHANGED <<wtask, request, sent, acked, open, latest,
                 seen, view, queue, inbox, picked, job, history>>

LinkReassigned(p) ==
  /\ job[p].worker # None
  /\ Goto(p, "link", "supervise")
  /\ LinkChild(p)
  /\ queue' = [queue EXCEPT ![p] = @ \ {job[p].worker}]
  /\ job' = [job EXCEPT ![p] = NoJob]
  /\ UNCHANGED <<wtask, request, sent, acked, open, latest,
                 seen, view, inbox, picked, history>>

-----------------------------------------------------------------------------
(* Dispatch: next_candidate_assessment, _execute_assessment.               *)

(* Fault: a dependency that has been tried counts as resolved.              *)
ResolvedWhenTried(t) == \A d \in DependsOn[t] : tasks[d].status # "pending"

Resolved(t) == \A d \in DependsOn[t] : tasks[d].status = "complete"

Ready(t) == /\ Resolved(t)
            /\ \A w \in tasks[t].kids : wtask[w].status # "working"

PendingCandidate(t) == tasks[t].status = "pending" /\ Ready(t)

RetryCandidate(t) == /\ tasks[t].status \in {"blocked", "failed"}
                     /\ latest[t] \in {"blocked", "failed"}
                     /\ Ready(t)

(* The candidate carries the payload that was read.  The lane answers       *)
(* directly (verified or not), the coordinator or the governance gate       *)
(* refuses, or the task goes to a worker lane.                              *)
Select(p) ==
  /\ \E t \in Tasks \ picked[p], v \in {"applied", "uncertain", "refused", "delegated"} :
       /\ PendingCandidate(t) \/ RetryCandidate(t)
       /\ v = "delegated" => Unused # {}
       /\ job' = [job EXCEPT ![p] = [NoJob EXCEPT !.task = t, !.verdict = v]]
       /\ picked' = [picked EXCEPT ![p] = @ \cup {t}]
       /\ Goto(p, "dispatch", IF v = "delegated" THEN "create" ELSE "rewrite")
  /\ view' = [view EXCEPT ![p] = KidsNow]
  /\ UNCHANGED <<durable, seen, queue, inbox, history>>

(* Fault: an answer that did not pass its verification completes the task.  *)
UnverifiedStatus(v) ==
  CASE v \in {"applied", "uncertain"} -> "complete"
    [] v = "delegated" -> "working"
    [] OTHER           -> "pending"

DispatchedStatus(v) ==
  CASE v = "applied"   -> "complete"
    [] v = "delegated" -> "working"
    [] OTHER           -> "pending"

(* _task_record_for_candidate: every field of the candidate's payload, the  *)
(* children as they were read included, overrides the stored record.        *)
RewriteTask(p) ==
  /\ Goto(p, "rewrite", "attempt")
  /\ LET t == job[p].task IN
     /\ tasks' = [tasks EXCEPT ![t] = [status |-> DispatchedStatus(job[p].verdict),
                                       kids   |-> view[p][t]]]
     /\ answered' = IF job[p].verdict = "applied" THEN answered \cup {t} ELSE answered
  /\ UNCHANGED <<wtask, request, sent, acked, open, latest,
                 seen, view, queue, inbox, picked, job,
                 emitted, recorded, repaired, lineage, crashes, swallowed>>

RecordAttempt(p) ==
  /\ Goto(p, "attempt", "dispatch")
  /\ LET t == job[p].task IN
     CASE job[p].verdict = "delegated" ->
            open' = open \cup {t} /\ UNCHANGED latest
       [] job[p].verdict \in {"applied", "uncertain"} ->
            latest' = [latest EXCEPT ![t] = "succeeded"] /\ UNCHANGED open
       [] OTHER ->
            /\ \E o \in {"blocked", "failed"} : latest' = [latest EXCEPT ![t] = o]
            /\ UNCHANGED open
  /\ job' = [job EXCEPT ![p] = NoJob]
  /\ view' = [view EXCEPT ![p] = NoView]
  /\ UNCHANGED <<tasks, wtask, request, sent, acked,
                 seen, queue, inbox, picked, history>>

-----------------------------------------------------------------------------
(* Worker turns: WorkerRuntime.process_pending and handle_message.         *)

PendingRequests == {w \in Workers : Pending(w)}

(* The dispatch round is over; the pending requests are listed once, up to  *)
(* the limit.                                                               *)
ListRequests(p) ==
  /\ Goto(p, "dispatch", "turn")
  /\ picked' = [picked EXCEPT ![p] = {}]
  /\ \E listed \in SUBSET PendingRequests :
       /\ listed = PendingRequests \/ Cardinality(listed) >= TurnLimit
       /\ queue' = [queue EXCEPT ![p] = listed]
  /\ UNCHANGED <<durable, seen, view, inbox, job, history>>

(* The provider is called and the result sent: the request is served from   *)
(* the listing, its current status is not looked at again.                  *)
EmitResult(p) ==
  /\ Goto(p, "turn", "resolve")
  /\ \E w \in queue[p], o \in Outcomes :
       /\ sent' = sent \cup {[worker |-> w, by |-> p,
                              nth |-> emitted[p][w] + 1, outcome |-> o]}
       /\ emitted' = [emitted EXCEPT ![p][w] = @ + 1]
       /\ job' = [job EXCEPT ![p] = [NoJob EXCEPT !.worker = w]]
  /\ UNCHANGED <<tasks, wtask, request, acked, open, latest,
                 seen, view, queue, inbox, picked,
                 recorded, repaired, answered, lineage, crashes, swallowed>>

(* Fault: the request that was served stays pending.                        *)
LeaveRequest(p) ==
  /\ Goto(p, "resolve", "turn")
  /\ queue' = [queue EXCEPT ![p] = @ \ {job[p].worker}]
  /\ job' = [job EXCEPT ![p] = NoJob]
  /\ UNCHANGED <<durable, seen, view, inbox, picked, history>>

ResolveRequest(p) ==
  /\ Goto(p, "resolve", "turn")
  /\ request' = [request EXCEPT ![job[p].worker] = "resolved"]
  /\ queue' = [queue EXCEPT ![p] = @ \ {job[p].worker}]
  /\ job' = [job EXCEPT ![p] = NoJob]
  /\ UNCHANGED <<tasks, wtask, sent, acked, open, latest,
                 seen, view, inbox, picked, history>>

EndCycle(p) ==
  /\ queue[p] = {}
  /\ Goto(p, "turn", "hygiene")
  /\ UNCHANGED <<durable, seen, view, queue, inbox, picked, job, history>>

-----------------------------------------------------------------------------
(* The environment.                                                        *)

(* A runner dies, or an exception abandons its cycle; the next run starts   *)
(* with nothing but the durable records, and with the intake.               *)
Crash(p) ==
  /\ pc[p] # "intake"
  /\ crashes[p] < MaxCrashes
  /\ crashes' = [crashes EXCEPT ![p] = @ + 1]
  /\ pc' = [pc EXCEPT ![p] = "intake"]
  /\ queue' = [queue EXCEPT ![p] = {}]
  /\ inbox' = [inbox EXCEPT ![p] = {}]
  /\ picked' = [picked EXCEPT ![p] = {}]
  /\ job' = [job EXCEPT ![p] = NoJob]
  /\ seen' = [seen EXCEPT ![p] = NothingSeen]
  /\ view' = [view EXCEPT ![p] = NoView]
  /\ UNCHANGED <<durable,
                 emitted, recorded, repaired, answered, lineage, swallowed>>

(* _payload_age_hours of a pending request reaches 0.25.                    *)
Age(w) ==
  /\ request[w] = "delivered"
  /\ request' = [request EXCEPT ![w] = "overdue"]
  /\ UNCHANGED <<tasks, wtask, sent, acked, open, latest, private, history>>

Start(p) == TakeIn(p) \/ BeginRun(p)

Reconcile(p) == \/ HygieneRead(p) \/ HygieneClose(p) \/ ListResults(p)
                \/ ReadResult(p) \/ SettleWorker(p) \/ SettleTask(p)
                \/ RecordCompletion(p) \/ Acknowledge(p)

Supervise(p) == \/ StartSupervision(p) \/ ObserveHealthy(p) \/ ObserveStalled(p)
                \/ WithdrawRequest(p) \/ FailWorker(p) \/ BlockTask(p)
                \/ StartDispatch(p)

Delegate(p) == CreateWorker(p) \/ SendRequest(p) \/ LinkDispatched(p) \/ LinkReassigned(p)

Dispatch(p) == Select(p) \/ RewriteTask(p) \/ RecordAttempt(p)

Serve(p) == ListRequests(p) \/ EmitResult(p) \/ ResolveRequest(p) \/ EndCycle(p)

Step(p) == Start(p) \/ Reconcile(p) \/ Supervise(p) \/ Delegate(p) \/ Dispatch(p) \/ Serve(p)

Next == \/ \E p \in Runners : Step(p) \/ Crash(p)
        \/ \E w \in Workers : Age(w)

Spec == Init /\ [][Next]_vars

(* The daemon's loop never stops, a provider call ends or raises, and every *)
(* write returns: a runner that can take a step takes one.                  *)
FairSpec == Spec /\ \A p \in Runners : WF_vars(Step(p))
=============================================================================
