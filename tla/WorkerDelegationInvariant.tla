---------------------- MODULE WorkerDelegationInvariant ----------------------
(***************************************************************************)
(* The inductive invariants behind the properties of WorkerDelegation.     *)
(* The properties speak of the durable records only; what makes them hold  *)
(* in every step is what a runner has in hand between two writes.          *)
(***************************************************************************)
EXTENDS WorkerDelegationProperties

Handling   == {"settleWorker", "settleTask", "record", "acknowledge"}
Repairing  == {"withdraw", "failWorker", "blockTask"}
Delegating == {"create", "send", "link"}

Exists(w) == wtask[w].status # "absent"

(* Records refer to records that exist: a worker task names its parent, a   *)
(* request or a result names its worker task, a listing only what was sent  *)
(* or created.                                                              *)
References ==
  /\ \A w \in Workers : Exists(w) => wtask[w].parent \in Tasks
  /\ \A w \in Workers : request[w] # "absent" => Exists(w)
  /\ \A r \in sent : Exists(r.worker)
  /\ \A p \in Runners : inbox[p] \subseteq sent
  /\ \A p \in Runners : \A w \in queue[p] : Exists(w)

(* What a runner has in hand in each phase of its cycle.                    *)
HoldsResult(p) ==
  /\ job[p].msg \in sent
  /\ job[p].worker = job[p].msg.worker
  /\ job[p].task = wtask[job[p].worker].parent
  /\ pc[p] = "settleTask" => job[p].verdict \in Resolutions(job[p].msg)

HoldsWorker(p) ==
  /\ job[p].worker \in Workers
  /\ Exists(job[p].worker)
  /\ job[p].task = wtask[job[p].worker].parent

HoldsTask(p) ==
  /\ job[p].task \in Tasks
  /\ IF job[p].worker = None THEN job[p].verdict = "delegated" ELSE HoldsWorker(p)
  /\ pc[p] \in {"send", "link"} =>
       /\ job[p].fresh \in Workers
       /\ Exists(job[p].fresh)
       /\ wtask[job[p].fresh].parent = job[p].task

InHandOK ==
  \A p \in Runners :
    /\ pc[p] \in Handling => HoldsResult(p)
    /\ pc[p] \in Repairing => HoldsWorker(p)
    /\ pc[p] \in Delegating => HoldsTask(p)
    /\ pc[p] \in {"rewrite", "attempt"} =>
         /\ job[p].task \in Tasks
         /\ job[p].verdict \in {"applied", "uncertain", "refused", "delegated"}
    /\ pc[p] = "resolve" => job[p].worker \in Workers /\ Exists(job[p].worker)

(* Type correctness is inductive only together with these two.              *)
Bookkeeping == TypeOK /\ References /\ InHandOK

-----------------------------------------------------------------------------
(* A runner about to close the request it has served has sent its result.   *)
EmittedBeforeResolve ==
  \A p \in Runners : pc[p] = "resolve" => \E r \in sent : r.worker = job[p].worker

NoLostDelegationInv == NoLostDelegation /\ EmittedBeforeResolve

(* A runner about to acknowledge a result has recorded it.                  *)
RecordedBeforeAck ==
  \A p \in Runners : pc[p] = "acknowledge" => job[p].msg \in recorded

AckedIsRecordedInv == AckedIsRecorded /\ RecordedBeforeAck

-----------------------------------------------------------------------------
(* A runner closes and serves only requests that were sent.                 *)
RequestInHand ==
  \A p \in Runners :
    /\ pc[p] \in {"turn", "resolve"} => \A w \in queue[p] : request[w] # "absent"
    /\ pc[p] \in {"withdraw", "resolve"} => request[job[p].worker] # "absent"

(* A child a runner has just created is nobody else's and has no request.   *)
FreshIsPrivate ==
  \A p \in Runners : pc[p] = "send" =>
    /\ request[job[p].fresh] = "absent"
    /\ \A q \in Runners : pc[q] = "send" /\ job[q].fresh = job[p].fresh => q = p

(* A request that a runner served more often than it crashed is closed, or  *)
(* the runner is about to close it.                                         *)
Closing(p, w) == pc[p] = "resolve" /\ w = job[p].worker

ServingOnce ==
  \A p \in Runners, w \in Workers : emitted[p][w] > crashes[p] =>
    \/ Closing(p, w)
    \/ request[w] = "resolved" /\ ~ (pc[p] \in {"turn", "resolve"} /\ w \in queue[p])

ServedOncePerCrashInv ==
  ServedOncePerCrash /\ RequestInHand /\ FreshIsPrivate /\ ServingOnce

-----------------------------------------------------------------------------
(* A runner about to complete a task has the applied result in hand.        *)
EarnedInHand ==
  \A p \in Runners : pc[p] = "settleTask" /\ job[p].verdict = "complete" =>
    job[p].msg.outcome = "applied"

CompletionInv == CompletionIsEarned /\ EarnedInHand

(* A runner that delegates a task has seen its dependencies answered, and   *)
(* an answer is never taken back.                                           *)
DelegatedIsReady ==
  \A p \in Runners : pc[p] = "create" => \A d \in DependsOn[job[p].task] : Earned(d)

DependenciesInv == DependenciesEarned /\ DelegatedIsReady

-----------------------------------------------------------------------------
(* One runner whose cycles run to their end: what it reads stays as it was  *)
(* read, but for requests that grow old.                                    *)
SoleRunner == MaxCrashes = 0 /\ \E p \in Runners : Runners = {p}

(* Where a runner has listed the results, where it has handled them all,    *)
(* where it follows a worker it has found stalled, and where it has taken a *)
(* task it has still to write.                                              *)
Reconciling == {"result"} \cup Handling
Settled     == {"supervise", "dispatch", "rewrite", "attempt"} \cup Repairing \cup Delegating
Replacing(p) == pc[p] \in Repairing \/ (pc[p] \in Delegating /\ job[p].worker # None)
Dispatching(p) == pc[p] = "rewrite" \/ (pc[p] \in Delegating /\ job[p].worker = None)

(* No result is missed, and every result comes from a request served to the *)
(* end, once.                                                               *)
ResultsOnce ==
  \A p \in Runners :
    /\ pc[p] = "intake" => sent = {}
    /\ pc[p] \in Reconciling => inbox[p] = sent \ acked
    /\ pc[p] \in Handling => job[p].msg \in inbox[p]
    /\ pc[p] \in Settled => sent \subseteq acked
    /\ \A r \in sent \ acked :
         request[r.worker] = "resolved" \/ (pc[p] = "resolve" /\ job[p].worker = r.worker)
    /\ \A r, s \in sent \ acked : r.worker = s.worker => r = s

(* Worker tasks live as long as something is due about them: their request, *)
(* their result until it is settled, the supervision that has them listed.  *)
WorkersLast ==
  \A p \in Runners :
    /\ \A w \in Workers : Pending(w) => wtask[w].status = "working"
    /\ \A r \in sent \ acked : \/ wtask[r.worker].status = "working"
                               \/ pc[p] \in Handling \ {"settleWorker"} /\ job[p].msg = r
    /\ pc[p] \in {"turn", "resolve"} => \A w \in queue[p] : Pending(w)
    /\ pc[p] = "resolve" => job[p].worker \in queue[p]
    /\ pc[p] = "supervise" \/ Replacing(p) =>
         \A w \in queue[p] : wtask[w].status = "working" \/ (Replacing(p) /\ w = job[p].worker)
    /\ pc[p] \in {"withdraw", "failWorker"} => wtask[job[p].worker].status = "working"
    /\ pc[p] = "failWorker" => ~ Pending(job[p].worker)

(* Two lanes never live for one task, and between a handler's writes the    *)
(* task it is about has the worker it has just made, or none.               *)
LivesAlone ==
  /\ \A v, w \in Workers :
       wtask[v].status = "working" /\ wtask[w].status = "working" =>
         (wtask[v].parent = wtask[w].parent => v = w)
  /\ \A p \in Runners :
       /\ pc[p] \in {"settleTask", "blockTask", "create"} => Live(job[p].task) = {}
       /\ pc[p] \in {"send", "link"} => wtask[job[p].fresh].status = "working"
       /\ pc[p] = "send" => request[job[p].fresh] = "absent"
       /\ pc[p] = "rewrite" => (Live(job[p].task) # {} <=> job[p].verdict = "delegated")

(* A task works exactly while it has a live worker, but for what is in hand *)
(* between the writes that change the one and the other.                    *)
WorksWhileLive ==
  \A p \in Runners :
    /\ \A w \in Workers : wtask[w].status = "working" =>
         \/ tasks[wtask[w].parent].status = "working"
         \/ pc[p] \in {"send", "link"} /\ job[p].fresh = w
    /\ \A t \in Tasks : tasks[t].status = "working" =>
         \/ Live(t) # {}
         \/ pc[p] \in {"settleTask", "blockTask", "create"} /\ job[p].task = t

(* The task that a handler is about is as the handler found it: working,    *)
(* when its worker is settled or replaced; free to be taken, with every     *)
(* dependency answered, when it is dispatched.                              *)
AsFound ==
  \A p \in Runners :
    /\ pc[p] \in {"settleWorker", "settleTask"} \/ Replacing(p) =>
         tasks[job[p].task].status = "working"
    /\ pc[p] \in {"rewrite", "attempt"} => job[p].worker = None
    /\ Dispatching(p) =>
         /\ tasks[job[p].task].status # "complete"
         /\ (tasks[job[p].task].status = "working"
              <=> pc[p] = "rewrite" /\ job[p].verdict = "delegated")
         /\ \A d \in DependsOn[job[p].task] : tasks[d].status = "complete"

SoloInv == ResultsOnce /\ WorkersLast /\ LivesAlone /\ WorksWhileLive /\ AsFound

IInv == /\ Bookkeeping /\ NoLostDelegationInv /\ AckedIsRecordedInv
        /\ ServedOncePerCrashInv /\ CompletionInv /\ DependenciesInv
=============================================================================
