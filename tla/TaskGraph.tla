------------------------------ MODULE TaskGraph ------------------------------
(***************************************************************************)
(* The tasks of the loop as a graph: how the intake and the answers of     *)
(* tasks create tasks, how pending ones are closed because others answer   *)
(* them, batched under a carrier, or judged by a consensus of reviewers    *)
(* (loop0/runner.py, comms/intake.py).  One runner, which may crash        *)
(* between any two writes.  Delegation to a single worker and supervision  *)
(* are WorkerDelegation's.                                                 *)
(***************************************************************************)
EXTENDS Naturals, Sequences, FiniteSets

CONSTANTS
  Topics,       \* what a task is about: title, description and completion type
  Clarification, \* the topic of a task that asks the principal
  Noise,        \* topics that _is_low_signal_message_task recognises
  Filed,        \* topics whose success criteria name files
  Batchable,    \* topics whose tasks are of low priority, all of one lane and class
  Reviewed,     \* topics of the completion types that ask for a review
  Messages,     \* messages of the principal
  Fragments,    \* Fragments[m]: the topics the intake finds in m
  Plans,        \* the follow-ups an answer may name: sequences of topics, each
                \* with the positions it depends on
  Answers,      \* what a reviewer may answer
  Required,     \* required_reviews
  MaxGraphCrashes, MaxTasks,   \* bounds
  MaxReviewers  \* and, for each number of crashes, on the reviewers made so far

ASSUME GraphAssumption ==
  /\ Clarification \in Topics /\ Noise \subseteq Topics
  /\ Filed \subseteq Topics /\ Batchable \subseteq Topics /\ Reviewed \subseteq Topics
  /\ Fragments \in [Messages -> Seq(Topics)]
  /\ Plans \subseteq Seq([topic: Topics, after: SUBSET Nat])
  /\ \A p \in Plans : \A i \in DOMAIN p : p[i].after \subseteq DOMAIN p \ {i}
  /\ "failed" \notin Answers /\ Required \in Nat \ {0, 1}
  /\ MaxTasks \in Nat /\ MaxGraphCrashes \in Nat
  /\ MaxReviewers \in [0 .. MaxGraphCrashes -> Nat]

VARIABLES
  table,     \* the task records, in the order of their creation
  panel,     \* the reviewers' worker tasks, in the order of their creation
  letters,   \* messages of the principal not yet acknowledged
  unread,    \* results of reviewers not yet acknowledged
  gpc,       \* where the runner is
  hand,      \* what its handler has in hand
  sweep,     \* pending tasks the closing pass has still to visit
  turn,      \* children dispatched in this step, and which reconciliation is on
  earned,    \* history: tasks that were ever complete
  spawned,   \* history: spawned[t], how often t's answer was taken for its follow-ups
  cut,       \* history: a crash hit while peers were being rewritten
  lost,      \* history: reviewers whose result the intake acknowledged
  gcrashes   \* crashes so far

records   == <<table, panel, letters, unread>>
locals    == <<gpc, hand, sweep, turn>>
ghistory  == <<earned, spawned, cut, lost, gcrashes>>
graphVars == <<records, locals, ghistory>>

Ids == DOMAIN table

NoReview == [state |-> "none", heard |-> {}, count |-> 0]

NewTask(source, comm, topic, parent) ==
  [source |-> source, comm |-> comm, topic |-> topic, parent |-> parent,
   under |-> 0, status |-> "pending", deps |-> {}, batch |-> {},
   closure |-> "none", attempt |-> "none", review |-> NoReview]

NoHand == [flow |-> "none", task |-> 0, read |-> NoReview, way |-> "none",
           plan |-> << >>, made |-> << >>, peers |-> {}, result |-> [worker |-> 0],
           from |-> ""]

GraphInit ==
  /\ table = << >> /\ panel = << >>
  /\ letters = Messages /\ unread = {}
  /\ gpc = "intake" /\ hand = NoHand /\ sweep = {}
  /\ turn = [seen |-> {}, after |-> FALSE]
  /\ earned = {} /\ spawned = [t \in 1 .. MaxTasks |-> 0]
  /\ cut = FALSE /\ lost = {} /\ gcrashes = 0

Jump(from, to) == gpc = from /\ gpc' = to

-----------------------------------------------------------------------------
(* Creating tasks: the intake (materialize_inbound_message), and the        *)
(* follow-ups of an answer (_materialize_followup_tasks): every record is   *)
(* written without dependencies first, those that have some once more.      *)

TakeIn(letter, plan) ==
  /\ Jump("intake", "make")
  /\ Len(table) + Len(plan) <= MaxTasks
  /\ hand' = [NoHand EXCEPT !.flow = "intake", !.read = letter, !.plan = plan]
  /\ UNCHANGED <<records, sweep, turn, ghistory>>

Proposed(topic) == [topic |-> topic, after |-> {}]

TakeLetter ==
  \E m \in letters : TakeIn(m, [i \in DOMAIN Fragments[m] |-> Proposed(Fragments[m][i])])

(* A reviewer's result is a message to "astrata" like any other, and has no *)
(* text: the principal is to be asked what was meant.                       *)
SwallowResult ==
  \E r \in unread : TakeIn(r, <<Proposed(Clarification)>>)

EndIntake ==
  /\ Jump("intake", "start")
  /\ UNCHANGED <<records, hand, sweep, turn, ghistory>>

Made == Len(hand.made)

MakeTask ==
  /\ gpc = "make" /\ Made < Len(hand.plan)
  /\ LET topic == hand.plan[Made + 1].topic IN
     table' = Append(table,
       IF hand.flow = "intake" THEN NewTask("intake", hand.read, topic, 0)
       ELSE NewTask("followup", hand.read.comm, topic, hand.task))
  /\ hand' = [hand EXCEPT !.made = Append(@, Len(table) + 1)]
  /\ UNCHANGED <<panel, letters, unread, gpc, sweep, turn, ghistory>>

AcknowledgeLetter ==
  /\ Jump("make", "intake")
  /\ hand.flow = "intake" /\ Made = Len(hand.plan)
  /\ letters' = letters \ {hand.read}
  /\ unread' = unread \ {hand.read}
  /\ lost' = lost \cup {r.worker : r \in unread \cap {hand.read}}
  /\ hand' = NoHand
  /\ UNCHANGED <<table, panel, sweep, turn, earned, spawned, cut, gcrashes>>

(* What comes after the follow-ups: an answer given directly was recorded   *)
(* before, one of the reviewers is recorded now.                            *)
AfterFollowUps == IF hand.flow = "direct" THEN "attempt" ELSE "sync"

BeginOrder ==
  /\ Jump("make", "order")
  /\ hand.flow # "intake" /\ Made = Len(hand.plan)
  /\ UNCHANGED <<records, hand, sweep, turn, ghistory>>

Wired == {i \in DOMAIN hand.plan : hand.plan[i].after = {}
                                    \/ table[hand.made[i]].deps # {}}

OrderTask ==
  /\ gpc = "order"
  /\ \E i \in DOMAIN hand.plan \ Wired :
       /\ \A j \in DOMAIN hand.plan \ Wired : i <= j
       /\ table' = [table EXCEPT ![hand.made[i]].deps =
                      {hand.made[j] : j \in hand.plan[i].after \ {i}}]
  /\ UNCHANGED <<panel, letters, unread, gpc, hand, sweep, turn, ghistory>>

EndFollowUps ==
  /\ Jump("order", AfterFollowUps)
  /\ DOMAIN hand.plan \subseteq Wired
  /\ UNCHANGED <<records, hand, sweep, turn, ghistory>>

-----------------------------------------------------------------------------
(* Closing pending tasks: _reconciled_task_payload and its rules.           *)

Is(t, s) == table[t].status = s

(* _duplicate_group_key *)
Key(t) == <<table[t].source, table[t].comm, table[t].topic>>

(* Fault: whichever of the group is looked at first is the duplicate of a   *)
(* task that need not be open any more.                                     *)
OtherOfGroup(t) == \E s \in Ids \ {t} : Key(s) = Key(t)

(* The oldest pending task of a group is the canonical one.                 *)
Duplicate(t) == \E s \in 1 .. (t - 1) : Is(s, "pending") /\ Key(s) = Key(t)

LikelySatisfied(t) ==
  \E s \in Ids \ {t} :
    /\ Is(s, "complete")
    /\ \/ /\ table[t].source = "intake" /\ table[s].source = "intake"
          /\ table[s].comm = table[t].comm
       \/ table[s].topic = table[t].topic

Closed(t, status, reason) ==
  table' = [table EXCEPT ![t].status = status, ![t].closure = reason]

LowSignal(t) == table[t].topic \in Noise

(* Whether the files a task names exist is not known here.                  *)
MayBeRealized(t) == table[t].topic \in Filed

(* One task of the pass.                                                    *)
CloseTask ==
  /\ gpc = "close"
  /\ \E t \in sweep :
       /\ sweep' = sweep \ {t}
       /\ \/ /\ LowSignal(t)
             /\ Closed(t, "superseded", "low_signal")
          \/ /\ ~ LowSignal(t) /\ Duplicate(t)
             /\ Closed(t, "superseded", "duplicate")
          \/ /\ ~ LowSignal(t) /\ ~ Duplicate(t) /\ MayBeRealized(t)
             /\ Closed(t, "satisfied", "realized")
          \/ /\ ~ LowSignal(t) /\ ~ Duplicate(t) /\ LikelySatisfied(t)
             /\ Closed(t, "satisfied", "answered")
          \/ /\ ~ LowSignal(t) /\ ~ Duplicate(t) /\ ~ LikelySatisfied(t)
             /\ UNCHANGED table
  /\ UNCHANGED <<panel, letters, unread, gpc, hand, turn, ghistory>>

-----------------------------------------------------------------------------
(* Candidates: _pending_message_task_candidates, _retry_task_candidates.    *)

Ready(t) == \A d \in table[t].deps : table[d].status \in {"complete", "satisfied"}

(* Fault: a task whose status has changed since is offered again.           *)
OpenWhateverStatus == {t \in Ids : Ready(t) /\ ~ Duplicate(t)}

Open == {t \in Ids : /\ Is(t, "pending") /\ Ready(t)
                     /\ ~ LowSignal(t) /\ ~ Duplicate(t)}

(* classify_work_policy, whose task class is "general" for these tasks; what *)
(* the intake makes of a fragment has too high a priority to be batched.    *)
MayBatch(topic) == topic \in Batchable

(* _collapse_batchable_message_candidates: two or more batchable ones are   *)
(* offered as their oldest, which carries up to four of them.               *)
Batch == {t \in Open : MayBatch(table[t].topic)}
Carrier == CHOOSE t \in Batch : \A s \in Batch : t <= s
Carried == {t \in Batch : Cardinality({s \in Batch : s < t}) < 4}

Offered == IF Cardinality(Batch) < 2 THEN Open ELSE (Open \ Batch) \cup {Carrier}

BatchOf(t) == IF Cardinality(Batch) >= 2 /\ t = Carrier THEN Carried
              ELSE table[t].batch

Children == {t \in Offered : table[t].parent # 0 \/ table[t].under # 0}

Retries == {t \in Ids : Is(t, "blocked") /\ table[t].attempt = "blocked" /\ Ready(t)}

(* The candidate carries the record as it is read now.                      *)
Take(t, from) ==
  /\ hand' = [NoHand EXCEPT !.flow = "direct", !.task = t, !.from = from,
                !.read = [table[t] EXCEPT !.batch = BatchOf(t)]]
  /\ gpc' = "apply"

(* run_steps: ready children first, at most three of them; otherwise a      *)
(* reconciliation and the best candidate of all (run_once).                 *)
TakeChild ==
  /\ gpc \in {"start", "children"} /\ Cardinality(turn.seen) < 3
  /\ \E t \in Children \ turn.seen :
       /\ Take(t, "children")
       /\ turn' = [turn EXCEPT !.seen = @ \cup {t}]
  /\ UNCHANGED <<records, sweep, ghistory>>

EndChildren ==
  /\ Jump("children", "serve")
  /\ Cardinality(turn.seen) = 3 \/ Children \subseteq turn.seen
  /\ turn' = [seen |-> {}, after |-> TRUE]
  /\ UNCHANGED <<records, hand, sweep, ghistory>>

BeginRunOnce ==
  /\ Jump("start", "reconcile") /\ Children = {}
  /\ turn' = [turn EXCEPT !.after = FALSE]
  /\ UNCHANGED <<records, hand, sweep, ghistory>>

TakeBest ==
  /\ gpc = "queue"
  /\ \E t \in Offered \cup Retries : Take(t, "queue")
  /\ UNCHANGED <<records, sweep, turn, ghistory>>

NothingToDo ==
  /\ Jump("queue", "serve")
  /\ Offered \cup Retries = {}
  /\ turn' = [turn EXCEPT !.after = TRUE]
  /\ UNCHANGED <<records, hand, sweep, ghistory>>

-----------------------------------------------------------------------------
(* _execute_assessment: the candidate is applied, its record written, the   *)
(* records of its peers rewritten, its follow-ups made, and its attempt     *)
(* recorded last.                                                           *)

(* A provider answers and may name follow-ups.                              *)
Fits(p) == Len(table) + Len(p) <= MaxTasks

ApplyAnswer ==
  /\ Jump("apply", "write")
  /\ \E p \in Plans : Fits(p) /\ hand' = [hand EXCEPT !.way = "answered", !.plan = p]
  /\ UNCHANGED <<records, sweep, turn, ghistory>>

(* It fails and a notice goes out instead (the verification is uncertain    *)
(* and the task stays pending), or the coordinator refuses.                 *)
ApplyNothing ==
  /\ Jump("apply", "write")
  /\ \E w \in {"fallback", "refused"} : hand' = [hand EXCEPT !.way = w]
  /\ UNCHANGED <<records, sweep, turn, ghistory>>

(* Or cheap lanes are asked to agree (_delegate_consensus_message_task), as *)
(* the coordinator's policy advises for reviews.                            *)
MayReview(topic) == topic \in Reviewed

ApplyByConsensus ==
  /\ Jump("apply", "review") /\ MayReview(table[hand.task].topic)
  /\ Len(panel) + Required <= MaxReviewers[gcrashes]
  /\ hand' = [hand EXCEPT !.way = "delegated"]
  /\ UNCHANGED <<records, sweep, turn, ghistory>>

MakeReviewer ==
  /\ gpc = "review" /\ Made < Required
  /\ panel' = Append(panel, [task |-> hand.task, status |-> "working",
                             request |-> "queued", said |-> {}])
  /\ hand' = [hand EXCEPT !.made = Append(@, Len(panel) + 1)]
  /\ UNCHANGED <<table, letters, unread, gpc, sweep, turn, ghistory>>

(* The parent is written from the record as it was read.                    *)
LinkReviewers ==
  /\ Jump("review", "write") /\ Made = Required
  /\ table' = [table EXCEPT ![hand.task] =
       [hand.read EXCEPT !.status = "working",
                         !.review = [NoReview EXCEPT !.state = "pending"]]]
  /\ UNCHANGED <<panel, letters, unread, hand, sweep, turn, ghistory>>

HandStatus == CASE hand.way = "answered"  -> "complete"
                [] hand.way = "delegated" -> "working"
                [] OTHER                  -> "pending"

(* Provenance is merged: a review the candidate already carried prevails.   *)
MergedReview == IF hand.read.review = NoReview THEN table[hand.task].review
                ELSE hand.read.review

(* _task_record_for_candidate and its upsert *)
WriteTask ==
  /\ Jump("write", "sync")
  /\ table' = [table EXCEPT ![hand.task] =
                 [hand.read EXCEPT !.status = HandStatus, !.review = MergedReview]]
  /\ hand' = [hand EXCEPT !.read.status = HandStatus, !.made = << >>,
                          !.peers = hand.read.batch \ {hand.task}]
  /\ earned' = earned \cup {t \in {hand.task} : HandStatus = "complete"}
  /\ UNCHANGED <<panel, letters, unread, sweep, turn, spawned, cut, lost, gcrashes>>

(* Fault: only a peer that is still pending follows.                        *)
SyncPendingPeer ==
  /\ gpc = "sync"
  /\ \E p \in hand.peers :
       /\ table' = IF Is(p, "pending")
                   THEN [table EXCEPT ![p].status = hand.read.status, ![p].under = hand.task]
                   ELSE table
       /\ hand' = [hand EXCEPT !.peers = @ \ {p}]
  /\ UNCHANGED <<panel, letters, unread, gpc, sweep, turn, ghistory>>

(* _sync_batched_peer_tasks, whatever has become of the peer                *)
SyncPeer ==
  /\ gpc = "sync"
  /\ \E p \in hand.peers :
       /\ table' = [table EXCEPT ![p].status = hand.read.status, ![p].under = hand.task]
       /\ hand' = [hand EXCEPT !.peers = @ \ {p}]
       /\ earned' = earned \cup {t \in {p} : hand.read.status = "complete"}
  /\ UNCHANGED <<panel, letters, unread, gpc, sweep, turn,
                 spawned, cut, lost, gcrashes>>

BeginFollowUps(to) ==
  /\ gpc' = to
  /\ spawned' = [spawned EXCEPT ![hand.task] =
                   @ + (IF to = "make" /\ hand.way = "answered" THEN 1 ELSE 0)]

EndSync ==
  /\ gpc = "sync" /\ hand.peers = {}
  /\ BeginFollowUps(IF hand.flow = "direct" THEN "make" ELSE "settle")
  /\ UNCHANGED <<records, hand, sweep, turn, earned, cut, lost, gcrashes>>

HandOutcome == CASE hand.way \in {"answered", "fallback"} -> "succeeded"
                 [] hand.way = "delegated" -> "running"
                 [] OTHER -> "blocked"

RecordAttempt ==
  /\ gpc = "attempt"
  /\ gpc' = IF hand.from = "children" THEN "children" ELSE "serve"
  /\ table' = [table EXCEPT ![hand.task].attempt = HandOutcome]
  /\ turn' = [turn EXCEPT !.after = hand.from = "queue"]
  /\ hand' = NoHand
  /\ UNCHANGED <<panel, letters, unread, sweep, ghistory>>

-----------------------------------------------------------------------------
(* The lanes of the reviewers: _process_all_pending_worker_turns, whose     *)
(* handler emits the result and then resolves the request.                  *)

AnswerRequest ==
  /\ Jump("serve", "resolve")
  /\ \E w \in DOMAIN panel, a \in Answers \cup {"failed"} :
       /\ panel[w].request = "queued"
       /\ panel' = [panel EXCEPT ![w].said = @ \cup {a}]
       /\ unread' = unread \cup {[worker |-> w, answer |-> a]}
       /\ hand' = [NoHand EXCEPT !.result = [worker |-> w]]
  /\ UNCHANGED <<table, letters, sweep, turn, ghistory>>

ResolveRequest ==
  /\ Jump("resolve", "serve")
  /\ panel' = [panel EXCEPT ![hand.result.worker].request = "resolved"]
  /\ hand' = NoHand
  /\ UNCHANGED <<table, letters, unread, sweep, turn, ghistory>>

EndServe ==
  /\ Jump("serve", "reconcile")
  /\ \A w \in DOMAIN panel : panel[w].request # "queued"
  /\ UNCHANGED <<records, hand, sweep, turn, ghistory>>

-----------------------------------------------------------------------------
(* _reconcile_pending_tasks: attempts, results of reviewers, open tasks.    *)

Outcome(t) ==
  IF table[t].attempt # "running" THEN table[t].attempt
  ELSE CASE table[t].status \in {"complete", "satisfied"} -> "succeeded"
         [] table[t].status = "superseded"                -> "cancelled"
         [] table[t].status = "blocked"                   -> "blocked"
         [] OTHER                                         -> "running"

(* reconcile_running_attempts; no attempt gets six hours old.               *)
CloseAttempts ==
  /\ Jump("reconcile", "inbox")
  /\ table' = [t \in Ids |-> [table[t] EXCEPT !.attempt = Outcome(t)]]
  /\ UNCHANGED <<panel, letters, unread, hand, sweep, turn, ghistory>>

(* What a reviewer said, with its place in the order of hearing.            *)
Entry(review, r) == [worker |-> r.worker, answer |-> r.answer, nth |-> review.count + 1]

(* Fault: a result sent twice is heard twice.                               *)
HeardAgain(review, r) == review.heard \cup {Entry(review, r)}

(* The result replaces an earlier one of the same reviewer.                 *)
Heard(review, r) ==
  {s \in review.heard : s.worker # r.worker} \cup {Entry(review, r)}

Successful(heard) == {s \in heard : s.answer # "failed"}

(* Those that are compared: the first ones, as many as are required.        *)
First(good) ==
  {s \in good : Cardinality({o \in good : o.nth < s.nth}) < Required}

(* Fault: one more agreement is waited for than was asked for.              *)
JudgedLate(good) ==
  IF Cardinality(good) <= Required THEN "collecting" ELSE "approved"

Judged(good) ==
  IF Cardinality(good) < Required THEN "collecting"
  ELSE IF \A s, o \in First(good) : s.answer = o.answer THEN "approved"
  ELSE "disagreement"

VerdictStatus(v) == CASE v = "approved"     -> "complete"
                      [] v = "disagreement" -> "blocked"
                      [] OTHER              -> "working"

(* _reconcile_consensus_worker_result reads the parent and judges all that  *)
(* was said, whatever has become of the parent; an approved answer may name *)
(* follow-ups, which are made before the parent is written.                 *)
ReadResult ==
  /\ gpc = "inbox"
  /\ \E r \in unread, p \in Plans :
       LET parent  == table[panel[r.worker].task]
           heard   == Heard(parent.review, r)
           verdict == Judged(Successful(heard))
       IN
       /\ p # << >> => verdict = "approved" /\ Fits(p)
       /\ hand' = [NoHand EXCEPT !.flow = "result", !.task = panel[r.worker].task,
            !.result = r, !.way = verdict, !.plan = p,
            !.peers = parent.batch \ {panel[r.worker].task},
            !.read = [parent EXCEPT !.status = VerdictStatus(verdict),
                        !.review = [state |-> verdict, heard |-> heard,
                                    count |-> parent.review.count + 1]]]
       /\ gpc' = IF verdict = "approved" THEN "make" ELSE "sync"
       /\ spawned' = [spawned EXCEPT ![panel[r.worker].task] =
                        @ + (IF verdict = "approved" THEN 1 ELSE 0)]
  /\ UNCHANGED <<records, sweep, turn, earned, cut, lost, gcrashes>>

SettleParent ==
  /\ Jump("settle", "worker")
  /\ table' = [table EXCEPT ![hand.task] = hand.read]
  /\ earned' = earned \cup {t \in {hand.task} : hand.way = "approved"}
  /\ UNCHANGED <<panel, letters, unread, hand, sweep, turn,
                 spawned, cut, lost, gcrashes>>

SettleReviewer ==
  /\ Jump("worker", "acknowledge")
  /\ panel' = [panel EXCEPT ![hand.result.worker].status =
                 IF hand.result.answer = "failed" THEN "failed" ELSE "complete"]
  /\ UNCHANGED <<table, letters, unread, hand, sweep, turn, ghistory>>

(* Fault: the result stays in the inbox.                                    *)
KeepResult ==
  /\ Jump("acknowledge", "inbox")
  /\ hand' = NoHand
  /\ UNCHANGED <<records, sweep, turn, ghistory>>

AcknowledgeResult ==
  /\ Jump("acknowledge", "inbox")
  /\ unread' = unread \ {hand.result}
  /\ hand' = NoHand
  /\ UNCHANGED <<table, panel, letters, sweep, turn, ghistory>>

BeginClosing ==
  /\ Jump("inbox", "close") /\ unread = {}
  /\ sweep' = {t \in Ids : Is(t, "pending")}
  /\ UNCHANGED <<records, hand, turn, ghistory>>

EndClosing ==
  /\ gpc = "close" /\ sweep = {}
  /\ IF turn.after THEN gpc' \in {"start", "intake"} ELSE gpc' = "queue"
  /\ turn' = [seen |-> {}, after |-> FALSE]
  /\ UNCHANGED <<records, hand, sweep, ghistory>>

-----------------------------------------------------------------------------
(* The process dies between two writes; the next one starts with the        *)
(* intake.                                                                  *)
GraphCrash ==
  /\ gpc # "intake" /\ gcrashes < MaxGraphCrashes
  /\ Len(panel) <= MaxReviewers[gcrashes + 1]
  /\ gpc' = "intake" /\ hand' = NoHand /\ sweep' = {}
  /\ turn' = [seen |-> {}, after |-> FALSE]
  /\ gcrashes' = gcrashes + 1
  /\ cut' = (cut \/ (gpc \in {"write", "sync", "settle"} /\ hand.read.batch # {}))
  /\ UNCHANGED <<records, earned, spawned, lost>>

Intake    == TakeLetter \/ SwallowResult \/ EndIntake \/ AcknowledgeLetter
FollowUps == MakeTask \/ BeginOrder \/ OrderTask \/ EndFollowUps
Choose    == TakeChild \/ EndChildren \/ BeginRunOnce \/ TakeBest \/ NothingToDo
Execute   == ApplyAnswer \/ ApplyNothing \/ ApplyByConsensus \/ MakeReviewer \/ LinkReviewers
             \/ WriteTask \/ SyncPeer \/ EndSync \/ RecordAttempt
Lanes     == AnswerRequest \/ ResolveRequest \/ EndServe
Reconcile == CloseAttempts \/ ReadResult \/ SettleParent \/ SettleReviewer
             \/ AcknowledgeResult \/ BeginClosing \/ CloseTask \/ EndClosing

GraphStep == Intake \/ FollowUps \/ Choose \/ Execute \/ Lanes \/ Reconcile
GraphNext == GraphStep \/ GraphCrash

GraphSpec == GraphInit /\ [][GraphNext]_graphVars /\ WF_graphVars(GraphStep)

-----------------------------------------------------------------------------
(* What the graph promises.                                                 *)

(* A review is approved only by as many different reviewers of that task as *)
(* are required, each of whom gave the same answer: no failure, no answer   *)
(* of another task and no answer heard twice counts                         *)
(* (_reconcile_consensus_worker_result).                                    *)
ConsensusEarned ==
  \A t \in Ids : table[t].review.state = "approved" =>
    \E a \in Answers : \E S \in SUBSET DOMAIN panel :
      /\ Cardinality(S) = Required
      /\ \A w \in S : panel[w].task = t /\ a \in panel[w].said

(* What is closed as a duplicate has an original: an older task of the same *)
(* key that was not itself closed as a duplicate (_is_duplicate_pending_task *)
(* looks at pending tasks only, and they close one another).                *)
DuplicateKept ==
  \A t \in Ids : table[t].closure = "duplicate" =>
    \E s \in 1 .. (t - 1) : Key(s) = Key(t) /\ table[s].closure # "duplicate"

Reviewers(t) == {w \in DOMAIN panel : panel[w].task = t}

(* A task that no carrier ever took along, and of which no crash can have    *)
(* left a reviewer that its record does not name.                           *)
OnItsOwn(t) == table[t].under = 0 /\ (gcrashes = 0 \/ Reviewers(t) = {})

(* The answer of such a task is taken for its follow-ups once: a            *)
(* redelivered result, a retry, a second panel or a crash between its       *)
(* writes does not make them twice.                                         *)
FollowUpsOnce == \A t \in Ids : OnItsOwn(t) => spawned[t] <= 1

(* What was answered stays answered: neither a retry, nor a batch it        *)
(* carries, nor a reviewer heard late re-opens such a task.                 *)
AnsweredStays == \A t \in earned : OnItsOwn(t) => Is(t, "complete")

Idle == gpc \in {"intake", "start", "children", "serve", "queue"}

(* Between two handlers the members of a batch are where their carrier is,  *)
(* unless a crash cut the rewriting short, the member was meanwhile taken   *)
(* by itself, or the carrier follows another.                               *)
PeersFollow ==
  Idle /\ ~ cut => \A t \in Ids :
    table[t].under = 0 /\ table[t].status \in {"working", "complete", "blocked"} =>
      \A p \in table[t].batch :
        table[p].under = t /\ table[p].attempt = "none" /\ Reviewers(p) = {}
          => table[p].status = table[t].status

Unjudged(t) == \E w \in Reviewers(t) : w \in lost \/ "failed" \in panel[w].said

UnderReview(t) ==
  /\ t \in Ids /\ Is(t, "working") /\ Reviewers(t) # {}
  /\ gcrashes = 0 /\ ~ Unjudged(t)

(* Without crashes a task under review does not stay so: it is judged, if   *)
(* all its reviewers answer and the intake takes none of their results.     *)
ReviewsEnd == \A t \in 1 .. MaxTasks : UnderReview(t) ~> ~ UnderReview(t)
=============================================================================
