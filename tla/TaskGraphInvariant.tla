------------------------- MODULE TaskGraphInvariant -------------------------
(***************************************************************************)
(* The inductive invariants behind the properties of TaskGraph: what the   *)
(* records and the runner's hand are in every phase, what a review rests   *)
(* on, when a task has reviewers outstanding, and how far the rewriting of *)
(* a batch has got.                                                        *)
(***************************************************************************)
EXTENDS TaskGraph

Said    == Answers \cup {"failed"}
Results == [worker: Nat \ {0}, answer: Said]
Entries == [worker: Nat \ {0}, answer: Said, nth: Nat]
Reviews == [state: {"none", "pending", "collecting", "approved", "disagreement"},
            heard: SUBSET Entries, count: Nat]
Tasks ==
  [source: {"intake", "followup"}, comm: Messages \cup Results, topic: Topics,
   parent: Nat, under: Nat,
   status: {"pending", "working", "complete", "blocked", "superseded", "satisfied"},
   deps: SUBSET Nat, batch: SUBSET Nat,
   closure: {"none", "low_signal", "duplicate", "realized", "answered"},
   attempt: {"none", "running", "succeeded", "blocked", "cancelled"},
   review: Reviews]
Panelists ==
  [task: Nat \ {0}, status: {"working", "failed", "complete"},
   request: {"queued", "resolved"}, said: SUBSET Said]
Proposals == {p \in Seq([topic: Topics, after: SUBSET Nat]) :
                \A i \in DOMAIN p : p[i].after \subseteq DOMAIN p}

-----------------------------------------------------------------------------
(* The records.                                                             *)

RecordsOK ==
  /\ table \in Seq(Tasks) /\ Len(table) <= MaxTasks
  /\ panel \in Seq(Panelists)
  /\ unread \subseteq Results /\ letters \subseteq Messages
  /\ gcrashes \in Nat /\ cut \in BOOLEAN
  /\ spawned \in [1 .. MaxTasks -> Nat]
  /\ \A t \in 1 .. MaxTasks : spawned[t] > 0 => t \in Ids
  /\ earned \subseteq Ids
  /\ \A t \in Ids : table[t].batch \subseteq Ids
  /\ \A w \in DOMAIN panel : panel[w].task \in Ids
  /\ \A r \in unread : r.worker \in DOMAIN panel /\ r.answer \in panel[r.worker].said

(* Where the runner has nothing in hand, and where it follows a candidate,  *)
(* a result, or either.                                                     *)
Between   == {"intake", "start", "children", "queue", "serve", "reconcile", "inbox", "close"}
Executing == {"apply", "review", "write", "attempt"}
Settling  == {"settle", "worker", "acknowledge"}

InPhase ==
  /\ hand = [flow |-> hand.flow, task |-> hand.task, read |-> hand.read, way |-> hand.way,
             plan |-> hand.plan, made |-> hand.made, peers |-> hand.peers,
             result |-> hand.result, from |-> hand.from]
  /\ gpc \in Between \cup Executing \cup Settling \cup {"resolve", "make", "order", "sync"}
  /\ gpc \in Between => hand = NoHand
  /\ gpc \in Executing => hand.flow = "direct"
  /\ gpc \in Settling => hand.flow = "result"
  /\ gpc = "resolve" => hand = [NoHand EXCEPT !.result = hand.result]
                        /\ hand.result.worker \in DOMAIN panel
  /\ gpc = "make" => hand.flow \in {"intake", "direct", "result"}
  /\ gpc \in {"order", "sync"} => hand.flow \in {"direct", "result"}

(* What a record rewritten from a copy keeps of what it was.                *)
SameTask(a, b) ==
  /\ a.source = b.source /\ a.comm = b.comm /\ a.topic = b.topic
  /\ a.under = b.under /\ a.closure = b.closure /\ a.attempt = b.attempt

HandOK ==
  /\ hand.flow \in {"none", "intake", "direct", "result"}
  /\ hand.plan \in Proposals /\ hand.made \in Seq(Nat)
  /\ hand.way = "delegated" => hand.plan = << >>
  /\ hand.way # "delegated" =>
       /\ Len(hand.made) <= Len(hand.plan)
       /\ Len(table) + Len(hand.plan) <= MaxTasks + Len(hand.made)
  /\ gpc = "apply" => hand.way = "none" /\ hand.plan = << >>
  /\ gpc = "review" => hand.way = "delegated"
  /\ gpc \in {"apply", "write"} /\ hand.way # "delegated" => hand.made = << >>
  /\ gpc = "order" => hand.way = "delegated" \/ Len(hand.made) = Len(hand.plan)
  /\ hand.flow = "intake" => hand.read \in Messages \cup Results
  /\ hand.flow \in {"direct", "result"} =>
       /\ hand.task \in Ids /\ hand.read \in Tasks
       /\ hand.read.batch \subseteq Ids
       /\ hand.peers \subseteq hand.read.batch \ {hand.task}
  /\ hand.flow = "direct" =>
       hand.way \in {"none", "answered", "fallback", "refused", "delegated"}
  /\ hand.flow = "result" =>
       /\ hand.result \in unread /\ panel[hand.result.worker].task = hand.task
       /\ hand.way = hand.read.review.state
       /\ hand.way \in {"collecting", "approved", "disagreement"}
       /\ hand.read.status = VerdictStatus(hand.way)

(* The copy in hand and the record it replaces.                             *)
CopyOK ==
  /\ hand.flow = "direct" /\ gpc \in {"apply", "review", "write"} =>
       LET old == table[hand.task] IN
       /\ SameTask(hand.read, old) /\ hand.read.status \in {"pending", "blocked"}
       /\ IF gpc = "write" /\ hand.way = "delegated"
          THEN old.status = "working" /\ old.batch = hand.read.batch
               /\ old.review = [NoReview EXCEPT !.state = "pending"]
          ELSE old.status = hand.read.status /\ old.review = hand.read.review
  /\ hand.flow = "direct" /\ gpc = "sync" =>
       LET new == table[hand.task] IN
       /\ new.status = hand.read.status /\ new.status = HandStatus
       /\ new.batch = hand.read.batch
  /\ hand.flow = "result" /\ gpc \in {"make", "order", "sync", "settle"} =>
       LET old == table[hand.task] IN
       /\ SameTask(hand.read, old) /\ hand.read.batch = old.batch
  /\ gpc = "settle" => hand.peers = {}

SweepOK == /\ sweep \subseteq Ids
           /\ gpc = "close" => \A t \in sweep : Is(t, "pending")

GraphTypes == RecordsOK /\ InPhase /\ HandOK /\ CopyOK /\ SweepOK

-----------------------------------------------------------------------------
(* ConsensusEarned: everything heard was said by a reviewer of the task, no *)
(* reviewer is heard twice, and the verdict is that of what was heard.      *)

ReviewOK(t, v) ==
  /\ IsFiniteSet(v.heard)
  /\ \A e \in v.heard : /\ e.worker \in DOMAIN panel /\ panel[e.worker].task = t
                        /\ e.answer \in panel[e.worker].said
                        /\ e.nth <= v.count
  /\ \A e, f \in v.heard : e.worker = f.worker \/ e.nth = f.nth => e = f
  /\ v.state \in {"none", "pending"} => v.heard = {}
  /\ v.state \notin {"none", "pending"} => v.state = Judged(Successful(v.heard))

ReviewInv ==
  /\ \A t \in Ids : ReviewOK(t, table[t].review)
  /\ hand.flow \in {"direct", "result"} => ReviewOK(hand.task, hand.read.review)

-----------------------------------------------------------------------------
(* FollowUpsOnce and AnsweredStays: without crashes every reviewer answers  *)
(* once and is heard once, in this order.                                   *)

(* The result a handler has in hand is acknowledged in its last step.       *)
InHand(r) == hand.flow = "result" /\ hand.result = r

ToAnswer(w) == panel[w].request = "queued" /\ ~ (gpc = "resolve" /\ hand.result.worker = w)

Unheard(w) ==
  /\ \A t \in Ids : \A e \in table[t].review.heard : e.worker # w
  /\ hand.flow \in {"direct", "result"} => \A e \in hand.read.review.heard : e.worker # w

AnswersOnce ==
  /\ \A w \in DOMAIN panel : ToAnswer(w) => Unheard(w) /\ \A r \in unread : r.worker # w
  /\ \A r \in unread : ~ InHand(r) => Unheard(r.worker)
  /\ \A r, s \in unread : r.worker = s.worker => r = s

(* Lanes are served before results are reconciled, and these before tasks   *)
(* are chosen.                                                              *)
Drained ==
  /\ \/ gpc \in {"reconcile", "inbox", "close", "intake", "start", "queue"}
     \/ hand.flow \in {"intake", "result"}
     => \A w \in DOMAIN panel : panel[w].request # "queued"
  /\ gpc \in {"close", "intake", "start", "queue"} \/ hand.flow = "intake" => unread = {}

OnceInv == gcrashes = 0 => AnswersOnce /\ Drained

-----------------------------------------------------------------------------
(* What a task on its own can be waiting for in each of its states.         *)

Outstanding(t) ==
  \E w \in Reviewers(t) :
    ToAnswer(w) \/ \E r \in unread : r.worker = w /\ ~ InHand(r)

Making(t) == gpc = "review" /\ hand.task = t

Approving(t) ==
  /\ hand.flow = "result" /\ hand.task = t /\ hand.way = "approved"
  /\ gpc \in {"make", "order", "sync", "settle"}

(* The review a task has once what is in hand is written.                   *)
NextReview(t) == IF gpc = "write" /\ hand.task = t THEN MergedReview ELSE table[t].review

Disagreed(t) == NextReview(t).state = "disagreement"

(* An answer is final: nobody who could change it is still to be heard.     *)
AnswerFinal(t) ==
  /\ spawned[t] <= 1
  /\ t \in earned => Is(t, "complete")
  /\ spawned[t] > 0 => Is(t, "complete") \/ Approving(t)
  /\ Is(t, "complete") \/ Approving(t) => ~ Outstanding(t)

(* A second panel is asked only of a task whose first one disagreed, and     *)
(* then never approves.                                                     *)
PanelsOK(t) ==
  /\ Is(t, "pending") /\ ~ Making(t) => ~ Outstanding(t)
  /\ Is(t, "pending") \/ Is(t, "blocked") =>
       Making(t) \/ Reviewers(t) = {} \/ Disagreed(t)
  /\ Making(t) => Disagreed(t) \/ Cardinality(Reviewers(t)) = Made
  /\ Disagreed(t) \/ Cardinality(Reviewers(t)) <= Required

(* A candidate is taken when nothing is outstanding for it.                 *)
CandidateOK(t) ==
  hand.flow = "direct" /\ hand.task = t =>
    /\ gpc \in {"apply", "review", "write", "sync"} => spawned[t] = 0
    /\ gpc = "apply" \/ (gpc = "write" /\ hand.way # "delegated") => ~ Outstanding(t)

(* A result is heard when the answer is not final; a disagreement stays one. *)
HearingOK(t) ==
  /\ hand.flow = "result" /\ hand.task = t /\ gpc \in {"make", "order", "sync", "settle"}
  => ~ Is(t, "complete") /\ (Disagreed(t) => hand.way = "disagreement")

OwnOK(t) == AnswerFinal(t) /\ PanelsOK(t) /\ CandidateOK(t) /\ HearingOK(t)

OwnInv == \A t \in Ids : OnItsOwn(t) => OwnOK(t)

-----------------------------------------------------------------------------
(* PeersFollow: how far the rewriting of a batch has got.                   *)

Rewriting(t) ==
  /\ hand.flow \in {"direct", "result"} /\ hand.task = t
  /\ gpc \in {"sync", "settle"} \/ (gpc = "write" /\ hand.way = "delegated")

Carrying(t) == table[t].under = 0 /\ table[t].status \in {"working", "complete", "blocked"}

(* p is where t took it.                                                    *)
Along(p, t) == table[p].under = t /\ table[p].attempt = "none" /\ Reviewers(p) = {}

Follows(t) == \A p \in table[t].batch : Along(p, t) => table[p].status = table[t].status

Followed == \A t \in Ids : Carrying(t) /\ ~ Rewriting(t) => Follows(t)

(* The peers still to be rewritten are those left in hand.                  *)
Rewritten ==
  /\ hand.flow = "result" /\ gpc \in {"make", "order"} =>
       hand.peers = hand.read.batch \ {hand.task}
  /\ gpc \in {"sync", "settle"} =>
       \A p \in hand.read.batch \ ({hand.task} \cup hand.peers) :
         Along(p, hand.task) => table[p].status = hand.read.status

(* A candidate is not where a carrier took it.                              *)
Untaken ==
  gpc \in {"apply", "review", "write"} =>
    \A t \in Ids \ {hand.task} :
      Carrying(t) /\ hand.task \in table[t].batch => ~ Along(hand.task, t)

PeersInv == ~ cut => Followed /\ Rewritten /\ Untaken
=============================================================================
