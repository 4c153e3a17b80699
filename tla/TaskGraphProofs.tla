-------------------------- MODULE TaskGraphProofs --------------------------
(***************************************************************************)
(* Proofs about TaskGraph, for every set of topics, messages and plans, any *)
(* number of reviewers required, and any number of tasks and crashes.       *)
(***************************************************************************)
EXTENDS TaskGraphInvariant, FiniteSetTheorems, FunctionTheorems, SequenceTheorems,
        WellFoundedInduction, TLAPS

-----------------------------------------------------------------------------
(* Least numbers, and who is compared in a judgement.                       *)

LEMMA LeastNumber ==
  ASSUME NEW S \in SUBSET Nat, S # {}
  PROVE  \E m \in S : \A n \in S : m <= n
<1>1. PICK m \in S : \A n \in S : <<n, m>> \notin OpToRel(<, Nat)
  BY NatLessThanWellFounded, WFMin
<1>2. \A n \in S : ~ (n < m)
  BY <1>1 DEF OpToRel
<1> QED
  BY <1>2

(* As many are compared as are required, once that many agreed to answer.   *)
LEMMA FirstSize ==
  ASSUME GraphAssumption, NEW good, IsFiniteSet(good),
         \A e \in good : e.nth \in Nat,
         \A e, f \in good : e.nth = f.nth => e = f,
         Cardinality(good) >= Required
  PROVE  Cardinality(First(good)) = Required
<1> DEFINE before(e) == {o \in good : o.nth < e.nth}
           F == First(good)
<1>1. Required \in Nat /\ Required > 1
  BY DEF GraphAssumption
<1>2. \A e \in good : IsFiniteSet(before(e)) /\ Cardinality(before(e)) \in Nat
  BY FS_Subset, FS_CardinalityType
<1>3. IsFiniteSet(F) /\ Cardinality(F) \in Nat /\ F \subseteq good
  BY FS_Subset, FS_CardinalityType DEF First
<1>4. \A e \in good : e \in F <=> Cardinality(before(e)) < Required
  BY DEF First
<1>5. Cardinality(F) >= Required
  <2>1. CASE good \ F = {}
    <3>1. F = good
      BY <1>3, <2>1
    <3> QED
      BY <3>1
  <2>2. CASE good \ F # {}
    <3> DEFINE N == {e.nth : e \in good \ F}
    <3>1. PICK n \in N : \A k \in N : n <= k
      <4>1. N \in SUBSET Nat /\ N # {}
        BY <1>3, <2>2
      <4> HIDE DEF N
      <4> QED
        BY <4>1, LeastNumber
    <3>2. PICK m \in good \ F : m.nth = n
      BY <3>1
    <3>3. \A e \in good \ F : m.nth <= e.nth
      BY <3>1, <3>2
    <3>4. before(m) \subseteq F
      BY <3>2, <3>3
    <3>5. Cardinality(before(m)) >= Required /\ Cardinality(before(m)) \in Nat
      <4> HIDE DEF before, F
      <4> QED
        BY <1>1, <1>2, <1>4, <3>2
    <3>6. Cardinality(before(m)) <= Cardinality(F)
      BY <1>3, <3>4, FS_Subset
    <3> QED
      <4> HIDE DEF before, F
      <4> QED
        BY <1>1, <1>3, <3>5, <3>6
  <2> QED
    BY <2>1, <2>2
<1>6. Cardinality(F) <= Required
  <2> DEFINE T == 0 .. (Required - 1)
             f == [e \in F |-> Cardinality(before(e))]
  <2>1. IsFiniteSet(T) /\ Cardinality(T) = Required
    BY <1>1, FS_Interval
  <2>2. f \in [F -> T]
    <3> HIDE DEF before, F
    <3>1. \A e \in F : Cardinality(before(e)) \in T
      BY <1>1, <1>2, <1>3, <1>4
    <3> QED
      BY <3>1
  <2>3. ASSUME NEW e \in good, NEW g \in good, e.nth < g.nth
        PROVE  Cardinality(before(e)) # Cardinality(before(g))
    <3>1. before(e) \subseteq before(g) /\ e \in before(g) /\ e \notin before(e)
      BY <2>3
    <3> HIDE DEF before
    <3> QED
      BY <1>2, <3>1, FS_Subset
  <2>4. \A e, g \in F : f[e] = f[g] => e = g
    <3>1. SUFFICES ASSUME NEW e \in F, NEW g \in F, f[e] = f[g] PROVE e = g
      OBVIOUS
    <3>2. Cardinality(before(e)) = Cardinality(before(g))
      BY <3>1
    <3>3. e \in good /\ g \in good
      BY <1>3
    <3>4. ~ (e.nth < g.nth) /\ ~ (g.nth < e.nth)
      BY <2>3, <3>2, <3>3
    <3> QED
      BY <3>3, <3>4
  <2>5. f \in Injection(F, T)
    BY <2>2, <2>4 DEF Injection, IsInjective
  <2> QED
    BY <2>1, <2>5, FS_Injection
<1> QED
  BY <1>1, <1>3, <1>5, <1>6

(* What is heard later changes no comparison: a disagreement stays one.     *)
LEMMA DisagreementStays ==
  ASSUME GraphAssumption, NEW good, IsFiniteSet(good), NEW x, x.nth \in Nat,
         \A e \in good : e.nth \in Nat /\ e.nth < x.nth,
         Judged(good) = "disagreement"
  PROVE  Judged(good \cup {x}) = "disagreement"
<1> DEFINE new == good \cup {x}
<1>1. ~ (Cardinality(good) < Required) /\ Required \in Nat
  BY DEF Judged, GraphAssumption
<1>2. PICK s \in First(good), o \in First(good) : s.answer # o.answer
  BY DEF Judged
<1>3. IsFiniteSet(new) /\ Cardinality(good) \in Nat /\ Cardinality(new) \in Nat
      /\ Cardinality(good) <= Cardinality(new)
  <2>1. IsFiniteSet(new)
    BY FS_AddElement
  <2>2. good \subseteq new
    OBVIOUS
  <2> HIDE DEF new
  <2> QED
    BY <2>1, <2>2, FS_Subset, FS_CardinalityType
<1>4. \A e \in good : {p \in new : p.nth < e.nth} = {p \in good : p.nth < e.nth}
  OBVIOUS
<1>5. s \in First(new) /\ o \in First(new)
  BY <1>2, <1>4 DEF First
<1> HIDE DEF new
<1> QED
  <2>1. ~ (Cardinality(new) < Required)
    BY <1>1, <1>3
  <2>2. ~ \A p, q \in First(new) : p.answer = q.answer
    BY <1>2, <1>5
  <2> QED
    BY <2>1, <2>2 DEF Judged, new

-----------------------------------------------------------------------------
(* What the steps that write records do, field by field.                    *)

(* A record written whole.                                                  *)
LEMMA EntryReplaced ==
  ASSUME NEW S, NEW q \in Seq(S), NEW t \in DOMAIN q, NEW v \in S
  PROVE  /\ [q EXCEPT ![t] = v] \in Seq(S)
         /\ Len([q EXCEPT ![t] = v]) = Len(q)
         /\ DOMAIN [q EXCEPT ![t] = v] = DOMAIN q
         /\ [q EXCEPT ![t] = v][t] = v
         /\ \A u \in DOMAIN q \ {t} : [q EXCEPT ![t] = v][u] = q[u]
  BY ExceptSeq

LEMMA Appended ==
  ASSUME NEW S, NEW q \in Seq(S), NEW v \in S
  PROVE  /\ Append(q, v) \in Seq(S)
         /\ Len(Append(q, v)) = Len(q) + 1
         /\ DOMAIN Append(q, v) = DOMAIN q \cup {Len(q) + 1}
         /\ Len(q) + 1 \notin DOMAIN q
         /\ Append(q, v)[Len(q) + 1] = v
         /\ \A u \in DOMAIN q : Append(q, v)[u] = q[u]
  BY AppendProperties

LEMMA TableSet ==
  ASSUME table \in Seq(Tasks), NEW t \in Ids, NEW v \in Tasks,
         table' = [table EXCEPT ![t] = v]
  PROVE  /\ table' \in Seq(Tasks) /\ Len(table') = Len(table) /\ Ids' = Ids
         /\ table'[t] = v /\ \A u \in Ids \ {t} : table'[u] = table[u]
<1>1. t \in DOMAIN table
  BY DEF Ids
<1> QED
  BY <1>1, EntryReplaced DEF Ids

LEMMA PanelSet ==
  ASSUME panel \in Seq(Panelists), NEW w \in DOMAIN panel, NEW v \in Panelists,
         panel' = [panel EXCEPT ![w] = v]
  PROVE  /\ panel' \in Seq(Panelists) /\ Len(panel') = Len(panel)
         /\ DOMAIN panel' = DOMAIN panel
         /\ panel'[w] = v /\ \A u \in DOMAIN panel \ {w} : panel'[u] = panel[u]
  BY EntryReplaced

(* What a step does to the records of tasks: nothing, ...                  *)
Changes(t, v) ==
  /\ t \in Ids /\ table' \in Seq(Tasks) /\ Len(table') = Len(table) /\ Ids' = Ids
  /\ table'[t] = v /\ v \in Tasks /\ \A u \in Ids \ {t} : table'[u] = table[u]

LEMMA SyncPeerEffect ==
  ASSUME GraphTypes, SyncPeer
  PROVE  \E p \in hand.peers :
    /\ p # hand.task /\ hand' = [hand EXCEPT !.peers = @ \ {p}]
    /\ earned' = earned \cup {t \in {p} : hand.read.status = "complete"}
    /\ Changes(p, [table[p] EXCEPT !.status = hand.read.status, !.under = hand.task])
<1>1. PICK p \in hand.peers :
        /\ table' = [table EXCEPT ![p].status = hand.read.status, ![p].under = hand.task]
        /\ hand' = [hand EXCEPT !.peers = @ \ {p}]
        /\ earned' = earned \cup {t \in {p} : hand.read.status = "complete"}
  BY DEF SyncPeer
<1>2. p \in Ids /\ p # hand.task /\ hand.read \in Tasks /\ hand.task \in Ids /\ table \in Seq(Tasks)
  BY DEF GraphTypes, HandOK, InPhase, RecordsOK, SyncPeer
<1>3. hand.task \in Nat /\ table[p] \in Tasks
  BY <1>2 DEF Ids
<1>4. [table[p] EXCEPT !.status = hand.read.status, !.under = hand.task] \in Tasks
  BY <1>2, <1>3 DEF Tasks
<1>5. table' = [table EXCEPT ![p] = [table[p] EXCEPT !.status = hand.read.status, !.under = hand.task]]
  BY <1>1, <1>2
<1> QED
  BY <1>1, <1>2, <1>4, <1>5, TableSet DEF Changes

LEMMA CloseTaskEffect ==
  ASSUME GraphTypes, CloseTask
  PROVE  \E t \in sweep :
    /\ Is(t, "pending") /\ sweep' = sweep \ {t}
    /\ \/ Ids' = Ids /\ table' = table
       \/ \E s \in {"superseded", "satisfied"}, c \in {"low_signal", "duplicate", "realized", "answered"} :
            /\ c = "duplicate" => Duplicate(t)
            /\ Changes(t, [table[t] EXCEPT !.status = s, !.closure = c])
<1>1. PICK t \in sweep :
        /\ sweep' = sweep \ {t}
        /\ \/ UNCHANGED table
           \/ \E s \in {"superseded", "satisfied"}, c \in {"low_signal", "duplicate", "realized", "answered"} :
                (c = "duplicate" => Duplicate(t)) /\ Closed(t, s, c)
  BY DEF CloseTask
<1>2. t \in Ids /\ Is(t, "pending") /\ table \in Seq(Tasks)
  BY DEF GraphTypes, SweepOK, RecordsOK, CloseTask
<1>3. CASE UNCHANGED table
  BY <1>1, <1>2, <1>3 DEF Ids
<1>4. CASE \E s \in {"superseded", "satisfied"}, c \in {"low_signal", "duplicate", "realized", "answered"} :
             (c = "duplicate" => Duplicate(t)) /\ Closed(t, s, c)
  <2>1. PICK s \in {"superseded", "satisfied"}, c \in {"low_signal", "duplicate", "realized", "answered"} :
          (c = "duplicate" => Duplicate(t)) /\ Closed(t, s, c)
    BY <1>4
  <2>2. [table[t] EXCEPT !.status = s, !.closure = c] \in Tasks
    <3>1. table[t] \in Tasks
      BY <1>2 DEF Ids
    <3> QED
      BY <3>1 DEF Tasks
  <2>3. table' = [table EXCEPT ![t] = [table[t] EXCEPT !.status = s, !.closure = c]]
    BY <2>1, <1>2 DEF Closed
  <2> QED
    BY <1>1, <1>2, <2>1, <2>2, <2>3, TableSet DEF Changes
<1> QED
  BY <1>1, <1>3, <1>4

LEMMA ReviewTypes ==
  /\ NoReview \in Reviews /\ [NoReview EXCEPT !.state = "pending"] \in Reviews
  /\ HandStatus \in {"complete", "working", "pending"}
  /\ HandOutcome \in {"succeeded", "running", "blocked"}
  /\ \A v : VerdictStatus(v) \in {"complete", "blocked", "working"}
  BY DEF NoReview, Reviews, HandStatus, HandOutcome, VerdictStatus

LEMMA LinkReviewersEffect ==
  ASSUME GraphTypes, LinkReviewers
  PROVE  Changes(hand.task, [hand.read EXCEPT !.status = "working",
                               !.review = [NoReview EXCEPT !.state = "pending"]])
<1>1. hand.task \in Ids /\ hand.read \in Tasks /\ table \in Seq(Tasks)
  BY DEF GraphTypes, HandOK, InPhase, RecordsOK, LinkReviewers, Jump, Executing
<1>2. [hand.read EXCEPT !.status = "working",
         !.review = [NoReview EXCEPT !.state = "pending"]] \in Tasks
  BY <1>1, ReviewTypes DEF Tasks
<1> QED
  BY <1>1, <1>2, TableSet DEF LinkReviewers, Changes

LEMMA WriteTaskEffect ==
  ASSUME GraphTypes, WriteTask
  PROVE  Changes(hand.task, [hand.read EXCEPT !.status = HandStatus, !.review = MergedReview])
<1>1. hand.task \in Ids /\ hand.read \in Tasks /\ table \in Seq(Tasks)
  BY DEF GraphTypes, HandOK, InPhase, RecordsOK, WriteTask, Jump, Executing
<1>2. table[hand.task] \in Tasks
  BY <1>1 DEF Ids
<1>3. MergedReview \in Reviews
  BY <1>1, <1>2 DEF MergedReview, Tasks
<1>4. [hand.read EXCEPT !.status = HandStatus, !.review = MergedReview] \in Tasks
  BY <1>1, <1>3, ReviewTypes DEF Tasks
<1> QED
  BY <1>1, <1>4, TableSet DEF WriteTask, Changes

LEMMA SettleParentEffect ==
  ASSUME GraphTypes, SettleParent
  PROVE  Changes(hand.task, hand.read)
<1>1. hand.task \in Ids /\ hand.read \in Tasks /\ table \in Seq(Tasks)
  BY DEF GraphTypes, HandOK, InPhase, RecordsOK, SettleParent, Jump, Settling
<1> QED
  BY <1>1, TableSet DEF SettleParent, Changes

(* ... or the attempt or the dependencies of some.                          *)
Touched(new, old) ==
  /\ new.source = old.source /\ new.comm = old.comm /\ new.topic = old.topic
  /\ new.under = old.under /\ new.status = old.status /\ new.batch = old.batch
  /\ new.closure = old.closure /\ new.review = old.review
  /\ new.attempt = "none" => old.attempt = "none"

Touches ==
  /\ table' \in Seq(Tasks) /\ Len(table') = Len(table) /\ Ids' = Ids
  /\ \A u \in Ids : Touched(table'[u], table[u])

LEMMA RecordAttemptEffect ==
  ASSUME GraphTypes, RecordAttempt
  PROVE  Touches
<1>1. hand.task \in Ids /\ table \in Seq(Tasks)
  BY DEF GraphTypes, HandOK, InPhase, RecordsOK, RecordAttempt, Executing
<1>2. table[hand.task] \in Tasks
  BY <1>1 DEF Ids
<1>3. [table[hand.task] EXCEPT !.attempt = HandOutcome] \in Tasks
  BY <1>2, ReviewTypes DEF Tasks
<1>4. table' = [table EXCEPT ![hand.task] = [table[hand.task] EXCEPT !.attempt = HandOutcome]]
  BY <1>1 DEF RecordAttempt
<1>5. Changes(hand.task, [table[hand.task] EXCEPT !.attempt = HandOutcome])
  BY <1>1, <1>3, <1>4, TableSet DEF Changes
<1>6. Touched(table'[hand.task], table[hand.task])
  BY <1>2, <1>5, ReviewTypes DEF Changes, Touched, Tasks
<1> QED
  BY <1>5, <1>6 DEF Changes, Touches, Touched

LEMMA CloseAttemptsEffect ==
  ASSUME GraphTypes, CloseAttempts
  PROVE  Touches
<1>1. table \in Seq(Tasks) /\ Ids = 1 .. Len(table)
  BY DEF GraphTypes, RecordsOK, Ids
<1>2. ASSUME NEW t \in Ids
      PROVE  /\ [table[t] EXCEPT !.attempt = Outcome(t)] \in Tasks
             /\ Touched([table[t] EXCEPT !.attempt = Outcome(t)], table[t])
  <2>1. table[t] \in Tasks
    BY <1>1
  <2>2. Outcome(t) \in {"none", "running", "succeeded", "blocked", "cancelled"}
    BY <2>1 DEF Outcome, Tasks
  <2>3. Outcome(t) = "none" => table[t].attempt = "none"
    BY <2>1 DEF Outcome, Tasks
  <2> QED
    BY <2>1, <2>2, <2>3 DEF Tasks, Touched
<1>3. table' = [t \in Ids |-> [table[t] EXCEPT !.attempt = Outcome(t)]]
  BY DEF CloseAttempts
<1>4. table' \in Seq(Tasks) /\ Len(table') = Len(table) /\ Ids' = Ids
  <2>1. Len(table) \in Nat
    BY <1>1
  <2>2. table' \in [1 .. Len(table) -> Tasks]
    BY <1>1, <1>2, <1>3
  <2>3. table' \in Seq(Tasks)
    BY <2>1, <2>2, IsASeq
  <2>4. DOMAIN table' = 1 .. Len(table)
    BY <2>2
  <2>5. Len(table') = Len(table)
    BY <2>1, <2>3, <2>4, LenProperties
  <2> QED
    BY <1>1, <2>3, <2>4, <2>5 DEF Ids
<1> QED
  BY <1>2, <1>3, <1>4 DEF Touches

LEMMA ProposalFields ==
  ASSUME NEW p \in Proposals
  PROVE  /\ Len(p) \in Nat /\ DOMAIN p = 1 .. Len(p)
         /\ \A i \in DOMAIN p : p[i].topic \in Topics /\ p[i].after \subseteq DOMAIN p
<1> DEFINE S == [topic: Topics, after: SUBSET Nat]
<1>1. p \in Seq(S) /\ \A i \in DOMAIN p : p[i].after \subseteq DOMAIN p
  BY DEF Proposals
<1>2. \A x \in S : x.topic \in Topics
  OBVIOUS
<1> HIDE DEF S
<1>3. \A i \in DOMAIN p : p[i] \in S
  BY <1>1
<1> QED
  BY <1>1, <1>2, <1>3

LEMMA OrderTaskEffect ==
  ASSUME GraphAssumption, GraphTypes, OrderTask
  PROVE  Touches /\ \A u \in Ids : table'[u].attempt = table[u].attempt
<1>1. table \in Seq(Tasks) /\ hand.plan \in Proposals /\ hand.made \in Seq(Nat)
  BY DEF GraphTypes, RecordsOK, HandOK
<1>2. PICK i \in DOMAIN hand.plan :
        table' = [table EXCEPT ![hand.made[i]].deps =
                    {hand.made[j] : j \in hand.plan[i].after \ {i}}]
  BY DEF OrderTask
<1>3. Len(hand.made) = Len(hand.plan)
  <2>1. hand.way = "delegated" => hand.plan = << >>
    BY DEF GraphTypes, HandOK
  <2>2. hand.way # "delegated"
    BY <1>2, <2>1
  <2> QED
    BY <2>2 DEF GraphTypes, HandOK, OrderTask
<1>4. {hand.made[j] : j \in hand.plan[i].after \ {i}} \in SUBSET Nat
  <2>1. hand.plan[i].after \subseteq DOMAIN hand.plan
    BY <1>1, <1>2, ProposalFields
  <2>2. DOMAIN hand.plan = DOMAIN hand.made
    BY <1>1, <1>3, ProposalFields
  <2>3. \A j \in DOMAIN hand.made : hand.made[j] \in Nat
    BY <1>1
  <2> QED
    BY <2>1, <2>2, <2>3
<1> DEFINE d == {hand.made[j] : j \in hand.plan[i].after \ {i}}
           t == hand.made[i]
<1>5. CASE t \in Ids
  <2>1. table[t] \in Tasks
    BY <1>1, <1>5 DEF Ids
  <2>2. [table[t] EXCEPT !.deps = d] \in Tasks
    BY <1>4, <2>1 DEF Tasks
  <2>3. table' = [table EXCEPT ![t] = [table[t] EXCEPT !.deps = d]]
    BY <1>2, <1>5
  <2>4. Changes(t, [table[t] EXCEPT !.deps = d])
    <3> HIDE DEF d, t
    <3> QED
      BY <1>1, <1>5, <2>2, <2>3, TableSet DEF Changes
  <2> QED
    <3> HIDE DEF d, t
    <3>1. Touched(table'[t], table[t]) /\ table'[t].attempt = table[t].attempt
      BY <2>1, <2>4 DEF Changes, Tasks, Touched
    <3> QED
      BY <2>4, <3>1 DEF Changes, Touches, Touched
<1>6. CASE t \notin Ids
  <2>1. table' = table
    BY <1>1, <1>2, <1>6 DEF Ids
  <2> QED
    BY <1>1, <2>1 DEF Touches, Touched, Ids
<1> QED
  BY <1>5, <1>6

(* A new task is pending and has no history.                                *)
Creates(t) ==
  /\ t = Len(table) + 1 /\ t \notin Ids /\ t \in Nat
  /\ table' \in Seq(Tasks) /\ Len(table') = t /\ Ids' = Ids \cup {t}
  /\ \A u \in Ids : table'[u] = table[u]
  /\ \E s, c, topic, parent : table'[t] = NewTask(s, c, topic, parent)

LEMMA MakeTaskEffect ==
  ASSUME GraphAssumption, GraphTypes, MakeTask
  PROVE  Creates(Len(table) + 1)
<1>1. table \in Seq(Tasks) /\ hand.plan \in Proposals /\ hand.made \in Seq(Nat)
  BY DEF GraphTypes, RecordsOK, HandOK
<1>2. Made + 1 \in DOMAIN hand.plan
  BY <1>1, ProposalFields DEF MakeTask, Made
<1>3. hand.plan[Made + 1].topic \in Topics
  BY <1>1, <1>2, ProposalFields
<1>4. hand.flow = "intake" => hand.read \in Messages \cup Results
  BY DEF GraphTypes, HandOK
<1>5. hand.flow # "intake" => hand.read.comm \in Messages \cup Results /\ hand.task \in Nat
  <2>1. SUFFICES ASSUME hand.flow # "intake"
                 PROVE  hand.read.comm \in Messages \cup Results /\ hand.task \in Nat
    OBVIOUS
  <2>2. hand.read \in Tasks /\ hand.task \in Ids
    BY <2>1 DEF GraphTypes, HandOK, InPhase, MakeTask
  <2>3. hand.read.comm \in Messages \cup Results
    BY <2>2 DEF Tasks
  <2> QED
    BY <1>1, <2>2, <2>3 DEF Ids
<1>6. \E s \in {"intake", "followup"}, c \in Messages \cup Results, topic \in Topics, parent \in Nat :
        table' = Append(table, NewTask(s, c, topic, parent))
  <2>1. CASE hand.flow = "intake"
    BY <1>3, <1>4, <2>1 DEF MakeTask
  <2>2. CASE hand.flow # "intake"
    BY <1>3, <1>5, <2>2 DEF MakeTask
  <2> QED
    BY <2>1, <2>2
<1>7. PICK s \in {"intake", "followup"}, c \in Messages \cup Results, topic \in Topics, parent \in Nat :
        table' = Append(table, NewTask(s, c, topic, parent))
  BY <1>6
<1>8. NewTask(s, c, topic, parent) \in Tasks
  BY ReviewTypes DEF NewTask, Tasks
<1> HIDE DEF NewTask
<1>9. /\ table' \in Seq(Tasks) /\ Len(table') = Len(table) + 1
      /\ Ids' = Ids \cup {Len(table) + 1} /\ Len(table) + 1 \notin Ids
      /\ table'[Len(table) + 1] = NewTask(s, c, topic, parent)
      /\ \A u \in Ids : table'[u] = table[u]
  BY <1>1, <1>7, <1>8, Appended DEF Ids
<1> QED
  BY <1>1, <1>9 DEF Creates

(* The reviewers' worker tasks keep their parent and what they said.        *)
PanelKept ==
  \A w \in DOMAIN panel : /\ w \in DOMAIN panel' /\ panel'[w].task = panel[w].task
                           /\ panel[w].said \subseteq panel'[w].said

LEMMA MakeReviewerEffect ==
  ASSUME GraphTypes, MakeReviewer
  PROVE  /\ panel' \in Seq(Panelists) /\ PanelKept
         /\ Len(panel) + 1 \notin DOMAIN panel
         /\ DOMAIN panel' = DOMAIN panel \cup {Len(panel) + 1}
         /\ panel'[Len(panel) + 1] = [task |-> hand.task, status |-> "working",
                                      request |-> "queued", said |-> {}]
         /\ \A w \in DOMAIN panel : panel'[w] = panel[w]
<1> DEFINE v == [task |-> hand.task, status |-> "working", request |-> "queued", said |-> {}]
<1>1. hand.task \in Ids /\ panel \in Seq(Panelists) /\ table \in Seq(Tasks)
  BY DEF GraphTypes, HandOK, RecordsOK, InPhase, MakeReviewer, Executing
<1>2. hand.task \in Nat \ {0}
  BY <1>1 DEF Ids
<1>3. v \in Panelists
  BY <1>2 DEF Panelists
<1>4. panel' = Append(panel, v)
  BY DEF MakeReviewer
<1>5. /\ panel' \in Seq(Panelists) /\ DOMAIN panel' = DOMAIN panel \cup {Len(panel) + 1}
      /\ Len(panel) + 1 \notin DOMAIN panel
      /\ panel'[Len(panel) + 1] = v /\ \A w \in DOMAIN panel : panel'[w] = panel[w]
  <2> HIDE DEF v
  <2> QED
    BY <1>1, <1>3, <1>4, Appended
<1> QED
  BY <1>5 DEF PanelKept

LEMMA AnswerRequestEffect ==
  ASSUME GraphTypes, AnswerRequest
  PROVE  \E w \in DOMAIN panel, a \in Said :
    /\ panel[w].request = "queued"
    /\ panel' \in Seq(Panelists) /\ PanelKept /\ DOMAIN panel' = DOMAIN panel
    /\ panel'[w] = [panel[w] EXCEPT !.said = @ \cup {a}] /\ a \in panel'[w].said
    /\ \A u \in DOMAIN panel \ {w} : panel'[u] = panel[u]
    /\ \A u \in DOMAIN panel : panel'[u].request = panel[u].request
    /\ w \in Nat \ {0} /\ unread' = unread \cup {[worker |-> w, answer |-> a]}
    /\ hand' = [NoHand EXCEPT !.result = [worker |-> w]]
<1>1. PICK w \in DOMAIN panel, a \in Said :
        /\ panel[w].request = "queued"
        /\ panel' = [panel EXCEPT ![w].said = @ \cup {a}]
        /\ unread' = unread \cup {[worker |-> w, answer |-> a]}
        /\ hand' = [NoHand EXCEPT !.result = [worker |-> w]]
  BY DEF AnswerRequest, Said
<1>2. panel \in Seq(Panelists)
  BY DEF GraphTypes, RecordsOK
<1>3. panel[w] \in Panelists /\ w \in Nat \ {0}
  BY <1>2
<1>4. [panel[w] EXCEPT !.said = @ \cup {a}] \in Panelists
  BY <1>3 DEF Panelists
<1>5. panel' = [panel EXCEPT ![w] = [panel[w] EXCEPT !.said = @ \cup {a}]]
  BY <1>1
<1>6. /\ panel' \in Seq(Panelists) /\ DOMAIN panel' = DOMAIN panel
      /\ panel'[w] = [panel[w] EXCEPT !.said = @ \cup {a}]
      /\ \A u \in DOMAIN panel \ {w} : panel'[u] = panel[u]
  BY <1>2, <1>4, <1>5, PanelSet
<1>7. /\ a \in panel'[w].said /\ panel'[w].task = panel[w].task
      /\ panel[w].said \subseteq panel'[w].said /\ panel'[w].request = panel[w].request
  BY <1>3, <1>6 DEF Panelists
<1> QED
  BY <1>1, <1>3, <1>6, <1>7 DEF PanelKept

LEMMA ResolveRequestEffect ==
  ASSUME GraphTypes, ResolveRequest
  PROVE  LET w == hand.result.worker IN
    /\ panel' \in Seq(Panelists) /\ PanelKept /\ DOMAIN panel' = DOMAIN panel
    /\ w \in DOMAIN panel /\ panel'[w].request = "resolved"
    /\ \A u \in DOMAIN panel \ {w} : panel'[u] = panel[u]
<1> DEFINE w == hand.result.worker
           v == [panel[w] EXCEPT !.request = "resolved"]
<1>1. panel \in Seq(Panelists) /\ w \in DOMAIN panel
  BY DEF GraphTypes, RecordsOK, InPhase, ResolveRequest, Jump
<1>2. panel[w] \in Panelists
  BY <1>1
<1>3. v \in Panelists /\ v.request = "resolved" /\ v.task = panel[w].task /\ v.said = panel[w].said
  BY <1>2 DEF Panelists
<1>4. panel' = [panel EXCEPT ![w] = v]
  BY <1>1 DEF ResolveRequest
<1> HIDE DEF w, v
<1>5. /\ panel' \in Seq(Panelists) /\ DOMAIN panel' = DOMAIN panel
      /\ panel'[w] = v /\ \A u \in DOMAIN panel \ {w} : panel'[u] = panel[u]
  BY <1>1, <1>3, <1>4, PanelSet
<1> QED
  BY <1>1, <1>3, <1>5 DEF PanelKept, w

LEMMA SettleReviewerEffect ==
  ASSUME GraphTypes, SettleReviewer
  PROVE  /\ panel' \in Seq(Panelists) /\ PanelKept /\ DOMAIN panel' = DOMAIN panel
         /\ \A u \in DOMAIN panel : panel'[u].request = panel[u].request
<1> DEFINE w == hand.result.worker
           s == IF hand.result.answer = "failed" THEN "failed" ELSE "complete"
           v == [panel[w] EXCEPT !.status = s]
<1>1. panel \in Seq(Panelists) /\ w \in DOMAIN panel
  BY DEF GraphTypes, RecordsOK, InPhase, HandOK, SettleReviewer, Jump, Settling
<1>2. panel[w] \in Panelists
  BY <1>1
<1>3. v \in Panelists /\ v.request = panel[w].request /\ v.task = panel[w].task /\ v.said = panel[w].said
  BY <1>2 DEF Panelists
<1>4. panel' = [panel EXCEPT ![w] = v]
  BY <1>1 DEF SettleReviewer
<1> HIDE DEF w, v
<1>5. /\ panel' \in Seq(Panelists) /\ DOMAIN panel' = DOMAIN panel
      /\ panel'[w] = v /\ \A u \in DOMAIN panel \ {w} : panel'[u] = panel[u]
  BY <1>1, <1>3, <1>4, PanelSet
<1> QED
  BY <1>1, <1>3, <1>5 DEF PanelKept

(* A result is read with its parent, and judged with what was heard before. *)
Verdict(r) == Judged(Successful(Heard(table[panel[r.worker].task].review, r)))

Reads(r, p) ==
  LET t      == panel[r.worker].task
      parent == table[t]
  IN
  /\ p # << >> => Verdict(r) = "approved" /\ Fits(p)
  /\ hand' = [flow |-> "result", task |-> t, way |-> Verdict(r), plan |-> p, made |-> << >>,
              peers |-> parent.batch \ {t}, result |-> r, from |-> "",
              read |-> [parent EXCEPT !.status = VerdictStatus(Verdict(r)),
                          !.review = [state |-> Verdict(r), heard |-> Heard(parent.review, r),
                                      count |-> parent.review.count + 1]]]
  /\ gpc = "inbox" /\ gpc' = IF Verdict(r) = "approved" THEN "make" ELSE "sync"
  /\ spawned' = [spawned EXCEPT ![t] = @ + (IF Verdict(r) = "approved" THEN 1 ELSE 0)]

LEMMA ReadResultEffect ==
  ASSUME ReadResult
  PROVE  \E r \in unread, p \in Plans : Reads(r, p)
<1>1. PICK r \in unread, p \in Plans :
        LET parent  == table[panel[r.worker].task]
            heard   == Heard(parent.review, r)
            verdict == Judged(Successful(heard))
        IN
        /\ p # << >> => verdict = "approved" /\ Fits(p)
        /\ hand' = [NoHand EXCEPT !.flow = "result", !.task = panel[r.worker].task,
             !.result = r, !.way = verdict, !.plan = p,
             !.peers = parent.batch \ {panel[r.worker].task},
             !.read = [parent EXCEPT !.status = VerdictStatus(verdict),
                         !.review = [state |-> verdict, heard |-> heard,
                                     count |-> parent.review.count + 1]]]
        /\ gpc' = IF verdict = "approved" THEN "make" ELSE "sync"
        /\ spawned' = [spawned EXCEPT ![panel[r.worker].task] =
                         @ + (IF verdict = "approved" THEN 1 ELSE 0)]
  BY Zenon DEF ReadResult
<1> DEFINE t == panel[r.worker].task
           d == Verdict(r)
           v == [table[t] EXCEPT !.status = VerdictStatus(d),
                   !.review = [state |-> d, heard |-> Heard(table[t].review, r),
                               count |-> table[t].review.count + 1]]
<1>2. hand' = [NoHand EXCEPT !.flow = "result", !.task = t, !.result = r, !.way = d, !.plan = p,
                 !.peers = table[t].batch \ {t}, !.read = v]
  BY <1>1 DEF Verdict
<1>3. hand' = [flow |-> "result", task |-> t, way |-> d, plan |-> p, made |-> << >>,
               peers |-> table[t].batch \ {t}, result |-> r, from |-> "", read |-> v]
  <2> HIDE DEF t, d, v
  <2> QED
    BY <1>2 DEF NoHand
<1> QED
  BY <1>1, <1>3 DEF Reads, Verdict, ReadResult

-----------------------------------------------------------------------------
(* Types.                                                                   *)

(* Candidates are pending, retries are blocked.                             *)
LEMMA Candidates ==
  ASSUME GraphTypes
  PROVE  /\ \A t \in Offered : t \in Ids /\ Is(t, "pending")
         /\ Children \subseteq Offered
         /\ \A t \in Retries : t \in Ids /\ Is(t, "blocked") /\ table[t].attempt = "blocked"
         /\ \A t \in Ids : BatchOf(t) \subseteq Ids
<1>1. Batch \subseteq Open /\ Open \subseteq Ids /\ \A t \in Open : Is(t, "pending")
  BY DEF Batch, Open
<1>2. Cardinality(Batch) >= 2 => Carrier \in Batch
  <2>1. SUFFICES ASSUME Cardinality(Batch) >= 2 PROVE Carrier \in Batch
    OBVIOUS
  <2>2. Batch # {}
    BY <2>1, FS_EmptySet
  <2>3. Ids \in SUBSET Nat
    BY DEF GraphTypes, RecordsOK, Ids
  <2>4. PICK m \in Batch : \A n \in Batch : m <= n
    BY <1>1, <2>2, <2>3, LeastNumber
  <2> QED
    BY <2>4 DEF Carrier
<1>3. Cardinality(Batch) < 2 \/ Carrier \in Batch
  <2>1. CASE Cardinality(Batch) >= 2
    BY <1>2, <2>1
  <2>2. CASE ~ (Cardinality(Batch) >= 2)
    <3>1. IsFiniteSet(Batch)
      <4>1. IsFiniteSet(1 .. Len(table)) /\ Ids = 1 .. Len(table)
        BY FS_Interval DEF GraphTypes, RecordsOK, Ids
      <4> QED
        BY <1>1, <4>1, FS_Subset
    <3>2. Cardinality(Batch) \in Nat
      BY <3>1, FS_CardinalityType
    <3> QED
      BY <2>2, <3>2
  <2> QED
    BY <2>1, <2>2
<1>4. \A t \in Offered : t \in Ids /\ Is(t, "pending")
  BY <1>1, <1>3 DEF Offered
<1>5. \A t \in Ids : BatchOf(t) \subseteq Ids
  <2>1. \A t \in Ids : table[t].batch \subseteq Ids
    BY DEF GraphTypes, RecordsOK
  <2> QED
    BY <1>1, <2>1 DEF BatchOf, Carried
<1> QED
  BY <1>4, <1>5 DEF Children, Retries

LEMMA RecordsInit == ASSUME GraphAssumption, GraphInit PROVE RecordsOK
<1>1. table \in Seq(Tasks) /\ Len(table) = 0 /\ Ids = {} /\ panel \in Seq(Panelists) /\ DOMAIN panel = {}
  BY EmptySeq DEF GraphInit, Ids
<1>2. spawned \in [1 .. MaxTasks -> Nat] /\ \A t \in 1 .. MaxTasks : spawned[t] = 0
  BY DEF GraphInit
<1>3. unread = {} /\ letters = Messages /\ gcrashes = 0 /\ cut = FALSE /\ earned = {}
  BY DEF GraphInit
<1>4. 0 <= MaxTasks
  BY DEF GraphAssumption
<1>5. /\ Len(table) <= MaxTasks /\ unread \subseteq Results /\ letters \subseteq Messages
      /\ gcrashes \in Nat /\ cut \in BOOLEAN /\ earned \subseteq Ids
  BY <1>1, <1>3, <1>4
<1>6. \A t \in 1 .. MaxTasks : spawned[t] > 0 => t \in Ids
  BY <1>2
<1>7. /\ \A t \in Ids : table[t].batch \subseteq Ids
      /\ \A w \in DOMAIN panel : panel[w].task \in Ids
      /\ \A r \in unread : r.worker \in DOMAIN panel /\ r.answer \in panel[r.worker].said
  BY <1>1, <1>3
<1> QED
  BY <1>1, <1>2, <1>5, <1>6, <1>7 DEF RecordsOK

LEMMA Counted ==
  ASSUME spawned \in [1 .. MaxTasks -> Nat], NEW h, NEW k \in {0, 1},
         spawned' = [spawned EXCEPT ![h] = @ + k]
  PROVE  /\ spawned' \in [1 .. MaxTasks -> Nat]
         /\ \A t \in 1 .. MaxTasks : t # h => spawned'[t] = spawned[t]
<1> DEFINE v == spawned[h] + k
           D == 1 .. MaxTasks
<1>1. h \in D => v \in Nat
  OBVIOUS
<1> HIDE DEF v, D
<1>2. spawned' = [spawned EXCEPT ![h] = v]
  BY DEF v
<1>3. spawned' \in [D -> Nat] /\ \A t \in D : t # h => spawned'[t] = spawned[t]
  BY <1>1, <1>2 DEF D
<1> QED
  BY <1>3 DEF D

(* Steps that leave the records alone.                                      *)
Quiet ==
  TakeLetter \/ SwallowResult \/ EndIntake \/ BeginOrder \/ EndFollowUps
  \/ TakeChild \/ EndChildren \/ BeginRunOnce \/ TakeBest \/ NothingToDo
  \/ ApplyAnswer \/ ApplyNothing \/ ApplyByConsensus \/ EndServe \/ BeginClosing \/ EndClosing

LEMMA QuietEffect == Quiet => UNCHANGED <<records, ghistory>>
  BY DEF Quiet, TakeLetter, SwallowResult, TakeIn, EndIntake, BeginOrder, EndFollowUps, TakeChild,
         EndChildren, BeginRunOnce, TakeBest, NothingToDo, ApplyAnswer, ApplyNothing,
         ApplyByConsensus, EndServe, BeginClosing, EndClosing, records, ghistory

LEMMA NextCases ==
  GraphNext <=>
    \/ Quiet \/ MakeTask \/ AcknowledgeLetter \/ OrderTask \/ CloseTask
    \/ MakeReviewer \/ LinkReviewers \/ WriteTask \/ SyncPeer \/ EndSync \/ RecordAttempt
    \/ AnswerRequest \/ ResolveRequest \/ CloseAttempts \/ ReadResult \/ SettleParent
    \/ SettleReviewer \/ AcknowledgeResult \/ GraphCrash
  BY DEF GraphNext, GraphStep, Intake, FollowUps, Choose, Execute, Lanes, Reconcile, Quiet

(* Where records keep what RecordsOK says of them.                          *)
LEMMA RecordsTouched ==
  ASSUME RecordsOK, Touches, UNCHANGED <<panel, letters, unread, ghistory>>
  PROVE  RecordsOK'
  BY DEF RecordsOK, Touches, Touched, ghistory

LEMMA RecordsChanged ==
  ASSUME RecordsOK, NEW t, NEW v, Changes(t, v), v.batch \subseteq Ids,
         UNCHANGED <<panel, letters, unread, spawned, cut, lost, gcrashes>>,
         earned' \subseteq earned \cup {t}
  PROVE  RecordsOK'
<1>1. \A u \in Ids' : table'[u].batch \subseteq Ids'
  BY DEF RecordsOK, Changes
<1> QED
  BY <1>1 DEF RecordsOK, Changes

LEMMA RecordsNext ==
  ASSUME GraphAssumption, GraphTypes, GraphNext
  PROVE  RecordsOK'
<1>0. RecordsOK
  BY DEF GraphTypes
<1>1. CASE Quiet
  BY <1>0, <1>1, QuietEffect DEF RecordsOK, records, ghistory, Ids
<1>2. CASE MakeTask
  <2> DEFINE t == Len(table) + 1
  <2>1. Creates(t)
    BY <1>2, MakeTaskEffect
  <2>2. Len(table') <= MaxTasks
    <3>1. Made < Len(hand.plan) /\ hand.plan \in Proposals /\ hand.made \in Seq(Nat)
      BY <1>2 DEF MakeTask, GraphTypes, HandOK
    <3>2. Len(hand.plan) \in Nat /\ Len(hand.made) \in Nat /\ Len(table) \in Nat /\ MaxTasks \in Nat
      BY <3>1, <1>0, ProposalFields DEF RecordsOK, GraphAssumption
    <3>3. hand.way # "delegated"
      BY <3>1, <3>2 DEF GraphTypes, HandOK, Made
    <3>4. Len(table) + Len(hand.plan) <= MaxTasks + Len(hand.made)
      BY <3>3 DEF GraphTypes, HandOK
    <3> QED
      BY <2>1, <3>1, <3>2, <3>4 DEF Creates, Made
  <2>3. UNCHANGED <<panel, letters, unread, ghistory>>
    BY <1>2 DEF MakeTask
  <2>4. table'[t].batch = {}
    BY <2>1 DEF Creates, NewTask
  <2> HIDE DEF t
  <2> QED
    BY <1>0, <2>1, <2>2, <2>3, <2>4 DEF RecordsOK, Creates, ghistory
<1>3. CASE AcknowledgeLetter
  BY <1>0, <1>3 DEF AcknowledgeLetter, RecordsOK, Ids
<1>4. CASE OrderTask
  BY <1>0, <1>4, OrderTaskEffect, RecordsTouched DEF OrderTask
<1>5. CASE CloseTask
  <2>1. UNCHANGED <<panel, letters, unread, ghistory>>
    BY <1>5 DEF CloseTask
  <2>2. PICK t \in sweep :
          \/ Ids' = Ids /\ table' = table
          \/ \E s \in {"superseded", "satisfied"}, c \in {"low_signal", "duplicate", "realized", "answered"} :
               Changes(t, [table[t] EXCEPT !.status = s, !.closure = c])
    BY <1>5, CloseTaskEffect
  <2>3. CASE Ids' = Ids /\ table' = table
    BY <1>0, <2>1, <2>3 DEF RecordsOK, ghistory
  <2>4. CASE \E s \in {"superseded", "satisfied"}, c \in {"low_signal", "duplicate", "realized", "answered"} :
               Changes(t, [table[t] EXCEPT !.status = s, !.closure = c])
    <3>1. PICK s \in {"superseded", "satisfied"}, c \in {"low_signal", "duplicate", "realized", "answered"} :
            Changes(t, [table[t] EXCEPT !.status = s, !.closure = c])
      BY <2>4
    <3>2. table[t] \in Tasks /\ t \in Ids
      BY <1>0, <3>1 DEF RecordsOK, Changes, Ids
    <3>3. [table[t] EXCEPT !.status = s, !.closure = c].batch \subseteq Ids
      BY <1>0, <3>2 DEF Tasks, RecordsOK
    <3> QED
      BY <1>0, <2>1, <3>1, <3>3, RecordsChanged DEF ghistory
  <2> QED
    BY <2>2, <2>3, <2>4
<1>6. CASE MakeReviewer
  <2>1. hand.task \in Ids
    BY <1>6 DEF MakeReviewer, GraphTypes, HandOK, InPhase, Executing
  <2>2. UNCHANGED <<table, letters, unread, ghistory>>
    BY <1>6 DEF MakeReviewer
  <2> DEFINE n == Len(panel) + 1
  <2>3. /\ panel' \in Seq(Panelists) /\ PanelKept /\ DOMAIN panel' = DOMAIN panel \cup {n}
        /\ panel'[n].task = hand.task
    BY <1>6, MakeReviewerEffect
  <2> HIDE DEF n
  <2>4. \A w \in DOMAIN panel' : panel'[w].task \in Ids
    BY <1>0, <2>1, <2>3 DEF RecordsOK, PanelKept
  <2>5. Ids' = Ids
    BY <2>2 DEF Ids
  <2> QED
    BY <1>0, <2>2, <2>3, <2>4, <2>5 DEF RecordsOK, PanelKept, ghistory
<1>7. CASE LinkReviewers
  <2>1. hand.read \in Tasks /\ hand.read.batch \subseteq Ids
    BY <1>7 DEF LinkReviewers, Jump, GraphTypes, HandOK, InPhase, Executing
  <2> DEFINE v == [hand.read EXCEPT !.status = "working",
                     !.review = [NoReview EXCEPT !.state = "pending"]]
  <2>2. v.batch \subseteq Ids
    BY <2>1 DEF Tasks
  <2>3. UNCHANGED <<panel, letters, unread, ghistory>>
    BY <1>7 DEF LinkReviewers
  <2>4. Changes(hand.task, v)
    BY <1>7, LinkReviewersEffect
  <2> HIDE DEF v
  <2> QED
    BY <1>0, <2>2, <2>3, <2>4, RecordsChanged DEF ghistory
<1>8. CASE WriteTask
  <2>1. hand.read \in Tasks /\ hand.read.batch \subseteq Ids
    BY <1>8 DEF WriteTask, Jump, GraphTypes, HandOK, InPhase, Executing
  <2> DEFINE v == [hand.read EXCEPT !.status = HandStatus, !.review = MergedReview]
  <2>2. v.batch \subseteq Ids
    BY <2>1 DEF Tasks
  <2>3. UNCHANGED <<panel, letters, unread, spawned, cut, lost, gcrashes>>
        /\ earned' \subseteq earned \cup {hand.task}
    BY <1>8 DEF WriteTask
  <2>4. Changes(hand.task, v)
    BY <1>8, WriteTaskEffect
  <2> HIDE DEF v
  <2> QED
    BY <1>0, <2>2, <2>3, <2>4, RecordsChanged
<1>9. CASE SyncPeer
  <2>1. PICK p \in hand.peers :
          /\ earned' \subseteq earned \cup {p}
          /\ Changes(p, [table[p] EXCEPT !.status = hand.read.status, !.under = hand.task])
    BY <1>9, SyncPeerEffect
  <2>2. table[p] \in Tasks /\ p \in Ids
    BY <1>0, <2>1 DEF RecordsOK, Changes, Ids
  <2> DEFINE v == [table[p] EXCEPT !.status = hand.read.status, !.under = hand.task]
  <2>3. v.batch \subseteq Ids /\ Changes(p, v)
    BY <1>0, <2>1, <2>2 DEF Tasks, RecordsOK
  <2> HIDE DEF v
  <2>4. UNCHANGED <<panel, letters, unread, spawned, cut, lost, gcrashes>>
    BY <1>9 DEF SyncPeer
  <2> QED
    BY <1>0, <2>1, <2>3, <2>4, RecordsChanged
<1>10. CASE EndSync
  <2>1. hand.task \in Ids
    BY <1>10 DEF EndSync, GraphTypes, HandOK, InPhase
  <2>2. spawned \in [1 .. MaxTasks -> Nat]
    BY <1>0 DEF RecordsOK
  <2>3. /\ spawned' \in [1 .. MaxTasks -> Nat]
        /\ \A t \in 1 .. MaxTasks : spawned'[t] # spawned[t] => t = hand.task
    <3>1. \E n \in {0, 1} : spawned' = [spawned EXCEPT ![hand.task] = @ + n]
      BY <1>10 DEF EndSync, BeginFollowUps
    <3> DEFINE h == hand.task
    <3>2. PICK n \in {0, 1} : spawned' = [spawned EXCEPT ![h] = @ + n]
      BY <3>1
    <3> HIDE DEF h
    <3>3. /\ spawned' \in [1 .. MaxTasks -> Nat]
          /\ \A t \in 1 .. MaxTasks : t # h => spawned'[t] = spawned[t]
      BY <2>2, <3>2, Counted
    <3> QED
      BY <3>3 DEF h
  <2> QED
    BY <1>0, <1>10, <2>1, <2>3 DEF EndSync, RecordsOK, records, Ids
<1>11. CASE RecordAttempt
  BY <1>0, <1>11, RecordAttemptEffect, RecordsTouched DEF RecordAttempt
<1>12. CASE AnswerRequest
  <2>1. PICK w \in DOMAIN panel, a \in Said :
          /\ panel' \in Seq(Panelists) /\ PanelKept /\ DOMAIN panel' = DOMAIN panel
          /\ a \in panel'[w].said
          /\ w \in Nat \ {0} /\ unread' = unread \cup {[worker |-> w, answer |-> a]}
    BY <1>12, AnswerRequestEffect
  <2>2. UNCHANGED <<table, letters, ghistory>>
    BY <1>12 DEF AnswerRequest
  <2>3. \A r \in unread' : r \in Results /\ r.worker \in DOMAIN panel' /\ r.answer \in panel'[r.worker].said
    <3>1. \A r \in unread : r \in Results /\ r.worker \in DOMAIN panel' /\ r.answer \in panel'[r.worker].said
      BY <1>0, <2>1 DEF RecordsOK, PanelKept
    <3>2. [worker |-> w, answer |-> a] \in Results
      BY <2>1 DEF Results
    <3> QED
      BY <2>1, <3>1, <3>2
  <2> QED
    BY <1>0, <2>1, <2>2, <2>3 DEF RecordsOK, PanelKept, Ids, ghistory
<1>13. CASE ResolveRequest
  BY <1>0, <1>13, ResolveRequestEffect DEF ResolveRequest, RecordsOK, PanelKept, Ids, ghistory
<1>14. CASE CloseAttempts
  BY <1>0, <1>14, CloseAttemptsEffect, RecordsTouched DEF CloseAttempts
<1>15. CASE ReadResult
  <2>1. PICK r \in unread :
          \E n \in {0, 1} : spawned' = [spawned EXCEPT ![panel[r.worker].task] = @ + n]
    BY <1>15 DEF ReadResult
  <2>2. panel[r.worker].task \in Ids
    BY <1>0 DEF RecordsOK
  <2>3. spawned \in [1 .. MaxTasks -> Nat]
    BY <1>0 DEF RecordsOK
  <2>4. /\ spawned' \in [1 .. MaxTasks -> Nat]
        /\ \A t \in 1 .. MaxTasks : spawned'[t] # spawned[t] => t = panel[r.worker].task
    <3> DEFINE h == panel[r.worker].task
    <3>1. PICK n \in {0, 1} : spawned' = [spawned EXCEPT ![h] = @ + n]
      BY <2>1
    <3> HIDE DEF h
    <3>2. /\ spawned' \in [1 .. MaxTasks -> Nat]
          /\ \A t \in 1 .. MaxTasks : t # h => spawned'[t] = spawned[t]
      BY <2>3, <3>1, Counted
    <3> QED
      BY <3>2 DEF h
  <2> QED
    BY <1>0, <1>15, <2>2, <2>4 DEF ReadResult, RecordsOK, records, Ids
<1>16. CASE SettleParent
  <2>1. hand.read.batch \subseteq Ids
    BY <1>16 DEF SettleParent, Jump, GraphTypes, HandOK, InPhase, Settling
  <2>2. UNCHANGED <<panel, letters, unread, spawned, cut, lost, gcrashes>>
        /\ earned' \subseteq earned \cup {hand.task}
    BY <1>16 DEF SettleParent
  <2> QED
    BY <1>0, <1>16, <2>1, <2>2, SettleParentEffect, RecordsChanged
<1>17. CASE SettleReviewer
  BY <1>0, <1>17, SettleReviewerEffect DEF SettleReviewer, RecordsOK, PanelKept, Ids, ghistory
<1>18. CASE AcknowledgeResult
  BY <1>0, <1>18 DEF AcknowledgeResult, RecordsOK, Ids, ghistory
<1>19. CASE GraphCrash
  BY <1>0, <1>19 DEF GraphCrash, RecordsOK, Ids, records
<1> QED
  BY <1>1, <1>2, <1>3, <1>4, <1>5, <1>6, <1>7, <1>8, <1>9, <1>10, <1>11, <1>12, <1>13, <1>14,
     <1>15, <1>16, <1>17, <1>18, <1>19, NextCases

LEMMA PhaseInit == ASSUME GraphInit PROVE InPhase
<1>1. hand = [flow |-> hand.flow, task |-> hand.task, read |-> hand.read, way |-> hand.way,
             plan |-> hand.plan, made |-> hand.made, peers |-> hand.peers,
             result |-> hand.result, from |-> hand.from]
  BY DEF GraphInit, NoHand
<1> QED
  BY <1>1 DEF GraphInit, InPhase, Between, Executing, Settling

LEMMA PhaseNext ==
  ASSUME GraphTypes, GraphNext
  PROVE  InPhase'
<1>0. InPhase
  BY DEF GraphTypes
<1>1. CASE Quiet
  <2>1. CASE TakeLetter \/ SwallowResult
    BY <1>0, <2>1 DEF TakeLetter, SwallowResult, TakeIn, Jump, InPhase, NoHand, Between, Executing, Settling
  <2>2. CASE EndIntake \/ BeginOrder \/ EndFollowUps \/ EndChildren \/ BeginRunOnce
             \/ NothingToDo \/ EndServe \/ BeginClosing
    BY <1>0, <2>2 DEF EndIntake, BeginOrder, EndFollowUps, AfterFollowUps, EndChildren, BeginRunOnce,
         NothingToDo, EndServe, BeginClosing, Jump, InPhase, Between, Executing, Settling
  <2>3. CASE TakeChild
    <3>1. PICK t \in Children : Take(t, "children")
      BY <2>3 DEF TakeChild
    <3> QED
      BY <3>1 DEF Take, InPhase, NoHand, Between, Executing, Settling
  <2>4. CASE TakeBest
    <3>1. PICK t \in Offered \cup Retries : Take(t, "queue")
      BY <2>4 DEF TakeBest
    <3> QED
      BY <3>1 DEF Take, InPhase, NoHand, Between, Executing, Settling
  <2>5. CASE ApplyAnswer
    <3>1. PICK p \in Plans : hand' = [hand EXCEPT !.way = "answered", !.plan = p]
      BY <2>5 DEF ApplyAnswer
    <3> QED
      BY <1>0, <2>5, <3>1 DEF ApplyAnswer, Jump, InPhase, Between, Executing, Settling
  <2>6. CASE ApplyNothing
    <3>1. PICK w \in {"fallback", "refused"} : hand' = [hand EXCEPT !.way = w]
      BY <2>6 DEF ApplyNothing
    <3> QED
      BY <1>0, <2>6, <3>1 DEF ApplyNothing, Jump, InPhase, Between, Executing, Settling
  <2>7. CASE ApplyByConsensus
    BY <1>0, <2>7 DEF ApplyByConsensus, Jump, InPhase, Between, Executing, Settling
  <2>8. CASE EndClosing
    BY <1>0, <2>8 DEF EndClosing, InPhase, Between, Executing, Settling
  <2> QED
    BY <1>1, <2>1, <2>2, <2>3, <2>4, <2>5, <2>6, <2>7, <2>8 DEF Quiet
<1>2. CASE MakeTask
  BY <1>0, <1>2 DEF MakeTask, InPhase, Between, Executing, Settling
<1>3. CASE AcknowledgeLetter \/ AcknowledgeResult
  BY <1>3 DEF AcknowledgeLetter, AcknowledgeResult, Jump, InPhase, NoHand, Between, Executing, Settling
<1>4. CASE OrderTask
  BY <1>0, <1>4 DEF OrderTask, InPhase, Between, Executing, Settling
<1>5. CASE CloseTask
  BY <1>0, <1>5 DEF CloseTask, InPhase, Between, Executing, Settling
<1>6. CASE MakeReviewer
  BY <1>0, <1>6 DEF MakeReviewer, InPhase, Between, Executing, Settling
<1>7. CASE LinkReviewers
  BY <1>0, <1>7 DEF LinkReviewers, Jump, InPhase, Between, Executing, Settling
<1>8. CASE WriteTask
  <2>1. \E r, p : hand' = [hand EXCEPT !.read = r, !.made = << >>, !.peers = p]
    BY <1>8 DEF WriteTask
  <2> QED
    BY <1>0, <1>8, <2>1 DEF WriteTask, Jump, InPhase, Between, Executing, Settling
<1>9. CASE SyncPeer
  BY <1>0, <1>9 DEF SyncPeer, InPhase, Between, Executing, Settling
<1>10. CASE EndSync
  BY <1>0, <1>10 DEF EndSync, BeginFollowUps, InPhase, Between, Executing, Settling
<1>11. CASE RecordAttempt
  BY <1>11 DEF RecordAttempt, InPhase, NoHand, Between, Executing, Settling
<1>12. CASE AnswerRequest
  <2>1. PICK w \in DOMAIN panel : DOMAIN panel' = DOMAIN panel
                                  /\ hand' = [NoHand EXCEPT !.result = [worker |-> w]]
    BY <1>12, AnswerRequestEffect
  <2>2. gpc' = "resolve"
    BY <1>12 DEF AnswerRequest, Jump
  <2> QED
    BY <2>1, <2>2 DEF InPhase, NoHand, Between, Executing, Settling
<1>13. CASE ResolveRequest
  BY <1>13 DEF ResolveRequest, Jump, InPhase, NoHand, Between, Executing, Settling
<1>14. CASE CloseAttempts
  BY <1>0, <1>14 DEF CloseAttempts, Jump, InPhase, Between, Executing, Settling
<1>15. CASE ReadResult
  <2>1. PICK r \in unread, p \in Plans : Reads(r, p)
    BY <1>15, ReadResultEffect
  <2>2. gpc' \in {"make", "sync"}
    BY <1>15 DEF ReadResult
  <2> QED
    BY <2>1, <2>2 DEF Reads, InPhase, NoHand, Between, Executing, Settling
<1>16. CASE SettleParent
  BY <1>0, <1>16 DEF SettleParent, Jump, InPhase, Between, Executing, Settling
<1>17. CASE SettleReviewer
  BY <1>0, <1>17 DEF SettleReviewer, Jump, InPhase, Between, Executing, Settling
<1>18. CASE GraphCrash
  BY <1>18 DEF GraphCrash, InPhase, NoHand, Between, Executing, Settling
<1> QED
  BY <1>1, <1>2, <1>3, <1>4, <1>5, <1>6, <1>7, <1>8, <1>9, <1>10, <1>11, <1>12, <1>13, <1>14,
     <1>15, <1>16, <1>17, <1>18, NextCases

(* Tasks and reviewers only come.                                           *)
LEMMA Grows ==
  ASSUME GraphAssumption, GraphTypes, GraphNext
  PROVE  Ids \subseteq Ids' /\ PanelKept
<1>1. CASE Quiet
  BY <1>1, QuietEffect DEF records, Ids, PanelKept
<1>2. CASE MakeTask
  BY <1>2, MakeTaskEffect DEF MakeTask, Creates, PanelKept
<1>3. CASE AcknowledgeLetter \/ AcknowledgeResult \/ EndSync \/ ReadResult \/ GraphCrash
  BY <1>3 DEF AcknowledgeLetter, AcknowledgeResult, EndSync, ReadResult, GraphCrash, records, Ids,
              PanelKept
<1>4. CASE OrderTask \/ RecordAttempt \/ CloseAttempts
  BY <1>4, OrderTaskEffect, RecordAttemptEffect, CloseAttemptsEffect
     DEF OrderTask, RecordAttempt, CloseAttempts, Touches, PanelKept
<1>5. CASE CloseTask
  BY <1>5, CloseTaskEffect DEF CloseTask, Changes, PanelKept
<1>6. CASE LinkReviewers \/ WriteTask \/ SettleParent
  BY <1>6, LinkReviewersEffect, WriteTaskEffect, SettleParentEffect
     DEF LinkReviewers, WriteTask, SettleParent, Changes, PanelKept
<1>7. CASE SyncPeer
  BY <1>7, SyncPeerEffect DEF SyncPeer, Changes, PanelKept
<1>8. CASE MakeReviewer \/ AnswerRequest \/ ResolveRequest \/ SettleReviewer
  BY <1>8, MakeReviewerEffect, AnswerRequestEffect, ResolveRequestEffect, SettleReviewerEffect
     DEF MakeReviewer, AnswerRequest, ResolveRequest, SettleReviewer, Ids
<1> QED
  BY <1>1, <1>2, <1>3, <1>4, <1>5, <1>6, <1>7, <1>8, NextCases

LEMMA SweepNext ==
  ASSUME GraphAssumption, GraphTypes, GraphNext
  PROVE  SweepOK'
<1>0. SweepOK /\ Ids \subseteq Ids'
  BY Grows DEF GraphTypes
<1>1. CASE CloseTask
  <2>1. PICK t \in sweep :
          /\ sweep' = sweep \ {t}
          /\ \/ Ids' = Ids /\ table' = table
             \/ \E v : Changes(t, v)
    BY <1>1, CloseTaskEffect
  <2> QED
    BY <1>0, <1>1, <2>1 DEF SweepOK, Is, Changes, CloseTask
<1>2. CASE BeginClosing
  BY <1>2 DEF BeginClosing, SweepOK, Is, Ids, records
<1>3. CASE GraphCrash
  BY <1>3 DEF GraphCrash, SweepOK
<1>4. CASE Quiet /\ ~ BeginClosing
  <2>1. sweep' = sweep /\ (gpc' = "close" => gpc = "close" /\ UNCHANGED table)
    BY <1>4 DEF Quiet, TakeLetter, SwallowResult, TakeIn, EndIntake, BeginOrder, EndFollowUps,
         AfterFollowUps, TakeChild, Take, EndChildren, BeginRunOnce, TakeBest, NothingToDo,
         ApplyAnswer, ApplyNothing, ApplyByConsensus, EndServe, EndClosing, Jump, records
  <2> QED
    BY <1>0, <2>1 DEF SweepOK, Is
<1>5. CASE ~ Quiet /\ ~ CloseTask /\ ~ GraphCrash
  <2>1. sweep' = sweep /\ gpc' # "close"
    BY <1>5, NextCases DEF MakeTask, AcknowledgeLetter, OrderTask, MakeReviewer, LinkReviewers,
         WriteTask, SyncPeer, EndSync, BeginFollowUps, RecordAttempt, AnswerRequest, ResolveRequest,
         CloseAttempts, ReadResult, SettleParent, SettleReviewer, AcknowledgeResult, Jump
  <2> QED
    BY <1>0, <2>1 DEF SweepOK
<1> QED
  BY <1>1, <1>2, <1>3, <1>4, <1>5

LEMMA NoHandOK ==
  ASSUME GraphAssumption, hand' = NoHand, RecordsOK', gpc' \in Between
  PROVE  HandOK'
<1>1. << >> \in Proposals /\ << >> \in Seq(Nat) /\ Len(<< >>) = 0
  BY EmptySeq DEF Proposals
<1>2. /\ hand'.flow = "none" /\ hand'.way = "none" /\ hand'.plan = << >> /\ hand'.made = << >>
  BY DEF NoHand
<1>3. Len(table') <= MaxTasks /\ Len(table') \in Nat /\ MaxTasks \in Nat
  BY DEF RecordsOK, GraphAssumption
<1> QED
  BY <1>1, <1>2, <1>3 DEF HandOK, Between

LEMMA HandKept ==
  ASSUME HandOK, RecordsOK, hand' = hand, Len(table') = Len(table), Ids' = Ids, PanelKept,
         hand.flow = "result" => hand.result \in unread',
         \A s \in {"apply", "review", "order"} : gpc' = s => gpc = s,
         gpc' = "write" => hand.way = "delegated"
  PROVE  HandOK'
<1>1. hand.flow = "result" => panel'[hand.result.worker].task = hand.task
  BY DEF HandOK, RecordsOK, PanelKept
<1> QED
  BY <1>1 DEF HandOK

LEMMA FragmentsProposed ==
  ASSUME GraphAssumption, NEW m \in Messages
  PROVE  [i \in DOMAIN Fragments[m] |-> Proposed(Fragments[m][i])] \in Proposals
<1> DEFINE q == Fragments[m]
           p == [i \in DOMAIN q |-> Proposed(q[i])]
           S == [topic: Topics, after: SUBSET Nat]
<1>1. q \in Seq(Topics)
  BY DEF GraphAssumption
<1>2. \A x \in Topics : Proposed(x) \in S /\ Proposed(x).after = {}
  BY DEF Proposed
<1>3. Len(q) \in Nat /\ DOMAIN q = 1 .. Len(q) /\ \A i \in DOMAIN q : q[i] \in Topics
  BY <1>1
<1> HIDE DEF q, S
<1>4. p \in [1 .. Len(q) -> S]
  BY <1>2, <1>3
<1>5. p \in Seq(S)
  BY <1>3, <1>4, IsASeq
<1>6. \A i \in DOMAIN p : p[i].after \subseteq DOMAIN p
  BY <1>2, <1>3
<1> QED
  BY <1>5, <1>6 DEF Proposals, S, q

LEMMA PlansProposed ==
  ASSUME GraphAssumption, NEW p \in Plans
  PROVE  p \in Proposals
  BY DEF GraphAssumption, Proposals

(* A letter or a swallowed result is taken in.                              *)
LEMMA HandTakenIn ==
  ASSUME GraphAssumption, GraphTypes, TakeLetter \/ SwallowResult
  PROVE  HandOK'
<1>1. PICK letter, plan : TakeIn(letter, plan) /\ letter \in Messages \cup Results /\ plan \in Proposals
  <2>1. CASE TakeLetter
    <3>1. PICK m \in letters : TakeIn(m, [i \in DOMAIN Fragments[m] |-> Proposed(Fragments[m][i])])
      BY <2>1 DEF TakeLetter
    <3>2. m \in Messages
      BY DEF GraphTypes, RecordsOK
    <3> QED
      BY <3>1, <3>2, FragmentsProposed
  <2>2. CASE SwallowResult
    <3> DEFINE q == <<Proposed(Clarification)>>
    <3>1. PICK r \in unread : TakeIn(r, q)
      BY <2>2 DEF SwallowResult
    <3>2. r \in Results
      BY DEF GraphTypes, RecordsOK
    <3>3. Proposed(Clarification) \in [topic: Topics, after: SUBSET Nat]
          /\ Proposed(Clarification).after = {}
      BY DEF Proposed, GraphAssumption
    <3>4. q \in Proposals
      <4> HIDE DEF Proposed
      <4> QED
        BY <3>3 DEF Proposals
    <3> QED
      BY <3>1, <3>2, <3>4
  <2> QED
    BY <2>1, <2>2
<1>2. /\ hand'.flow = "intake" /\ hand'.read = letter /\ hand'.plan = plan /\ hand'.made = << >>
      /\ hand'.way = "none"
  BY <1>1 DEF TakeIn, NoHand
<1>3. gpc' = "make" /\ table' = table /\ Len(table) + Len(plan) <= MaxTasks
  BY <1>1 DEF TakeIn, Jump, records
<1>4. Len(plan) \in Nat /\ Len(table) \in Nat /\ MaxTasks \in Nat
  BY <1>1, ProposalFields DEF GraphTypes, RecordsOK, GraphAssumption
<1>5. << >> \in Seq(Nat) /\ Len(<< >>) = 0
  OBVIOUS
<1> QED
  BY <1>1, <1>2, <1>3, <1>4, <1>5 DEF HandOK

(* A candidate is taken.                                                    *)
LEMMA HandTaken ==
  ASSUME GraphAssumption, GraphTypes, NEW t, NEW from, Take(t, from), UNCHANGED records,
         t \in Ids, Is(t, "pending") \/ Is(t, "blocked")
  PROVE  /\ HandOK' /\ CopyOK'
         /\ hand'.flow = "direct" /\ hand'.task = t /\ hand'.way = "none" /\ gpc' = "apply"
         /\ hand'.read.review = table[t].review
<1> DEFINE v == [table[t] EXCEPT !.batch = BatchOf(t)]
<1>1. /\ hand'.flow = "direct" /\ hand'.task = t /\ hand'.way = "none" /\ hand'.plan = << >>
      /\ hand'.made = << >> /\ hand'.peers = {} /\ hand'.read = v /\ gpc' = "apply"
  BY DEF Take, NoHand
<1>2. table[t] \in Tasks /\ BatchOf(t) \subseteq Ids /\ Ids \subseteq Nat
  BY Candidates DEF GraphTypes, RecordsOK, Ids
<1>3. /\ v \in Tasks /\ v.batch \subseteq Ids /\ SameTask(v, table[t])
      /\ v.status = table[t].status /\ v.review = table[t].review
  BY <1>2 DEF Tasks, SameTask
<1>4. << >> \in Proposals /\ << >> \in Seq(Nat) /\ Len(<< >>) = 0
  BY EmptySeq DEF Proposals
<1>5. Len(table) <= MaxTasks /\ Len(table) \in Nat /\ MaxTasks \in Nat
  BY DEF GraphTypes, RecordsOK, GraphAssumption
<1>6. table' = table /\ Ids' = Ids
  BY DEF records, Ids
<1> HIDE DEF v
<1>7. HandOK'
  BY <1>1, <1>3, <1>4, <1>5, <1>6 DEF HandOK
<1>8. CopyOK'
  BY <1>1, <1>3, <1>6 DEF CopyOK, Is
<1> QED
  BY <1>1, <1>3, <1>7, <1>8

LEMMA Verdicts ==
  \A good : Judged(good) \in {"collecting", "approved", "disagreement"}
  BY DEF Judged

LEMMA HeardReviews ==
  ASSUME NEW v \in Reviews, NEW r \in Results, NEW s \in {"collecting", "approved", "disagreement"}
  PROVE  [state |-> s, heard |-> Heard(v, r), count |-> v.count + 1] \in Reviews
<1>1. v.heard \subseteq Entries /\ v.count \in Nat
  BY DEF Reviews
<1>2. Entry(v, r) \in Entries
  BY <1>1 DEF Entry, Entries, Results
<1>3. Heard(v, r) \subseteq Entries
  BY <1>1, <1>2 DEF Heard
<1> QED
  BY <1>1, <1>3 DEF Reviews

(* A result is read.                                                        *)
LEMMA HandRead ==
  ASSUME GraphAssumption, GraphTypes, ReadResult, RecordsOK'
  PROVE  HandOK' /\ CopyOK'
<1>1. PICK r \in unread, p \in Plans : Reads(r, p)
  BY ReadResultEffect
<1> DEFINE t == panel[r.worker].task
           old == table[t]
           d == Verdict(r)
           v == [old EXCEPT !.status = VerdictStatus(d),
                   !.review = [state |-> d, heard |-> Heard(old.review, r),
                               count |-> old.review.count + 1]]
<1>2. /\ hand' = [flow |-> "result", task |-> t, way |-> d, plan |-> p, made |-> << >>,
                  peers |-> old.batch \ {t}, result |-> r, from |-> "", read |-> v]
      /\ gpc = "inbox" /\ gpc' = IF d = "approved" THEN "make" ELSE "sync"
      /\ p # << >> => Fits(p)
  BY <1>1 DEF Reads
<1>3. /\ table' = table /\ Ids' = Ids /\ unread' = unread /\ panel' = panel
  BY DEF ReadResult, records, Ids
<1>4. t \in Ids /\ r \in Results /\ old \in Tasks /\ old.batch \subseteq Ids
  <2>1. t \in Ids /\ r \in Results /\ table \in Seq(Tasks)
    BY DEF GraphTypes, RecordsOK
  <2>2. old.batch \subseteq Ids
    BY <2>1 DEF GraphTypes, RecordsOK
  <2> QED
    BY <2>1, <2>2 DEF Ids
<1>5. d \in {"collecting", "approved", "disagreement"}
  BY Verdicts DEF Verdict
<1>6. /\ v \in Tasks /\ v.batch = old.batch /\ SameTask(v, old)
      /\ v.status = VerdictStatus(d) /\ v.review.state = d
  <2>1. old.review \in Reviews
    BY <1>4 DEF Tasks
  <2>2. [state |-> d, heard |-> Heard(old.review, r), count |-> old.review.count + 1] \in Reviews
    BY <1>4, <1>5, <2>1, HeardReviews
  <2>3. VerdictStatus(d) \in {"complete", "blocked", "working"}
    BY ReviewTypes
  <2> HIDE DEF d, old
  <2> QED
    BY <1>4, <2>2, <2>3 DEF Tasks, SameTask
<1>7. p \in Proposals /\ Len(p) \in Nat /\ Len(table) + Len(p) <= MaxTasks
  <2>1. p \in Proposals /\ Len(p) \in Nat
    BY PlansProposed, ProposalFields
  <2>2. Len(table) <= MaxTasks /\ Len(table) \in Nat /\ MaxTasks \in Nat
    BY DEF GraphTypes, RecordsOK, GraphAssumption
  <2>3. CASE p = << >>
    BY <2>2, <2>3
  <2>4. CASE p # << >>
    BY <1>2, <2>1, <2>4 DEF Fits
  <2> QED
    BY <2>1, <2>3, <2>4
<1>8. << >> \in Seq(Nat) /\ Len(<< >>) = 0
  OBVIOUS
<1>9. /\ hand'.flow = "result" /\ hand'.task = t /\ hand'.way = d /\ hand'.plan = p
      /\ hand'.made = << >> /\ hand'.peers = old.batch \ {t} /\ hand'.result = r /\ hand'.read = v
  BY <1>2
<1> HIDE DEF v, d
<1>10. HandOK'
  <2>1. gpc' \in {"make", "sync"}
    BY <1>2
  <2>2. Len(table') + Len(p) <= MaxTasks + 0 /\ 0 <= Len(p) /\ MaxTasks \in Nat
    BY <1>3, <1>7 DEF GraphAssumption
  <2>3. /\ hand'.flow = "result" /\ hand'.way # "delegated" /\ hand'.plan \in Proposals
        /\ hand'.made \in Seq(Nat) /\ Len(hand'.made) = 0
        /\ Len(hand'.made) <= Len(hand'.plan)
        /\ Len(table') + Len(hand'.plan) <= MaxTasks + Len(hand'.made)
    BY <1>5, <1>7, <1>8, <1>9, <2>2
  <2>4. /\ hand'.task \in Ids' /\ hand'.read \in Tasks /\ hand'.read.batch \subseteq Ids'
        /\ hand'.peers \subseteq hand'.read.batch \ {hand'.task}
        /\ hand'.result \in unread' /\ panel'[hand'.result.worker].task = hand'.task
        /\ hand'.way = hand'.read.review.state
        /\ hand'.way \in {"collecting", "approved", "disagreement"}
        /\ hand'.read.status = VerdictStatus(hand'.way)
    BY <1>3, <1>4, <1>5, <1>6, <1>9
  <2> QED
    BY <2>1, <2>3, <2>4 DEF HandOK
<1>11. CopyOK'
  BY <1>2, <1>3, <1>6, <1>9 DEF CopyOK
<1> QED
  BY <1>10, <1>11

LEMMA HandNext ==
  ASSUME GraphAssumption, GraphTypes, GraphNext
  PROVE  HandOK' /\ CopyOK'
<1>0. /\ HandOK /\ InPhase /\ RecordsOK /\ CopyOK
      /\ RecordsOK' /\ InPhase' /\ PanelKept /\ Ids \subseteq Ids'
  BY RecordsNext, PhaseNext, Grows DEF GraphTypes
<1>1. CASE TakeLetter \/ SwallowResult
  <2>1. hand'.flow = "intake"
    BY <1>1 DEF TakeLetter, SwallowResult, TakeIn, NoHand
  <2>2. gpc' = "make"
    BY <1>1 DEF TakeLetter, SwallowResult, TakeIn, Jump
  <2> QED
    BY <1>1, <2>1, <2>2, HandTakenIn DEF CopyOK
<1>2. CASE TakeChild
  <2>1. PICK t \in Children : Take(t, "children")
    BY <1>2 DEF TakeChild
  <2> QED
    BY <1>2, <2>1, HandTaken, Candidates DEF TakeChild
<1>3. CASE TakeBest
  <2>1. PICK t \in Offered \cup Retries : Take(t, "queue")
    BY <1>3 DEF TakeBest
  <2> QED
    BY <1>3, <2>1, HandTaken, Candidates DEF TakeBest
<1>4. CASE EndIntake \/ EndChildren \/ BeginRunOnce \/ NothingToDo \/ EndServe \/ BeginClosing
           \/ EndClosing \/ CloseTask \/ CloseAttempts
  <2>1. gpc \in Between /\ gpc' \in Between
    BY <1>4 DEF EndIntake, EndChildren, BeginRunOnce, NothingToDo, EndServe, BeginClosing,
                EndClosing, CloseTask, CloseAttempts, Jump, Between
  <2>2. hand' = NoHand
    BY <1>0, <1>4, <2>1 DEF EndIntake, EndChildren, BeginRunOnce, NothingToDo, EndServe,
         BeginClosing, EndClosing, CloseTask, CloseAttempts, InPhase
  <2>3. HandOK'
    BY <1>0, <2>1, <2>2, NoHandOK
  <2> QED
    BY <2>1, <2>2, <2>3 DEF CopyOK, NoHand, Between
<1>5. CASE AcknowledgeLetter \/ AcknowledgeResult \/ RecordAttempt \/ ResolveRequest \/ GraphCrash
  <2>1. hand' = NoHand /\ gpc' \in Between
    BY <1>5 DEF AcknowledgeLetter, AcknowledgeResult, RecordAttempt, ResolveRequest, GraphCrash,
                Jump, Between
  <2>2. HandOK'
    BY <1>0, <2>1, NoHandOK
  <2> QED
    BY <2>1, <2>2 DEF CopyOK, NoHand, Between
<1>6. CASE BeginOrder \/ EndFollowUps
  <2>1. /\ hand' = hand /\ table' = table /\ Ids' = Ids /\ unread' = unread
        /\ \/ gpc = "make" /\ gpc' = "order" /\ Len(hand.made) = Len(hand.plan)
           \/ gpc = "order" /\ gpc' = AfterFollowUps
    BY <1>6 DEF BeginOrder, EndFollowUps, Jump, records, Ids, Made
  <2>2. HandOK'
    <3>1. hand.flow = "result" => panel'[hand.result.worker].task = hand.task
      BY <1>0 DEF HandOK, RecordsOK, PanelKept
    <3> QED
      BY <1>0, <2>1, <3>1 DEF HandOK, AfterFollowUps
  <2>3. CopyOK'
    BY <1>0, <2>1 DEF CopyOK, AfterFollowUps, InPhase
  <2> QED
    BY <2>2, <2>3
<1>7. CASE ApplyAnswer
  <2>1. PICK p \in Plans : Fits(p) /\ hand' = [hand EXCEPT !.way = "answered", !.plan = p]
    BY <1>7 DEF ApplyAnswer
  <2>2. /\ hand'.flow = hand.flow /\ hand'.task = hand.task /\ hand'.read = hand.read
        /\ hand'.way = "answered" /\ hand'.plan = p /\ hand'.made = hand.made
        /\ hand'.peers = hand.peers
    BY <1>0, <2>1 DEF InPhase
  <2>3. gpc = "apply" /\ gpc' = "write" /\ table' = table /\ Ids' = Ids /\ hand.flow = "direct"
    BY <1>0, <1>7 DEF ApplyAnswer, Jump, records, InPhase, Executing, Ids
  <2>4. p \in Proposals /\ hand.made = << >> /\ Len(table) + Len(p) <= MaxTasks /\ Len(p) \in Nat
        /\ Len(table) \in Nat /\ MaxTasks \in Nat
    <3>1. p \in Proposals
      BY PlansProposed
    <3>2. Len(p) \in Nat
      BY <3>1, ProposalFields
    <3>3. Len(table) + Len(p) <= MaxTasks
      BY <2>1 DEF Fits
    <3>4. hand.made = << >>
      BY <1>0, <2>3 DEF HandOK
    <3>5. Len(table) \in Nat /\ MaxTasks \in Nat
      BY <1>0 DEF RecordsOK, GraphAssumption
    <3> QED
      BY <3>1, <3>2, <3>3, <3>4, <3>5
  <2>5. HandOK'
    BY <1>0, <2>2, <2>3, <2>4 DEF HandOK
  <2> QED
    BY <1>0, <2>2, <2>3, <2>5 DEF CopyOK
<1>8. CASE ApplyNothing \/ ApplyByConsensus
  <2>1. PICK w \in {"fallback", "refused", "delegated"} :
          /\ hand' = [hand EXCEPT !.way = w]
          /\ gpc = "apply" /\ gpc' = IF w = "delegated" THEN "review" ELSE "write"
    BY <1>8 DEF ApplyNothing, ApplyByConsensus, Jump
  <2>2. /\ hand'.flow = hand.flow /\ hand'.task = hand.task /\ hand'.read = hand.read
        /\ hand'.way = w /\ hand'.plan = hand.plan /\ hand'.made = hand.made
        /\ hand'.peers = hand.peers
    BY <1>0, <2>1 DEF InPhase
  <2>3. table' = table /\ Ids' = Ids /\ hand.flow = "direct"
    BY <1>0, <1>8, <2>1 DEF ApplyNothing, ApplyByConsensus, records, InPhase, Executing, Ids
  <2>4. HandOK'
    BY <1>0, <2>1, <2>2, <2>3 DEF HandOK
  <2> QED
    BY <1>0, <2>1, <2>2, <2>3, <2>4 DEF CopyOK
<1>9. CASE MakeTask
  <2>1. Creates(Len(table) + 1)
    BY <1>9, MakeTaskEffect
  <2>2. /\ hand'.flow = hand.flow /\ hand'.task = hand.task /\ hand'.read = hand.read
        /\ hand'.way = hand.way /\ hand'.plan = hand.plan
        /\ hand'.made = Append(hand.made, Len(table) + 1)
        /\ hand'.peers = hand.peers /\ hand'.result = hand.result
    BY <1>0, <1>9 DEF MakeTask, InPhase
  <2>3. gpc = "make" /\ gpc' = "make" /\ unread' = unread /\ panel' = panel
        /\ Len(hand.made) < Len(hand.plan)
    BY <1>9 DEF MakeTask, Made
  <2>4. /\ Len(table) \in Nat /\ Len(hand.made) \in Nat /\ Len(hand.plan) \in Nat
        /\ MaxTasks \in Nat
    BY <1>0, ProposalFields DEF HandOK, RecordsOK, GraphAssumption
  <2>5. hand'.made \in Seq(Nat) /\ Len(hand'.made) = Len(hand.made) + 1
    BY <1>0, <2>2, <2>4, AppendProperties DEF HandOK
  <2>6. HandOK'
    <3>1. hand.way # "delegated"
      BY <1>0, <2>3, <2>4 DEF HandOK
    <3>2. Len(table) + Len(hand.plan) <= MaxTasks + Len(hand.made)
      BY <1>0, <3>1 DEF HandOK
    <3>3. /\ Len(hand'.made) <= Len(hand'.plan)
          /\ Len(table') + Len(hand'.plan) <= MaxTasks + Len(hand'.made)
      <4>1. Len(table') = Len(table) + 1
        BY <2>1 DEF Creates
      <4>2. Len(hand'.plan) = Len(hand.plan) /\ Len(hand.made) < Len(hand.plan)
        BY <2>2, <2>3
      <4>3. Len(hand'.made) = Len(hand.made) + 1
        BY <2>5
      <4>4. \A a, b, c, m \in Nat : b < c /\ a + c <= m + b => b + 1 <= c /\ a + 1 + c <= m + (b + 1)
        OBVIOUS
      <4> QED
        BY <2>4, <3>2, <4>1, <4>2, <4>3, <4>4
    <3>4. hand'.flow \in {"direct", "result"} =>
            /\ hand'.task \in Ids' /\ hand'.read \in Tasks /\ hand'.read.batch \subseteq Ids'
            /\ hand'.peers \subseteq hand'.read.batch \ {hand'.task}
      BY <1>0, <2>2 DEF HandOK
    <3> QED
      BY <1>0, <2>2, <2>3, <2>5, <3>1, <3>3, <3>4 DEF HandOK
  <2>7. hand.flow = "result" => table'[hand.task] = table[hand.task]
    BY <1>0, <2>1 DEF HandOK, Creates
  <2> QED
    BY <1>0, <2>2, <2>3, <2>6, <2>7 DEF CopyOK
<1>10. CASE OrderTask
  <2>1. Touches /\ \A u \in Ids : table'[u].attempt = table[u].attempt
    BY <1>10, OrderTaskEffect
  <2>2. hand' = hand /\ gpc = "order" /\ gpc' = "order" /\ unread' = unread
    BY <1>10 DEF OrderTask
  <2>3. HandOK'
    BY <1>0, <2>1, <2>2, HandKept DEF Touches, HandOK
  <2> QED
    BY <1>0, <2>1, <2>2, <2>3 DEF CopyOK, Touches, Touched, SameTask, HandOK
<1>11. CASE MakeReviewer
  <2>1. /\ hand'.flow = hand.flow /\ hand'.task = hand.task /\ hand'.read = hand.read
        /\ hand'.way = hand.way /\ hand'.plan = hand.plan
        /\ hand'.made = Append(hand.made, Len(panel) + 1)
        /\ hand'.peers = hand.peers
    BY <1>0, <1>11 DEF MakeReviewer, InPhase
  <2>2. gpc = "review" /\ gpc' = "review" /\ table' = table /\ Ids' = Ids /\ hand.flow = "direct"
    BY <1>0, <1>11 DEF MakeReviewer, InPhase, Executing, Ids
  <2>3. hand'.made \in Seq(Nat)
    BY <1>0, <2>1, AppendProperties DEF HandOK, RecordsOK
  <2>4. HandOK'
    BY <1>0, <2>1, <2>2, <2>3 DEF HandOK
  <2> QED
    BY <1>0, <2>1, <2>2, <2>4 DEF CopyOK
<1>12. CASE LinkReviewers
  <2> DEFINE v == [hand.read EXCEPT !.status = "working",
                     !.review = [NoReview EXCEPT !.state = "pending"]]
  <2>1. Changes(hand.task, v)
    BY <1>12, LinkReviewersEffect
  <2>2. /\ hand' = hand /\ gpc = "review" /\ gpc' = "write" /\ hand.flow = "direct"
        /\ hand.way = "delegated"
    BY <1>0, <1>12 DEF LinkReviewers, Jump, InPhase, Executing, HandOK
  <2>3. /\ v.status = "working" /\ v.batch = hand.read.batch
        /\ v.review = [NoReview EXCEPT !.state = "pending"] /\ SameTask(hand.read, v)
    BY <1>0, <2>2 DEF HandOK, Tasks, SameTask
  <2> HIDE DEF v
  <2>4. HandOK'
    BY <1>0, <2>1, <2>2, HandKept DEF Changes
  <2> QED
    BY <1>0, <2>1, <2>2, <2>3, <2>4 DEF CopyOK, Changes
<1>13. CASE WriteTask
  <2> DEFINE v == [hand.read EXCEPT !.status = HandStatus, !.review = MergedReview]
  <2>1. Changes(hand.task, v)
    BY <1>13, WriteTaskEffect
  <2>2. /\ hand'.flow = hand.flow /\ hand'.task = hand.task
        /\ hand'.read = [hand.read EXCEPT !.status = HandStatus]
        /\ hand'.way = hand.way /\ hand'.plan = hand.plan /\ hand'.made = << >>
        /\ hand'.peers = hand.read.batch \ {hand.task}
    BY <1>0, <1>13 DEF WriteTask, InPhase
  <2>3. gpc = "write" /\ gpc' = "sync" /\ hand.flow = "direct"
    BY <1>0, <1>13 DEF WriteTask, Jump, InPhase, Executing
  <2>4. /\ v.status = HandStatus /\ v.batch = hand.read.batch /\ HandStatus' = HandStatus
        /\ hand'.read \in Tasks /\ hand'.read.status = HandStatus
        /\ hand'.read.batch = hand.read.batch
    BY <1>0, <2>2, <2>3, ReviewTypes DEF HandOK, Tasks, HandStatus
  <2> HIDE DEF v
  <2>5. << >> \in Seq(Nat) /\ Len(<< >>) = 0 /\ Len(hand.plan) \in Nat
    BY <1>0, ProposalFields DEF HandOK
  <2>6. HandOK'
    BY <1>0, <2>1, <2>2, <2>3, <2>4, <2>5 DEF HandOK, Changes
  <2> QED
    BY <2>1, <2>2, <2>3, <2>4, <2>6 DEF CopyOK, Changes
<1>14. CASE SyncPeer
  <2>1. PICK p \in hand.peers :
          /\ p # hand.task /\ hand' = [hand EXCEPT !.peers = @ \ {p}]
          /\ \E v : Changes(p, v)
    BY <1>14, SyncPeerEffect
  <2>2. /\ hand'.flow = hand.flow /\ hand'.task = hand.task /\ hand'.read = hand.read
        /\ hand'.way = hand.way /\ hand'.plan = hand.plan /\ hand'.made = hand.made
        /\ hand'.peers = hand.peers \ {p} /\ hand'.result = hand.result
    BY <1>0, <2>1 DEF InPhase
  <2>3. gpc = "sync" /\ gpc' = "sync" /\ unread' = unread /\ panel' = panel
    BY <1>14 DEF SyncPeer
  <2>4. hand.flow \in {"direct", "result"} /\ hand.task \in Ids
    BY <1>0, <2>3 DEF InPhase, HandOK
  <2>5. Len(table') = Len(table) /\ Ids' = Ids /\ table'[hand.task] = table[hand.task]
    BY <2>1, <2>4 DEF Changes
  <2>6. HandOK'
    BY <1>0, <2>2, <2>3, <2>4, <2>5 DEF HandOK
  <2> QED
    BY <1>0, <2>2, <2>3, <2>5, <2>6 DEF CopyOK, HandStatus
<1>15. CASE EndSync
  <2>1. /\ hand' = hand /\ table' = table /\ Ids' = Ids /\ unread' = unread /\ gpc = "sync"
        /\ hand.peers = {} /\ gpc' = IF hand.flow = "direct" THEN "make" ELSE "settle"
    BY <1>15 DEF EndSync, BeginFollowUps, records, Ids
  <2>2. HandOK'
    BY <1>0, <2>1, HandKept DEF HandOK
  <2> QED
    BY <1>0, <2>1, <2>2 DEF CopyOK
<1>16. CASE AnswerRequest
  <2>1. PICK w : hand' = [NoHand EXCEPT !.result = [worker |-> w]]
    BY <1>16, AnswerRequestEffect
  <2>2. /\ hand'.flow = "none" /\ hand'.way = "none" /\ hand'.plan = << >> /\ hand'.made = << >>
    BY <2>1 DEF NoHand
  <2>3. gpc' = "resolve"
    BY <1>16 DEF AnswerRequest, Jump
  <2>4. << >> \in Proposals /\ << >> \in Seq(Nat) /\ Len(<< >>) = 0
    BY EmptySeq DEF Proposals
  <2>5. Len(table') <= MaxTasks /\ Len(table') \in Nat /\ MaxTasks \in Nat
    BY <1>0 DEF RecordsOK, GraphAssumption
  <2> QED
    BY <2>2, <2>3, <2>4, <2>5 DEF HandOK, CopyOK
<1>17. CASE ReadResult
  BY <1>0, <1>17, HandRead
<1>18. CASE SettleParent
  <2>1. Changes(hand.task, hand.read)
    BY <1>18, SettleParentEffect
  <2>2. hand' = hand /\ gpc' = "worker" /\ unread' = unread
    BY <1>18 DEF SettleParent, Jump
  <2>3. HandOK'
    BY <1>0, <2>1, <2>2, HandKept DEF Changes, HandOK
  <2> QED
    BY <2>2, <2>3 DEF CopyOK
<1>19. CASE SettleReviewer
  <2>1. hand' = hand /\ gpc' = "acknowledge" /\ unread' = unread /\ table' = table /\ Ids' = Ids
    BY <1>19 DEF SettleReviewer, Jump, Ids
  <2>2. HandOK'
    BY <1>0, <2>1, HandKept DEF HandOK
  <2> QED
    BY <2>1, <2>2 DEF CopyOK
<1> QED
  BY <1>1, <1>2, <1>3, <1>4, <1>5, <1>6, <1>7, <1>8, <1>9, <1>10, <1>11, <1>12, <1>13, <1>14,
     <1>15, <1>16, <1>17, <1>18, <1>19, NextCases DEF Quiet

LEMMA TypesInit == ASSUME GraphAssumption, GraphInit PROVE GraphTypes
<1>1. RecordsOK /\ InPhase
  BY RecordsInit, PhaseInit
<1>2. HandOK
  <2>1. << >> \in Proposals /\ << >> \in Seq(Nat) /\ Len(<< >>) = 0
    BY EmptySeq DEF Proposals
  <2>2. /\ hand.flow = "none" /\ hand.way = "none" /\ hand.plan = << >> /\ hand.made = << >>
        /\ gpc = "intake"
    BY DEF GraphInit, NoHand
  <2>3. Len(table) <= MaxTasks /\ Len(table) \in Nat /\ MaxTasks \in Nat
    BY <1>1 DEF RecordsOK, GraphAssumption
  <2> QED
    BY <2>1, <2>2, <2>3 DEF HandOK
<1>3. CopyOK /\ SweepOK
  BY DEF GraphInit, NoHand, CopyOK, SweepOK
<1> QED
  BY <1>1, <1>2, <1>3 DEF GraphTypes

LEMMA TypesNext ==
  ASSUME GraphAssumption, GraphTypes, GraphNext
  PROVE  GraphTypes'
  BY RecordsNext, PhaseNext, HandNext, SweepNext DEF GraphTypes

(* A step that changes nothing changes none of the invariants.              *)
LEMMA TypesStutter ==
  ASSUME GraphTypes, UNCHANGED graphVars
  PROVE  GraphTypes'
<1>1. UNCHANGED <<table, panel, letters, unread, gpc, hand, sweep, turn,
                  earned, spawned, cut, lost, gcrashes>>
  BY DEF graphVars, records, locals, ghistory
<1> QED
  BY <1>1 DEF GraphTypes, RecordsOK, InPhase, HandOK, CopyOK, SweepOK, Ids, Is, HandStatus

(* Every record has its fields, and the runner holds what its place in the  *)
(* loop says it does: the copy it will write differs from the record it     *)
(* replaces only in what the handler decides.                               *)
THEOREM TypesInvariant == GraphSpec => []GraphTypes
<1>1. GraphInit => GraphTypes
  BY GraphAssumption, TypesInit
<1>2. GraphTypes /\ [GraphNext]_graphVars => GraphTypes'
  BY GraphAssumption, TypesNext, TypesStutter
<1> QED
  BY <1>1, <1>2, PTL DEF GraphSpec

-----------------------------------------------------------------------------
(* Reviews.                                                                 *)

(* Where the review of a record comes from: it is left alone, written from  *)
(* the hand, or begins.                                                     *)
LEMMA ReviewWritten ==
  ASSUME GraphAssumption, GraphTypes, GraphNext, NEW t \in Ids'
  PROVE  \/ t \in Ids /\ table'[t].review = table[t].review
         \/ /\ hand.flow \in {"direct", "result"} /\ t = hand.task
            /\ table'[t].review = hand.read.review
         \/ table'[t].review \in {NoReview, [NoReview EXCEPT !.state = "pending"]}
<1>0. table \in Seq(Tasks) /\ HandOK /\ InPhase
  BY DEF GraphTypes, RecordsOK
<1>1. CASE Quiet \/ AcknowledgeLetter \/ AcknowledgeResult \/ EndSync \/ ReadResult \/ GraphCrash
           \/ MakeReviewer \/ AnswerRequest \/ ResolveRequest \/ SettleReviewer
  <2>1. table' = table /\ Ids' = Ids
    BY <1>1, QuietEffect DEF AcknowledgeLetter, AcknowledgeResult, EndSync, ReadResult, GraphCrash,
         MakeReviewer, AnswerRequest, ResolveRequest, SettleReviewer, records, Ids
  <2> QED
    BY <2>1
<1>2. CASE MakeTask
  <2>1. Creates(Len(table) + 1)
    BY <1>2, MakeTaskEffect
  <2>2. table'[Len(table) + 1].review = NoReview
    BY <2>1 DEF Creates, NewTask
  <2>3. t \in Ids => table'[t] = table[t]
    BY <2>1 DEF Creates
  <2>4. t \in Ids \/ t = Len(table) + 1
    BY <2>1 DEF Creates
  <2> QED
    BY <2>2, <2>3, <2>4
<1>3. CASE OrderTask \/ RecordAttempt \/ CloseAttempts
  BY <1>3, OrderTaskEffect, RecordAttemptEffect, CloseAttemptsEffect DEF Touches, Touched
<1>4. CASE CloseTask
  <2>1. PICK u \in sweep :
          \/ Ids' = Ids /\ table' = table
          \/ \E s, c : Changes(u, [table[u] EXCEPT !.status = s, !.closure = c])
    BY <1>4, CloseTaskEffect
  <2>2. CASE Ids' = Ids /\ table' = table
    BY <2>2
  <2>3. CASE \E s, c : Changes(u, [table[u] EXCEPT !.status = s, !.closure = c])
    <3>1. PICK s, c : Changes(u, [table[u] EXCEPT !.status = s, !.closure = c])
      BY <2>3
    <3>2. table[u] \in Tasks
      BY <1>0, <3>1 DEF Changes, Ids
    <3> QED
      BY <3>1, <3>2 DEF Changes, Tasks
  <2> QED
    BY <2>1, <2>2, <2>3
<1>5. CASE LinkReviewers
  <2>1. Changes(hand.task, [hand.read EXCEPT !.status = "working",
                              !.review = [NoReview EXCEPT !.state = "pending"]])
    BY <1>5, LinkReviewersEffect
  <2>2. hand.read \in Tasks
    BY <1>0, <1>5 DEF LinkReviewers, Jump, InPhase, Executing, HandOK
  <2> QED
    BY <2>1, <2>2 DEF Changes, Tasks
<1>6. CASE WriteTask
  <2>1. Changes(hand.task, [hand.read EXCEPT !.status = HandStatus, !.review = MergedReview])
    BY <1>6, WriteTaskEffect
  <2>2. hand.read \in Tasks /\ hand.flow = "direct"
    BY <1>0, <1>6 DEF WriteTask, Jump, InPhase, Executing, HandOK
  <2>3. /\ table'[hand.task].review = MergedReview /\ hand.task \in Ids /\ Ids' = Ids
        /\ \A u \in Ids \ {hand.task} : table'[u] = table[u]
    BY <2>1, <2>2 DEF Changes, Tasks
  <2> QED
    BY <2>2, <2>3 DEF MergedReview
<1>7. CASE SyncPeer
  <2>1. PICK p \in hand.peers :
          Changes(p, [table[p] EXCEPT !.status = hand.read.status, !.under = hand.task])
    BY <1>7, SyncPeerEffect
  <2>2. table[p] \in Tasks
    BY <1>0, <2>1 DEF Changes, Ids
  <2> QED
    BY <2>1, <2>2 DEF Changes, Tasks
<1>8. CASE SettleParent
  <2>1. Changes(hand.task, hand.read)
    BY <1>8, SettleParentEffect
  <2>2. hand.flow = "result"
    BY <1>0, <1>8 DEF SettleParent, Jump, InPhase, Settling
  <2> QED
    BY <2>1, <2>2 DEF Changes
<1> QED
  BY <1>1, <1>2, <1>3, <1>4, <1>5, <1>6, <1>7, <1>8, NextCases

(* Where the copy in hand comes from: it is kept, a candidate's record, or  *)
(* a result was read.                                                       *)
LEMMA ReviewTaken ==
  ASSUME GraphAssumption, GraphTypes, GraphNext, hand'.flow \in {"direct", "result"}
  PROVE  \/ /\ hand.flow = hand'.flow /\ hand'.task = hand.task /\ hand'.result = hand.result
            /\ hand'.read.review = hand.read.review
         \/ /\ TakeChild \/ TakeBest
            /\ hand'.task \in Ids /\ hand'.read.review = table[hand'.task].review
         \/ ReadResult
<1>0. HandOK /\ InPhase
  BY DEF GraphTypes
<1>1. CASE TakeChild
  <2>1. PICK t \in Children : Take(t, "children")
    BY <1>1 DEF TakeChild
  <2> QED
    BY <1>1, <2>1, HandTaken, Candidates DEF TakeChild
<1>2. CASE TakeBest
  <2>1. PICK t \in Offered \cup Retries : Take(t, "queue")
    BY <1>2 DEF TakeBest
  <2> QED
    BY <1>2, <2>1, HandTaken, Candidates DEF TakeBest
<1>3. CASE TakeLetter \/ SwallowResult
  <2>1. hand'.flow = "intake"
    BY <1>3 DEF TakeLetter, SwallowResult, TakeIn, NoHand
  <2> QED
    BY <2>1
<1>4. CASE AcknowledgeLetter \/ AcknowledgeResult \/ RecordAttempt \/ ResolveRequest \/ GraphCrash
  <2>1. hand' = NoHand
    BY <1>4 DEF AcknowledgeLetter, AcknowledgeResult, RecordAttempt, ResolveRequest, GraphCrash
  <2> QED
    BY <2>1 DEF NoHand
<1>5. CASE AnswerRequest
  <2>1. PICK w : hand' = [NoHand EXCEPT !.result = [worker |-> w]]
    BY <1>5, AnswerRequestEffect
  <2> QED
    BY <2>1 DEF NoHand
<1>6. CASE EndIntake \/ EndChildren \/ BeginRunOnce \/ NothingToDo \/ EndServe \/ BeginClosing
           \/ EndClosing \/ CloseTask \/ CloseAttempts \/ BeginOrder \/ EndFollowUps \/ OrderTask
           \/ LinkReviewers \/ EndSync \/ SettleParent \/ SettleReviewer
  BY <1>6 DEF EndIntake, EndChildren, BeginRunOnce, NothingToDo, EndServe, BeginClosing, EndClosing,
       CloseTask, CloseAttempts, BeginOrder, EndFollowUps, OrderTask, LinkReviewers, EndSync,
       SettleParent, SettleReviewer
<1>7. CASE ApplyAnswer \/ ApplyNothing \/ ApplyByConsensus
  <2>1. \E w, p : hand' = [hand EXCEPT !.way = w, !.plan = p] \/ hand' = [hand EXCEPT !.way = w]
    BY <1>7 DEF ApplyAnswer, ApplyNothing, ApplyByConsensus
  <2>2. PICK w, p : hand' = [hand EXCEPT !.way = w, !.plan = p] \/ hand' = [hand EXCEPT !.way = w]
    BY <2>1
  <2>3. /\ hand'.flow = hand.flow /\ hand'.task = hand.task /\ hand'.result = hand.result
        /\ hand'.read = hand.read
    <3>1. CASE hand' = [hand EXCEPT !.way = w, !.plan = p]
      BY <1>0, <3>1 DEF InPhase
    <3>2. CASE hand' = [hand EXCEPT !.way = w]
      BY <1>0, <3>2 DEF InPhase
    <3> QED
      BY <2>2, <3>1, <3>2
  <2> QED
    BY <2>3
<1>8. CASE MakeTask \/ MakeReviewer
  <2>1. PICK m : hand' = [hand EXCEPT !.made = m]
    BY <1>8 DEF MakeTask, MakeReviewer
  <2>2. /\ hand'.flow = hand.flow /\ hand'.task = hand.task /\ hand'.result = hand.result
        /\ hand'.read = hand.read
    BY <1>0, <2>1 DEF InPhase
  <2> QED
    BY <2>2
<1>9. CASE WriteTask
  <2>1. hand.read \in Tasks
    BY <1>0, <1>9 DEF WriteTask, Jump, InPhase, Executing, HandOK
  <2>2. /\ hand'.flow = hand.flow /\ hand'.task = hand.task /\ hand'.result = hand.result
        /\ hand'.read = [hand.read EXCEPT !.status = HandStatus]
    BY <1>0, <1>9 DEF WriteTask, InPhase
  <2> QED
    BY <2>1, <2>2 DEF Tasks
<1>10. CASE SyncPeer
  <2>1. PICK p : hand' = [hand EXCEPT !.peers = @ \ {p}]
    BY <1>10 DEF SyncPeer
  <2> QED
    BY <1>0, <2>1 DEF InPhase
<1> QED
  BY <1>1, <1>2, <1>3, <1>4, <1>5, <1>6, <1>7, <1>8, <1>9, <1>10, NextCases DEF Quiet

LEMMA ReviewKept ==
  ASSUME PanelKept, NEW t, NEW v, ReviewOK(t, v)
  PROVE  ReviewOK(t, v)'
  BY DEF PanelKept, ReviewOK

LEMMA ReviewBegun ==
  ASSUME NEW t, NEW v \in {NoReview, [NoReview EXCEPT !.state = "pending"]}
  PROVE  ReviewOK(t, v)
<1>1. v.heard = {} /\ v.state \in {"none", "pending"}
  BY DEF NoReview
<1> QED
  BY <1>1, FS_EmptySet DEF ReviewOK

(* One more is heard.                                                       *)
LEMMA ReviewHeard ==
  ASSUME NEW t, NEW v \in Reviews, ReviewOK(t, v), NEW r \in Results,
         r.worker \in DOMAIN panel, panel[r.worker].task = t, r.answer \in panel[r.worker].said
  PROVE  ReviewOK(t, [state |-> Judged(Successful(Heard(v, r))), heard |-> Heard(v, r),
                      count |-> v.count + 1])
<1> DEFINE h == Heard(v, r)
           x == Entry(v, r)
           d == Judged(Successful(h))
<1>1. v.count \in Nat /\ v.heard \subseteq Entries
  BY DEF Reviews
<1>2. \A e \in v.heard : e.nth \in Nat
  BY <1>1 DEF Entries
<1>3. x.worker = r.worker /\ x.answer = r.answer /\ x.nth = v.count + 1
  BY DEF Entry
<1>4. \A e \in h : e = x \/ (e \in v.heard /\ e.worker # r.worker)
  BY DEF Heard
<1>5. IsFiniteSet(h)
  <2>1. IsFiniteSet({s \in v.heard : s.worker # r.worker})
    BY FS_Subset DEF ReviewOK
  <2> QED
    BY <2>1, FS_AddElement DEF Heard
<1>6. d \notin {"none", "pending"}
  BY Verdicts
<1> HIDE DEF h, x, d
<1>7. \A e \in h : /\ e.worker \in DOMAIN panel /\ panel[e.worker].task = t
                   /\ e.answer \in panel[e.worker].said /\ e.nth <= v.count + 1
  BY <1>1, <1>2, <1>3, <1>4 DEF ReviewOK
<1>8. \A e, f \in h : e.worker = f.worker \/ e.nth = f.nth => e = f
  BY <1>1, <1>2, <1>3, <1>4 DEF ReviewOK
<1> QED
  BY <1>5, <1>6, <1>7, <1>8 DEF ReviewOK, d, h

LEMMA ReviewInvNext ==
  ASSUME GraphAssumption, GraphTypes, ReviewInv, GraphNext
  PROVE  ReviewInv'
<1>0. PanelKept /\ GraphTypes'
  BY Grows, TypesNext
<1>1. ASSUME NEW t \in Ids'
      PROVE  ReviewOK(t, table[t].review)'
  <2>1. CASE t \in Ids /\ table'[t].review = table[t].review
    BY <1>0, <2>1, ReviewKept DEF ReviewInv
  <2>2. CASE /\ hand.flow \in {"direct", "result"} /\ t = hand.task
             /\ table'[t].review = hand.read.review
    BY <1>0, <2>2, ReviewKept DEF ReviewInv
  <2>3. CASE table'[t].review \in {NoReview, [NoReview EXCEPT !.state = "pending"]}
    BY <1>0, <2>3, ReviewBegun, ReviewKept
  <2> QED
    BY <1>1, <2>1, <2>2, <2>3, ReviewWritten
<1>2. ASSUME hand'.flow \in {"direct", "result"}
      PROVE  ReviewOK(hand.task, hand.read.review)'
  <2>1. CASE ReadResult
    <3>1. PICK r \in unread, p \in Plans : Reads(r, p)
      BY <2>1, ReadResultEffect
    <3> DEFINE t == panel[r.worker].task
               v == table[t].review
    <3>2. /\ t \in Ids /\ r \in Results /\ r.worker \in DOMAIN panel
          /\ r.answer \in panel[r.worker].said /\ table \in Seq(Tasks)
      BY DEF GraphTypes, RecordsOK
    <3>3. v \in Reviews /\ ReviewOK(t, v) /\ table[t] \in Tasks
      <4>1. table[t] \in Tasks
        BY <3>2 DEF Ids
      <4>2. v \in Reviews
        BY <4>1 DEF Tasks
      <4> QED
        BY <3>2, <4>1, <4>2 DEF ReviewInv
    <3>4. hand'.task = t /\ hand'.read.review = [state |-> Judged(Successful(Heard(v, r))),
             heard |-> Heard(v, r), count |-> v.count + 1]
      <4>1. hand'.task = t /\ hand'.read = [table[t] EXCEPT !.status = VerdictStatus(Verdict(r)),
                !.review = [state |-> Verdict(r), heard |-> Heard(v, r), count |-> v.count + 1]]
        BY <3>1 DEF Reads
      <4> QED
        BY <3>3, <4>1 DEF Tasks, Verdict
    <3> HIDE DEF t, v
    <3> QED
      BY <1>0, <3>2, <3>3, <3>4, ReviewHeard, ReviewKept DEF t
  <2> QED
    BY <1>0, <1>2, <2>1, ReviewTaken, ReviewKept DEF ReviewInv
<1> QED
  BY <1>1, <1>2 DEF ReviewInv

LEMMA ReviewInvStutter ==
  ASSUME ReviewInv, UNCHANGED graphVars
  PROVE  ReviewInv'
<1>1. UNCHANGED <<table, panel, hand>>
  BY DEF graphVars, records, locals
<1> QED
  BY <1>1 DEF ReviewInv, ReviewOK, Ids

LEMMA ReviewInvariant == GraphSpec => []ReviewInv
<1>1. GraphInit => ReviewInv
  <2>1. GraphInit => Ids = {}
    BY DEF GraphInit, Ids
  <2>2. GraphInit => hand = NoHand /\ NoHand.flow = "none"
    BY DEF GraphInit, NoHand
  <2> QED
    BY <2>1, <2>2 DEF ReviewInv
<1>2. GraphTypes /\ ReviewInv /\ [GraphNext]_graphVars => ReviewInv'
  BY GraphAssumption, ReviewInvNext, ReviewInvStutter
<1> QED
  BY <1>1, <1>2, TypesInvariant, PTL DEF GraphSpec

LEMMA Approval ==
  ASSUME NEW good, Judged(good) = "approved"
  PROVE  /\ ~ (Cardinality(good) < Required)
         /\ \A s, o \in First(good) : s.answer = o.answer
<1>1. ~ (Cardinality(good) < Required)
  BY DEF Judged
<1> QED
  BY <1>1 DEF Judged

(* An approving judgement rests on as many reviewers as are required.       *)
Backed(t) ==
  \E a \in Answers : \E S \in SUBSET DOMAIN panel :
    /\ Cardinality(S) = Required
    /\ \A w \in S : panel[w].task = t /\ a \in panel[w].said

LEMMA ApprovedByMany ==
  ASSUME GraphAssumption, NEW t, NEW v \in Reviews, ReviewOK(t, v), v.state = "approved"
  PROVE  Backed(t)
<1> DEFINE good == Successful(v.heard)
           F == First(good)
           S == {e.worker : e \in F}
<1>1. v.heard \subseteq Entries /\ good \subseteq v.heard /\ F \subseteq good
  BY DEF Reviews, Successful, First
<1>2. Judged(good) = "approved"
  BY DEF ReviewOK
<1>3. IsFiniteSet(good) /\ Cardinality(good) \in Nat /\ Required \in Nat /\ Required > 0
  BY <1>1, FS_Subset, FS_CardinalityType DEF ReviewOK, GraphAssumption
<1>4. Cardinality(good) >= Required /\ \A e, f \in F : e.answer = f.answer
  <2> HIDE DEF good
  <2> QED
    BY <1>2, <1>3, Approval
<1>5. \A e \in good : e.nth \in Nat /\ e.answer \in Answers
  BY <1>1 DEF Entries, Said, Successful
<1>6. \A e, f \in good : e.worker = f.worker \/ e.nth = f.nth => e = f
  BY <1>1 DEF ReviewOK
<1>7. Cardinality(F) = Required /\ IsFiniteSet(F)
  <2> HIDE DEF good
  <2>1. Cardinality(F) = Required
    BY <1>3, <1>4, <1>5, <1>6, FirstSize
  <2> QED
    BY <1>1, <1>3, <2>1, FS_Subset
<1>8. Cardinality(S) = Required
  <2> DEFINE f == [e \in F |-> e.worker]
  <2>1. \A e, g \in F : e.worker = g.worker => e = g
    BY <1>1, <1>6
  <2> HIDE DEF F, good
  <2>2. f \in Bijection(F, S)
    BY <2>1 DEF Bijection, Injection, IsInjective, Surjection
  <2> HIDE DEF f, S
  <2>3. ExistsBijection(F, S)
    BY <2>2 DEF ExistsBijection
  <2> QED
    BY <1>7, <2>3, FS_Bijection
<1>9. PICK x : x \in F
  <2> HIDE DEF F
  <2> QED
    BY <1>3, <1>7, FS_EmptySet
<1>10. x.answer \in Answers
  BY <1>1, <1>5, <1>9
<1>11. \A e \in F : e.worker \in DOMAIN panel /\ panel[e.worker].task = t
                    /\ x.answer \in panel[e.worker].said
  <2>1. \A e \in F : e.worker \in DOMAIN panel /\ panel[e.worker].task = t
                     /\ e.answer \in panel[e.worker].said
    BY <1>1 DEF ReviewOK
  <2> QED
    BY <1>4, <1>9, <2>1
<1>12. S \in SUBSET DOMAIN panel /\ \A w \in S : panel[w].task = t /\ x.answer \in panel[w].said
  BY <1>11
<1> HIDE DEF S
<1> QED
  BY <1>8, <1>10, <1>12 DEF Backed

(* An approved review has as many agreeing reviewers as are required.       *)
THEOREM ReviewsAreEarned == GraphSpec => []ConsensusEarned
<1>1. GraphTypes /\ ReviewInv => ConsensusEarned
  <2>1. SUFFICES ASSUME GraphTypes, ReviewInv, NEW t \in Ids, table[t].review.state = "approved"
                 PROVE  Backed(t)
    BY DEF ConsensusEarned, Backed
  <2>2. table[t] \in Tasks
    BY <2>1 DEF GraphTypes, RecordsOK, Ids
  <2>3. table[t].review \in Reviews
    BY <2>2 DEF Tasks
  <2>4. ReviewOK(t, table[t].review)
    BY <2>1 DEF ReviewInv
  <2> QED
    BY <2>1, <2>3, <2>4, GraphAssumption, ApprovedByMany
<1> QED
  BY <1>1, TypesInvariant, ReviewInvariant, PTL

-----------------------------------------------------------------------------
(* Duplicates.                                                              *)

(* What the steps keep of a record.                                         *)
LEMMA TaskKept ==
  ASSUME GraphAssumption, GraphTypes, GraphNext, NEW t \in Ids
  PROVE  /\ table'[t].source = table[t].source /\ table'[t].comm = table[t].comm
         /\ table'[t].topic = table[t].topic
         /\ CloseTask \/ table'[t].closure = table[t].closure
         /\ SyncPeer \/ table'[t].under = table[t].under
         /\ table'[t].attempt = "none" => table[t].attempt = "none"
<1>0. table \in Seq(Tasks) /\ HandOK /\ InPhase /\ CopyOK
  BY DEF GraphTypes, RecordsOK
<1>1. CASE Quiet \/ AcknowledgeLetter \/ AcknowledgeResult \/ EndSync \/ ReadResult \/ GraphCrash
           \/ MakeReviewer \/ AnswerRequest \/ ResolveRequest \/ SettleReviewer
  <2>1. table' = table
    BY <1>1, QuietEffect DEF AcknowledgeLetter, AcknowledgeResult, EndSync, ReadResult, GraphCrash,
         MakeReviewer, AnswerRequest, ResolveRequest, SettleReviewer, records
  <2> QED
    BY <2>1
<1>2. CASE MakeTask
  BY <1>2, MakeTaskEffect DEF Creates
<1>3. CASE OrderTask \/ RecordAttempt \/ CloseAttempts
  BY <1>3, OrderTaskEffect, RecordAttemptEffect, CloseAttemptsEffect DEF Touches, Touched
<1>4. CASE CloseTask
  <2>1. PICK u \in sweep :
          \/ Ids' = Ids /\ table' = table
          \/ \E s, c : Changes(u, [table[u] EXCEPT !.status = s, !.closure = c])
    BY <1>4, CloseTaskEffect
  <2>2. CASE Ids' = Ids /\ table' = table
    BY <1>4, <2>2
  <2>3. CASE \E s, c : Changes(u, [table[u] EXCEPT !.status = s, !.closure = c])
    <3>1. PICK s, c : Changes(u, [table[u] EXCEPT !.status = s, !.closure = c])
      BY <2>3
    <3>2. table[u] \in Tasks
      BY <1>0, <3>1 DEF Changes, Ids
    <3>3. CASE t = u
      BY <1>4, <3>1, <3>2, <3>3 DEF Changes, Tasks
    <3>4. CASE t # u
      BY <1>4, <3>1, <3>4 DEF Changes
    <3> QED
      BY <3>3, <3>4
  <2> QED
    BY <2>1, <2>2, <2>3
<1>5. CASE LinkReviewers
  <2> DEFINE v == [hand.read EXCEPT !.status = "working",
                     !.review = [NoReview EXCEPT !.state = "pending"]]
  <2>1. Changes(hand.task, v)
    BY <1>5, LinkReviewersEffect
  <2>2. hand.read \in Tasks /\ SameTask(hand.read, table[hand.task])
    BY <1>0, <1>5 DEF LinkReviewers, Jump, InPhase, Executing, HandOK, CopyOK
  <2>3. SameTask(v, table[hand.task])
    BY <2>2 DEF Tasks, SameTask
  <2> HIDE DEF v
  <2> QED
    BY <2>1, <2>3 DEF Changes, SameTask
<1>6. CASE WriteTask
  <2> DEFINE v == [hand.read EXCEPT !.status = HandStatus, !.review = MergedReview]
  <2>1. Changes(hand.task, v)
    BY <1>6, WriteTaskEffect
  <2>2. hand.read \in Tasks /\ SameTask(hand.read, table[hand.task])
    BY <1>0, <1>6 DEF WriteTask, Jump, InPhase, Executing, HandOK, CopyOK
  <2>3. SameTask(v, table[hand.task])
    BY <2>2 DEF Tasks, SameTask
  <2> HIDE DEF v
  <2> QED
    BY <2>1, <2>3 DEF Changes, SameTask
<1>7. CASE SyncPeer
  <2>1. PICK p \in hand.peers :
          Changes(p, [table[p] EXCEPT !.status = hand.read.status, !.under = hand.task])
    BY <1>7, SyncPeerEffect
  <2>2. table[p] \in Tasks
    BY <1>0, <2>1 DEF Changes, Ids
  <2>3. CASE t = p
    BY <1>7, <2>1, <2>2, <2>3 DEF Changes, Tasks
  <2>4. CASE t # p
    BY <1>7, <2>1, <2>4 DEF Changes
  <2> QED
    BY <2>3, <2>4
<1>8. CASE SettleParent
  <2>1. Changes(hand.task, hand.read)
    BY <1>8, SettleParentEffect
  <2>2. SameTask(hand.read, table[hand.task])
    BY <1>0, <1>8 DEF SettleParent, Jump, InPhase, Settling, CopyOK
  <2> QED
    BY <2>1, <2>2 DEF Changes, SameTask
<1> QED
  BY <1>1, <1>2, <1>3, <1>4, <1>5, <1>6, <1>7, <1>8, NextCases

LEMMA DuplicateNext ==
  ASSUME GraphAssumption, GraphTypes, DuplicateKept, GraphNext
  PROVE  DuplicateKept'
<1>0. /\ Ids = 1 .. Len(table) /\ Len(table) \in Nat
      /\ \A t \in Ids : Key(t)' = Key(t)
  <2>1. Ids = 1 .. Len(table) /\ Len(table) \in Nat
    BY DEF GraphTypes, RecordsOK, Ids
  <2>2. \A t \in Ids : Key(t)' = Key(t)
    BY TaskKept DEF Key
  <2> QED
    BY <2>1, <2>2
<1>1. CASE CloseTask
  <2>1. PICK u \in sweep :
          \/ Ids' = Ids /\ table' = table
          \/ \E s, c : /\ c = "duplicate" => Duplicate(u)
                       /\ Changes(u, [table[u] EXCEPT !.status = s, !.closure = c])
    BY <1>1, CloseTaskEffect
  <2>2. CASE Ids' = Ids /\ table' = table
    BY <2>2 DEF DuplicateKept, Key
  <2>3. CASE \E s, c : /\ c = "duplicate" => Duplicate(u)
                       /\ Changes(u, [table[u] EXCEPT !.status = s, !.closure = c])
    <3>1. PICK s, c : /\ c = "duplicate" => Duplicate(u)
                      /\ Changes(u, [table[u] EXCEPT !.status = s, !.closure = c])
      BY <2>3
    <3>2. u \in Ids /\ Ids' = Ids /\ \A t \in Ids \ {u} : table'[t] = table[t]
      BY <3>1 DEF Changes
    <3>3. table'[u].closure = c
      <4>1. table[u] \in Tasks
        BY <3>2 DEF GraphTypes, RecordsOK, Ids
      <4> QED
        BY <3>1, <4>1 DEF Changes, Tasks
    <3>4. c = "duplicate" => \E o \in 1 .. (u - 1) : Key(o) = Key(u) /\ table[o].closure # "duplicate"
      <4>1. SUFFICES ASSUME c = "duplicate"
                     PROVE  \E o \in 1 .. (u - 1) : Key(o) = Key(u) /\ table[o].closure # "duplicate"
        OBVIOUS
      <4>2. PICK o \in 1 .. (u - 1) : Key(o) = Key(u)
        BY <3>1, <4>1 DEF Duplicate
      <4>3. o \in Ids
        BY <1>0, <3>2, <4>2
      <4>4. CASE table[o].closure # "duplicate"
        BY <4>2, <4>4
      <4>5. CASE table[o].closure = "duplicate"
        <5>1. PICK q \in 1 .. (o - 1) : Key(q) = Key(o) /\ table[q].closure # "duplicate"
          BY <4>3, <4>5 DEF DuplicateKept
        <5> QED
          BY <1>0, <3>2, <4>2, <5>1
      <4> QED
        BY <4>4, <4>5
    <3>5. ASSUME NEW t \in Ids', table'[t].closure = "duplicate"
          PROVE  \E o \in 1 .. (t - 1) : Key(o) = Key(t) /\ table'[o].closure # "duplicate"
      <4>1. PICK o \in 1 .. (t - 1) : Key(o) = Key(t) /\ table[o].closure # "duplicate"
        BY <3>2, <3>3, <3>4, <3>5 DEF DuplicateKept
      <4>2. o \in Ids /\ t \in Ids
        BY <1>0, <3>2, <3>5, <4>1
      <4>3. CASE o # u \/ c # "duplicate"
        BY <3>2, <3>3, <4>1, <4>2, <4>3
      <4>4. CASE o = u /\ c = "duplicate"
        <5>1. PICK q \in 1 .. (u - 1) : Key(q) = Key(u) /\ table[q].closure # "duplicate"
          BY <3>4, <4>4
        <5>2. q \in Ids \ {u} /\ q \in 1 .. (t - 1)
          BY <1>0, <3>2, <4>1, <4>2, <4>4, <5>1
        <5> QED
          BY <3>2, <4>1, <4>4, <5>1, <5>2
      <4> QED
        BY <4>3, <4>4
    <3>6. \A t \in Ids : \A o \in 1 .. (t - 1) : Key(o)' = Key(o) /\ Key(t)' = Key(t)
      BY <1>0
    <3> QED
      BY <3>2, <3>5, <3>6 DEF DuplicateKept
  <2> QED
    BY <2>1, <2>2, <2>3
<1>2. CASE ~ CloseTask
  <2>1. \A t \in Ids : table'[t].closure = table[t].closure
    BY <1>2, TaskKept
  <2>2. ASSUME NEW t \in Ids', t \notin Ids
        PROVE  table'[t].closure = "none"
    <3>1. CASE MakeTask
      <4>1. Creates(Len(table) + 1)
        BY <3>1, MakeTaskEffect
      <4> QED
        BY <2>2, <4>1 DEF Creates, NewTask
    <3>2. CASE ~ MakeTask
      <4>1. Ids' = Ids
        BY <1>2, <3>2, NextCases, QuietEffect, OrderTaskEffect, RecordAttemptEffect,
           CloseAttemptsEffect, LinkReviewersEffect, WriteTaskEffect, SettleParentEffect,
           SyncPeerEffect
           DEF AcknowledgeLetter, AcknowledgeResult, EndSync, ReadResult, GraphCrash, MakeReviewer,
           AnswerRequest, ResolveRequest, SettleReviewer, records, Ids, Changes, Touches
      <4> QED
        BY <2>2, <4>1
    <3> QED
      BY <3>1, <3>2
  <2>3. ASSUME NEW t \in Ids', table'[t].closure = "duplicate"
        PROVE  \E o \in 1 .. (t - 1) : Key(o)' = Key(t)' /\ table'[o].closure # "duplicate"
    <3>1. t \in Ids
      BY <2>2, <2>3
    <3>2. PICK o \in 1 .. (t - 1) : Key(o) = Key(t) /\ table[o].closure # "duplicate"
      BY <2>1, <2>3, <3>1 DEF DuplicateKept
    <3>3. o \in Ids
      BY <1>0, <3>1, <3>2
    <3> QED
      BY <1>0, <2>1, <3>1, <3>2, <3>3
  <2> QED
    BY <2>3 DEF DuplicateKept
<1> QED
  BY <1>1, <1>2

(* What is closed as a duplicate has an original that was not.              *)
THEOREM DuplicatesAreKept == GraphSpec => []DuplicateKept
<1>1. GraphInit => DuplicateKept
  BY DEF GraphInit, DuplicateKept, Ids
<1>2. GraphTypes /\ DuplicateKept /\ [GraphNext]_graphVars => DuplicateKept'
  <2>1. CASE UNCHANGED graphVars
    BY <2>1 DEF graphVars, records, DuplicateKept, Key, Ids
  <2> QED
    BY <2>1, GraphAssumption, DuplicateNext
<1> QED
  BY <1>1, <1>2, TypesInvariant, PTL DEF GraphSpec

-----------------------------------------------------------------------------
(* Answers: what can be outstanding.                                        *)

(* Only a new reviewer has a new request to answer.                         *)
LEMMA RequestsFall ==
  ASSUME GraphAssumption, GraphTypes, GraphNext, ~ MakeReviewer, ~ GraphCrash,
         NEW w \in DOMAIN panel'
  PROVE  /\ w \in DOMAIN panel
         /\ panel'[w].request = "queued" => panel[w].request = "queued"
         /\ ToAnswer(w)' => ToAnswer(w)
<1>0. InPhase /\ panel \in Seq(Panelists)
  BY DEF GraphTypes, RecordsOK
<1>1. CASE AnswerRequest
  <2>1. PICK v \in DOMAIN panel :
          /\ DOMAIN panel' = DOMAIN panel
          /\ \A u \in DOMAIN panel : panel'[u].request = panel[u].request
          /\ hand' = [NoHand EXCEPT !.result = [worker |-> v]]
    BY <1>1, AnswerRequestEffect
  <2>2. gpc = "serve"
    BY <1>1 DEF AnswerRequest, Jump
  <2> QED
    BY <2>1, <2>2 DEF ToAnswer
<1>2. CASE ResolveRequest
  <2>1. /\ DOMAIN panel' = DOMAIN panel /\ hand.result.worker \in DOMAIN panel
        /\ panel'[hand.result.worker].request = "resolved"
        /\ \A u \in DOMAIN panel \ {hand.result.worker} : panel'[u] = panel[u]
    BY <1>2, ResolveRequestEffect
  <2> QED
    BY <2>1 DEF ToAnswer
<1>3. CASE SettleReviewer
  <2>1. /\ DOMAIN panel' = DOMAIN panel
        /\ \A u \in DOMAIN panel : panel'[u].request = panel[u].request
    BY <1>3, SettleReviewerEffect
  <2>2. gpc = "worker"
    BY <1>3 DEF SettleReviewer, Jump
  <2> QED
    BY <2>1, <2>2 DEF ToAnswer
<1>4. CASE ~ AnswerRequest /\ ~ ResolveRequest /\ ~ SettleReviewer
  <2>1. panel' = panel
    BY <1>4, NextCases, QuietEffect DEF MakeTask, AcknowledgeLetter, OrderTask, CloseTask, LinkReviewers,
       WriteTask, SyncPeer, EndSync, RecordAttempt, CloseAttempts, ReadResult, SettleParent,
       AcknowledgeResult, records
  <2>2. gpc # "resolve"
    BY <1>4, NextCases DEF Quiet, TakeLetter, SwallowResult, TakeIn, EndIntake, BeginOrder, EndFollowUps,
       TakeChild, EndChildren, BeginRunOnce, TakeBest, NothingToDo, ApplyAnswer, ApplyNothing,
       ApplyByConsensus, EndServe, BeginClosing, EndClosing,
       MakeTask, AcknowledgeLetter, OrderTask, CloseTask, LinkReviewers,
       WriteTask, SyncPeer, EndSync, RecordAttempt, CloseAttempts, ReadResult, SettleParent,
       AcknowledgeResult, Jump
  <2> QED
    BY <2>1, <2>2 DEF ToAnswer
<1> QED
  BY <1>1, <1>2, <1>3, <1>4

(* A new result answers a request that was to be answered.                  *)
LEMMA ResultsCome ==
  ASSUME GraphAssumption, GraphTypes, GraphNext, NEW r \in unread'
  PROVE  \/ r \in unread
         \/ /\ AnswerRequest /\ r.worker \in DOMAIN panel /\ ToAnswer(r.worker)
            /\ ~ ToAnswer(r.worker)' /\ \A s \in unread' : s \in unread \/ s = r
<1>1. CASE AnswerRequest
  <2>1. PICK w \in DOMAIN panel, a \in Said :
          /\ panel[w].request = "queued"
          /\ unread' = unread \cup {[worker |-> w, answer |-> a]}
          /\ hand' = [NoHand EXCEPT !.result = [worker |-> w]]
    BY <1>1, AnswerRequestEffect
  <2>2. gpc = "serve" /\ gpc' = "resolve"
    BY <1>1 DEF AnswerRequest, Jump
  <2>3. hand'.result.worker = w
    BY <2>1 DEF NoHand
  <2>4. ToAnswer(w) /\ ~ ToAnswer(w)'
    BY <2>1, <2>2, <2>3 DEF ToAnswer
  <2>5. [worker |-> w, answer |-> a].worker = w
    OBVIOUS
  <2> QED
    BY <1>1, <2>1, <2>4, <2>5
<1>2. CASE ~ AnswerRequest
  BY <1>2, NextCases, QuietEffect DEF MakeTask, AcknowledgeLetter, OrderTask, CloseTask, LinkReviewers,
     WriteTask, SyncPeer, EndSync, RecordAttempt, CloseAttempts, ReadResult, SettleParent,
     MakeReviewer, ResolveRequest, SettleReviewer, GraphCrash, AcknowledgeResult, records
<1> QED
  BY <1>1, <1>2

LEMMA NoHandFields ==
  NoHand.flow = "none" /\ NoHand.task = 0 /\ NoHand.way = "none"
  BY DEF NoHand

(* A handler of results goes on until it has acknowledged its result.       *)
LEMMA HandlerGoesOn ==
  ASSUME GraphAssumption, GraphTypes, GraphNext, ~ GraphCrash, hand.flow = "result",
         ~ AcknowledgeResult
  PROVE  hand'.flow = "result" /\ hand'.result = hand.result /\ hand'.task = hand.task
         /\ hand'.way = hand.way
<1>0. InPhase
  BY DEF GraphTypes
<1>1. gpc \notin Between \cup Executing \cup {"resolve"}
  <2>1. gpc \in Between => hand.flow = "none"
    BY <1>0, NoHandFields DEF InPhase
  <2>2. gpc = "resolve" => hand.flow = "none"
    BY <1>0 DEF InPhase, NoHand
  <2>3. gpc \in Executing => hand.flow = "direct"
    BY <1>0 DEF InPhase
  <2> QED
    BY <2>1, <2>2, <2>3
<1>2. CASE BeginOrder \/ EndFollowUps \/ OrderTask \/ EndSync \/ SettleParent \/ SettleReviewer
  BY <1>2 DEF BeginOrder, EndFollowUps, OrderTask, EndSync, SettleParent, SettleReviewer
<1>3. CASE MakeTask
  BY <1>0, <1>3 DEF MakeTask, InPhase
<1>4. CASE SyncPeer
  <2>1. PICK p : hand' = [hand EXCEPT !.peers = @ \ {p}]
    BY <1>4 DEF SyncPeer
  <2> QED
    BY <1>0, <2>1 DEF InPhase
<1>5. ~ BeginOrder /\ ~ EndFollowUps /\ ~ OrderTask /\ ~ EndSync /\ ~ SettleParent /\ ~ SettleReviewer
      /\ ~ MakeTask /\ ~ SyncPeer => FALSE
  <2>1. SUFFICES ASSUME ~ BeginOrder, ~ EndFollowUps, ~ OrderTask, ~ EndSync, ~ SettleParent,
                        ~ SettleReviewer, ~ MakeTask, ~ SyncPeer
                 PROVE  FALSE
    OBVIOUS
  <2>2. AcknowledgeLetter => FALSE
    BY DEF AcknowledgeLetter
  <2>3. Quiet => FALSE
    BY <1>1, <2>1 DEF Quiet, TakeLetter, SwallowResult, TakeIn, EndIntake,
       TakeChild, EndChildren, BeginRunOnce, TakeBest, NothingToDo, ApplyAnswer, ApplyNothing,
       ApplyByConsensus, EndServe, BeginClosing, EndClosing, Jump, Between, Executing
  <2>4. CloseTask \/ MakeReviewer \/ LinkReviewers \/ WriteTask \/ RecordAttempt
        \/ AnswerRequest \/ ResolveRequest \/ CloseAttempts \/ ReadResult => FALSE
    BY <1>1 DEF CloseTask, MakeReviewer, LinkReviewers, WriteTask, RecordAttempt, AnswerRequest,
       ResolveRequest, CloseAttempts, ReadResult, Jump, Between, Executing
  <2> QED
    BY <2>1, <2>2, <2>3, <2>4, NextCases
<1> QED
  BY <1>2, <1>3, <1>4, <1>5

LEMMA InHandStays ==
  ASSUME GraphAssumption, GraphTypes, GraphNext, ~ GraphCrash, NEW r \in unread', InHand(r)
  PROVE  InHand(r)'
<1>1. hand.flow = "result" /\ hand.result = r
  BY DEF InHand
<1>2. ~ AcknowledgeResult
  BY <1>1 DEF AcknowledgeResult
<1> QED
  BY <1>1, <1>2, HandlerGoesOn DEF InHand

LEMMA OutstandingFalls ==
  ASSUME GraphAssumption, GraphTypes, GraphNext, ~ MakeReviewer, ~ GraphCrash,
         NEW t, Outstanding(t)'
  PROVE  Outstanding(t)
<1>1. PICK w \in Reviewers(t)' :
        ToAnswer(w)' \/ \E r \in unread' : r.worker = w /\ ~ InHand(r)'
  BY DEF Outstanding
<1>2. w \in Reviewers(t)
  <2>1. w \in DOMAIN panel' /\ panel'[w].task = t
    BY DEF Reviewers
  <2>2. w \in DOMAIN panel
    BY <2>1, RequestsFall
  <2>3. panel[w].task = t
    BY <2>1, <2>2, Grows DEF PanelKept
  <2> QED
    BY <2>2, <2>3 DEF Reviewers
<1>3. CASE ToAnswer(w)'
  <2>1. ToAnswer(w)
    BY <1>3, RequestsFall DEF Reviewers
  <2> QED
    BY <1>2, <2>1 DEF Outstanding
<1>4. CASE \E r \in unread' : r.worker = w /\ ~ InHand(r)'
  <2>1. PICK r \in unread' : r.worker = w /\ ~ InHand(r)'
    BY <1>4
  <2>2. CASE r \in unread
    <3>1. ~ InHand(r)
      BY <2>1, InHandStays
    <3> QED
      BY <1>2, <2>1, <2>2, <3>1 DEF Outstanding
  <2>3. CASE ToAnswer(r.worker)
    BY <1>2, <2>1, <2>3 DEF Outstanding
  <2> QED
    BY <2>2, <2>3, ResultsCome
<1> QED
  BY <1>1, <1>3, <1>4

(* A new reviewer, and nothing heard of it.                                 *)
LEMMA NewReviewerUnheard ==
  ASSUME GraphTypes, ReviewInv, NEW w, w \notin DOMAIN panel
  PROVE  Unheard(w) /\ \A r \in unread : r.worker # w
<1>1. \A t \in Ids : \A e \in table[t].review.heard : e.worker # w
  BY DEF ReviewInv, ReviewOK
<1>2. hand.flow \in {"direct", "result"} => \A e \in hand.read.review.heard : e.worker # w
  BY DEF ReviewInv, ReviewOK
<1>3. \A r \in unread : r.worker # w
  BY DEF GraphTypes, RecordsOK
<1> QED
  BY <1>1, <1>2, <1>3 DEF Unheard

(* Who was not heard is heard only when its result is read.                 *)
LEMMA UnheardStays ==
  ASSUME GraphAssumption, GraphTypes, GraphNext, NEW w, Unheard(w),
         ReadResult => hand'.result.worker # w
  PROVE  Unheard(w)'
<1>1. ASSUME NEW t \in Ids', NEW e \in table'[t].review.heard
      PROVE  e.worker # w
  <2>1. CASE t \in Ids /\ table'[t].review = table[t].review
    BY <1>1, <2>1 DEF Unheard
  <2>2. CASE /\ hand.flow \in {"direct", "result"} /\ t = hand.task
             /\ table'[t].review = hand.read.review
    BY <1>1, <2>2 DEF Unheard
  <2>3. CASE table'[t].review \in {NoReview, [NoReview EXCEPT !.state = "pending"]}
    BY <1>1, <2>3 DEF NoReview
  <2> QED
    BY <1>1, <2>1, <2>2, <2>3, ReviewWritten
<1>2. ASSUME hand'.flow \in {"direct", "result"}, NEW e \in hand'.read.review.heard
      PROVE  e.worker # w
  <2>1. CASE ReadResult
    <3>1. PICK r \in unread, p \in Plans : Reads(r, p)
      BY <2>1, ReadResultEffect
    <3> DEFINE t == panel[r.worker].task
    <3>2. t \in Ids /\ table \in Seq(Tasks)
      BY DEF GraphTypes, RecordsOK
    <3>3. table[t] \in Tasks
      BY <3>2 DEF Ids
    <3>4. hand'.result = r /\ hand'.read = [table[t] EXCEPT !.status = VerdictStatus(Verdict(r)),
             !.review = [state |-> Verdict(r), heard |-> Heard(table[t].review, r),
                         count |-> table[t].review.count + 1]]
      BY <3>1 DEF Reads
    <3> HIDE DEF t
    <3>5. hand'.read.review.heard = Heard(table[t].review, r)
      BY <3>3, <3>4 DEF Tasks
    <3>6. e \in table[t].review.heard \/ e = Entry(table[t].review, r)
      BY <1>2, <3>5 DEF Heard
    <3>7. Entry(table[t].review, r).worker = r.worker
      BY DEF Entry
    <3> QED
      BY <2>1, <3>2, <3>4, <3>6, <3>7 DEF Unheard
  <2>2. CASE hand.flow = hand'.flow /\ hand'.read.review = hand.read.review
    BY <1>2, <2>2 DEF Unheard
  <2>3. CASE hand'.task \in Ids /\ hand'.read.review = table[hand'.task].review
    BY <1>2, <2>3 DEF Unheard
  <2> QED
    BY <1>2, <2>1, <2>2, <2>3, ReviewTaken
<1> QED
  BY <1>1, <1>2 DEF Unheard

LEMMA AnswersOnceNext ==
  ASSUME GraphAssumption, GraphTypes, ReviewInv, AnswersOnce, GraphNext, ~ GraphCrash
  PROVE  AnswersOnce'
<1>0. GraphTypes' /\ PanelKept
  BY TypesNext, Grows
<1>1. ReadResult => hand'.result \in unread /\ hand.flow # "result" /\ unread' = unread
                    /\ hand'.flow = "result" /\ panel' = panel
  <2>1. ASSUME ReadResult
        PROVE  hand'.result \in unread /\ hand'.flow = "result"
    <3>1. PICK r \in unread, p \in Plans : Reads(r, p)
      BY <2>1, ReadResultEffect
    <3>2. hand'.result = r /\ hand'.flow = "result"
      BY <3>1 DEF Reads
    <3> QED
      BY <3>2
  <2>2. ReadResult => hand.flow # "result"
    BY NoHandFields DEF ReadResult, GraphTypes, InPhase, Between
  <2> QED
    BY <2>1, <2>2 DEF ReadResult, records
<1>2. ASSUME NEW w \in DOMAIN panel', ToAnswer(w)'
      PROVE  Unheard(w)' /\ \A r \in unread' : r.worker # w
  <2>1. CASE w \in DOMAIN panel /\ ToAnswer(w)
    <3>1. Unheard(w) /\ \A r \in unread : r.worker # w
      BY <2>1 DEF AnswersOnce
    <3>2. Unheard(w)'
      BY <1>1, <3>1, UnheardStays
    <3>3. ASSUME NEW r \in unread' PROVE r.worker # w
      BY <1>2, <3>1, <3>3, ResultsCome
    <3> QED
      BY <3>2, <3>3
  <2>2. CASE MakeReviewer
    <3>1. CASE w \in DOMAIN panel
      <4>1. panel'[w] = panel[w] /\ gpc = "review"
        BY <2>2, <3>1, MakeReviewerEffect DEF MakeReviewer
      <4>2. ToAnswer(w)
        BY <1>2, <4>1 DEF ToAnswer
      <4> QED
        BY <2>1, <3>1, <4>2
    <3>2. CASE w \notin DOMAIN panel
      <4>1. Unheard(w) /\ \A r \in unread : r.worker # w
        BY <3>2, NewReviewerUnheard
      <4>2. ~ ReadResult /\ unread' = unread
        BY <2>2 DEF MakeReviewer, ReadResult
      <4> QED
        BY <4>1, <4>2, UnheardStays
    <3> QED
      BY <3>1, <3>2
  <2> QED
    BY <1>2, <2>1, <2>2, RequestsFall
<1>3. ASSUME NEW r \in unread', NEW s \in unread', r.worker = s.worker
      PROVE  r = s
  <2>1. CASE r \in unread /\ s \in unread
    BY <1>3, <2>1 DEF AnswersOnce
  <2>2. CASE r \notin unread \/ s \notin unread
    BY <1>3, <2>2, ResultsCome DEF AnswersOnce
  <2> QED
    BY <2>1, <2>2
<1>4. ASSUME NEW r \in unread', ~ InHand(r)'
      PROVE  Unheard(r.worker)'
  <2>1. CASE r \in unread
    <3>1. Unheard(r.worker)
      BY <1>4, <2>1, InHandStays DEF AnswersOnce
    <3>2. ReadResult => hand'.result.worker # r.worker
      <4>1. SUFFICES ASSUME ReadResult, hand'.result.worker = r.worker PROVE FALSE
        OBVIOUS
      <4>2. hand'.result = r
        BY <1>1, <2>1, <4>1 DEF AnswersOnce
      <4> QED
        BY <1>1, <1>4, <4>1, <4>2 DEF InHand
    <3> QED
      BY <3>1, <3>2, UnheardStays
  <2>2. CASE AnswerRequest /\ r.worker \in DOMAIN panel /\ ToAnswer(r.worker)
    <3>1. Unheard(r.worker)
      BY <2>2 DEF AnswersOnce
    <3>2. ~ ReadResult
      BY <2>2 DEF AnswerRequest, ReadResult, Jump
    <3> QED
      BY <3>1, <3>2, UnheardStays
  <2> QED
    BY <2>1, <2>2, ResultsCome
<1> QED
  BY <1>2, <1>3, <1>4 DEF AnswersOnce

(* Where a step leads from a phase in which requests may be open.           *)
LEMMA WhileServing ==
  ASSUME GraphAssumption, GraphTypes, GraphNext, ~ GraphCrash, ~ EndServe,
         gpc \notin {"reconcile", "inbox", "close", "intake", "start", "queue"},
         hand.flow \notin {"intake", "result"}
  PROVE  /\ gpc' \notin {"reconcile", "inbox", "close", "intake", "start", "queue"}
         /\ hand'.flow \notin {"intake", "result"}
<1>0. InPhase /\ HandOK
  BY DEF GraphTypes
<1>1. CASE TakeChild
  <2>1. PICK t \in Children : Take(t, "children")
    BY <1>1 DEF TakeChild
  <2> QED
    BY <1>1, <2>1, HandTaken, Candidates DEF TakeChild
<1>2. CASE EndChildren \/ BeginOrder \/ EndFollowUps \/ OrderTask \/ EndSync \/ LinkReviewers
  BY <1>2 DEF EndChildren, BeginOrder, EndFollowUps, AfterFollowUps, OrderTask, EndSync,
              BeginFollowUps, LinkReviewers, Jump
<1>3. CASE AnswerRequest
  <2>1. PICK w : hand' = [NoHand EXCEPT !.result = [worker |-> w]]
    BY <1>3, AnswerRequestEffect
  <2>2. hand'.flow = "none"
    BY <2>1 DEF NoHand
  <2> QED
    BY <1>3, <2>2 DEF AnswerRequest, Jump
<1>4. CASE ResolveRequest \/ RecordAttempt
  BY <1>4, NoHandFields DEF ResolveRequest, RecordAttempt, Jump
<1>5. CASE MakeTask \/ MakeReviewer
  <2>1. PICK m : hand' = [hand EXCEPT !.made = m]
    BY <1>5 DEF MakeTask, MakeReviewer
  <2>2. hand'.flow = hand.flow
    BY <1>0, <2>1 DEF InPhase
  <2> QED
    BY <1>5, <2>2 DEF MakeTask, MakeReviewer
<1>6. CASE ApplyAnswer
  <2>1. PICK p : hand' = [hand EXCEPT !.way = "answered", !.plan = p]
    BY <1>6 DEF ApplyAnswer
  <2>2. hand'.flow = hand.flow
    BY <1>0, <2>1 DEF InPhase
  <2> QED
    BY <1>6, <2>2 DEF ApplyAnswer, Jump
<1>7. CASE ApplyNothing \/ ApplyByConsensus
  <2>1. PICK w : hand' = [hand EXCEPT !.way = w]
    BY <1>7 DEF ApplyNothing, ApplyByConsensus
  <2>2. hand'.flow = hand.flow
    BY <1>0, <2>1 DEF InPhase
  <2> QED
    BY <1>7, <2>2 DEF ApplyNothing, ApplyByConsensus, Jump
<1>8. CASE WriteTask
  <2>1. hand'.flow = hand.flow
    BY <1>0, <1>8 DEF WriteTask, InPhase
  <2> QED
    BY <1>8, <2>1 DEF WriteTask, Jump
<1>9. CASE SyncPeer
  <2>1. PICK p : hand' = [hand EXCEPT !.peers = @ \ {p}]
    BY <1>9 DEF SyncPeer
  <2>2. hand'.flow = hand.flow
    BY <1>0, <2>1 DEF InPhase
  <2> QED
    BY <1>9, <2>2 DEF SyncPeer
<1>10. ~ TakeLetter /\ ~ SwallowResult /\ ~ EndIntake /\ ~ BeginRunOnce /\ ~ TakeBest
       /\ ~ NothingToDo /\ ~ BeginClosing /\ ~ EndClosing /\ ~ CloseTask /\ ~ CloseAttempts
       /\ ~ ReadResult
  BY DEF TakeLetter, SwallowResult, TakeIn, EndIntake, BeginRunOnce, TakeBest, NothingToDo,
         BeginClosing, EndClosing, CloseTask, CloseAttempts, ReadResult, Jump
<1>11. ~ AcknowledgeLetter
  BY DEF AcknowledgeLetter
<1>12. ~ SettleParent /\ ~ SettleReviewer /\ ~ AcknowledgeResult
  BY <1>0 DEF InPhase, SettleParent, SettleReviewer, AcknowledgeResult, Jump, Settling
<1> QED
  BY <1>1, <1>2, <1>3, <1>4, <1>5, <1>6, <1>7, <1>8, <1>9, <1>10, <1>11, <1>12, NextCases DEF Quiet

LEMMA WhileReading ==
  ASSUME GraphAssumption, GraphTypes, GraphNext, ~ GraphCrash, ~ BeginClosing,
         gpc \notin {"close", "intake", "start", "queue"}, hand.flow # "intake"
  PROVE  gpc' \notin {"close", "intake", "start", "queue"} /\ hand'.flow # "intake"
<1>0. InPhase /\ HandOK
  BY DEF GraphTypes
<1>1. CASE EndServe \/ CloseAttempts
  BY <1>1 DEF EndServe, CloseAttempts, Jump
<1>2. CASE ReadResult
  <2>1. PICK r \in unread, p \in Plans : Reads(r, p)
    BY <1>2, ReadResultEffect
  <2>2. hand'.flow = "result"
    BY <2>1 DEF Reads
  <2> QED
    BY <1>2, <2>2 DEF ReadResult
<1>3. CASE hand.flow = "result" /\ ~ AcknowledgeResult
  <2>1. hand'.flow = "result"
    BY <1>3, HandlerGoesOn
  <2>2. gpc' \in Between => hand'.flow = "none"
    BY NoHandFields, PhaseNext DEF InPhase
  <2> QED
    BY <2>1, <2>2 DEF Between
<1>4. CASE AcknowledgeResult
  BY <1>4, NoHandFields DEF AcknowledgeResult, Jump
<1>5. CASE gpc \in {"reconcile", "inbox"} /\ ~ CloseAttempts /\ ~ ReadResult
  <2>1. ~ EndServe /\ ~ AcknowledgeResult
    BY <1>5 DEF EndServe, AcknowledgeResult, Jump
  <2>2. ~ Quiet
    BY <1>5 DEF Quiet, TakeLetter, SwallowResult, TakeIn, EndIntake, BeginOrder, EndFollowUps,
       TakeChild, EndChildren, BeginRunOnce, TakeBest, NothingToDo, ApplyAnswer, ApplyNothing,
       ApplyByConsensus, EndServe, EndClosing, Jump
  <2>3. ~ MakeTask /\ ~ AcknowledgeLetter /\ ~ OrderTask /\ ~ CloseTask /\ ~ MakeReviewer
        /\ ~ LinkReviewers /\ ~ WriteTask /\ ~ SyncPeer /\ ~ EndSync /\ ~ RecordAttempt
        /\ ~ AnswerRequest /\ ~ ResolveRequest /\ ~ SettleParent /\ ~ SettleReviewer
    BY <1>5 DEF MakeTask, AcknowledgeLetter, OrderTask, CloseTask, MakeReviewer, LinkReviewers,
       WriteTask, SyncPeer, EndSync, RecordAttempt, AnswerRequest, ResolveRequest, SettleParent,
       SettleReviewer, Jump
  <2> QED
    BY <1>5, <2>1, <2>2, <2>3, NextCases
<1>6. CASE /\ gpc \notin {"reconcile", "inbox", "close", "intake", "start", "queue"}
           /\ hand.flow \notin {"intake", "result"} /\ ~ EndServe
  BY <1>6, WhileServing
<1> QED
  BY <1>1, <1>2, <1>3, <1>4, <1>5, <1>6

LEMMA DrainedNext ==
  ASSUME GraphAssumption, GraphTypes, Drained, GraphNext, ~ GraphCrash
  PROVE  Drained'
<1> DEFINE NoneQueued == \A w \in DOMAIN panel : panel[w].request # "queued"
<1>0. InPhase /\ InPhase'
  BY PhaseNext DEF GraphTypes
<1>1. ASSUME \/ gpc' \in {"reconcile", "inbox", "close", "intake", "start", "queue"}
             \/ hand'.flow \in {"intake", "result"}
      PROVE  NoneQueued'
  <2>1. ~ MakeReviewer
    <3>1. SUFFICES ASSUME MakeReviewer PROVE FALSE
      OBVIOUS
    <3>2. gpc' = "review"
      BY <3>1 DEF MakeReviewer
    <3>3. hand'.flow = "direct"
      BY <1>0, <3>2 DEF InPhase, Executing
    <3> QED
      BY <1>1, <3>2, <3>3
  <2>2. NoneQueued
    BY <1>1, WhileServing DEF Drained, EndServe
  <2> QED
    BY <2>1, <2>2, RequestsFall
<1>2. ASSUME gpc' \in {"close", "intake", "start", "queue"} \/ hand'.flow = "intake"
      PROVE  unread' = {}
  <2>1. unread = {}
    BY <1>2, WhileReading DEF Drained, BeginClosing
  <2>2. ~ AnswerRequest
    <3>1. SUFFICES ASSUME AnswerRequest PROVE FALSE
      OBVIOUS
    <3>2. gpc' = "resolve"
      BY <3>1 DEF AnswerRequest, Jump
    <3>3. PICK w : hand' = [NoHand EXCEPT !.result = [worker |-> w]]
      BY <3>1, AnswerRequestEffect
    <3>4. hand'.flow = "none"
      BY <3>3 DEF NoHand
    <3> QED
      BY <1>2, <3>2, <3>4
  <2> QED
    BY <2>1, <2>2, ResultsCome
<1> QED
  BY <1>1, <1>2 DEF Drained

LEMMA OnceInvariant == GraphSpec => []OnceInv
<1>1. GraphInit => OnceInv
  <2>1. GraphInit => DOMAIN panel = {} /\ unread = {}
    BY DEF GraphInit
  <2> QED
    BY <2>1 DEF OnceInv, AnswersOnce, Drained
<1>2. GraphTypes /\ ReviewInv /\ OnceInv /\ [GraphNext]_graphVars => OnceInv'
  <2>1. CASE UNCHANGED graphVars
    <3>1. UNCHANGED <<table, panel, unread, hand, gpc, gcrashes>>
      BY <2>1 DEF graphVars, records, locals, ghistory
    <3> QED
      BY <3>1 DEF OnceInv, AnswersOnce, Drained, ToAnswer, Unheard, InHand, Ids
  <2>2. CASE GraphCrash /\ GraphTypes
    BY <2>2 DEF GraphCrash, OnceInv, GraphTypes, RecordsOK
  <2>3. CASE GraphNext /\ ~ GraphCrash
    <3>1. gcrashes' = gcrashes
      BY <2>3, NextCases, QuietEffect DEF MakeTask, AcknowledgeLetter, OrderTask, CloseTask,
         MakeReviewer, LinkReviewers, WriteTask, SyncPeer, EndSync, RecordAttempt, AnswerRequest,
         ResolveRequest, CloseAttempts, ReadResult, SettleParent, SettleReviewer, AcknowledgeResult,
         ghistory
    <3> QED
      BY <2>3, <3>1, GraphAssumption, AnswersOnceNext, DrainedNext DEF OnceInv
  <2> QED
    BY <2>1, <2>2, <2>3
<1> QED
  BY <1>1, <1>2, TypesInvariant, ReviewInvariant, PTL DEF GraphSpec

-----------------------------------------------------------------------------
(* Answers that are final.                                                  *)

(* A record with a carrier keeps one, so who is on its own was before.      *)
LEMMA OwnBefore ==
  ASSUME GraphAssumption, GraphTypes, GraphNext, NEW t \in Ids, OnItsOwn(t)'
  PROVE  OnItsOwn(t)
<1>1. table[t].under = 0
  <2>1. CASE SyncPeer
    <3>1. PICK p \in hand.peers :
            Changes(p, [table[p] EXCEPT !.status = hand.read.status, !.under = hand.task])
      BY <2>1, SyncPeerEffect
    <3>2. table[p] \in Tasks /\ hand.task # 0
      BY <2>1, <3>1 DEF SyncPeer, GraphTypes, InPhase, HandOK, RecordsOK, Changes, Ids
    <3>3. CASE t = p
      <4>1. table'[t].under = hand.task
        BY <3>1, <3>2, <3>3 DEF Changes, Tasks
      <4> QED
        BY <3>2, <4>1 DEF OnItsOwn
    <3>4. CASE t # p
      BY <3>1, <3>4 DEF Changes, OnItsOwn
    <3> QED
      BY <3>3, <3>4
  <2>2. CASE ~ SyncPeer
    BY <2>2, TaskKept DEF OnItsOwn
  <2> QED
    BY <2>1, <2>2
<1>2. gcrashes' = 0 => gcrashes = 0
  <2>1. gcrashes \in Nat
    BY DEF GraphTypes, RecordsOK
  <2>2. CASE GraphCrash
    BY <2>1, <2>2 DEF GraphCrash
  <2>3. CASE ~ GraphCrash
    BY <2>3, NextCases, QuietEffect DEF MakeTask, AcknowledgeLetter, OrderTask, CloseTask,
       MakeReviewer, LinkReviewers, WriteTask, SyncPeer, EndSync, RecordAttempt, AnswerRequest,
       ResolveRequest, CloseAttempts, ReadResult, SettleParent, SettleReviewer, AcknowledgeResult,
       ghistory
  <2> QED
    BY <2>2, <2>3
<1>3. Reviewers(t)' = {} => Reviewers(t) = {}
  BY Grows DEF PanelKept, Reviewers
<1> QED
  BY <1>1, <1>2, <1>3 DEF OnItsOwn

LEMMA ReviewersFinite ==
  ASSUME GraphTypes, NEW t
  PROVE  IsFiniteSet(Reviewers(t)) /\ Cardinality(Reviewers(t)) \in Nat
<1>1. DOMAIN panel = 1 .. Len(panel) /\ Len(panel) \in Nat
  BY DEF GraphTypes, RecordsOK
<1>2. IsFiniteSet(DOMAIN panel) /\ Reviewers(t) \subseteq DOMAIN panel
  BY <1>1, FS_Interval DEF Reviewers
<1> QED
  BY <1>2, FS_Subset, FS_CardinalityType

(* Until the reviewers of t are linked to it, its review is on record.      *)
LEMMA NextReviewOnRecord ==
  ASSUME GraphTypes, NEW t, ~ (gpc = "write" /\ hand.task = t /\ hand.way = "delegated")
  PROVE  NextReview(t) = table[t].review
<1>1. CASE gpc = "write" /\ hand.task = t
  <2>1. hand.flow = "direct"
    BY <1>1 DEF GraphTypes, InPhase, Executing
  <2>2. table[t].review = hand.read.review
    BY <1>1, <2>1 DEF GraphTypes, CopyOK
  <2> QED
    BY <1>1, <2>2 DEF NextReview, MergedReview
<1> QED
  BY <1>1 DEF NextReview

(* What is in hand concerns another task.                                   *)
LEMMA Elsewhere ==
  ASSUME NEW t, OwnOK(t), hand.task # t, hand'.task # t,
         table'[t].status = table[t].status, table'[t].review = table[t].review,
         spawned'[t] = spawned[t], t \in earned' => t \in earned,
         Reviewers(t)' = Reviewers(t), Outstanding(t)' => Outstanding(t)
  PROVE  OwnOK(t)'
<1>1. ~ Making(t) /\ ~ Making(t)' /\ ~ Approving(t) /\ ~ Approving(t)'
  BY DEF Making, Approving
<1>2. Disagreed(t)' <=> Disagreed(t)
  BY DEF Disagreed, NextReview
<1>3. AnswerFinal(t)'
  BY <1>1 DEF OwnOK, AnswerFinal, Is
<1>4. PanelsOK(t)'
  BY <1>1, <1>2 DEF OwnOK, PanelsOK, Is
<1>5. CandidateOK(t)' /\ HearingOK(t)'
  BY DEF CandidateOK, HearingOK
<1> QED
  BY <1>3, <1>4, <1>5 DEF OwnOK

(* Steps that leave the answers of all tasks and what is awaited of them.   *)
Plain ==
  TakeLetter \/ SwallowResult \/ EndIntake \/ BeginOrder \/ EndFollowUps \/ EndChildren
  \/ BeginRunOnce \/ NothingToDo \/ EndServe \/ BeginClosing \/ EndClosing \/ MakeTask
  \/ AcknowledgeLetter \/ OrderTask \/ RecordAttempt \/ AnswerRequest \/ ResolveRequest
  \/ CloseAttempts \/ SettleReviewer \/ AcknowledgeResult

Hearing == hand.flow = "result" /\ gpc \in {"make", "order", "sync", "settle"}

LEMMA PlainRecords ==
  ASSUME GraphAssumption, GraphTypes, Plain, NEW t \in Ids
  PROVE  /\ table'[t].status = table[t].status /\ table'[t].review = table[t].review
         /\ earned' = earned /\ spawned' = spawned
         /\ Reviewers(t)' = Reviewers(t)
<1>1. CASE Quiet
  BY <1>1, QuietEffect DEF records, ghistory, Reviewers
<1>2. CASE MakeTask
  BY <1>2, MakeTaskEffect DEF Creates, MakeTask, ghistory, Reviewers
<1>3. CASE OrderTask \/ RecordAttempt \/ CloseAttempts
  BY <1>3, OrderTaskEffect, RecordAttemptEffect, CloseAttemptsEffect
     DEF Touches, Touched, OrderTask, RecordAttempt, CloseAttempts, ghistory, Reviewers
<1>4. CASE AcknowledgeLetter \/ AcknowledgeResult
  BY <1>4 DEF AcknowledgeLetter, AcknowledgeResult, ghistory, Reviewers
<1>5. CASE AnswerRequest \/ ResolveRequest \/ SettleReviewer
  <2>1. PanelKept /\ DOMAIN panel' = DOMAIN panel
    BY <1>5, AnswerRequestEffect, ResolveRequestEffect, SettleReviewerEffect
  <2> QED
    BY <1>5, <2>1 DEF AnswerRequest, ResolveRequest, SettleReviewer, ghistory, Reviewers, PanelKept
<1> QED
  BY <1>1, <1>2, <1>3, <1>4, <1>5 DEF Plain, Quiet

LEMMA PlainPhases ==
  ASSUME GraphAssumption, GraphTypes, Plain
  PROVE  /\ gpc \notin {"review", "write"} /\ gpc' \notin {"apply", "review", "write"}
         /\ hand'.flow = "direct" => gpc' # "sync"
         /\ Hearing <=> Hearing'
         /\ Hearing => hand'.task = hand.task /\ hand'.way = hand.way
<1>0. InPhase /\ GraphNext
  BY NextCases DEF GraphTypes, Plain, Quiet
<1>1. CASE TakeLetter \/ SwallowResult
  <2>1. hand'.flow = "intake" /\ gpc = "intake" /\ gpc' = "make"
    BY <1>1 DEF TakeLetter, SwallowResult, TakeIn, NoHand, Jump
  <2>2. ~ Hearing
    BY <2>1 DEF Hearing
  <2> QED
    BY <2>1, <2>2 DEF Hearing
<1>2. CASE EndIntake \/ EndChildren \/ BeginRunOnce \/ NothingToDo \/ EndServe \/ BeginClosing
           \/ EndClosing \/ CloseAttempts
  <2>1. gpc \in Between /\ gpc' \in Between /\ hand' = hand
    BY <1>2 DEF EndIntake, EndChildren, BeginRunOnce, NothingToDo, EndServe, BeginClosing, EndClosing,
         CloseAttempts, Jump, Between
  <2> QED
    BY <2>1 DEF Hearing, Between
<1>3. CASE BeginOrder \/ OrderTask
  BY <1>3 DEF BeginOrder, OrderTask, Jump, Hearing
<1>4. CASE EndFollowUps
  BY <1>4 DEF EndFollowUps, AfterFollowUps, Jump, Hearing
<1>5. CASE MakeTask
  <2>1. PICK m : hand' = [hand EXCEPT !.made = m]
    BY <1>5 DEF MakeTask
  <2>2. hand'.flow = hand.flow /\ hand'.task = hand.task /\ hand'.way = hand.way
    BY <1>0, <2>1 DEF InPhase
  <2> QED
    BY <1>5, <2>2 DEF MakeTask, Hearing
<1>6. CASE AcknowledgeLetter
  BY <1>6, NoHandFields DEF AcknowledgeLetter, Jump, Hearing
<1>7. CASE ResolveRequest \/ AcknowledgeResult \/ RecordAttempt
  BY <1>7, NoHandFields DEF ResolveRequest, AcknowledgeResult, RecordAttempt, Jump, Hearing
<1>8. CASE AnswerRequest
  BY <1>8 DEF AnswerRequest, Jump, Hearing
<1>9. CASE SettleReviewer
  BY <1>9 DEF SettleReviewer, Jump, Hearing
<1> QED
  BY <1>1, <1>2, <1>3, <1>4, <1>5, <1>6, <1>7, <1>8, <1>9 DEF Plain

LEMMA OwnPlain ==
  ASSUME GraphAssumption, GraphTypes, Plain, NEW t \in Ids, OwnOK(t)
  PROVE  OwnOK(t)'
<1>0. GraphNext /\ GraphTypes' /\ ~ MakeReviewer /\ ~ GraphCrash
  <2>1. GraphNext
    BY NextCases DEF Plain, Quiet
  <2>2. ~ MakeReviewer
    BY PlainPhases DEF MakeReviewer
  <2>3. ~ GraphCrash
    <3>1. gcrashes' = gcrashes /\ gcrashes \in Nat
      BY QuietEffect DEF GraphTypes, RecordsOK, Plain, Quiet, ghistory, MakeTask, AcknowledgeLetter,
         OrderTask, RecordAttempt, AnswerRequest, ResolveRequest, CloseAttempts, SettleReviewer,
         AcknowledgeResult
    <3> QED
      BY <3>1 DEF GraphCrash
  <2> QED
    BY <2>1, <2>2, <2>3, TypesNext
<1>1. ~ Making(t) /\ ~ Making(t)'
  BY PlainPhases DEF Making
<1>2. Approving(t)' <=> Approving(t)
  BY PlainPhases DEF Approving, Hearing
<1>3. Disagreed(t)' <=> Disagreed(t)
  BY PlainPhases, PlainRecords DEF Disagreed, NextReview
<1>4. Outstanding(t)' => Outstanding(t)
  BY <1>0, OutstandingFalls
<1>5. AnswerFinal(t)'
  BY <1>2, <1>4, PlainRecords DEF OwnOK, AnswerFinal, Is
<1>6. PanelsOK(t)'
  BY <1>1, <1>3, <1>4, PlainRecords DEF OwnOK, PanelsOK, Is
<1>7. CandidateOK(t)'
  BY PlainPhases DEF CandidateOK
<1>8. HearingOK(t)'
  BY <1>3, PlainPhases, PlainRecords DEF OwnOK, HearingOK, Hearing, Is
<1> QED
  BY <1>5, <1>6, <1>7, <1>8 DEF OwnOK

(* What a step of a handler does to a task that it does not have in hand.   *)
Handling ==
  TakeChild \/ TakeBest \/ ApplyAnswer \/ ApplyNothing \/ ApplyByConsensus \/ MakeReviewer
  \/ LinkReviewers \/ WriteTask \/ SyncPeer \/ EndSync \/ ReadResult \/ SettleParent

LEMMA OtherOutstanding ==
  ASSUME GraphAssumption, GraphTypes, MakeReviewer, NEW t, t # hand.task
  PROVE  /\ Reviewers(t)' = Reviewers(t)
         /\ Outstanding(t)' => Outstanding(t)
<1>1. /\ DOMAIN panel' = DOMAIN panel \cup {Len(panel) + 1}
      /\ panel'[Len(panel) + 1].task = hand.task
      /\ \A w \in DOMAIN panel : panel'[w] = panel[w]
      /\ Len(panel) + 1 \notin DOMAIN panel
  BY MakeReviewerEffect
<1>2. Reviewers(t)' = Reviewers(t)
  BY <1>1 DEF Reviewers
<1>3. hand'.flow = hand.flow /\ hand'.result = hand.result
  <2>1. PICK m : hand' = [hand EXCEPT !.made = m]
    BY DEF MakeReviewer
  <2> QED
    BY <2>1 DEF GraphTypes, InPhase
<1>4. gpc = "review" /\ gpc' = "review" /\ unread' = unread
  BY DEF MakeReviewer
<1>5. \A w \in Reviewers(t) : ToAnswer(w)' => ToAnswer(w)
  BY <1>1, <1>4 DEF ToAnswer, Reviewers
<1>6. \A r \in unread : InHand(r)' <=> InHand(r)
  BY <1>3 DEF InHand
<1> QED
  BY <1>2, <1>4, <1>5, <1>6 DEF Outstanding

LEMMA OwnOthers ==
  ASSUME GraphAssumption, GraphTypes, Handling, NEW t \in Ids, OnItsOwn(t)', OwnOK(t),
         hand.task # t, hand'.task # t
  PROVE  OwnOK(t)'
<1>0. GraphNext /\ ~ GraphCrash
  <2>1. GraphNext
    BY NextCases DEF Handling, Quiet
  <2>2. ~ GraphCrash
    <3>1. gcrashes' = gcrashes /\ gcrashes \in Nat
      BY QuietEffect DEF GraphTypes, RecordsOK, Handling, Quiet, ghistory, MakeReviewer, LinkReviewers,
         WriteTask, SyncPeer, EndSync, ReadResult, SettleParent
    <3> QED
      BY <3>1 DEF GraphCrash
  <2> QED
    BY <2>1, <2>2
<1>1. CASE Quiet
  <2>1. UNCHANGED <<table, panel, earned, spawned>>
    BY <1>1, QuietEffect DEF records, ghistory
  <2>2. Outstanding(t)' => Outstanding(t)
    <3>1. ~ MakeReviewer
      BY <2>1, MakeReviewerEffect
    <3> QED
      BY <1>0, <3>1, OutstandingFalls
  <2> QED
    BY <2>1, <2>2, Elsewhere DEF Reviewers
<1>2. CASE MakeReviewer
  <2>1. UNCHANGED <<table, earned, spawned>>
    BY <1>2 DEF MakeReviewer, ghistory
  <2> QED
    BY <1>2, <2>1, OtherOutstanding, Elsewhere
<1>3. CASE LinkReviewers \/ WriteTask \/ SettleParent
  <2>1. UNCHANGED <<panel, spawned>> /\ earned' \subseteq earned \cup {hand.task} /\ ~ MakeReviewer
    BY <1>3 DEF LinkReviewers, WriteTask, SettleParent, ghistory, MakeReviewer, Jump
  <2>2. table'[t] = table[t]
    BY <1>3, LinkReviewersEffect, WriteTaskEffect, SettleParentEffect DEF Changes
  <2>3. Outstanding(t)' => Outstanding(t)
    BY <1>0, <2>1, OutstandingFalls
  <2> QED
    BY <2>1, <2>2, <2>3, Elsewhere DEF Reviewers
<1>4. CASE SyncPeer
  <2>1. PICK p \in hand.peers :
          /\ earned' = earned \cup {u \in {p} : hand.read.status = "complete"}
          /\ Changes(p, [table[p] EXCEPT !.status = hand.read.status, !.under = hand.task])
    BY <1>4, SyncPeerEffect
  <2>2. table[p] \in Tasks /\ hand.task # 0
    BY <1>4, <2>1 DEF SyncPeer, GraphTypes, InPhase, HandOK, RecordsOK, Changes, Ids
  <2>3. t # p
    BY <2>1, <2>2 DEF Changes, Tasks, OnItsOwn
  <2>4. UNCHANGED <<panel, spawned>> /\ ~ MakeReviewer
    BY <1>4 DEF SyncPeer, MakeReviewer
  <2>5. table'[t] = table[t]
    BY <2>1, <2>3 DEF Changes
  <2>6. Outstanding(t)' => Outstanding(t)
    BY <1>0, <2>4, OutstandingFalls
  <2> QED
    BY <2>1, <2>3, <2>4, <2>5, <2>6, Elsewhere DEF Reviewers
<1>5. CASE EndSync \/ ReadResult
  <2>1. UNCHANGED <<table, panel, earned>> /\ ~ MakeReviewer
    BY <1>5 DEF EndSync, ReadResult, records, MakeReviewer
  <2>2. spawned'[t] = spawned[t]
    <3>1. \E h, k : h # t /\ spawned' = [spawned EXCEPT ![h] = k]
      <4>1. CASE EndSync
        BY <4>1 DEF EndSync, BeginFollowUps
      <4>2. CASE ReadResult
        <5>1. PICK r \in unread, p \in Plans : Reads(r, p)
          BY <4>2, ReadResultEffect
        <5> DEFINE h == panel[r.worker].task
                   n == IF Verdict(r) = "approved" THEN 1 ELSE 0
        <5>2. spawned' = [spawned EXCEPT ![h] = @ + n] /\ hand'.task = h
          BY <5>1 DEF Reads
        <5> HIDE DEF h, n
        <5> QED
          BY <5>2
      <4> QED
        BY <1>5, <4>1, <4>2
    <3> QED
      BY <3>1
  <2>3. Outstanding(t)' => Outstanding(t)
    BY <1>0, <2>1, OutstandingFalls
  <2> QED
    BY <2>1, <2>2, <2>3, Elsewhere DEF Reviewers
<1> QED
  BY <1>1, <1>2, <1>3, <1>4, <1>5 DEF Handling, Quiet

(* A candidate is taken when nothing is awaited of it.                      *)
LEMMA OwnTaken ==
  ASSUME GraphAssumption, GraphTypes, OnceInv, TakeChild \/ TakeBest, NEW t \in Ids, OnItsOwn(t),
         OwnOK(t), hand'.task = t
  PROVE  OwnOK(t)'
<1>0. GraphNext /\ InPhase /\ UNCHANGED <<records, ghistory>>
  BY NextCases, QuietEffect DEF GraphTypes, Quiet
<1>1. /\ Is(t, "pending") \/ (gpc = "queue" /\ Is(t, "blocked"))
      /\ hand'.flow = "direct" /\ hand'.way = "none" /\ gpc' = "apply"
      /\ gpc \in {"start", "children", "queue"}
  <2>1. CASE TakeChild
    <3>1. PICK u \in Children : Take(u, "children")
      BY <2>1 DEF TakeChild
    <3>2. hand'.task = u /\ Is(u, "pending") /\ hand'.flow = "direct" /\ hand'.way = "none"
          /\ gpc' = "apply"
      BY <1>0, <3>1, HandTaken, Candidates
    <3> QED
      BY <2>1, <3>2 DEF TakeChild
  <2>2. CASE TakeBest
    <3>1. PICK u \in Offered \cup Retries : Take(u, "queue")
      BY <2>2 DEF TakeBest
    <3>2. hand'.task = u /\ (Is(u, "pending") \/ Is(u, "blocked")) /\ hand'.flow = "direct"
          /\ hand'.way = "none" /\ gpc' = "apply"
      BY <1>0, <3>1, HandTaken, Candidates
    <3> QED
      BY <2>2, <3>2 DEF TakeBest
  <2> QED
    BY <2>1, <2>2
<1>2. hand.flow = "none" /\ ~ Making(t) /\ ~ Approving(t) /\ ~ Making(t)' /\ ~ Approving(t)'
  <2>1. hand.flow = "none"
    BY <1>0, <1>1, NoHandFields DEF InPhase, Between
  <2> QED
    BY <1>1, <2>1 DEF Making, Approving
<1>3. UNCHANGED <<table, panel, unread, spawned, earned>>
  BY <1>0 DEF records, ghistory
<1>4. spawned[t] = 0
  <2>1. spawned[t] \in Nat
    BY DEF GraphTypes, RecordsOK, Ids
  <2> QED
    BY <1>1, <1>2, <2>1 DEF OwnOK, AnswerFinal, Is
<1>5. ~ Outstanding(t)
  <2>1. CASE Is(t, "pending")
    BY <1>2, <2>1 DEF OwnOK, PanelsOK
  <2>2. CASE gpc = "queue" /\ gcrashes = 0
    BY <2>2 DEF OnceInv, Drained, Outstanding, ToAnswer, Reviewers
  <2>3. CASE Reviewers(t) = {}
    BY <2>3 DEF Outstanding
  <2> QED
    BY <1>1, <2>1, <2>2, <2>3 DEF OnItsOwn
<1>6. ~ Outstanding(t)'
  BY <1>0, <1>1, <1>5, OutstandingFalls DEF MakeReviewer, GraphCrash
<1>7. Disagreed(t)' <=> Disagreed(t)
  BY <1>1, <1>3 DEF Disagreed, NextReview
<1>8. AnswerFinal(t)'
  BY <1>2, <1>3, <1>6 DEF OwnOK, AnswerFinal, Is
<1>9. PanelsOK(t)'
  BY <1>2, <1>3, <1>6, <1>7 DEF OwnOK, PanelsOK, Is, Reviewers
<1>10. CandidateOK(t)' /\ HearingOK(t)'
  BY <1>1, <1>3, <1>4, <1>6 DEF CandidateOK, HearingOK
<1> QED
  BY <1>8, <1>9, <1>10 DEF OwnOK

(* It is applied.                                                           *)
LEMMA OwnApplied ==
  ASSUME GraphAssumption, GraphTypes, ApplyAnswer \/ ApplyNothing \/ ApplyByConsensus,
         NEW t \in Ids, OwnOK(t), hand.task = t
  PROVE  OwnOK(t)' /\ hand'.task = t
<1>0. GraphNext /\ InPhase /\ HandOK /\ CopyOK /\ UNCHANGED <<records, ghistory>>
  BY NextCases, QuietEffect DEF GraphTypes, Quiet
<1>1. /\ hand'.flow = hand.flow /\ hand'.task = t /\ hand'.read = hand.read /\ hand'.made = hand.made
      /\ gpc = "apply" /\ gpc' = IF hand'.way = "delegated" THEN "review" ELSE "write"
      /\ hand.flow = "direct"
  <2>1. PICK w : /\ hand' = [hand EXCEPT !.way = w] \/ \E p : hand' = [hand EXCEPT !.way = w, !.plan = p]
                 /\ gpc = "apply" /\ gpc' = IF w = "delegated" THEN "review" ELSE "write"
    <3>1. CASE ApplyAnswer
      <4>1. PICK p : hand' = [hand EXCEPT !.way = "answered", !.plan = p]
        BY <3>1 DEF ApplyAnswer
      <4>2. gpc = "apply" /\ gpc' = "write"
        BY <3>1 DEF ApplyAnswer, Jump
      <4>3. \E q : hand' = [hand EXCEPT !.way = "answered", !.plan = q]
        BY <4>1
      <4> DEFINE w == "answered"
      <4>4. w # "delegated" /\ \E q : hand' = [hand EXCEPT !.way = w, !.plan = q]
        BY <4>3
      <4> HIDE DEF w
      <4> QED
        BY <4>2, <4>4
    <3>2. CASE ApplyNothing
      <4>1. PICK w \in {"fallback", "refused"} : hand' = [hand EXCEPT !.way = w]
        BY <3>2 DEF ApplyNothing
      <4>2. gpc = "apply" /\ gpc' = "write"
        BY <3>2 DEF ApplyNothing, Jump
      <4> QED
        BY <4>1, <4>2
    <3>3. CASE ApplyByConsensus
      BY <3>3 DEF ApplyByConsensus, Jump
    <3> QED
      BY <3>1, <3>2, <3>3
  <2>2. /\ hand'.flow = hand.flow /\ hand'.task = t /\ hand'.read = hand.read
        /\ hand'.made = hand.made /\ hand'.way = w
    <3>1. CASE hand' = [hand EXCEPT !.way = w]
      BY <1>0, <3>1 DEF InPhase
    <3>2. CASE \E p : hand' = [hand EXCEPT !.way = w, !.plan = p]
      <4>1. PICK p : hand' = [hand EXCEPT !.way = w, !.plan = p]
        BY <3>2
      <4> QED
        BY <1>0, <4>1 DEF InPhase
    <3> QED
      BY <2>1, <3>1, <3>2
  <2> QED
    BY <1>0, <2>1, <2>2 DEF InPhase, Executing
<1>2. UNCHANGED <<table, panel, unread, spawned, earned>>
  BY <1>0 DEF records, ghistory
<1>3. /\ Is(t, "pending") \/ Is(t, "blocked")
      /\ hand.read.review = table[t].review /\ Len(hand.made) = 0
  <2>1. Is(t, "pending") \/ Is(t, "blocked")
    BY <1>0, <1>1 DEF CopyOK, Is
  <2>2. hand.read.review = table[t].review
    BY <1>0, <1>1 DEF CopyOK
  <2>3. hand.made = << >>
    BY <1>0, <1>1 DEF HandOK
  <2> QED
    BY <2>1, <2>2, <2>3
<1>4. ~ Making(t) /\ ~ Approving(t) /\ ~ Approving(t)' /\ (Making(t)' <=> gpc' = "review")
  BY <1>1 DEF Making, Approving
<1>5. ~ Outstanding(t) /\ ~ Outstanding(t)' /\ spawned[t] = 0
  <2>1. ~ Outstanding(t) /\ spawned[t] = 0
    BY <1>1 DEF OwnOK, CandidateOK
  <2>2. ~ MakeReviewer /\ ~ GraphCrash
    BY <1>1 DEF MakeReviewer, GraphCrash
  <2> QED
    BY <1>0, <2>1, <2>2, OutstandingFalls
<1>6. NextReview(t) = table[t].review /\ NextReview(t)' = table[t].review
  BY <1>1, <1>2, <1>3 DEF NextReview, MergedReview
<1>7. Disagreed(t)' <=> Disagreed(t)
  BY <1>6 DEF Disagreed
<1>8. AnswerFinal(t)'
  BY <1>2, <1>4, <1>5 DEF OwnOK, AnswerFinal, Is
<1>9. PanelsOK(t)'
  <2>1. Making(t)' => Disagreed(t)' \/ Cardinality(Reviewers(t)') = Made'
    <3>1. Reviewers(t) = {} \/ Disagreed(t)
      BY <1>3, <1>4 DEF OwnOK, PanelsOK
    <3>2. Cardinality({}) = 0
      BY FS_EmptySet
    <3>3. Made' = 0 /\ Reviewers(t)' = Reviewers(t)
      BY <1>1, <1>2, <1>3 DEF Made, Reviewers
    <3> QED
      BY <1>7, <3>1, <3>2, <3>3
  <2> QED
    BY <1>2, <1>4, <1>5, <1>7, <2>1 DEF OwnOK, PanelsOK, Is, Reviewers
<1>10. CandidateOK(t)' /\ HearingOK(t)'
  BY <1>1, <1>2, <1>5 DEF CandidateOK, HearingOK
<1> QED
  BY <1>1, <1>8, <1>9, <1>10 DEF OwnOK

(* Its reviewers are made and linked.                                       *)
LEMMA OwnReviewed ==
  ASSUME GraphAssumption, GraphTypes, MakeReviewer, NEW t \in Ids, OwnOK(t), hand.task = t
  PROVE  OwnOK(t)' /\ hand'.task = t
<1>0. InPhase /\ HandOK /\ CopyOK
  BY DEF GraphTypes
<1> DEFINE n == Len(panel) + 1
<1>1. /\ hand'.flow = hand.flow /\ hand'.task = t /\ hand'.read = hand.read
      /\ hand'.way = hand.way /\ hand'.made = Append(hand.made, n)
      /\ gpc = "review" /\ gpc' = "review" /\ hand.flow = "direct" /\ Made < Required
  BY <1>0 DEF MakeReviewer, InPhase, Executing
<1>2. UNCHANGED <<table, unread, spawned, earned>>
  BY DEF MakeReviewer, ghistory
<1>3. Is(t, "pending") \/ Is(t, "blocked")
  BY <1>0, <1>1 DEF CopyOK, Is, HandOK
<1>4. Making(t) /\ Making(t)' /\ ~ Approving(t)' /\ ~ Approving(t)
  BY <1>1 DEF Making, Approving
<1>5. Made \in Nat /\ Made' = Made + 1
  BY <1>0, <1>1, AppendProperties DEF Made, HandOK
<1>6. Disagreed(t)' <=> Disagreed(t)
  BY <1>1, <1>2 DEF Disagreed, NextReview
<1>7. Cardinality(Reviewers(t)') = Cardinality(Reviewers(t)) + 1
  <2>1. /\ DOMAIN panel' = DOMAIN panel \cup {n} /\ n \notin DOMAIN panel
        /\ panel'[n].task = t /\ \A w \in DOMAIN panel : panel'[w] = panel[w]
    BY MakeReviewerEffect
  <2> HIDE DEF n
  <2>2. Reviewers(t)' = Reviewers(t) \cup {n} /\ n \notin Reviewers(t)
    BY <2>1 DEF Reviewers
  <2> QED
    BY <2>2, ReviewersFinite, FS_AddElement
<1>8. AnswerFinal(t)'
  BY <1>2, <1>3, <1>4 DEF OwnOK, AnswerFinal, Is
<1>9. PanelsOK(t)'
  <2>1. Disagreed(t) \/ Cardinality(Reviewers(t)) = Made
    BY <1>4 DEF OwnOK, PanelsOK
  <2>2. Disagreed(t)' \/ (Cardinality(Reviewers(t)') = Made' /\ Cardinality(Reviewers(t)') <= Required)
    <3>1. CASE Disagreed(t)
      BY <1>6, <3>1
    <3>2. CASE Cardinality(Reviewers(t)) = Made
      <4>1. Required \in Nat
        BY DEF GraphAssumption
      <4> QED
        BY <1>1, <1>5, <1>7, <3>2, <4>1
    <3> QED
      BY <2>1, <3>1, <3>2
  <2> QED
    BY <1>4, <2>2 DEF PanelsOK
<1>10. CandidateOK(t)' /\ HearingOK(t)'
  BY <1>1, <1>2 DEF OwnOK, CandidateOK, HearingOK
<1> QED
  BY <1>1, <1>8, <1>9, <1>10 DEF OwnOK

LEMMA OwnLinked ==
  ASSUME GraphAssumption, GraphTypes, LinkReviewers, NEW t \in Ids, OwnOK(t), hand.task = t
  PROVE  OwnOK(t)' /\ hand'.task = t
<1>0. InPhase /\ HandOK /\ CopyOK /\ GraphNext
  BY NextCases DEF GraphTypes
<1>1. /\ hand' = hand /\ gpc = "review" /\ gpc' = "write" /\ hand.flow = "direct"
      /\ hand.way = "delegated"
  BY <1>0 DEF LinkReviewers, Jump, InPhase, Executing, HandOK
<1>2. UNCHANGED <<panel, unread, spawned, earned>>
  BY DEF LinkReviewers, ghistory
<1>3. /\ Is(t, "pending") \/ Is(t, "blocked")
      /\ table[t].review = hand.read.review
  BY <1>0, <1>1 DEF CopyOK, Is
<1>4. table'[t].status = "working" /\ table'[t].review = [NoReview EXCEPT !.state = "pending"]
  <2>1. table'[t] = [hand.read EXCEPT !.status = "working",
                       !.review = [NoReview EXCEPT !.state = "pending"]]
    BY LinkReviewersEffect DEF Changes
  <2>2. hand.read \in Tasks
    BY <1>0, <1>1 DEF HandOK
  <2> QED
    BY <2>1, <2>2 DEF Tasks
<1>5. ~ Making(t)' /\ ~ Approving(t)' /\ ~ Approving(t)
  BY <1>1 DEF Making, Approving
<1>6. Disagreed(t) => Disagreed(t)'
  <2>1. NextReview(t) = hand.read.review
    BY <1>1, <1>3 DEF NextReview
  <2>2. hand.read.review # NoReview => NextReview(t)' = hand.read.review
    BY <1>1 DEF NextReview, MergedReview
  <2>3. NoReview.state # "disagreement"
    BY DEF NoReview
  <2> QED
    BY <2>1, <2>2, <2>3 DEF Disagreed
<1>7. spawned[t] = 0
  BY <1>1 DEF OwnOK, CandidateOK
<1>8. AnswerFinal(t)'
  BY <1>2, <1>3, <1>4, <1>5, <1>7 DEF OwnOK, AnswerFinal, Is
<1>9. PanelsOK(t)'
  BY <1>2, <1>4, <1>5, <1>6 DEF OwnOK, PanelsOK, Is, Reviewers
<1>10. CandidateOK(t)' /\ HearingOK(t)'
  BY <1>1, <1>2, <1>7 DEF CandidateOK, HearingOK
<1> QED
  BY <1>1, <1>8, <1>9, <1>10 DEF OwnOK

(* Its record is written, ...                                               *)
LEMMA OwnWritten ==
  ASSUME GraphAssumption, GraphTypes, WriteTask, NEW t \in Ids, OwnOK(t), hand.task = t
  PROVE  OwnOK(t)' /\ hand'.task = t
<1>0. InPhase /\ HandOK /\ CopyOK /\ GraphNext
  BY NextCases DEF GraphTypes
<1>1. /\ hand'.flow = hand.flow /\ hand'.task = t /\ hand'.way = hand.way
      /\ gpc = "write" /\ gpc' = "sync" /\ hand.flow = "direct"
  BY <1>0 DEF WriteTask, Jump, InPhase, Executing
<1>2. UNCHANGED <<panel, unread, spawned>>
      /\ earned' = earned \cup {u \in {t} : HandStatus = "complete"}
  BY DEF WriteTask
<1>3. table'[t].status = HandStatus /\ table'[t].review = MergedReview
  <2>1. table'[t] = [hand.read EXCEPT !.status = HandStatus, !.review = MergedReview]
    BY WriteTaskEffect DEF Changes
  <2>2. hand.read \in Tasks
    BY <1>0, <1>1 DEF HandOK
  <2> QED
    BY <2>1, <2>2 DEF Tasks
<1>4. /\ ~ Is(t, "complete")
      /\ hand.way # "delegated" => Is(t, "pending") \/ Is(t, "blocked")
  BY <1>0, <1>1 DEF CopyOK, Is
<1>5. ~ Making(t) /\ ~ Making(t)' /\ ~ Approving(t)' /\ ~ Approving(t)
  BY <1>1 DEF Making, Approving
<1>6. Disagreed(t)' <=> Disagreed(t)
  BY <1>1, <1>3 DEF Disagreed, NextReview
<1>7. spawned[t] = 0 /\ (hand.way # "delegated" => ~ Outstanding(t))
  BY <1>1 DEF OwnOK, CandidateOK
<1>8. Outstanding(t)' => Outstanding(t)
  BY <1>0, <1>1, OutstandingFalls DEF MakeReviewer, GraphCrash
<1>9. /\ HandStatus = "complete" => hand.way = "answered"
      /\ HandStatus = "pending" => hand.way # "delegated"
      /\ HandStatus # "blocked"
  BY DEF HandStatus
<1>10. AnswerFinal(t)'
  BY <1>2, <1>3, <1>4, <1>5, <1>7, <1>8, <1>9 DEF OwnOK, AnswerFinal, Is
<1>11. PanelsOK(t)'
  <2>1. Is(t, "pending")' => ~ Outstanding(t)'
    BY <1>3, <1>7, <1>8, <1>9 DEF Is
  <2>2. ~ Is(t, "blocked")' /\ (Is(t, "pending")' => Is(t, "pending") \/ Is(t, "blocked"))
    BY <1>3, <1>4, <1>9 DEF Is
  <2> QED
    BY <1>2, <1>5, <1>6, <2>1, <2>2 DEF OwnOK, PanelsOK, Reviewers
<1>12. CandidateOK(t)' /\ HearingOK(t)'
  BY <1>1, <1>2, <1>7 DEF CandidateOK, HearingOK
<1> QED
  BY <1>1, <1>10, <1>11, <1>12 DEF OwnOK

(* ... its peers', and its answer is taken for its follow-ups.              *)
LEMMA OwnSynced ==
  ASSUME GraphAssumption, GraphTypes, SyncPeer \/ EndSync, NEW t \in Ids, OwnOK(t), hand.task = t
  PROVE  OwnOK(t)' /\ hand'.task = t
<1>0. InPhase /\ HandOK /\ CopyOK /\ GraphNext
  BY NextCases DEF GraphTypes
<1>1. /\ hand'.flow = hand.flow /\ hand'.task = t /\ hand'.way = hand.way
      /\ gpc = "sync" /\ hand.flow \in {"direct", "result"}
      /\ SyncPeer => gpc' = "sync"
      /\ EndSync => gpc' = IF hand.flow = "direct" THEN "make" ELSE "settle"
  <2>1. CASE SyncPeer
    <3>1. PICK p : hand' = [hand EXCEPT !.peers = @ \ {p}]
      BY <2>1 DEF SyncPeer
    <3>2. /\ hand'.flow = hand.flow /\ hand'.task = t /\ hand'.way = hand.way
      BY <1>0, <3>1 DEF InPhase
    <3>3. gpc = "sync" /\ gpc' = "sync" /\ ~ EndSync
      BY <2>1 DEF SyncPeer, EndSync, BeginFollowUps
    <3> QED
      BY <1>0, <2>1, <3>2, <3>3 DEF InPhase
  <2>2. CASE EndSync
    <3>1. ~ SyncPeer
      BY <2>2 DEF SyncPeer, EndSync
    <3> QED
      BY <1>0, <2>2, <3>1 DEF EndSync, BeginFollowUps, InPhase
  <2> QED
    BY <2>1, <2>2
<1>2. UNCHANGED <<panel, unread>> /\ table'[t] = table[t] /\ (t \in earned' => t \in earned)
  <2>1. CASE SyncPeer
    <3>1. PICK p \in hand.peers :
            /\ p # t /\ earned' = earned \cup {u \in {p} : hand.read.status = "complete"}
            /\ Changes(p, [table[p] EXCEPT !.status = hand.read.status, !.under = hand.task])
      BY <2>1, SyncPeerEffect
    <3> QED
      BY <2>1, <3>1 DEF Changes, SyncPeer
  <2>2. CASE EndSync
    BY <2>2 DEF EndSync, records
  <2> QED
    BY <2>1, <2>2
<1>3. /\ spawned'[t] <= 1 /\ (hand.flow = "direct" => spawned[t] = 0)
      /\ spawned'[t] > 0 => spawned[t] > 0 \/ Is(t, "complete")
  <2>1. spawned \in [1 .. MaxTasks -> Nat] /\ t \in 1 .. MaxTasks /\ spawned[t] <= 1
    <3>1. t \in 1 .. MaxTasks
      BY DEF GraphTypes, RecordsOK, Ids, GraphAssumption
    <3> QED
      BY <3>1 DEF GraphTypes, RecordsOK, OwnOK, AnswerFinal
  <2>2. hand.flow = "direct" => spawned[t] = 0
    BY <1>1 DEF OwnOK, CandidateOK
  <2>3. CASE SyncPeer
    BY <2>1, <2>2, <2>3 DEF SyncPeer
  <2>4. CASE EndSync /\ hand.flow = "direct"
    <3>1. hand.way = "answered" => Is(t, "complete")
      BY <1>0, <1>1, <2>4 DEF CopyOK, HandStatus, Is
    <3>2. CASE hand.way = "answered"
      <4>1. spawned' = [spawned EXCEPT ![t] = @ + 1]
        BY <2>4, <3>2 DEF EndSync, BeginFollowUps
      <4>2. spawned'[t] = 1
        BY <2>1, <2>2, <2>4, <4>1
      <4> QED
        BY <2>2, <3>1, <3>2, <4>2
    <3>3. CASE hand.way # "answered"
      <4>1. spawned' = [spawned EXCEPT ![t] = @ + 0]
        BY <2>4, <3>3 DEF EndSync, BeginFollowUps
      <4>2. spawned'[t] = spawned[t]
        BY <2>1, <4>1
      <4> QED
        BY <2>1, <2>2, <4>2
    <3> QED
      BY <3>2, <3>3
  <2>5. CASE EndSync /\ hand.flow # "direct"
    <3>1. spawned' = [spawned EXCEPT ![t] = @ + 0]
      BY <2>5 DEF EndSync, BeginFollowUps
    <3>2. spawned'[t] = spawned[t]
      BY <2>1, <3>1
    <3> QED
      BY <2>1, <2>2, <3>2
  <2> QED
    BY <2>3, <2>4, <2>5
<1>4. ~ Making(t) /\ ~ Making(t)' /\ (Approving(t)' <=> Approving(t))
  BY <1>1 DEF Making, Approving
<1>5. Disagreed(t)' <=> Disagreed(t)
  BY <1>1, <1>2 DEF Disagreed, NextReview
<1>6. Outstanding(t)' => Outstanding(t)
  BY <1>0, <1>1, OutstandingFalls DEF MakeReviewer, GraphCrash
<1>7. AnswerFinal(t)'
  BY <1>2, <1>3, <1>4, <1>6 DEF OwnOK, AnswerFinal, Is
<1>8. PanelsOK(t)'
  BY <1>2, <1>4, <1>5, <1>6 DEF OwnOK, PanelsOK, Is, Reviewers
<1>9. CandidateOK(t)'
  <2>1. SyncPeer => spawned' = spawned
    BY DEF SyncPeer
  <2> QED
    BY <1>1, <1>3, <2>1 DEF CandidateOK
<1>10. HearingOK(t)'
  BY <1>1, <1>2, <1>5 DEF OwnOK, HearingOK, Is
<1> QED
  BY <1>1, <1>7, <1>8, <1>9, <1>10 DEF OwnOK

(* A parent is settled.                                                     *)
LEMMA OwnSettled ==
  ASSUME GraphAssumption, GraphTypes, SettleParent, NEW t \in Ids, OwnOK(t), hand.task = t
  PROVE  OwnOK(t)' /\ hand'.task = t
<1>0. InPhase /\ HandOK /\ GraphNext
  BY NextCases DEF GraphTypes
<1>1. /\ hand' = hand /\ gpc = "settle" /\ gpc' = "worker" /\ hand.flow = "result"
  BY <1>0 DEF SettleParent, Jump, InPhase, Settling
<1>2. UNCHANGED <<panel, unread, spawned>>
      /\ earned' = earned \cup {u \in {t} : hand.way = "approved"}
  BY DEF SettleParent
<1>3. /\ table'[t] = hand.read /\ hand.read.status = VerdictStatus(hand.way)
      /\ hand.read.review.state = hand.way
      /\ hand.way \in {"collecting", "approved", "disagreement"}
  BY <1>0, <1>1, SettleParentEffect DEF Changes, HandOK
<1>4. /\ ~ Making(t) /\ ~ Making(t)' /\ ~ Approving(t)'
      /\ Approving(t) <=> hand.way = "approved"
  BY <1>1 DEF Making, Approving
<1>5. ~ Is(t, "complete") /\ (Disagreed(t) => hand.way = "disagreement")
  BY <1>1 DEF OwnOK, HearingOK
<1>6. Disagreed(t)' <=> hand.way = "disagreement"
  BY <1>1, <1>3 DEF Disagreed, NextReview
<1>7. Outstanding(t)' => Outstanding(t)
  BY <1>0, <1>1, OutstandingFalls DEF MakeReviewer, GraphCrash
<1>8. /\ Is(t, "complete")' <=> hand.way = "approved"
      /\ Is(t, "blocked")' <=> hand.way = "disagreement"
      /\ ~ Is(t, "pending")'
  BY <1>3 DEF VerdictStatus, Is
<1>9. AnswerFinal(t)'
  BY <1>2, <1>4, <1>5, <1>7, <1>8 DEF OwnOK, AnswerFinal
<1>10. PanelsOK(t)'
  BY <1>2, <1>4, <1>5, <1>6, <1>7, <1>8 DEF OwnOK, PanelsOK, Reviewers
<1>11. CandidateOK(t)' /\ HearingOK(t)'
  BY <1>1 DEF CandidateOK, HearingOK
<1> QED
  BY <1>1, <1>9, <1>10, <1>11 DEF OwnOK

(* As long as a reviewer is not heard, fewer than all of them are.          *)
LEMMA HeardFewer ==
  ASSUME GraphTypes, NEW t, NEW v, ReviewOK(t, v), NEW w \in Reviewers(t),
         \A e \in v.heard : e.worker # w
  PROVE  Cardinality(Successful(v.heard)) < Cardinality(Reviewers(t))
<1> DEFINE G == Successful(v.heard)
           R == Reviewers(t)
           f == [e \in G |-> e.worker]
<1>1. IsFiniteSet(R) /\ Cardinality(R) \in Nat
  BY ReviewersFinite
<1>2. G \subseteq v.heard
  BY DEF Successful
<1>3. \A e \in G : e.worker \in R \ {w}
  BY <1>2 DEF ReviewOK, Reviewers
<1>4. \A e, g \in G : e.worker = g.worker => e = g
  BY <1>2 DEF ReviewOK
<1> HIDE DEF G, R
<1>5. f \in [G -> R \ {w}] /\ \A e, g \in G : f[e] = f[g] => e = g
  BY <1>3, <1>4
<1>6. f \in Injection(G, R \ {w})
  BY <1>5 DEF Injection, IsInjective
<1>7. IsFiniteSet(R \ {w}) /\ Cardinality(R \ {w}) = Cardinality(R) - 1
  BY <1>1, FS_RemoveElement DEF R
<1>8. Cardinality(G) <= Cardinality(R \ {w}) /\ IsFiniteSet(G)
  BY <1>6, <1>7, FS_Injection
<1>9. Cardinality(G) \in Nat
  BY <1>8, FS_CardinalityType
<1> QED
  BY <1>1, <1>7, <1>8, <1>9 DEF G, R

(* A disagreement is not resolved by one who was not heard before.          *)
LEMMA DisagreementHeard ==
  ASSUME GraphAssumption, NEW t, NEW v \in Reviews, ReviewOK(t, v), NEW r \in Results,
         v.state = "disagreement", \A e \in v.heard : e.worker # r.worker
  PROVE  Judged(Successful(Heard(v, r))) = "disagreement"
<1> DEFINE x == Entry(v, r)
           good == Successful(v.heard)
<1>1. v.heard \subseteq Entries /\ v.count \in Nat
  BY DEF Reviews
<1>2. x.nth = v.count + 1 /\ x.answer = r.answer
  BY DEF Entry
<1>3. IsFiniteSet(good) /\ good \subseteq v.heard
  <2>1. good \subseteq v.heard
    BY DEF Successful
  <2> QED
    BY <2>1, FS_Subset DEF ReviewOK
<1>4. \A e \in good : e.nth \in Nat /\ e.nth < x.nth
  <2>1. \A e \in v.heard : e.nth \in Nat /\ e.nth <= v.count
    BY <1>1 DEF Entries, ReviewOK
  <2> HIDE DEF x, good
  <2> QED
    BY <1>1, <1>2, <1>3, <2>1
<1>5. Judged(good) = "disagreement"
  BY DEF ReviewOK
<1>6. Heard(v, r) = v.heard \cup {x}
  BY DEF Heard
<1>7. Successful(Heard(v, r)) \in {good, good \cup {x}}
  BY <1>6 DEF Successful
<1>8. x.nth \in Nat
  BY <1>1, <1>2
<1> HIDE DEF x, good
<1>9. Judged(good \cup {x}) = "disagreement"
  BY <1>3, <1>4, <1>5, <1>8, DisagreementStays
<1> QED
  BY <1>5, <1>7, <1>9

(* A result is heard: without a crash it is that of a reviewer not heard    *)
(* before, and who approves with it leaves nobody to be heard.              *)
LEMMA OwnRead ==
  ASSUME GraphAssumption, GraphTypes, ReviewInv, OnceInv, ReadResult, NEW t \in Ids, OnItsOwn(t),
         OwnOK(t), hand'.task = t
  PROVE  OwnOK(t)'
<1>0. InPhase /\ GraphNext /\ table \in Seq(Tasks)
  BY NextCases DEF GraphTypes, RecordsOK
<1>1. PICK r \in unread, p \in Plans : Reads(r, p)
  BY ReadResultEffect
<1> DEFINE v == table[t].review
           w == Heard(v, r)
           d == Judged(Successful(w))
<1>2. /\ panel[r.worker].task = t /\ hand'.flow = "result" /\ hand'.way = d
      /\ hand'.result = r /\ gpc = "inbox" /\ gpc' \in {"make", "sync"}
      /\ spawned' = [spawned EXCEPT ![t] = @ + (IF d = "approved" THEN 1 ELSE 0)]
  BY <1>1 DEF Reads, Verdict
<1>3. UNCHANGED <<table, panel, unread, earned, gcrashes>>
  BY DEF ReadResult, records
<1>4. r \in Results /\ r.worker \in Reviewers(t) /\ r.answer \in panel[r.worker].said
  BY <1>2 DEF GraphTypes, RecordsOK, Reviewers
<1>5. gcrashes = 0 /\ AnswersOnce /\ Drained
  BY <1>4 DEF OnItsOwn, OnceInv
<1>6. hand.flow = "none"
  BY <1>0, <1>2, NoHandFields DEF InPhase, Between
<1>7. \A s \in unread : ~ InHand(s) /\ Unheard(s.worker)
  BY <1>5, <1>6 DEF InHand, AnswersOnce
<1>8. Outstanding(t)
  BY <1>4, <1>7 DEF Outstanding
<1>9. ~ Making(t) /\ ~ Making(t)' /\ ~ Approving(t) /\ (Approving(t)' <=> d = "approved")
  BY <1>2, <1>6 DEF Making, Approving
<1>10. /\ ~ Is(t, "complete") /\ ~ Is(t, "pending") /\ t \notin earned /\ spawned[t] = 0
  <2>1. spawned[t] \in Nat
    BY DEF GraphTypes, RecordsOK, Ids
  <2> QED
    BY <1>8, <1>9, <2>1 DEF OwnOK, AnswerFinal, PanelsOK
<1>11. (Disagreed(t) <=> v.state = "disagreement") /\ (Disagreed(t)' <=> Disagreed(t))
  BY <1>2, <1>3 DEF Disagreed, NextReview
<1>12. v \in Reviews /\ ReviewOK(t, v)
  <2>1. table[t] \in Tasks
    BY <1>0 DEF Ids
  <2> QED
    BY <2>1 DEF Tasks, ReviewInv
<1>13. v.state = "disagreement" => d = "disagreement"
  <2>1. \A e \in v.heard : e.worker # r.worker
    BY <1>7 DEF Unheard
  <2> HIDE DEF v
  <2> QED
    BY <1>4, <1>12, <2>1, DisagreementHeard
<1>14. d = "approved" => ~ Outstanding(t)'
  <2>1. SUFFICES ASSUME d = "approved", Outstanding(t)' PROVE FALSE
    OBVIOUS
  <2>2. PICK u \in Reviewers(t)' : ToAnswer(u)' \/ \E s \in unread' : s.worker = u /\ ~ InHand(s)'
    BY <2>1 DEF Outstanding
  <2>3. ~ ToAnswer(u)'
    BY <1>2, <1>3, <1>5 DEF ToAnswer, Drained, Reviewers
  <2>4. PICK s \in unread : s.worker = u /\ ~ InHand(s)'
    BY <1>3, <2>2, <2>3
  <2>5. u # r.worker
    BY <1>2, <1>5, <2>4 DEF InHand, AnswersOnce
  <2>6. \A e \in w : e.worker # u
    <3>1. \A e \in v.heard : e.worker # u
      BY <1>7, <2>4 DEF Unheard
    <3> QED
      BY <2>5, <3>1 DEF Heard, Entry
  <2> DEFINE new == [state |-> d, heard |-> w, count |-> v.count + 1]
  <2>7. ReviewOK(t, new)
    <3> HIDE DEF v
    <3> QED
      BY <1>4, <1>12, ReviewHeard DEF Reviewers
  <2>8. new.heard = w
    OBVIOUS
  <2>9. Cardinality(Successful(w)) < Cardinality(Reviewers(t))
    <3> HIDE DEF new, w
    <3> QED
      BY <1>3, <2>2, <2>6, <2>7, <2>8, HeardFewer DEF Reviewers
  <2>10. Cardinality(Reviewers(t)) <= Required
    BY <1>11, <1>13, <2>1 DEF OwnOK, PanelsOK
  <2>11. Cardinality(Successful(w)) \in Nat /\ Cardinality(Reviewers(t)) \in Nat /\ Required \in Nat
    <3>1. IsFiniteSet(w)
      BY <2>7, <2>8 DEF ReviewOK
    <3>2. IsFiniteSet(Successful(w))
      BY <3>1, FS_Subset DEF Successful
    <3> QED
      BY <3>2, FS_CardinalityType, ReviewersFinite DEF GraphAssumption
  <2>12. Cardinality(Successful(w)) < Required
    <3> HIDE DEF w
    <3> QED
      BY <2>9, <2>10, <2>11
  <2>13. d = "collecting"
    BY <2>12 DEF Judged
  <2> QED
    BY <2>1, <2>13
<1>15. spawned'[t] = IF d = "approved" THEN 1 ELSE 0
  <2>1. spawned \in [1 .. MaxTasks -> Nat] /\ t \in 1 .. MaxTasks
    BY DEF GraphTypes, RecordsOK, Ids, GraphAssumption
  <2> HIDE DEF d
  <2> QED
    BY <1>2, <1>10, <2>1
<1> HIDE DEF d, w
<1>16. AnswerFinal(t)'
  BY <1>3, <1>9, <1>10, <1>14, <1>15 DEF AnswerFinal, Is
<1>17. PanelsOK(t)'
  BY <1>3, <1>9, <1>10, <1>11 DEF OwnOK, PanelsOK, Is, Reviewers
<1>18. CandidateOK(t)' /\ HearingOK(t)'
  BY <1>2, <1>3, <1>10, <1>11, <1>13 DEF CandidateOK, HearingOK, Is
<1> QED
  BY <1>16, <1>17, <1>18 DEF OwnOK

(* The pass that closes tasks closes pending ones only.                     *)
LEMMA OwnClosed ==
  ASSUME GraphAssumption, GraphTypes, CloseTask, NEW t \in Ids, OwnOK(t)
  PROVE  OwnOK(t)'
<1>0. InPhase /\ GraphNext /\ t \in Nat \ {0} /\ spawned[t] \in Nat
  <2>1. table \in Seq(Tasks)
    BY DEF GraphTypes, RecordsOK
  <2> QED
    BY <2>1, NextCases DEF GraphTypes, RecordsOK, Ids
<1>1. /\ gpc = "close" /\ gpc' = gpc /\ hand' = hand /\ ~ MakeReviewer /\ ~ GraphCrash
      /\ UNCHANGED <<panel, unread, spawned, earned>>
  <2>1. gcrashes' = gcrashes /\ gcrashes \in Nat
    BY DEF CloseTask, ghistory, GraphTypes, RecordsOK
  <2> QED
    BY <2>1 DEF CloseTask, MakeReviewer, GraphCrash, ghistory
<1>2. hand.flow = "none" /\ hand.task = 0
  BY <1>0, <1>1, NoHandFields DEF InPhase, Between
<1>3. Outstanding(t)' => Outstanding(t)
  BY <1>0, <1>1, OutstandingFalls
<1>4. CASE table'[t] = table[t]
  BY <1>0, <1>1, <1>2, <1>3, <1>4, Elsewhere DEF Reviewers
<1>5. CASE table'[t] # table[t]
  <2>0. \E s \in {"superseded", "satisfied"} : \E c :
          Is(t, "pending") /\ table'[t] = [table[t] EXCEPT !.status = s, !.closure = c]
    <3>1. PICK u \in sweep :
            /\ Is(u, "pending")
            /\ \/ table' = table
               \/ \E s \in {"superseded", "satisfied"} : \E c :
                    Changes(u, [table[u] EXCEPT !.status = s, !.closure = c])
      BY CloseTaskEffect
    <3>2. PICK s \in {"superseded", "satisfied"} : \E c :
            Changes(u, [table[u] EXCEPT !.status = s, !.closure = c])
      BY <1>5, <3>1
    <3>3. PICK c : Changes(u, [table[u] EXCEPT !.status = s, !.closure = c])
      BY <3>2
    <3> QED
      BY <1>5, <3>1, <3>3 DEF Changes
  <2>10. PICK s \in {"superseded", "satisfied"} : \E c :
          Is(t, "pending") /\ table'[t] = [table[t] EXCEPT !.status = s, !.closure = c]
    BY <2>0
  <2>1. PICK c : Is(t, "pending") /\ table'[t] = [table[t] EXCEPT !.status = s, !.closure = c]
    BY <2>10
  <2>2. table'[t].status = s /\ table'[t].review = table[t].review
    <3>1. table[t] \in Tasks
      <4>1. table \in Seq(Tasks)
        BY DEF GraphTypes, RecordsOK
      <4> QED
        BY <4>1 DEF Ids
    <3> QED
      BY <2>1, <3>1 DEF Tasks
  <2>3. ~ Is(t, "complete") /\ ~ Is(t, "complete")' /\ ~ Is(t, "pending")' /\ ~ Is(t, "blocked")'
    BY <2>1, <2>2 DEF Is
  <2>4. ~ Making(t) /\ ~ Making(t)' /\ ~ Approving(t) /\ ~ Approving(t)'
    BY <1>1, <1>2 DEF Making, Approving
  <2>5. AnswerFinal(t)'
    BY <1>0, <1>1, <2>3, <2>4 DEF OwnOK, AnswerFinal
  <2>6. Disagreed(t)' <=> Disagreed(t)
    BY <1>1, <2>2 DEF Disagreed, NextReview
  <2>7. PanelsOK(t)'
    BY <1>1, <2>3, <2>4, <2>6 DEF OwnOK, PanelsOK, Reviewers
  <2>8. CandidateOK(t)' /\ HearingOK(t)'
    BY <1>1, <1>2 DEF CandidateOK, HearingOK
  <2> QED
    BY <2>5, <2>7, <2>8 DEF OwnOK
<1> QED
  BY <1>4, <1>5

(* After a crash only tasks without reviewers are on their own.             *)
LEMMA OwnCrashed ==
  ASSUME GraphAssumption, GraphTypes, GraphCrash, NEW t \in Ids, OnItsOwn(t)', OwnOK(t)
  PROVE  OwnOK(t)'
<1>1. UNCHANGED <<table, panel, unread, spawned, earned>> /\ gpc' = "intake" /\ hand' = NoHand
  BY DEF GraphCrash, records
<1>2. Reviewers(t) = {} /\ Reviewers(t)' = {}
  <2>1. gcrashes' # 0
    BY DEF GraphCrash, GraphTypes, RecordsOK
  <2> QED
    BY <1>1, <2>1 DEF OnItsOwn, Reviewers
<1>3. ~ Outstanding(t)'
  BY <1>2 DEF Outstanding
<1>4. ~ Approving(t) /\ ~ Approving(t)' /\ ~ Making(t)'
  <2>1. hand.flow = "result" => hand.result.worker \in DOMAIN panel /\ panel[hand.result.worker].task = hand.task
    BY DEF GraphTypes, HandOK, RecordsOK
  <2>2. ~ Approving(t)
    BY <1>2, <2>1 DEF Approving, Reviewers
  <2> QED
    BY <1>1, <2>2, NoHandFields DEF Approving, Making
<1>5. AnswerFinal(t)'
  BY <1>1, <1>3, <1>4 DEF OwnOK, AnswerFinal, Is
<1>6. PanelsOK(t)'
  <2>1. Cardinality(Reviewers(t))' = 0
    BY <1>2, FS_EmptySet
  <2>2. 0 <= Required
    BY DEF GraphAssumption
  <2>3. (Cardinality(Reviewers(t)) <= Required)'
    BY <2>1, <2>2
  <2> QED
    BY <1>2, <1>3, <1>4, <2>3 DEF PanelsOK
<1>7. CandidateOK(t)' /\ HearingOK(t)'
  BY <1>1, NoHandFields DEF CandidateOK, HearingOK
<1> QED
  BY <1>5, <1>6, <1>7 DEF OwnOK

(* A new task has no reviewers and was not answered.                        *)
LEMMA OwnNew ==
  ASSUME GraphAssumption, GraphTypes, MakeTask, NEW t, t = Len(table) + 1
  PROVE  OwnOK(t)'
<1>0. GraphTypes' /\ Creates(t)
  <2>1. GraphTypes'
    BY NextCases, TypesNext
  <2> QED
    BY <2>1, MakeTaskEffect
<1>1. /\ t \notin Ids /\ table'[t].status = "pending" /\ UNCHANGED <<panel, unread, spawned, earned>>
      /\ gpc = "make" /\ gpc' = "make"
  <2>1. table'[t].status = "pending"
    BY <1>0 DEF Creates, NewTask
  <2> QED
    BY <1>0, <2>1 DEF Creates, MakeTask, ghistory
<1>2. Reviewers(t)' = {} /\ t \notin earned' /\ spawned'[t] = 0
  <2>1. t \in 1 .. MaxTasks
    <3>1. table' \in Seq(Tasks) /\ Len(table') <= MaxTasks /\ Len(table') = t /\ t \in Nat
      BY <1>0 DEF GraphTypes, RecordsOK, Creates
    <3>2. MaxTasks \in Nat /\ Len(table) \in Nat
      BY DEF GraphAssumption, GraphTypes, RecordsOK
    <3> QED
      BY <3>1, <3>2
  <2>2. spawned[t] \in Nat /\ ~ (spawned[t] > 0)
    BY <1>1, <2>1 DEF GraphTypes, RecordsOK
  <2>3. Reviewers(t) = {} /\ t \notin earned
    BY <1>1 DEF GraphTypes, RecordsOK, Reviewers
  <2> QED
    BY <1>1, <2>2, <2>3 DEF Reviewers
<1>3. ~ Outstanding(t)'
  BY <1>2 DEF Outstanding
<1>4. ~ Making(t)' /\ (hand'.task # t \/ hand'.flow \notin {"direct", "result"})
  <2>1. hand.flow \in {"direct", "result"} => hand.task \in Ids
    BY DEF GraphTypes, HandOK
  <2>2. PICK m : hand' = [hand EXCEPT !.made = m]
    BY DEF MakeTask
  <2>3. hand'.flow = hand.flow /\ hand'.task = hand.task
    BY <2>2 DEF GraphTypes, InPhase
  <2> QED
    BY <1>1, <2>1, <2>3 DEF Making
<1>5. ~ Making(t)' /\ ~ Approving(t)'
  BY <1>1, <1>4 DEF Making, Approving
<1>6. AnswerFinal(t)'
  BY <1>1, <1>2, <1>3, <1>5 DEF AnswerFinal, Is
<1>7. PanelsOK(t)'
  <2>1. Cardinality(Reviewers(t))' = 0
    BY <1>2, FS_EmptySet
  <2>2. 0 <= Required
    BY DEF GraphAssumption
  <2>3. (Cardinality(Reviewers(t)) <= Required)'
    BY <2>1, <2>2
  <2> QED
    BY <1>2, <1>3, <1>5, <2>3 DEF PanelsOK
<1>8. CandidateOK(t)' /\ HearingOK(t)'
  BY <1>4 DEF CandidateOK, HearingOK
<1> QED
  BY <1>6, <1>7, <1>8 DEF OwnOK

(* The handlers that go on with the task that they have in hand.            *)
LEMMA SameInHand ==
  ASSUME GraphTypes,
         ApplyAnswer \/ ApplyNothing \/ ApplyByConsensus \/ MakeReviewer \/ LinkReviewers
         \/ WriteTask \/ SyncPeer \/ EndSync \/ SettleParent
  PROVE  hand'.task = hand.task
<1>0. InPhase
  BY DEF GraphTypes
<1>1. CASE ApplyAnswer
  BY <1>0, <1>1 DEF ApplyAnswer, InPhase
<1>2. CASE ApplyNothing \/ ApplyByConsensus
  BY <1>0, <1>2 DEF ApplyNothing, ApplyByConsensus, InPhase
<1>3. CASE MakeReviewer
  <2>1. PICK m : hand' = [hand EXCEPT !.made = m]
    BY <1>3 DEF MakeReviewer
  <2> QED
    BY <1>0, <2>1 DEF InPhase
<1>4. CASE WriteTask
  BY <1>0, <1>4 DEF WriteTask, InPhase
<1>5. CASE SyncPeer
  BY <1>0, <1>5 DEF SyncPeer, InPhase
<1>6. CASE LinkReviewers \/ EndSync \/ SettleParent
  BY <1>6 DEF LinkReviewers, EndSync, SettleParent
<1> QED
  BY <1>1, <1>2, <1>3, <1>4, <1>5, <1>6

(* Only MakeTask makes a record.                                            *)
LEMMA IdsKept ==
  ASSUME GraphAssumption, GraphTypes, GraphNext, ~ MakeTask
  PROVE  Ids' = Ids
<1>1. CASE Quiet \/ AcknowledgeLetter \/ AcknowledgeResult \/ EndSync \/ ReadResult \/ GraphCrash
           \/ MakeReviewer \/ AnswerRequest \/ ResolveRequest \/ SettleReviewer
  BY <1>1, QuietEffect DEF AcknowledgeLetter, AcknowledgeResult, EndSync, ReadResult, GraphCrash,
     MakeReviewer, AnswerRequest, ResolveRequest, SettleReviewer, records, Ids
<1>2. CASE OrderTask \/ RecordAttempt \/ CloseAttempts
  BY <1>2, OrderTaskEffect, RecordAttemptEffect, CloseAttemptsEffect DEF Touches
<1>3. CASE CloseTask
  BY <1>3, CloseTaskEffect DEF Changes
<1>4. CASE LinkReviewers \/ WriteTask \/ SyncPeer \/ SettleParent
  BY <1>4, LinkReviewersEffect, WriteTaskEffect, SyncPeerEffect, SettleParentEffect DEF Changes
<1> QED
  BY <1>1, <1>2, <1>3, <1>4, NextCases

LEMMA OwnInvNext ==
  ASSUME GraphAssumption, GraphTypes, ReviewInv, OnceInv, OwnInv, GraphNext
  PROVE  OwnInv'
<1>1. SUFFICES ASSUME NEW t \in Ids', OnItsOwn(t)'
               PROVE  OwnOK(t)'
  BY DEF OwnInv
<1>2. CASE t \notin Ids
  <2>1. MakeTask /\ t = Len(table) + 1
    <3>1. CASE MakeTask
      BY <1>2, <3>1, MakeTaskEffect DEF Creates
    <3>2. CASE ~ MakeTask
      BY <1>2, <3>2, IdsKept
    <3> QED
      BY <3>1, <3>2
  <2> QED
    BY <2>1, OwnNew
<1>3. CASE t \in Ids
  <2>1. OnItsOwn(t) /\ OwnOK(t) /\ t # 0
    <3>1. t # 0
      BY <1>3 DEF GraphTypes, RecordsOK, Ids
    <3> QED
      BY <1>1, <1>3, <3>1, OwnBefore DEF OwnInv
  <2>2. CASE Plain
    BY <1>3, <2>1, <2>2, OwnPlain
  <2>3. CASE CloseTask
    BY <1>3, <2>1, <2>3, OwnClosed
  <2>4. CASE GraphCrash
    BY <1>1, <1>3, <2>1, <2>4, OwnCrashed
  <2>5. CASE TakeChild \/ TakeBest \/ ReadResult
    <3>1. hand.task = 0
      <4>1. gpc \in Between
        BY <2>5 DEF TakeChild, TakeBest, ReadResult, Between
      <4> QED
        BY <4>1, NoHandFields DEF GraphTypes, InPhase
    <3>2. CASE hand'.task = t
      BY <1>3, <2>1, <2>5, <3>2, OwnTaken, OwnRead
    <3>3. CASE hand'.task # t
      BY <1>1, <1>3, <2>1, <2>5, <3>1, <3>3, OwnOthers DEF Handling
    <3> QED
      BY <3>2, <3>3
  <2>6. CASE ApplyAnswer \/ ApplyNothing \/ ApplyByConsensus \/ MakeReviewer \/ LinkReviewers
             \/ WriteTask \/ SyncPeer \/ EndSync \/ SettleParent
    <3>1. CASE hand.task = t
      BY <1>3, <2>1, <2>6, <3>1, OwnApplied, OwnReviewed, OwnLinked, OwnWritten, OwnSynced, OwnSettled
    <3>2. CASE hand.task # t
      BY <1>1, <1>3, <2>1, <2>6, <3>2, SameInHand, OwnOthers DEF Handling
    <3> QED
      BY <3>1, <3>2
  <2> QED
    BY <2>2, <2>3, <2>4, <2>5, <2>6, NextCases DEF Plain, Quiet
<1> QED
  BY <1>2, <1>3

LEMMA OwnInvariant == GraphSpec => []OwnInv
<1>1. GraphInit => OwnInv
  BY DEF GraphInit, OwnInv, Ids
<1>2. GraphTypes /\ ReviewInv /\ OnceInv /\ OwnInv /\ [GraphNext]_graphVars => OwnInv'
  <2>1. CASE UNCHANGED graphVars
    <3>1. UNCHANGED <<table, panel, unread, hand, gpc, gcrashes, spawned, earned>>
      BY <2>1 DEF graphVars, records, locals, ghistory
    <3>2. \A t : (OwnOK(t)' <=> OwnOK(t)) /\ (OnItsOwn(t)' <=> OnItsOwn(t))
      BY <3>1 DEF OwnOK, OnItsOwn, AnswerFinal, PanelsOK, CandidateOK, HearingOK, Outstanding, Making,
         Approving, Disagreed, NextReview, MergedReview, ToAnswer, InHand, Reviewers, Is, Made
    <3> QED
      BY <3>1, <3>2 DEF OwnInv, Ids
  <2>2. CASE GraphNext
    BY <2>2, GraphAssumption, OwnInvNext
  <2> QED
    BY <2>1, <2>2
<1> QED
  BY <1>1, <1>2, TypesInvariant, ReviewInvariant, OnceInvariant, PTL DEF GraphSpec

(* The answer of a task that no carrier took and no crash can have touched  *)
(* is taken for its follow-ups at most once, by the execution of its        *)
(* assessment or by the reconciliation of its reviewers' results.           *)
THEOREM FollowUpsAreMadeOnce == GraphSpec => []FollowUpsOnce
<1>1. OwnInv => FollowUpsOnce
  BY DEF OwnInv, OwnOK, AnswerFinal, FollowUpsOnce
<1> QED
  BY <1>1, OwnInvariant, PTL

(* Such a task, once complete, stays complete: no pass, no retry, no batch  *)
(* and no reviewer heard late re-opens or closes it.                        *)
THEOREM AnswersStay == GraphSpec => []AnsweredStays
<1>1. GraphTypes /\ OwnInv => AnsweredStays
  BY DEF GraphTypes, RecordsOK, OwnInv, OwnOK, AnswerFinal, AnsweredStays
<1> QED
  BY <1>1, TypesInvariant, OwnInvariant, PTL

-----------------------------------------------------------------------------
(* Batches.                                                                 *)

(* Which steps there are in the phases of a rewriting, and into which       *)
(* phases a step leads.                                                     *)
LEMMA RewritingSteps ==
  ASSUME GraphNext, gpc \in {"write", "sync", "settle"}
  PROVE  WriteTask \/ SyncPeer \/ EndSync \/ SettleParent \/ GraphCrash
  BY NextCases DEF Quiet, TakeLetter, SwallowResult, TakeIn, EndIntake, BeginOrder, EndFollowUps,
     TakeChild, EndChildren, BeginRunOnce, TakeBest, NothingToDo, ApplyAnswer, ApplyNothing,
     ApplyByConsensus, EndServe, BeginClosing, EndClosing,
     MakeTask, AcknowledgeLetter, OrderTask, CloseTask, LinkReviewers, MakeReviewer, RecordAttempt,
     AnswerRequest, ResolveRequest, CloseAttempts, ReadResult, SettleReviewer, AcknowledgeResult, Jump

LEMMA StepsInto ==
  ASSUME GraphNext
  PROVE  /\ gpc' \in {"make", "order", "sync", "settle"} =>
              \/ TakeLetter \/ SwallowResult \/ MakeTask \/ BeginOrder \/ OrderTask \/ EndFollowUps
              \/ WriteTask \/ SyncPeer \/ EndSync \/ ReadResult
         /\ gpc' \in {"apply", "review", "write"} =>
              \/ TakeChild \/ TakeBest \/ ApplyAnswer \/ ApplyNothing \/ ApplyByConsensus
              \/ MakeReviewer \/ LinkReviewers
<1>1. CASE EndIntake \/ EndChildren \/ BeginRunOnce \/ NothingToDo \/ EndServe \/ BeginClosing
           \/ EndClosing \/ AcknowledgeLetter \/ CloseTask \/ AnswerRequest \/ ResolveRequest
           \/ CloseAttempts \/ SettleParent \/ SettleReviewer \/ AcknowledgeResult \/ GraphCrash
           \/ RecordAttempt
  <2>1. gpc' \in Between \cup {"resolve", "worker", "acknowledge"}
    BY <1>1 DEF EndIntake, EndChildren, BeginRunOnce, NothingToDo, EndServe, BeginClosing,
       EndClosing, AcknowledgeLetter, CloseTask, AnswerRequest, ResolveRequest,
       CloseAttempts, SettleParent, SettleReviewer, AcknowledgeResult, GraphCrash, RecordAttempt,
       Jump, Between
  <2> QED
    BY <2>1 DEF Between
<1>2. CASE TakeChild \/ TakeBest \/ ApplyAnswer \/ ApplyNothing \/ ApplyByConsensus
           \/ MakeReviewer \/ LinkReviewers
  <2>1. gpc' \in {"apply", "review", "write"}
    BY <1>2 DEF TakeChild, TakeBest, Take, ApplyAnswer, ApplyNothing, ApplyByConsensus, MakeReviewer,
       LinkReviewers, Jump
  <2> QED
    BY <1>2, <2>1
<1>3. CASE TakeLetter \/ SwallowResult \/ MakeTask \/ BeginOrder \/ OrderTask \/ EndFollowUps
           \/ WriteTask \/ SyncPeer \/ EndSync \/ ReadResult
  <2>1. gpc' \notin {"apply", "review", "write"}
    BY <1>3 DEF TakeLetter, SwallowResult, TakeIn, MakeTask, BeginOrder, OrderTask, EndFollowUps,
       AfterFollowUps, WriteTask, SyncPeer, EndSync, BeginFollowUps, ReadResult, Jump
  <2> QED
    BY <1>3, <2>1
<1> QED
  BY <1>1, <1>2, <1>3, NextCases DEF Quiet

LEMMA AlongBefore ==
  ASSUME GraphAssumption, GraphTypes, GraphNext, ~ SyncPeer, NEW t, NEW p \in Ids, Along(p, t)'
  PROVE  Along(p, t)
<1>1. table[p].under = t /\ table[p].attempt = "none"
  BY TaskKept DEF Along
<1>2. Reviewers(p) = {}
  BY Grows DEF PanelKept, Reviewers, Along
<1> QED
  BY <1>1, <1>2 DEF Along

(* The members of a batch follow if what moved was not following.           *)
LEMMA FollowsStill ==
  ASSUME GraphAssumption, GraphTypes, GraphNext, ~ SyncPeer, NEW t \in Ids, Follows(t),
         table'[t].status = table[t].status, table'[t].batch = table[t].batch,
         \A p \in table[t].batch : Along(p, t) => table'[p].status = table[p].status
  PROVE  Follows(t)'
<1>1. table[t].batch \subseteq Ids
  BY DEF GraphTypes, RecordsOK
<1>2. SUFFICES ASSUME NEW p \in table[t].batch, Along(p, t)'
               PROVE  table'[p].status = table'[t].status
  BY DEF Follows
<1>3. Along(p, t)
  BY <1>1, <1>2, AlongBefore
<1> QED
  BY <1>3 DEF Follows

(* A task that is executed was not where a carrier took it.                 *)
Unmoved(t) ==
  table'[t].status = table[t].status /\ table'[t].batch = table[t].batch
  /\ table'[t].under = table[t].under

Still == \A t \in Ids : Unmoved(t)

LEMMA StillSteps ==
  ASSUME GraphAssumption, GraphTypes, GraphNext,
         ~ CloseTask, ~ LinkReviewers, ~ WriteTask, ~ SyncPeer, ~ SettleParent
  PROVE  Still
<1>1. CASE MakeTask
  BY <1>1, MakeTaskEffect DEF Creates, Still, Unmoved
<1>2. CASE OrderTask \/ RecordAttempt \/ CloseAttempts
  BY <1>2, OrderTaskEffect, RecordAttemptEffect, CloseAttemptsEffect
     DEF Touches, Touched, Still, Unmoved
<1>3. CASE Quiet \/ AcknowledgeLetter \/ AcknowledgeResult \/ EndSync \/ ReadResult \/ GraphCrash
           \/ MakeReviewer \/ AnswerRequest \/ ResolveRequest \/ SettleReviewer
  <2>1. table' = table
    BY <1>3, QuietEffect DEF AcknowledgeLetter, AcknowledgeResult, EndSync, ReadResult, GraphCrash,
       MakeReviewer, AnswerRequest, ResolveRequest, SettleReviewer, records
  <2> QED
    BY <2>1 DEF Still, Unmoved
<1> QED
  BY <1>1, <1>2, <1>3, NextCases

(* A rewriting that ends, or a crash in it that cuts nothing.               *)
LEMMA FollowsAtEnd ==
  ASSUME GraphTypes, Rewritten, ~ cut', EndSync \/ GraphCrash, NEW t \in Ids,
         Rewriting(t), ~ Rewriting(t)'
  PROVE  Follows(t)
<1>0. hand.task = t /\ hand.flow \in {"direct", "result"} /\ HandOK /\ CopyOK /\ InPhase
  BY DEF Rewriting, GraphTypes
<1>1. CASE EndSync
  <2>1. gpc = "sync" /\ hand.flow = "direct" /\ hand.peers = {}
    BY <1>0, <1>1 DEF EndSync, BeginFollowUps, Rewriting
  <2>2. table[t].status = hand.read.status /\ table[t].batch = hand.read.batch
    BY <1>0, <2>1 DEF CopyOK
  <2>3. \A p \in table[t].batch \ {t} : Along(p, t) => table[p].status = hand.read.status
    BY <1>0, <2>1, <2>2 DEF Rewritten
  <2> QED
    BY <2>2, <2>3 DEF Follows
<1>2. CASE GraphCrash
  <2>1. gpc \in {"write", "sync", "settle"} /\ hand.read.batch = {}
    BY <1>2 DEF GraphCrash, Rewriting
  <2>2. CASE gpc = "write"
    <3>1. hand.way = "delegated" /\ hand.flow = "direct"
      BY <1>0, <2>2 DEF Rewriting, InPhase, Executing
    <3>2. table[t].batch = hand.read.batch
      BY <1>0, <2>2, <3>1 DEF CopyOK
    <3> QED
      BY <2>1, <3>2 DEF Follows
  <2>3. CASE gpc \in {"sync", "settle"} /\ hand.flow = "result"
    BY <1>0, <2>1, <2>3 DEF CopyOK, Follows
  <2>4. CASE gpc = "sync" /\ hand.flow = "direct"
    BY <1>0, <2>1, <2>4 DEF CopyOK, Follows
  <2>5. CASE gpc = "settle" /\ hand.flow = "direct"
    BY <1>0, <2>5 DEF InPhase, Settling
  <2> QED
    BY <1>0, <2>1, <2>2, <2>3, <2>4, <2>5
<1> QED
  BY <1>1, <1>2

LEMMA FollowedNext ==
  ASSUME GraphAssumption, GraphTypes, Followed, Rewritten, Untaken, GraphNext, ~ cut'
  PROVE  Followed'
<1>0. InPhase /\ HandOK /\ CopyOK /\ table \in Seq(Tasks)
  BY DEF GraphTypes, RecordsOK
<1>1. SUFFICES ASSUME NEW t \in Ids', Carrying(t)', ~ Rewriting(t)'
               PROVE  Follows(t)'
  BY DEF Followed
<1>2. CASE MakeTask
  <2>1. Creates(Len(table) + 1) /\ ~ SyncPeer /\ Still
    BY <1>2, MakeTaskEffect DEF MakeTask, SyncPeer, Creates, Still, Unmoved
  <2>2. CASE t \notin Ids
    <3>1. table'[t].status = "pending"
      BY <1>1, <2>1, <2>2 DEF Creates, NewTask
    <3> QED
      BY <1>1, <3>1 DEF Carrying
  <2>3. CASE t \in Ids
    <3>1. Carrying(t)
      BY <1>1, <2>1, <2>3 DEF Carrying, Still, Unmoved
    <3>2. Follows(t)
      BY <1>2, <2>3, <3>1 DEF Followed, Rewriting, MakeTask
    <3>3. table[t].batch \subseteq Ids
      BY <2>3 DEF GraphTypes, RecordsOK
    <3> QED
      BY <2>1, <2>3, <3>2, <3>3, FollowsStill DEF Still, Unmoved
  <2> QED
    BY <2>2, <2>3
<1>3. CASE ~ MakeTask /\ ~ CloseTask /\ ~ LinkReviewers /\ ~ WriteTask /\ ~ SyncPeer /\ ~ SettleParent
  <2>1. Still /\ t \in Ids /\ Carrying(t)
    BY <1>1, <1>3, StillSteps, IdsKept DEF Still, Unmoved, Carrying
  <2>2. Follows(t)
    <3>1. CASE Rewriting(t)
      <4>1. EndSync \/ GraphCrash
        BY <1>3, <3>1, RewritingSteps DEF Rewriting
      <4> QED
        BY <1>1, <2>1, <3>1, <4>1, FollowsAtEnd
    <3>2. CASE ~ Rewriting(t)
      BY <2>1, <3>2 DEF Followed
    <3> QED
      BY <3>1, <3>2
  <2>3. table[t].batch \subseteq Ids
    BY <2>1 DEF GraphTypes, RecordsOK
  <2> QED
    BY <1>3, <2>1, <2>2, <2>3, FollowsStill DEF Still, Unmoved
<1>4. CASE CloseTask
  <2>1. PICK u \in sweep :
          /\ Is(u, "pending")
          /\ \/ Ids' = Ids /\ table' = table
             \/ \E s \in {"superseded", "satisfied"} : \E c :
                  Changes(u, [table[u] EXCEPT !.status = s, !.closure = c])
    BY <1>4, CloseTaskEffect
  <2>2. gpc = "close" /\ ~ SyncPeer /\ u \in Ids
    BY <1>4 DEF CloseTask, SyncPeer, GraphTypes, SweepOK
  <2>3. /\ Ids' = Ids /\ \A p \in Ids \ {u} : table'[p] = table[p]
        /\ table'[u].status \in {"pending", "superseded", "satisfied"}
    <3>1. CASE Ids' = Ids /\ table' = table
      BY <2>1, <3>1 DEF Is
    <3>2. CASE \E s \in {"superseded", "satisfied"} : \E c :
                 Changes(u, [table[u] EXCEPT !.status = s, !.closure = c])
      <4>0. PICK s \in {"superseded", "satisfied"} : \E c :
              Changes(u, [table[u] EXCEPT !.status = s, !.closure = c])
        BY <3>2
      <4>1. PICK c : Changes(u, [table[u] EXCEPT !.status = s, !.closure = c])
        BY <4>0
      <4>2. table[u] \in Tasks
        BY <1>0, <2>2 DEF Ids
      <4> QED
        BY <4>1, <4>2 DEF Changes, Tasks
    <3> QED
      BY <2>1, <3>1, <3>2
  <2>4. t # u /\ t \in Ids /\ Carrying(t)
    BY <1>1, <2>3 DEF Carrying
  <2>5. Follows(t)
    BY <2>2, <2>4 DEF Followed, Rewriting
  <2>6. u \in table[t].batch => ~ Along(u, t)
    BY <2>1, <2>4, <2>5 DEF Follows, Is, Carrying
  <2>7. table[t].batch \subseteq Ids
    BY <2>4 DEF GraphTypes, RecordsOK
  <2> QED
    BY <2>2, <2>3, <2>4, <2>5, <2>6, <2>7, FollowsStill
<1>5. CASE LinkReviewers \/ WriteTask \/ SettleParent
  <2>1. PICK v : Changes(hand.task, v)
    BY <1>5, LinkReviewersEffect, WriteTaskEffect, SettleParentEffect
  <2>2. t \in Ids /\ ~ SyncPeer
    BY <1>1, <1>5, <2>1 DEF Changes, LinkReviewers, WriteTask, SettleParent, SyncPeer, Jump
  <2>3. CASE t # hand.task
    <3>1. table'[t] = table[t] /\ Carrying(t) /\ Follows(t)
      <4>1. table'[t] = table[t]
        BY <2>1, <2>2, <2>3 DEF Changes
      <4>2. Carrying(t)
        BY <1>1, <4>1 DEF Carrying
      <4> QED
        BY <2>2, <2>3, <4>1, <4>2 DEF Followed, Rewriting
    <3>2. hand.task \in table[t].batch => ~ Along(hand.task, t)
      <4>1. CASE LinkReviewers \/ WriteTask
        <5>1. gpc \in {"review", "write"}
          BY <4>1 DEF LinkReviewers, WriteTask, Jump
        <5> QED
          BY <2>2, <2>3, <3>1, <5>1 DEF Untaken
      <4>2. CASE SettleParent
        <5>1. hand.flow = "result"
          BY <1>0, <4>2 DEF SettleParent, Jump, InPhase, Settling
        <5>2. hand.result.worker \in Reviewers(hand.task)
          BY <1>0, <5>1 DEF HandOK, GraphTypes, RecordsOK, Reviewers
        <5> QED
          BY <5>2 DEF Along
      <4> QED
        BY <1>5, <4>1, <4>2
    <3>3. table[t].batch \subseteq Ids
      BY <2>2 DEF GraphTypes, RecordsOK
    <3>4. \A p \in table[t].batch : Along(p, t) => table'[p].status = table[p].status
      BY <2>1, <3>2, <3>3 DEF Changes
    <3> QED
      BY <2>2, <3>1, <3>4, FollowsStill
  <2>4. CASE t = hand.task /\ LinkReviewers
    <3>1. hand.way = "delegated" /\ hand.flow = "direct" /\ hand' = hand /\ gpc' = "write"
      BY <1>0, <2>4 DEF LinkReviewers, Jump, InPhase, HandOK, Executing
    <3> QED
      BY <1>1, <2>4, <3>1 DEF Rewriting
  <2>5. CASE t = hand.task /\ WriteTask
    <3>1. hand'.flow = "direct" /\ hand'.task = t /\ gpc' = "sync"
      BY <1>0, <2>5 DEF WriteTask, Jump, InPhase, Executing
    <3> QED
      BY <1>1, <3>1 DEF Rewriting
  <2>6. CASE t = hand.task /\ SettleParent
    <3>1. table'[t] = hand.read /\ \A p \in Ids \ {t} : table'[p] = table[p]
      BY <2>6, SettleParentEffect DEF Changes
    <3>2. gpc = "settle" /\ hand.peers = {}
      BY <1>0, <2>6 DEF SettleParent, Jump, CopyOK
    <3>3. \A p \in hand.read.batch \ {t} : Along(p, t) => table[p].status = hand.read.status
      BY <2>6, <3>2 DEF Rewritten
    <3>4. hand.read.batch \subseteq Ids
      BY <1>0, <3>2 DEF InPhase, Settling, HandOK
    <3>5. \A p \in hand.read.batch : Along(p, t)' => Along(p, t)
      BY <2>2, <3>4, AlongBefore
    <3> QED
      BY <3>1, <3>3, <3>4, <3>5 DEF Follows
  <2> QED
    BY <1>5, <2>3, <2>4, <2>5, <2>6
<1>6. CASE SyncPeer
  <2>1. PICK p \in hand.peers :
          /\ p # hand.task /\ hand' = [hand EXCEPT !.peers = @ \ {p}]
          /\ Changes(p, [table[p] EXCEPT !.status = hand.read.status, !.under = hand.task])
    BY <1>6, SyncPeerEffect
  <2>2. /\ hand.flow \in {"direct", "result"} /\ gpc = "sync" /\ gpc' = "sync" /\ panel' = panel
        /\ hand.task \in Ids
    BY <1>0, <1>6 DEF SyncPeer, InPhase, HandOK
  <2>3. hand'.flow = hand.flow /\ hand'.task = hand.task
    BY <1>0, <2>1 DEF InPhase
  <2>4. t # hand.task
    BY <1>1, <2>2, <2>3 DEF Rewriting
  <2>5. p \in Ids /\ table[p] \in Tasks /\ hand.task # 0 /\ Ids' = Ids
    BY <1>0, <2>1, <2>2 DEF Changes, Ids
  <2>6. /\ table'[p].under = hand.task /\ table'[p].attempt = table[p].attempt
        /\ \A u \in Ids \ {p} : table'[u] = table[u]
    BY <2>1, <2>5 DEF Changes, Tasks
  <2>7. t # p /\ t \in Ids
    BY <1>1, <2>5, <2>6 DEF Carrying
  <2>8. Carrying(t) /\ Follows(t)
    <3>1. Carrying(t)
      BY <1>1, <2>6, <2>7 DEF Carrying
    <3> QED
      BY <2>4, <2>7, <3>1 DEF Followed, Rewriting
  <2>9. table[t].batch \subseteq Ids
    BY <2>7 DEF GraphTypes, RecordsOK
  <2>10. SUFFICES ASSUME NEW u \in table[t].batch, Along(u, t)'
                  PROVE  table'[u].status = table[t].status
    BY <2>6, <2>7 DEF Follows
  <2>11. u # p
    BY <2>4, <2>6, <2>10 DEF Along
  <2>12. Along(u, t)
    BY <2>2, <2>6, <2>9, <2>10, <2>11 DEF Along, Reviewers
  <2> QED
    BY <2>6, <2>8, <2>9, <2>11, <2>12 DEF Follows
<1> QED
  BY <1>2, <1>3, <1>4, <1>5, <1>6

LEMMA RewrittenNext ==
  ASSUME GraphAssumption, GraphTypes, Rewritten, GraphNext
  PROVE  Rewritten'
<1>0. InPhase /\ HandOK /\ CopyOK /\ table \in Seq(Tasks) /\ GraphTypes'
  BY TypesNext DEF GraphTypes, RecordsOK
<1>1. CASE gpc' \notin {"make", "order", "sync", "settle"}
  BY <1>1 DEF Rewritten
<1>2. CASE TakeLetter \/ SwallowResult
  <2>1. hand'.flow = "intake" /\ gpc' = "make"
    BY <1>2 DEF TakeLetter, SwallowResult, TakeIn, NoHand, Jump
  <2> QED
    BY <2>1 DEF Rewritten
<1>3. CASE MakeTask \/ BeginOrder \/ OrderTask
  <2>1. /\ hand'.flow = hand.flow /\ hand'.peers = hand.peers /\ hand'.read = hand.read
        /\ hand'.task = hand.task
    <3>1. CASE MakeTask
      <4>1. PICK m : hand' = [hand EXCEPT !.made = m]
        BY <3>1 DEF MakeTask
      <4> QED
        BY <1>0, <4>1 DEF InPhase
    <3>2. CASE BeginOrder \/ OrderTask
      BY <3>2 DEF BeginOrder, OrderTask
    <3> QED
      BY <1>3, <3>1, <3>2
  <2>2. gpc \in {"make", "order"} /\ gpc' \in {"make", "order"}
    BY <1>3 DEF MakeTask, BeginOrder, OrderTask, Jump
  <2> QED
    BY <2>1, <2>2 DEF Rewritten
<1>4. CASE EndFollowUps
  <2>1. gpc = "order" /\ hand' = hand /\ gpc' = AfterFollowUps
    BY <1>4 DEF EndFollowUps, Jump
  <2>2. CASE hand.flow = "direct"
    BY <2>1, <2>2 DEF AfterFollowUps, Rewritten
  <2>3. CASE hand.flow = "result"
    <3>1. hand'.read.batch \ ({hand'.task} \cup hand'.peers) = {}
      BY <2>1, <2>3 DEF Rewritten
    <3>2. gpc' = "sync"
      BY <2>1, <2>3 DEF AfterFollowUps
    <3> QED
      BY <3>1, <3>2 DEF Rewritten
  <2> QED
    BY <1>0, <2>1, <2>2, <2>3 DEF InPhase
<1>5. CASE WriteTask
  <2>1. hand'.task = hand.task /\ hand'.read.batch = hand.read.batch
        /\ hand'.peers = hand.read.batch \ {hand.task} /\ gpc' = "sync"
    <3>1. hand.read \in Tasks
      BY <1>0, <1>5 DEF WriteTask, Jump, InPhase, Executing, HandOK
    <3>2. PICK s : hand' = [hand EXCEPT !.read.status = s, !.made = << >>,
                             !.peers = hand.read.batch \ {hand.task}]
      BY <1>5 DEF WriteTask
    <3>3. hand'.task = hand.task /\ hand'.peers = hand.read.batch \ {hand.task}
      BY <1>0, <3>2 DEF InPhase
    <3>4. hand'.read.batch = hand.read.batch
      BY <1>0, <3>1, <3>2 DEF InPhase, Tasks
    <3> QED
      BY <1>5, <3>3, <3>4 DEF WriteTask, Jump
  <2>2. hand'.read.batch \ ({hand'.task} \cup hand'.peers) = {}
    BY <2>1
  <2> QED
    BY <2>1, <2>2 DEF Rewritten
<1>6. CASE SyncPeer
  <2>1. PICK p \in hand.peers :
          /\ p # hand.task /\ hand' = [hand EXCEPT !.peers = @ \ {p}]
          /\ Changes(p, [table[p] EXCEPT !.status = hand.read.status, !.under = hand.task])
    BY <1>6, SyncPeerEffect
  <2>2. /\ hand.flow \in {"direct", "result"} /\ gpc = "sync" /\ gpc' = "sync" /\ panel' = panel
        /\ hand.read.batch \subseteq Ids
    BY <1>0, <1>6 DEF SyncPeer, InPhase, HandOK
  <2>3. hand'.peers = hand.peers \ {p} /\ hand'.task = hand.task /\ hand'.read = hand.read
    BY <1>0, <2>1 DEF InPhase
  <2>4. p \in Ids /\ table[p] \in Tasks
    BY <1>0, <2>1 DEF Changes, Ids
  <2>5. table'[p].status = hand.read.status /\ \A u \in Ids \ {p} : table'[u] = table[u]
    BY <2>1, <2>4 DEF Changes, Tasks
  <2>6. ASSUME NEW c, c = hand.task, NEW u \in hand'.read.batch \ ({c} \cup hand'.peers), Along(u, c)'
        PROVE  table'[u].status = hand'.read.status
    <3>1. CASE u = p
      BY <2>3, <2>5, <3>1
    <3>2. CASE u # p
      <4>1. u \in hand.read.batch \ ({hand.task} \cup hand.peers) /\ table'[u] = table[u]
        BY <2>2, <2>3, <2>5, <2>6, <3>2
      <4>2. Along(u, hand.task)
        BY <2>2, <2>3, <2>6, <4>1 DEF Along, Reviewers
      <4> QED
        BY <2>2, <2>3, <4>1, <4>2 DEF Rewritten
    <3> QED
      BY <3>1, <3>2
  <2>7. SUFFICES ASSUME NEW u \in hand'.read.batch \ ({hand'.task} \cup hand'.peers),
                        Along(u, hand.task)'
                 PROVE  table'[u].status = hand'.read.status
    BY <2>2 DEF Rewritten
  <2>8. PICK c : c = hand.task
    OBVIOUS
  <2>9. Along(u, c)'
    BY <2>3, <2>7, <2>8 DEF Along
  <2> QED
    BY <2>3, <2>6, <2>7, <2>8, <2>9
<1>7. CASE EndSync
  <2>1. gpc = "sync" /\ hand' = hand /\ table' = table /\ panel' = panel
        /\ gpc' = IF hand.flow = "direct" THEN "make" ELSE "settle"
    BY <1>7 DEF EndSync, BeginFollowUps, records
  <2>2. CASE hand.flow = "direct"
    BY <2>1, <2>2 DEF Rewritten
  <2>3. CASE hand.flow # "direct"
    BY <2>1, <2>3 DEF Rewritten, Along, Reviewers
  <2> QED
    BY <2>2, <2>3
<1>8. CASE ReadResult
  <2>1. PICK r \in unread, q \in Plans : Reads(r, q)
    BY <1>8, ReadResultEffect
  <2> DEFINE t == panel[r.worker].task
  <2>2. table[t] \in Tasks
    <3>1. t \in Ids
      BY DEF GraphTypes, RecordsOK
    <3> QED
      BY <1>0, <3>1 DEF Ids
  <2>3. hand'.task = t /\ hand'.peers = table[t].batch \ {t}
    BY <2>1 DEF Reads
  <2>4. hand'.read.batch = table[t].batch /\ gpc' \in {"make", "sync"}
    BY <2>1, <2>2 DEF Reads, Tasks
  <2> HIDE DEF t
  <2>5. hand'.peers = hand'.read.batch \ {hand'.task}
    BY <2>3, <2>4
  <2>6. hand'.read.batch \ ({hand'.task} \cup hand'.peers) = {}
    BY <2>5
  <2> QED
    BY <2>4, <2>5, <2>6 DEF Rewritten
<1> QED
  BY <1>1, <1>2, <1>3, <1>4, <1>5, <1>6, <1>7, <1>8, StepsInto

(* A task that is chosen is pending, which no carrier that took it is, or   *)
(* was tried before.                                                        *)
LEMMA UntakenNext ==
  ASSUME GraphAssumption, GraphTypes, Followed, Untaken, GraphNext
  PROVE  Untaken'
<1>0. InPhase /\ HandOK /\ CopyOK /\ table \in Seq(Tasks)
  BY DEF GraphTypes, RecordsOK
<1>1. SUFFICES ASSUME gpc' \in {"apply", "review", "write"}, NEW p, p = hand'.task,
                      NEW t \in Ids' \ {p}, Carrying(t)', p \in table'[t].batch, Along(p, t)'
               PROVE  FALSE
  <2>1. SUFFICES ASSUME gpc' \in {"apply", "review", "write"}, NEW t \in Ids' \ {hand'.task},
                        Carrying(t)', hand'.task \in table'[t].batch, Along(hand.task, t)'
                 PROVE  FALSE
    BY DEF Untaken
  <2>2. PICK p : p = hand'.task
    OBVIOUS
  <2>3. Along(p, t)'
    BY <2>1, <2>2 DEF Along, Reviewers
  <2> QED
    BY <1>1, <2>1, <2>2, <2>3
<1>2. \/ TakeChild \/ TakeBest \/ ApplyAnswer \/ ApplyNothing \/ ApplyByConsensus
      \/ MakeReviewer \/ LinkReviewers
  BY <1>1, StepsInto
<1>3. Ids' = Ids /\ ~ SyncPeer /\ t \in Ids
  <2>1. ~ MakeTask /\ ~ SyncPeer
    BY <1>2 DEF MakeTask, SyncPeer, TakeChild, TakeBest, ApplyAnswer, ApplyNothing, ApplyByConsensus,
       MakeReviewer, LinkReviewers, Jump
  <2> QED
    BY <1>1, <2>1, IdsKept
<1>4. table[t].batch \subseteq Ids
  BY <1>3 DEF GraphTypes, RecordsOK
<1>5. CASE TakeChild \/ TakeBest
  <2>1. table' = table /\ gpc \in Between
    <3>1. table' = table
      BY <1>5, QuietEffect DEF Quiet, records
    <3>2. gpc \in Between
      BY <1>5 DEF TakeChild, TakeBest, Between
    <3> QED
      BY <3>1, <3>2
  <2>2. Is(p, "pending") \/ (Is(p, "blocked") /\ table[p].attempt = "blocked")
    <3>1. PICK u, from : Take(u, from) /\ u \in Offered \cup Retries
      BY <1>5, Candidates DEF TakeChild, TakeBest
    <3>2. hand'.task = u
      BY <3>1 DEF Take, NoHand
    <3> QED
      BY <1>1, <3>1, <3>2, Candidates
  <2>3. Carrying(t) /\ p \in table[t].batch
    BY <1>1, <2>1 DEF Carrying
  <2>4. Follows(t)
    BY <1>3, <2>1, <2>3 DEF Followed, Rewriting, Between
  <2>5. Along(p, t)
    BY <1>1, <1>3, <1>4, <2>3, AlongBefore
  <2> QED
    BY <2>2, <2>3, <2>4, <2>5 DEF Follows, Along, Is, Carrying
<1>6. CASE ~ TakeChild /\ ~ TakeBest
  <2>1. gpc \in {"apply", "review"} /\ hand.task = p
    BY <1>1, <1>2, <1>6, SameInHand DEF ApplyAnswer, ApplyNothing, ApplyByConsensus, MakeReviewer,
       LinkReviewers, Jump
  <2>2. t # hand.task /\ table'[t] = table[t]
    <3>1. CASE LinkReviewers
      BY <1>1, <1>3, <2>1, <3>1, LinkReviewersEffect DEF Changes
    <3>2. CASE ~ LinkReviewers
      BY <1>1, <1>2, <1>6, <2>1, <3>2 DEF ApplyAnswer, ApplyNothing, ApplyByConsensus, MakeReviewer,
         records
    <3> QED
      BY <3>1, <3>2
  <2>3. Carrying(t) /\ p \in table[t].batch
    BY <1>1, <2>2 DEF Carrying
  <2>4. Along(p, t)
    BY <1>1, <1>3, <1>4, <2>3, AlongBefore
  <2> QED
    BY <1>1, <1>3, <2>1, <2>2, <2>3, <2>4 DEF Untaken
<1> QED
  BY <1>5, <1>6

LEMMA PeersInvariant == GraphSpec => []PeersInv
<1>1. GraphInit => PeersInv
  BY DEF GraphInit, PeersInv, Followed, Rewritten, Untaken, Ids
<1>2. GraphTypes /\ PeersInv /\ [GraphNext]_graphVars => PeersInv'
  <2>1. CASE UNCHANGED graphVars
    BY <2>1 DEF graphVars, records, locals, ghistory, PeersInv, Followed, Rewritten, Untaken, Carrying,
       Rewriting, Follows, Along, Reviewers, Ids
  <2>2. CASE GraphNext
    <3>1. cut => cut'
      BY <2>2, NextCases, QuietEffect DEF MakeTask, AcknowledgeLetter, OrderTask, CloseTask,
         MakeReviewer, LinkReviewers, WriteTask, SyncPeer, EndSync, RecordAttempt, AnswerRequest,
         ResolveRequest, CloseAttempts, ReadResult, SettleParent, SettleReviewer, AcknowledgeResult,
         GraphCrash, ghistory
    <3> QED
      BY <2>2, <3>1, GraphAssumption, FollowedNext, RewrittenNext, UntakenNext DEF PeersInv
  <2> QED
    BY <2>1, <2>2
<1> QED
  BY <1>1, <1>2, TypesInvariant, PTL DEF GraphSpec

(* Between two handlers the members of a batch have the status of their     *)
(* carrier, as _sync_batched_peer_tasks left them, where no crash cut it    *)
(* short and nothing took them since.                                       *)
THEOREM PeersFollowTheirCarrier == GraphSpec => []PeersFollow
<1>1. PeersInv => PeersFollow
  <2>1. SUFFICES ASSUME PeersInv, Idle, ~ cut, NEW t \in Ids, Carrying(t)
                 PROVE  Follows(t)
    BY DEF PeersFollow, Carrying, Follows, Along
  <2>2. ~ Rewriting(t)
    BY <2>1 DEF Idle, Rewriting
  <2> QED
    BY <2>1, <2>2 DEF PeersInv, Followed
<1> QED
  BY <1>1, PeersInvariant, PTL
=============================================================================
