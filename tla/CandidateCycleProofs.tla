------------------------ MODULE CandidateCycleProofs ------------------------
(***************************************************************************)
(* The cycle's safety properties, for every set of files, orders and       *)
(* routes, whatever others edit and wherever the runner crashes.           *)
(***************************************************************************)
EXTENDS CandidateCycle, TLAPS

-----------------------------------------------------------------------------
(* The inductive invariant.                                                 *)

PlanKinds == {"normal", "alternate", "fallback_only", "strengthen"}

Jobs ==
  [key: Orders \cup Planned \cup {NoRoute}, kind: PlanKinds \cup {"order", "none"},
   paths: SUBSET Paths, route: Routes \cup {NoRoute}, used: Routes \cup {NoRoute},
   way: {"none", "blocked", "provider", "template", "unsupported", "notice"},
   decision: {"none", "deferred", "blocked", "accepted"}, tries: Nat,
   targets: SUBSET Paths, left: SUBSET Paths, flawed: BOOLEAN,
   seen: {<< >>} \cup [Protected -> Nat]]

CycleTypeOK ==
  /\ files \in [Paths -> Nat]
  /\ orders \in [Orders -> {"pending", "complete"}]
  /\ last \in [Planned -> Routes \cup {NoRoute}]
  /\ failed \in [Planned -> Routes \cup {NoRoute}]
  /\ job \in Jobs
  /\ applied \in [Orders -> Nat] /\ ccrashes \in Nat

Unsettled == {"handoff", "apply", "generate", "answer", "write", "baseline", "task"}

(* A candidate is a pending order, which has no paths, or a planned file.   *)
InHand ==
  cpc \notin {"scan", "alert", "choose"} =>
    \/ /\ job.kind = "order" /\ job.key \in Orders /\ job.paths = {}
       /\ cpc \in Unsettled => orders[job.key] = "pending"
       /\ cpc = "write" => job.way = "provider"
    \/ job.kind \in PlanKinds /\ job.key \in Planned

(* Nothing protected is about to be written without authority.              *)
Cleared(S) == S \cap Protected = {} \/ Authorized

Gate ==
  /\ cpc = "generate" => Cleared(job.targets \cup job.paths)
  /\ cpc = "write" => Cleared(job.left)

(* A pending order was carried out only in cycles that a crash cut short,   *)
(* but for the one that is about to settle it.                              *)
Settling(o) ==
  cpc \in {"baseline", "task"} /\ job.kind = "order" /\ job.key = o /\ job.way = "provider"

Counted(o) ==
  /\ applied[o] <= 1 + ccrashes
  /\ orders[o] = "pending" /\ ~ Settling(o) => applied[o] <= ccrashes

(* What was reported has been told, but for what is about to be.            *)
Alerting(p) == cpc = "alert" /\ p \in job.targets

ToldOf(p) == job.seen[p] \notin {0, approved[p]} => told[p] = <<job.seen[p]>>

Reported(p) ==
  /\ Alerting(p) => reported[p] = job.seen[p]
  /\ ~ Alerting(p) /\ reported[p] # 0 => told[p] = <<reported[p]>>
  /\ cpc = "alert" /\ p \notin job.targets => ToldOf(p)
  /\ cpc = "choose" => ToldOf(p)

CycleInv ==
  /\ CycleTypeOK /\ InHand /\ Gate /\ Governed
  /\ \A o \in Orders : Counted(o)
  /\ ccrashes = 0 => \A p \in Protected : Reported(p)

-----------------------------------------------------------------------------
(* What the steps make of the job.                                          *)

LEMMA IdleJob ==
  /\ Idle \in Jobs
  /\ \A f \in [Protected -> Nat], S \in SUBSET Paths :
       /\ [Idle EXCEPT !.seen = f] \in Jobs
       /\ [Idle EXCEPT !.seen = f, !.targets = S] \in Jobs
BY DEF Idle, Jobs

LEMMA NewJob ==
  ASSUME NEW k \in Orders \cup Planned, NEW S \in SUBSET Paths, NEW r \in Routes,
         NEW kind \in PlanKinds \cup {"order"}
  PROVE  [Idle EXCEPT !.key = k, !.kind = kind, !.paths = S, !.route = r] \in Jobs
BY DEF Idle, Jobs

Ways      == {"none", "blocked", "provider", "template", "unsupported", "notice"}
Decisions == {"none", "deferred", "blocked", "accepted"}

LEMMA JobBegun ==
  ASSUME NEW j \in Jobs
  PROVE  /\ \A d \in Decisions : [j EXCEPT !.decision = d] \in Jobs
         /\ [j EXCEPT !.way = "blocked", !.decision = "none"] \in Jobs
         /\ \A r \in Routes \cup {NoRoute}, S \in SUBSET Paths :
              [j EXCEPT !.used = r, !.targets = S, !.decision = "none"] \in Jobs
<1> USE DEF Jobs, Decisions
<1>1. ASSUME NEW d \in Decisions PROVE [j EXCEPT !.decision = d] \in Jobs
  OBVIOUS
<1>2. [j EXCEPT !.way = "blocked", !.decision = "none"] \in Jobs
  OBVIOUS
<1>3. ASSUME NEW r \in Routes \cup {NoRoute}, NEW S \in SUBSET Paths
      PROVE  [j EXCEPT !.used = r, !.targets = S, !.decision = "none"] \in Jobs
  OBVIOUS
<1> QED
  BY ONLY <1>1, <1>2, <1>3

LEMMA JobCarriedOn ==
  ASSUME NEW j \in Jobs
  PROVE  /\ \A n \in Nat : [j EXCEPT !.tries = n] \in Jobs
         /\ \A S \in SUBSET Paths : [j EXCEPT !.left = S] \in Jobs
         /\ \A S \in SUBSET Paths, w \in Ways :
              /\ [j EXCEPT !.tries = 2, !.left = S, !.way = w] \in Jobs
              /\ [j EXCEPT !.left = S, !.targets = {}, !.tries = 0, !.way = w] \in Jobs
         /\ [j EXCEPT !.targets = {}] \in Jobs
         /\ [j EXCEPT !.targets = {}, !.tries = 0] \in Jobs
         /\ \A w \in Ways : [j EXCEPT !.way = w, !.targets = {}, !.tries = 0] \in Jobs
         /\ \A b \in BOOLEAN : [j EXCEPT !.flawed = b] \in Jobs
<1> USE DEF Jobs, Ways
<1>1. ASSUME NEW n \in Nat PROVE [j EXCEPT !.tries = n] \in Jobs
  OBVIOUS
<1>2. ASSUME NEW S \in SUBSET Paths PROVE [j EXCEPT !.left = S] \in Jobs
  OBVIOUS
<1>3. ASSUME NEW S \in SUBSET Paths, NEW w \in Ways
      PROVE  /\ [j EXCEPT !.tries = 2, !.left = S, !.way = w] \in Jobs
             /\ [j EXCEPT !.left = S, !.targets = {}, !.tries = 0, !.way = w] \in Jobs
  <2>1. [j EXCEPT !.tries = 2, !.left = S, !.way = w] \in Jobs
    OBVIOUS
  <2>2. [j EXCEPT !.left = S, !.targets = {}, !.tries = 0, !.way = w] \in Jobs
    OBVIOUS
  <2> QED
    BY ONLY <2>1, <2>2
<1>4. [j EXCEPT !.targets = {}] \in Jobs /\ [j EXCEPT !.targets = {}, !.tries = 0] \in Jobs
  OBVIOUS
<1>5. ASSUME NEW w \in Ways PROVE [j EXCEPT !.way = w, !.targets = {}, !.tries = 0] \in Jobs
  OBVIOUS
<1>6. ASSUME NEW b \in BOOLEAN PROVE [j EXCEPT !.flawed = b] \in Jobs
  OBVIOUS
<1> QED
  BY ONLY <1>1, <1>2, <1>3, <1>4, <1>5, <1>6

(* A job taken on keeps its candidate until the cycle ends.                 *)
SameCandidate ==
  job'.key = job.key /\ job'.kind = job.kind /\ job'.paths = job.paths

LEMMA CandidateKept ==
  ASSUME job \in Jobs, Notify \/ ApproveBaseline \/ Coordinate \/ Generate \/ Conclude
  PROVE  SameCandidate \/ cpc' = "scan"
<1> USE DEF SameCandidate, Jobs
<1>1. CASE Notify \/ ApproveBaseline \/ Coordinate
  BY <1>1 DEF Notify, ApproveBaseline, Coordinate
<1>2. CASE ApplyBlocked \/ SkipProcedure \/ Answer
  BY <1>2 DEF ApplyBlocked, SkipProcedure, Answer, Blocked
<1>3. CASE BeginProcedure
  BY <1>3 DEF BeginProcedure
<1>4. CASE CallFails
  BY <1>4 DEF CallFails
<1>5. CASE CallAnswers
  BY <1>5 DEF CallAnswers
<1>6. CASE FallBack
  BY <1>6 DEF FallBack
<1>7. CASE WriteFile \/ EndWriting
  BY <1>7 DEF WriteFile, EndWriting
<1>8. CASE Conclude
  BY <1>8 DEF Conclude, RecordTask, RecordAttempt, Review, Observe, FollowUp, Go
<1> QED
  BY <1>1, <1>2, <1>3, <1>4, <1>5, <1>6, <1>7, <1>8 DEF Generate

LEMMA Chosen ==
  ASSUME NEW c \in Candidates
  PROVE  \/ c.kind = "order" /\ c.key \in Orders /\ orders[c.key] = "pending" /\ c.paths = {}
         \/ c.kind \in PlanKinds /\ c.key \in Planned /\ c.paths \in SUBSET Paths
BY CycleAssumption
   DEF Candidates, PendingOrders, MissingPaths, WeakPaths, Candidate, Strategy, PlanKinds

-----------------------------------------------------------------------------
(* The first states.                                                        *)

LEMMA CycleInvInit == CycleInit => CycleInv
<1> SUFFICES ASSUME CycleInit PROVE CycleInv
  OBVIOUS
<1>1. CycleTypeOK
  <2>1. files \in [Paths -> Nat]
    <3>1. {0} \cup Weak \subseteq Nat
      BY CycleAssumption
    <3> QED
      BY <3>1 DEF CycleInit
  <2>2. job \in Jobs
    BY IdleJob DEF CycleInit
  <2> QED
    BY <2>1, <2>2 DEF CycleInit, CycleTypeOK
<1>2. InHand /\ Gate /\ Governed
  BY DEF CycleInit, InHand, Gate, Governed
<1>3. \A o \in Orders : Counted(o)
  BY DEF CycleInit, Counted
<1>4. \A p \in Protected : Reported(p)
  BY DEF CycleInit, Reported, Alerting, ToldOf
<1> QED
  BY <1>1, <1>2, <1>3, <1>4 DEF CycleInv

-----------------------------------------------------------------------------
(* Types.                                                                   *)

LEMMA TargetsInPaths ==
  ASSUME CycleTypeOK, InHand, cpc = "apply" PROVE Targets \in SUBSET Paths
BY CycleAssumption DEF CycleTypeOK, Jobs, InHand, Targets, PlanKinds

LEMMA JobTyped ==
  ASSUME CycleTypeOK, InHand, [CycleNext]_cycleVars PROVE job' \in Jobs
<1> USE DEF CycleTypeOK
<1>0. Prints \in [Protected -> Nat] /\ Protected \subseteq Paths
  BY CycleAssumption DEF Prints
<1>1. CASE Initialise
  BY <1>0, <1>1, IdleJob DEF Initialise
<1>2. CASE Scan
  BY <1>0, <1>2, IdleJob DEF Scan, NewlyDrifted, Drifted
<1>3. CASE Notify \/ EndWriting
  BY <1>3, JobCarriedOn DEF Notify, EndWriting
<1>4. CASE Choose
  <2>1. PICK c \in Candidates :
          job' = [Idle EXCEPT !.key = c.key, !.kind = c.kind, !.paths = c.paths,
                              !.route = Route(c)]
    BY <1>4 DEF Choose
  <2>2. c.key \in Orders \cup Planned /\ c.kind \in PlanKinds \cup {"order"} /\ c.paths \in SUBSET Paths
    BY Chosen
  <2>3. Route(c) \in Routes
    BY <2>2, CycleAssumption DEF Route
  <2> QED
    BY <2>1, <2>2, <2>3, NewJob
<1>5. CASE Coordinate
  <2>1. Coordinated \subseteq Decisions
    BY DEF Coordinated, Decision, Decisions
  <2>2. PICK d \in Coordinated : job' = [job EXCEPT !.decision = d]
    BY <1>5 DEF Coordinate
  <2> QED
    BY <2>1, <2>2, JobBegun
<1>6. CASE ApplyBlocked \/ SkipProcedure
  BY <1>6, JobBegun DEF ApplyBlocked, Blocked, SkipProcedure, Decisions
<1>7. CASE BeginProcedure
  <2>1. Targets \in SUBSET Paths /\ job.route \in Routes \cup {NoRoute}
    BY <1>7, TargetsInPaths DEF BeginProcedure, Go, Jobs
  <2>2. PICK r \in Routes \cup {NoRoute} :
          job' = [job EXCEPT !.used = r, !.targets = Targets, !.decision = "none"]
    BY <1>7, <2>1 DEF BeginProcedure
  <2> QED
    BY <2>1, <2>2, JobBegun
<1>8. CASE CallFails
  <2>1. PICK transient : job' = [job EXCEPT !.tries = IF transient THEN job.tries + 1 ELSE 2]
    BY <1>8, Zenon DEF CallFails
  <2>2. (IF transient THEN job.tries + 1 ELSE 2) \in Nat
    BY DEF Jobs
  <2> QED
    BY <2>1, <2>2, JobCarriedOn
<1>9. CASE CallAnswers
  <2>1. PICK S \in SUBSET job.targets :
          job' = [job EXCEPT !.tries = 2, !.left = S, !.way = IF S = {} THEN "none" ELSE "provider"]
    BY <1>9 DEF CallAnswers
  <2>2. S \in SUBSET Paths /\ (IF S = {} THEN "none" ELSE "provider") \in Ways
    BY DEF Jobs, Ways
  <2> QED
    BY <2>1, <2>2, JobCarriedOn
<1>10. CASE FallBack
  <2>1. /\ Templated \in SUBSET Paths
        /\ (IF Templated = {} THEN "unsupported" ELSE "template") \in Ways
    BY DEF Templated, Jobs, Ways
  <2> QED
    BY <1>10, <2>1, JobCarriedOn DEF FallBack
<1>11. CASE WriteFile
  <2>1. PICK p : job' = [job EXCEPT !.left = @ \ {p}]
    BY <1>11 DEF WriteFile
  <2>2. job.left \ {p} \in SUBSET Paths
    BY DEF Jobs
  <2> QED
    BY <2>1, <2>2, JobCarriedOn
<1>12. CASE Answer
  <2>1. PICK w \in {"provider", "notice"} :
          job' = [job EXCEPT !.way = w, !.targets = {}, !.tries = 0]
    BY <1>12 DEF Answer
  <2> QED
    BY <2>1, JobCarriedOn DEF Ways
<1>13. CASE Review
  <2>1. \A v : Flawed(v) \in BOOLEAN
    BY DEF Flawed
  <2> QED
    BY <1>13, <2>1, JobCarriedOn DEF Review
<1>14. CASE FollowUp \/ CycleCrash
  BY <1>14, IdleJob DEF FollowUp, CycleCrash
<1>15. CASE ApproveBaseline \/ NoCandidate \/ RecordTask \/ RecordAttempt \/ Observe \/ Edit
            \/ CrashInScan \/ UNCHANGED cycleVars
  BY <1>15 DEF ApproveBaseline, NoCandidate, RecordTask, RecordAttempt, Observe, Edit, CrashInScan,
               cycleVars
<1> QED
  BY <1>1, <1>2, <1>3, <1>4, <1>5, <1>6, <1>7, <1>8, <1>9, <1>10, <1>11, <1>12, <1>13, <1>14, <1>15
     DEF CycleNext, Governance, Decide, Generate, Conclude

LEMMA TypesKept ==
  ASSUME CycleTypeOK, InHand, [CycleNext]_cycleVars PROVE CycleTypeOK'
<1> USE JobTyped DEF CycleTypeOK, tree, memory
<1>1. CASE Governance \/ Decide
  BY <1>1 DEF Governance, Initialise, Scan, Notify, ApproveBaseline, Decide, Choose, NoCandidate,
              Coordinate
<1>2. CASE ApplyBlocked \/ BeginProcedure \/ SkipProcedure \/ FallBack \/ Answer
  BY <1>2 DEF ApplyBlocked, BeginProcedure, SkipProcedure, FallBack, Answer
<1>3. CASE CallFails \/ CallAnswers
  BY <1>3 DEF CallFails, CallAnswers
<1>4. CASE WriteFile \/ Edit
  BY <1>4, CycleAssumption DEF WriteFile, Edit
<1>5. CASE EndWriting
  BY <1>5 DEF EndWriting
<1>6. CASE RecordTask \/ RecordAttempt
  BY <1>6 DEF RecordTask, RecordAttempt, Blamed, Jobs
<1>7. CASE Review \/ Observe \/ FollowUp
  BY <1>7 DEF Review, Observe, FollowUp
<1>8. CASE CycleCrash \/ CrashInScan \/ UNCHANGED cycleVars
  BY <1>8 DEF CycleCrash, CrashInScan, cycleVars
<1> QED
  BY <1>1, <1>2, <1>3, <1>4, <1>5, <1>6, <1>7, <1>8 DEF CycleNext, Generate, Conclude

-----------------------------------------------------------------------------
(* The candidate in hand.                                                   *)

LEMMA InHandKept ==
  ASSUME CycleTypeOK, InHand, [CycleNext]_cycleVars PROVE InHand'
<1> USE DEF Unsettled, InHand, Go
<1>1. CASE Initialise \/ Scan \/ Notify \/ NoCandidate \/ FollowUp \/ CycleCrash \/ CrashInScan
  BY <1>1 DEF Initialise, Scan, Notify, NoCandidate, FollowUp, CycleCrash, CrashInScan
<1>2. CASE Choose
  <2>1. PICK c \in Candidates :
          job' = [Idle EXCEPT !.key = c.key, !.kind = c.kind, !.paths = c.paths,
                              !.route = Route(c)]
    BY <1>2 DEF Choose
  <2>2. job'.key = c.key /\ job'.kind = c.kind /\ job'.paths = c.paths
    BY <2>1 DEF Idle
  <2>3. cpc' = "handoff" /\ orders' = orders
    BY <1>2 DEF Choose, memory
  <2> QED
    BY <2>2, <2>3, Chosen
<1>3. CASE ApproveBaseline \/ Coordinate
  <2>1. SameCandidate \/ cpc' = "scan"
    BY <1>3, CandidateKept DEF CycleTypeOK
  <2> QED
    BY <1>3, <2>1 DEF ApproveBaseline, Coordinate, SameCandidate, memory
<1>4. CASE Generate
  <2>1. SameCandidate \/ cpc' = "scan"
    BY <1>4, CandidateKept DEF CycleTypeOK
  <2>2. cpc \in Unsettled /\ cpc \notin {"scan", "alert", "choose"} /\ cpc' \in Unsettled \ {"handoff"}
    BY <1>4 DEF Generate, ApplyBlocked, BeginProcedure, SkipProcedure, CallFails, CallAnswers,
                FallBack, WriteFile, EndWriting, Answer
  <2>3. orders' = orders
    BY <1>4 DEF Generate, ApplyBlocked, BeginProcedure, SkipProcedure, CallFails, CallAnswers,
                FallBack, WriteFile, EndWriting, Answer, memory
  <2>4. job.kind = "order" /\ cpc' = "write" => job'.way = "provider"
    <3>1. CASE CallAnswers
      BY <3>1 DEF CallAnswers, CycleTypeOK, Jobs
    <3>2. CASE WriteFile
      BY <3>2 DEF WriteFile, CycleTypeOK, Jobs, PlanKinds
    <3>3. CASE FallBack
      BY <3>3 DEF FallBack, Templated
    <3>4. CASE CallFails
      BY <3>4 DEF CallFails
    <3> QED
      BY <1>4, <3>1, <3>2, <3>3, <3>4
         DEF Generate, ApplyBlocked, BeginProcedure, SkipProcedure, EndWriting, Answer
  <2> QED
    BY <2>1, <2>2, <2>3, <2>4 DEF SameCandidate, PlanKinds
<1>5. CASE RecordTask \/ RecordAttempt \/ Review \/ Observe
  <2>1. SameCandidate \/ cpc' = "scan"
    BY <1>5, CandidateKept DEF CycleTypeOK, Conclude
  <2> QED
    BY <1>5, <2>1 DEF RecordTask, RecordAttempt, Review, Observe, SameCandidate
<1>6. CASE Edit \/ UNCHANGED cycleVars
  BY <1>6 DEF Edit, cycleVars, memory
<1> QED
  BY <1>1, <1>2, <1>3, <1>4, <1>5, <1>6 DEF CycleNext, Governance, Decide, Conclude

-----------------------------------------------------------------------------
(* The governance gate.                                                     *)

LEMMA GateKept ==
  ASSUME CycleTypeOK, InHand, Gate, [CycleNext]_cycleVars PROVE Gate'
<1> USE DEF CycleTypeOK, Jobs, Gate, Cleared, Authorized, drift, memory, Go
<1>1. CASE Governance \/ Decide \/ Conclude
  BY <1>1 DEF Governance, Initialise, Scan, Notify, ApproveBaseline, Decide, Choose, NoCandidate,
              Coordinate, Conclude, RecordTask, RecordAttempt, Review, Observe, FollowUp
<1>2. CASE BeginProcedure
  <2>1. PICK r : job' = [job EXCEPT !.used = r, !.targets = Targets, !.decision = "none"]
    BY <1>2 DEF BeginProcedure
  <2>2. job.paths \subseteq Targets \/ job.paths = {}
    BY <1>2 DEF InHand, Targets, BeginProcedure, PlanKinds
  <2> QED
    BY <1>2, <2>1, <2>2 DEF BeginProcedure, MayWrite
<1>3. CASE CallFails \/ CallAnswers
  <2>1. job'.targets = job.targets /\ (cpc' = "write" => job'.left \subseteq job.targets)
    BY <1>3 DEF CallFails, CallAnswers
  <2>2. SameCandidate
    BY <1>3, CandidateKept DEF CallFails, CallAnswers, Generate
  <2>3. cpc = "generate" /\ cpc' \in {"generate", "write"}
    BY <1>3 DEF CallFails, CallAnswers
  <2> QED
    BY <2>1, <2>2, <2>3 DEF SameCandidate
<1>4. CASE FallBack
  BY <1>4 DEF FallBack, Templated
<1>5. CASE ApplyBlocked \/ SkipProcedure \/ Answer
  BY <1>5 DEF ApplyBlocked, SkipProcedure, Answer
<1>6. CASE WriteFile \/ Edit \/ EndWriting
  BY <1>6 DEF WriteFile, Edit, EndWriting
<1>7. CASE CycleCrash \/ CrashInScan
  BY <1>7 DEF CycleCrash, CrashInScan
<1>8. CASE UNCHANGED cycleVars
  BY <1>8 DEF cycleVars
<1> QED
  BY <1>1, <1>2, <1>3, <1>4, <1>5, <1>6, <1>7, <1>8 DEF CycleNext, Generate

LEMMA GovernedKept ==
  ASSUME CycleTypeOK, Gate, Governed, [CycleNext]_cycleVars PROVE Governed'
<1> USE DEF Governed, tree
<1>1. CASE WriteFile
  <2>1. PICK p \in job.left :
          writer' = [w \in Protected |-> IF w # p THEN writer[w]
                                          ELSE IF Authorized THEN "granted" ELSE "loop"]
    BY <1>1 DEF WriteFile
  <2>2. p \in Protected => Authorized
    BY <1>1 DEF WriteFile, Gate, Cleared
  <2> QED
    BY <2>1, <2>2
<1>2. CASE Edit
  BY <1>2 DEF Edit
<1>3. CASE Governance \/ Decide \/ Conclude
  BY <1>3 DEF Governance, Initialise, Scan, Notify, ApproveBaseline, Decide, Choose, NoCandidate,
              Coordinate, Conclude, RecordTask, RecordAttempt, Review, Observe, FollowUp
<1>4. CASE Generate /\ ~ WriteFile
  BY <1>4 DEF Generate, ApplyBlocked, BeginProcedure, SkipProcedure, CallFails, CallAnswers,
              FallBack, EndWriting, Answer
<1>5. CASE CycleCrash \/ CrashInScan \/ UNCHANGED cycleVars
  BY <1>5 DEF CycleCrash, CrashInScan, cycleVars
<1> QED
  BY <1>1, <1>2, <1>3, <1>4, <1>5 DEF CycleNext

-----------------------------------------------------------------------------
(* The orders carried out.                                                  *)

LEMMA CountedKept ==
  ASSUME CycleTypeOK, InHand, \A o \in Orders : Counted(o), [CycleNext]_cycleVars
  PROVE  \A o \in Orders : Counted(o)'
<1> USE DEF Counted, Settling, Go
<1> SUFFICES ASSUME NEW o \in Orders PROVE Counted(o)'
  OBVIOUS
<1>0. applied[o] \in Nat /\ ccrashes \in Nat
  BY DEF CycleTypeOK
<1>1. CASE EndWriting
  <2>1. applied'[o] = applied[o] + (IF o = job.key THEN 1 ELSE 0)
    BY <1>1 DEF EndWriting
  <2>2. job'.kind = job.kind /\ job'.key = job.key /\ job'.way = job.way
    BY <1>1 DEF EndWriting, CycleTypeOK, Jobs
  <2>3. orders' = orders /\ ccrashes' = ccrashes /\ cpc = "write" /\ cpc' = "baseline"
    BY <1>1 DEF EndWriting, memory
  <2>4. CASE o = job.key
    <3>1. job.kind = "order" /\ orders[o] = "pending" /\ job.way = "provider"
      BY <2>3, <2>4, CycleAssumption DEF InHand, Unsettled
    <3> QED
      BY <1>0, <2>1, <2>2, <2>3, <2>4, <3>1
  <2>5. CASE o # job.key
    BY <1>0, <2>1, <2>3, <2>5
  <2> QED
    BY <2>4, <2>5
<1>2. CASE RecordTask
  <2>1. CASE Settling(o)
    <3>1. Done /\ Verdicts = {"pass"} /\ job.key = o /\ job.kind = "order"
      BY <2>1 DEF Done, Verdicts
    <3>2. orders'[o] = "complete"
      BY <1>2, <3>1 DEF RecordTask, CycleTypeOK
    <3> QED
      BY <1>0, <1>2, <3>2 DEF RecordTask
  <2>2. CASE ~ Settling(o)
    <3>1. orders'[o] = "pending" => orders[o] = "pending"
      BY <1>2 DEF RecordTask, CycleTypeOK
    <3> QED
      BY <1>0, <1>2, <2>2, <3>1 DEF RecordTask
  <2> QED
    BY <2>1, <2>2
<1>3. CASE CycleCrash \/ CrashInScan
  BY <1>0, <1>3 DEF CycleCrash, CrashInScan, memory
<1>4. CASE ApproveBaseline \/ Edit \/ UNCHANGED cycleVars
  BY <1>4 DEF ApproveBaseline, Edit, memory, cycleVars
<1>5. CASE Initialise \/ Scan \/ Notify \/ Decide
  BY <1>5 DEF Initialise, Scan, Notify, Decide, Choose, NoCandidate, Coordinate, memory
<1>6. CASE Generate /\ ~ EndWriting
  BY <1>6 DEF Generate, ApplyBlocked, BeginProcedure, SkipProcedure, CallFails, CallAnswers,
              FallBack, WriteFile, Answer, memory
<1>7. CASE Conclude /\ ~ RecordTask
  BY <1>7 DEF Conclude, RecordAttempt, Review, Observe, FollowUp, memory
<1> QED
  BY <1>1, <1>2, <1>3, <1>4, <1>5, <1>6, <1>7 DEF CycleNext, Governance

-----------------------------------------------------------------------------
(* The drift reported.                                                      *)

LEMMA ReportedKept ==
  ASSUME CycleTypeOK, ccrashes = 0 => \A p \in Protected : Reported(p), [CycleNext]_cycleVars
  PROVE  ccrashes' = 0 => \A p \in Protected : Reported(p)'
<1> USE DEF Reported, Alerting, ToldOf, Go
<1> SUFFICES ASSUME ccrashes' = 0, NEW p \in Protected PROVE Reported(p)'
  OBVIOUS
<1>1. CASE CycleCrash \/ CrashInScan
  BY <1>1 DEF CycleCrash, CrashInScan, CycleTypeOK
<1>2. CASE Initialise
  <2>1. job'.seen = Prints /\ approved' = Prints /\ reported'[p] = 0 /\ cpc' = "choose"
    BY <1>2 DEF Initialise, Idle
  <2> QED
    BY <2>1
<1>3. CASE Scan
  <2>1. /\ job'.seen = Prints /\ job'.targets = NewlyDrifted /\ approved' = approved
        /\ reported'[p] = (IF p \in NewlyDrifted THEN Prints[p] ELSE RetainedReports[p])
        /\ told'[p] = (IF p \in Drifted THEN told[p] ELSE << >>)
        /\ cpc' = (IF NewlyDrifted = {} THEN "choose" ELSE "alert")
    BY <1>3 DEF Scan, Idle
  <2>2. reported[p] # 0 => told[p] = <<reported[p]>>
    BY <1>3 DEF Scan
  <2>3. /\ RetainedReports[p] = (IF p \in Drifted THEN reported[p] ELSE 0)
        /\ p \in Drifted <=> Prints[p] # approved[p]
        /\ p \in NewlyDrifted <=> p \in Drifted /\ reported[p] # Prints[p]
    BY DEF RetainedReports, Drifted, NewlyDrifted
  <2>4. CASE p \in NewlyDrifted
    BY <2>1, <2>4
  <2>5. CASE p \notin NewlyDrifted
    BY <2>1, <2>2, <2>3, <2>5
  <2> QED
    BY <2>4, <2>5
<1>4. CASE Notify
  <2>1. /\ job'.seen = job.seen /\ approved' = approved /\ reported' = reported
        /\ told'[p] = (IF p \in job.targets THEN <<job.seen[p]>> ELSE told[p])
        /\ cpc = "alert" /\ cpc' = "choose" /\ ccrashes' = ccrashes
    BY <1>4 DEF Notify, CycleTypeOK, Jobs
  <2> QED
    BY <2>1
<1>5. CASE ApproveBaseline
  BY <1>5 DEF ApproveBaseline
<1>6. CASE Decide
  BY <1>6 DEF Decide, Choose, NoCandidate, Coordinate, drift
<1>7. CASE Generate
  BY <1>7 DEF Generate, ApplyBlocked, BeginProcedure, SkipProcedure, CallFails, CallAnswers,
              FallBack, WriteFile, EndWriting, Answer, drift
<1>8. CASE Conclude
  BY <1>8 DEF Conclude, RecordTask, RecordAttempt, Review, Observe, FollowUp, drift
<1>9. CASE Edit \/ UNCHANGED cycleVars
  BY <1>9 DEF Edit, cycleVars, drift
<1> QED
  BY <1>1, <1>2, <1>3, <1>4, <1>5, <1>6, <1>7, <1>8, <1>9 DEF CycleNext, Governance

-----------------------------------------------------------------------------
(* The theorems.                                                            *)

(* The invariant that carries the others holds in every state of the cycle  *)
(* (run_once), for every repository, plan and set of orders.                *)
THEOREM CycleInvariant == CycleSpec => []CycleInv
<1>1. CycleInit => CycleInv
  BY CycleInvInit
<1>2. CycleInv /\ [CycleNext]_cycleVars => CycleInv'
  BY TypesKept, InHandKept, GateKept, GovernedKept, CountedKept, ReportedKept DEF CycleInv
<1> QED
  BY <1>1, <1>2, PTL DEF CycleSpec

(* Whatever is planned, ordered or edited, the loop itself never writes a   *)
(* protected file without the principal's authority                         *)
(* (_ensure_governance_write_allowed).                                      *)
THEOREM WritesAreGoverned == CycleSpec => []Governed
<1>1. CycleInv => Governed
  BY DEF CycleInv
<1> QED
  BY <1>1, CycleInvariant, PTL

(* No order's files are written again but after a crash, whatever happens   *)
(* to them in between (_record_task, after _apply_candidate).               *)
THEOREM OrdersApplyOnce == CycleSpec => []AppliedOnce
<1>1. CycleInv => AppliedOnce
  BY DEF CycleInv, Counted, AppliedOnce
<1> QED
  BY <1>1, CycleInvariant, PTL

(* As long as no crash hits, every drift found has been told before the     *)
(* work of the cycle begins (GovernanceDriftMonitor.scan).                  *)
THEOREM DriftIsTold == CycleSpec => []DriftTold
<1>1. CycleInv => DriftTold
  BY DEF CycleInv, Reported, ToldOf, DriftTold
<1> QED
  BY <1>1, CycleInvariant, PTL
=============================================================================
