--------------------------- MODULE CandidateCycle ---------------------------
(***************************************************************************)
(* One cycle of the loop executed in place (loop0/runner.py run_once): the *)
(* scan for governance drift, the choice of a candidate, its coordination, *)
(* the bounded generation of files, and the records, review and route      *)
(* memory that follow (governance/policy.py, loop0/planner.py,             *)
(* controllers, procedures, verification, audit).  One runner, which may   *)
(* crash between two writes, and editors of the repository.                *)
(***************************************************************************)
EXTENDS Naturals, FiniteSets

CONSTANTS
  Paths,      \* files of the repository
  Protected,  \* those of PROTECTED_GOVERNANCE_PATHS
  Planned,    \* those the Phase 0 plan names
  Templates,  \* those _candidate_implementations has a template for
  Orders,     \* message tasks that ask for changes of files
  Wants,      \* Wants[o]: the files that order o names
  Granted,    \* orders whose provenance authorises governance changes
  Routes, NoRoute,
  Lane,       \* Lane[c]: the route the preferences of candidate c lead to
  Prime,      \* the route of Codex
  Capability, \* Capability[r]: 0 basic, 1 strong, 2 expert (infer_actor_capability)
  Risky,      \* candidates of moderate risk or more
  Edited,     \* files that others edit
  Texts, Weak,      \* what a file may hold: positive numbers; the weak ones
  MaxCycleCrashes   \* bound

ASSUME CycleAssumption ==
  /\ Protected \subseteq Paths /\ Edited \subseteq Paths
  /\ Planned \subseteq Paths /\ Templates \subseteq Paths
  /\ Wants \in [Orders -> SUBSET Paths] /\ Granted \subseteq Orders /\ Orders \cap Planned = {}
  /\ NoRoute \notin Routes /\ Capability \in [Routes -> 0 .. 2] /\ Lane \in [Orders \cup Planned -> Routes]
  /\ Texts \subseteq Nat \ {0} /\ Weak \subseteq Texts /\ MaxCycleCrashes \in Nat

VARIABLES
  files,     \* files[p]: its text, 0 when it is missing
  writer,    \* history: who wrote each protected file last
  approved,  \* governance_drift_state.json: the approved texts, or none,
  reported,  \* and the texts last reported
  told,      \* told[p]: what the principal was last told of p's drift: <<text>>
  orders,    \* statuses of the message tasks
  last,      \* last[p]: the route of the last attempt at p,
  failed,    \* failed[p]: and of the last one that failed
  health,    \* route_health.json: failures since the last success, up to 3
  cpc, job,  \* where the runner is, and with what
  applied,   \* history: how often each order's files were written
  ccrashes

drift     == <<approved, reported, told>>
memory    == <<orders, last, failed, health>>
tree      == <<files, writer>>
cycleVars == <<tree, drift, memory, cpc, job, applied, ccrashes>>

Idle == [key |-> NoRoute, kind |-> "none", paths |-> {}, route |-> NoRoute,
         used |-> NoRoute, way |-> "none", decision |-> "none", tries |-> 0,
         targets |-> {}, left |-> {}, flawed |-> FALSE, seen |-> << >>]

CycleInit ==
  /\ files \in [Paths -> {0} \cup Weak] /\ writer = [p \in Protected |-> "editor"]
  /\ approved = << >> /\ reported = [p \in Protected |-> 0]
  /\ told = [p \in Protected |-> << >>]
  /\ orders = [o \in Orders |-> "pending"]
  /\ last = [p \in Planned |-> NoRoute] /\ failed = last
  /\ health = [r \in Routes |-> 0]
  /\ cpc = "scan" /\ job = Idle
  /\ applied = [o \in Orders |-> 0] /\ ccrashes = 0

Go(from, to) == cpc = from /\ cpc' = to

-----------------------------------------------------------------------------
(* GovernanceDriftMonitor.scan, and _record_governance_drift_if_any.  The   *)
(* fingerprint of a missing file is that of no report: 0.                   *)

Prints == [p \in Protected |-> files[p]]
Drifted == {p \in Protected : Prints[p] # approved[p]}
NewlyDrifted == {p \in Drifted : reported[p] # Prints[p]}

(* Fault: reports of what no longer drifts are kept.                        *)
KeptReports == reported

RetainedReports == [p \in Protected |-> IF p \in Drifted THEN reported[p] ELSE 0]

Initialise ==
  /\ Go("scan", "choose")
  /\ approved = << >> /\ approved' = Prints
  /\ reported' = [p \in Protected |-> 0] /\ told' = [p \in Protected |-> << >>]
  /\ job' = [Idle EXCEPT !.seen = Prints]
  /\ UNCHANGED <<tree, memory, applied, ccrashes>>

(* A drift that is over is forgotten by the principal too.                  *)
Scan ==
  /\ cpc = "scan" /\ approved # << >>
  /\ reported' = [p \in Protected |->
       IF p \in NewlyDrifted THEN Prints[p] ELSE RetainedReports[p]]
  /\ told' = [p \in Protected |-> IF p \in Drifted THEN told[p] ELSE << >>]
  /\ job' = [Idle EXCEPT !.seen = Prints, !.targets = NewlyDrifted]
  /\ cpc' = IF NewlyDrifted = {} THEN "choose" ELSE "alert"
  /\ UNCHANGED <<tree, approved, memory, applied, ccrashes>>

(* The alert's artifact, and then the message to the principal.             *)
Notify ==
  /\ Go("alert", "choose")
  /\ told' = [p \in Protected |-> IF p \in job.targets THEN <<job.seen[p]>> ELSE told[p]]
  /\ job' = [job EXCEPT !.targets = {}]
  /\ UNCHANGED <<tree, approved, reported, memory, applied, ccrashes>>

-----------------------------------------------------------------------------
(* Candidates and their coordination.                                       *)

Missing(p) == files[p] = 0
Thin(p)    == files[p] \in Weak     \* inspect_python_module_quality

(* RouteHealthStore.assess, and a provider's worst route.                   *)
Degraded(r) == health[r] = 2
Broken(r)   == health[r] = 3

(* _choose_alternate_provider *)
Alternates(r) == {s \in Routes \ {r} : ~ Broken(s)}

(* derive_remediation_candidates: an attempt at a still missing path is     *)
(* repeated, by the health of the route it failed on.                       *)
Strategy(p) ==
  IF failed[p] = NoRoute \/ ~ (Degraded(failed[p]) \/ Broken(failed[p])) THEN "normal"
  ELSE IF Alternates(failed[p]) # {} THEN "alternate"
  ELSE "fallback_only"

Candidate(kind, key, paths) == [kind |-> kind, key |-> key, paths |-> paths]

PendingOrders == {Candidate("order", o, {}) : o \in {q \in Orders : orders[q] = "pending"}}
MissingPaths  == {Candidate(Strategy(p), p, {p}) : p \in {q \in Planned : Missing(q)}}
WeakPaths     == {Candidate("strengthen", p, {p}) : p \in {q \in Planned : Thin(q)}}

Candidates == PendingOrders \cup MissingPaths \cup WeakPaths

(* RouteChooser.choose, for the preferences of the candidate.               *)
Route(c) == Lane[c.key]

(* The prioritizer's scores are left open: any candidate may come first.    *)
Choose ==
  /\ Go("choose", "handoff")
  /\ \E c \in Candidates :
       job' = [Idle EXCEPT !.key = c.key, !.kind = c.kind, !.paths = c.paths,
                           !.route = Route(c)]
  /\ UNCHANGED <<tree, drift, memory, applied, ccrashes>>

NoCandidate ==
  /\ Go("choose", "scan") /\ Candidates = {}
  /\ UNCHANGED <<tree, drift, memory, job, applied, ccrashes>>

(* QuotaPolicy.assess allows or not, by the attempts of the last hours; the *)
(* executor finds the provider and the tool, or not.                        *)
Allowed   == {TRUE, FALSE}
Preflight == {TRUE, FALSE}

(* CoordinatorController.coordinate and _decision_for_route; then, when     *)
(* they accept, LocalExecutorController.evaluate_handoff.                   *)
Decision(allowed, ok) ==
  CASE ~ allowed -> "deferred"
    [] allowed /\ (~ ok \/ Broken(job.route)) -> "blocked"
    [] allowed /\ ok /\ Degraded(job.route) /\ job.key \in Risky -> "deferred"
    [] OTHER -> "accepted"

Coordinated == {Decision(allowed, ok) : allowed \in Allowed, ok \in Preflight}

(* recommend_next_step: what a provider then recommends is only recorded.   *)
Coordinate ==
  /\ Go("handoff", "apply")
  /\ \E decision \in Coordinated : job' = [job EXCEPT !.decision = decision]
  /\ UNCHANGED <<tree, drift, memory, applied, ccrashes>>

-----------------------------------------------------------------------------
(* _apply_candidate: the governance gate and the bounded generation.        *)

Authorized == job.kind = "order" /\ job.key \in Granted

(* The files an order names are those that exist.                           *)
Targets == IF job.kind = "order" THEN {p \in Wants[job.key] : ~ Missing(p)}
           ELSE job.paths

(* Fault: the gate looks at the paths of the candidate.                     *)
AskedForCandidate == job.paths \cap Protected = {} \/ Authorized

(* _ensure_governance_write_allowed                                         *)
MayWrite == Targets \cap Protected = {} \/ Authorized

Refused == job.decision # "accepted"

Blocked == [job EXCEPT !.way = "blocked", !.decision = "none"]

ApplyBlocked ==
  /\ Go("apply", "baseline") /\ (Refused \/ ~ MayWrite)
  /\ job' = Blocked
  /\ UNCHANGED <<tree, drift, memory, applied, ccrashes>>

(* The direct variant of a procedure is for actors able enough for it; the  *)
(* careful one of a file's generation keeps away from Prime.                *)
Demanded == IF job.kind = "order" THEN 1 ELSE 2

Variant ==
  CASE job.kind = "fallback_only" -> "fallback"
    [] job.kind # "fallback_only" /\ Capability[job.route] >= Demanded -> "direct"
    [] OTHER -> "careful"

AvoidedByVariant == IF Variant = "careful" /\ job.kind # "order" THEN {Prime} ELSE {}

(* The procedure's own choice of a route also avoids the one last asked.    *)
Avoided == AvoidedByVariant \cup
           IF job.kind \in {"alternate", "fallback_only"} THEN {last[job.key]} ELSE {}

BeginProcedure ==
  /\ Go("apply", "generate") /\ ~ Refused /\ MayWrite /\ Targets # {}
  /\ \E r \in IF job.route \notin Avoided THEN {job.route}
              ELSE IF Routes \subseteq Avoided THEN {NoRoute} ELSE Routes \ Avoided :
       job' = [job EXCEPT !.used = r, !.targets = Targets, !.decision = "none"]
  /\ UNCHANGED <<tree, drift, memory, applied, ccrashes>>

SkipProcedure ==
  /\ Go("apply", "answer") /\ ~ Refused /\ Targets = {}
  /\ job' = [job EXCEPT !.decision = "none"]
  /\ UNCHANGED <<tree, drift, memory, applied, ccrashes>>

Usable == job.used # NoRoute /\ Variant # "fallback"

(* One call of the provider.  A failure that looks transient is retried     *)
(* once (_classify_failure); an answer without files counts as a success of *)
(* the route.                                                               *)
Transient == {TRUE, FALSE}

Failure == [health EXCEPT ![job.used] = IF @ < 3 THEN @ + 1 ELSE 3]

CallFails ==
  /\ cpc = "generate" /\ Usable /\ job.tries < 2
  /\ job.tries = 0 => ~ Broken(job.used)
  /\ health' = Failure
  /\ \E transient \in Transient :
       job' = [job EXCEPT !.tries = IF transient THEN job.tries + 1 ELSE 2]
  /\ UNCHANGED <<tree, drift, orders, last, failed, cpc, applied, ccrashes>>

CallAnswers ==
  /\ cpc = "generate" /\ Usable /\ job.tries < 2
  /\ job.tries = 0 => ~ Broken(job.used)
  /\ health' = [health EXCEPT ![job.used] = 0]
  /\ \E S \in SUBSET job.targets :
       /\ job' = [job EXCEPT !.tries = 2, !.left = S,
                             !.way = IF S = {} THEN "none" ELSE "provider"]
       /\ cpc' = IF S = {} THEN "generate" ELSE "write"
  /\ UNCHANGED <<tree, drift, orders, last, failed, applied, ccrashes>>

(* No provider, or none that answered: the template, if there is one; an    *)
(* order has none and is answered in words.                                 *)
Templated == IF job.kind = "order" THEN {} ELSE job.paths \cap Templates

FallBack ==
  /\ cpc = "generate" /\ job.tries # 1 /\ job.way = "none"
  /\ job' = [job EXCEPT !.left = Templated, !.targets = {}, !.tries = 0,
                        !.way = IF Templated = {} THEN "unsupported" ELSE "template"]
  /\ cpc' = IF Templated # {} THEN "write"
            ELSE IF job.kind = "order" THEN "answer" ELSE "baseline"
  /\ UNCHANGED <<tree, drift, memory, applied, ccrashes>>

WriteFile ==
  /\ cpc = "write"
  /\ \E p \in job.left, x \in Texts :
       /\ files' = [files EXCEPT ![p] = x]
       /\ writer' = [w \in Protected |-> IF w # p THEN writer[w]
                                          ELSE IF Authorized THEN "granted" ELSE "loop"]
       /\ job' = [job EXCEPT !.left = @ \ {p}]
  /\ UNCHANGED <<drift, memory, cpc, applied, ccrashes>>

EndWriting ==
  /\ Go("write", "baseline") /\ job.left = {}
  /\ applied' = [o \in Orders |-> applied[o] + (IF o = job.key THEN 1 ELSE 0)]
  /\ job' = [job EXCEPT !.targets = {}, !.tries = 0]
  /\ UNCHANGED <<tree, drift, memory, ccrashes>>

(* An order without files is answered through the lane, or with a notice    *)
(* that nothing could be done (_fallback_message_dispatch).                 *)
Answer ==
  /\ Go("answer", "baseline")
  /\ \E w \in {"provider", "notice"} : job' = [job EXCEPT !.way = w, !.targets = {}, !.tries = 0]
  /\ UNCHANGED <<tree, drift, memory, applied, ccrashes>>

Done == job.way \in {"provider", "template", "notice"}

(* _approve_governance_baseline_if_authorized looks at the paths of the     *)
(* candidate, of which an order has none.                                   *)
ApproveBaseline ==
  /\ Go("baseline", "task")
  /\ LET approves == Done /\ job.paths \cap Protected # {} /\ Authorized IN
     /\ approved' = IF approves THEN Prints ELSE approved
     /\ reported' = IF approves THEN [p \in Protected |-> 0] ELSE reported
     /\ told' = IF approves THEN [p \in Protected |-> << >>] ELSE told
  /\ UNCHANGED <<tree, memory, job, applied, ccrashes>>

-----------------------------------------------------------------------------
(* The records of the cycle, in the order they are written.                 *)

(* verify_strengthening_candidate: still weak, but perhaps less so; without *)
(* a baseline, uncertain.                                                   *)
StrengthenVerdicts(p) == {"uncertain"} \cup IF Thin(p) THEN {"pass", "fail"} ELSE {"pass"}

(* Fault: what an order wrote is judged by the paths of the candidate.      *)
VerdictsOfFiles ==
  {IF Done /\ job.paths # {} /\ ~ \E p \in job.paths : Missing(p) THEN "pass" ELSE "fail"}

(* _verification_result                                                     *)
Verdicts ==
  CASE job.kind = "order" /\ job.way = "provider" -> {"pass"}
    [] job.kind = "order" /\ job.way = "notice" -> {"uncertain"}
    [] job.kind = "strengthen" /\ Done -> StrengthenVerdicts(job.key)
    [] job.kind \notin {"order", "strengthen"} /\ Done /\ ~ Missing(job.key) -> {"pass"}
    [] OTHER -> {"fail"}

RecordTask ==
  /\ Go("task", "attempt")
  /\ orders' = IF job.kind = "order" /\ Done /\ Verdicts = {"pass"}
               THEN [orders EXCEPT ![job.key] = "complete"] ELSE orders
  /\ UNCHANGED <<tree, drift, last, failed, health, job, applied, ccrashes>>

(* The route an attempt is remembered for is the one that was asked for,    *)
(* called or not (_route_from_attempt_payload).                             *)
Blamed == IF job.used = NoRoute THEN job.route ELSE job.used

RecordAttempt ==
  /\ Go("attempt", "review")
  /\ LET p == job.key
         plans == job.kind \notin {"order", "strengthen"} IN
     /\ last'   = IF plans THEN [last EXCEPT ![p] = Blamed] ELSE last
     /\ failed' = IF plans /\ ~ Done THEN [failed EXCEPT ![p] = Blamed] ELSE failed
  /\ UNCHANGED <<tree, drift, orders, health, job, applied, ccrashes>>

(* review_verification: a verdict that contradicts the files.               *)
Flawed(verdict) ==
  LET missing == \E p \in job.paths : Missing(p) IN
  \/ Done /\ verdict # "pass" /\ ~ missing
  \/ verdict = "pass" /\ missing
  \/ ~ Done /\ verdict = "pass"

Review ==
  /\ Go("review", "observe")
  /\ \E v \in Verdicts : job' = [job EXCEPT !.flawed = Flawed(v)]
  /\ UNCHANGED <<tree, drift, memory, applied, ccrashes>>

AuditedRoutes == {Blamed}

(* _record_audit_route_observations: a clean review is a success of the     *)
(* route.                                                                   *)
Observe ==
  /\ Go("observe", "follow")
  /\ health' = [r \in Routes |->
       IF r \notin AuditedRoutes THEN health[r]
       ELSE IF ~ job.flawed THEN 0
       ELSE IF Broken(r) THEN 3 ELSE health[r] + 1]
  /\ UNCHANGED <<tree, drift, orders, last, failed, job, applied, ccrashes>>

(* The task that a flawed review asks for is never run in place, and the    *)
(* next cycle begins.                                                       *)
FollowUp ==
  /\ Go("follow", "scan")
  /\ job' = Idle
  /\ UNCHANGED <<tree, drift, memory, applied, ccrashes>>

-----------------------------------------------------------------------------
(* Others edit the repository; the runner dies and starts anew.             *)

Edit ==
  /\ \E p \in Edited, x \in {0} \cup Texts :
       /\ files' = [files EXCEPT ![p] = x]
       /\ writer' = [w \in Protected |-> IF w = p THEN "editor" ELSE writer[w]]
  /\ UNCHANGED <<drift, memory, cpc, job, applied, ccrashes>>

CycleCrash ==
  /\ cpc # "scan" /\ ccrashes < MaxCycleCrashes
  /\ cpc' = "scan" /\ job' = Idle /\ ccrashes' = ccrashes + 1
  /\ UNCHANGED <<tree, drift, memory, applied>>

(* The drift monitor's file is written in place: a crash tears it, and the  *)
(* next scan finds no baseline.                                             *)
CrashInScan ==
  /\ cpc = "scan" /\ ccrashes < MaxCycleCrashes
  /\ approved' = << >> /\ ccrashes' = ccrashes + 1
  /\ UNCHANGED <<tree, reported, told, memory, cpc, job, applied>>

Governance == Initialise \/ Scan \/ Notify \/ ApproveBaseline
Decide     == Choose \/ NoCandidate \/ Coordinate
Generate   == ApplyBlocked \/ BeginProcedure \/ SkipProcedure \/ CallFails \/ CallAnswers
              \/ FallBack \/ WriteFile \/ EndWriting \/ Answer
Conclude   == RecordTask \/ RecordAttempt \/ Review \/ Observe \/ FollowUp

CycleNext == Governance \/ Decide \/ Generate \/ Conclude \/ Edit \/ CycleCrash \/ CrashInScan
CycleSpec == CycleInit /\ [][CycleNext]_cycleVars

-----------------------------------------------------------------------------
(* What a cycle promises.                                                   *)

(* When the work of a cycle begins, the principal has been told of every    *)
(* protected file that was then found changed, with the text it had, unless *)
(* a crash hit: a file that changes again, or back and forth, is told of    *)
(* again (GovernanceDriftMonitor.scan).  Deletions are another matter.      *)
DriftTold ==
  ccrashes = 0 /\ cpc = "choose" =>
    \A p \in Protected : job.seen[p] \notin {0, approved[p]} => told[p] = <<job.seen[p]>>

(* A protected file holds what an editor wrote or what an order of the      *)
(* principal authorised, never what the loop made on its own: not through a *)
(* planned or remedial candidate, nor through the files that an order names *)
(* (_ensure_governance_write_allowed).                                      *)
Governed == \A p \in Protected : writer[p] # "loop"

(* The files of an order are written once, and again only after a crash:    *)
(* what it wrote settles the order, whatever editors do to it.              *)
AppliedOnce == \A o \in Orders : applied[o] <= 1 + ccrashes
=============================================================================
