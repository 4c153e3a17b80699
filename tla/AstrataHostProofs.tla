------------------------- MODULE AstrataHostProofs -------------------------
(***************************************************************************)
(* What the host promises, for any number of terminals, processes,         *)
(* requests, messages, threads and pages, and whatever happens how often:  *)
(* what remote providers are shown, how many copies of a service run, that *)
(* no start is decided in a cooldown, that mail is answered and that       *)
(* threads are kept.                                                       *)
(***************************************************************************)
EXTENDS AstrataHostInvariant, FiniteSetTheorems, WellFoundedInduction, TLAPS

-----------------------------------------------------------------------------
(* The first text there is of a page is one of those named.                 *)

LEMMA FirstIsNamed ==
  ASSUME NEW pg
  PROVE  /\ FirstOf(pg, <<"public">>) \in {"none", "public"}
         /\ FirstOf(pg, <<"public", "summary">>) \in {"none", "public", "summary"}
<1>1. FirstOf(pg, <<"public">>) \in {"none", "public"}
  <2> DEFINE Present == {n \in DOMAIN <<"public">> : <<"public">>[n] \in pg.texts}
  <2>1. Present # {} => \E n \in Present : \A k \in Present : n <= k
    OBVIOUS
  <2> QED
    BY <2>1 DEF FirstOf
<1>2. FirstOf(pg, <<"public", "summary">>) \in {"none", "public", "summary"}
  <2> DEFINE Texts   == <<"public", "summary">>
             Present == {n \in DOMAIN Texts : Texts[n] \in pg.texts}
  <2>1. Present \subseteq {1, 2}
    OBVIOUS
  <2>2. Present # {} => \E n \in Present : \A k \in Present : n <= k
    <3>1. CASE 1 \in Present
      BY <2>1, <3>1
    <3>2. CASE 1 \notin Present
      BY <2>1, <3>2
    <3> QED
      BY <3>1, <3>2
  <2> QED
    BY <2>1, <2>2 DEF FirstOf
<1> QED
  BY <1>1, <1>2

(* A page has nothing sensitive to say to a remote provider.                *)
LEMMA SnippetIsPublic ==
  ASSUME NEW x PROVE Snippet(x, "local", "remote") \subseteq {"public", "normal"}
<1> DEFINE pg   == pages[x]
           view == View(pg, "local", "read", "remote")
<1> SUFFICES ASSUME view.tier # "none", view.summary # "none"
             PROVE  Origin(pg, view.summary) \in {"public", "normal"}
  BY DEF Snippet
<1>1. ~ IsEnclave(pg)
  BY DEF View, Remote
<1>2. CASE IsSensitive(pg)
  <2>1. ~ MayRead(pg, "local", "read", "remote")
    BY <1>2 DEF MayRead, Remote, Redacting
  <2>2. view.summary = FirstOf(pg, <<"public">>)
    BY <1>1, <1>2, <2>1 DEF View, Remote, FullView, Local
  <2> QED
    BY <2>2, FirstIsNamed DEF Origin
<1>3. CASE ~ IsSensitive(pg)
  <2>1. view.summary = FirstOf(pg, <<"public", "summary">>)
    BY <1>1, <1>3 DEF View, Remote, FullView, Local
  <2> QED
    BY <1>3, <2>1, FirstIsNamed DEF Origin
<1> QED
  BY <1>2, <1>3

LEMMA ShowRemoteSafe ==
  ASSUME RemoteSafe, NEW hits, ShowRemote(hits) PROVE RemoteSafe'
BY SnippetIsPublic DEF RemoteSafe, ShowRemote

-----------------------------------------------------------------------------
(* Only the lanes that ask a remote provider show anything.                 *)

LEMMA RemoteSafeKept ==
  ASSUME RemoteSafe, [HostNext]_allVars PROVE RemoteSafe'
<1> USE DEF memVars, memAndLanes
<1>1. CASE Ask
  <2>1. \/ UNCHANGED shown
        \/ \E hits : ShowRemote(hits)
    BY <1>1 DEF Ask, AskPrime, AskReception
  <2> QED
    BY <2>1, ShowRemoteSafe DEF RemoteSafe
<1>2. CASE Write
  BY <1>2 DEF Write, PutPage, BeginWrite, RemoteSafe
<1>3. CASE \E s \in Terminals : TerminalCloses(s)
  BY <1>3 DEF TerminalCloses, RemoteSafe
<1>4. CASE \E p \in Pids : ProcessDies(p)
  BY <1>4 DEF ProcessDies, RemoteSafe
<1>5. CASE Supervise \/ Serve \/ Chat \/ Send
  BY <1>5 DEF Supervise, Serve, Chat, Send, RemoteSafe
<1>6. CASE Correspond \/ AskOwnModel \/ Upkeep
  BY <1>6 DEF Correspond, AskOwnModel, Upkeep, RemoteSafe
<1>7. CASE UNCHANGED allVars
  BY <1>7 DEF allVars, RemoteSafe
<1> QED
  BY <1>1, <1>2, <1>3, <1>4, <1>5, <1>6, <1>7 DEF HostNext

(* Remote providers are never given a sensitive text or one of an enclave,  *)
(* nor a plain summary of a page that was sensitive when it was sent        *)
(* (project_memory_page_view, build_memory_augmented_request).              *)
THEOREM RemoteProvidersSeePublic == HostSpec => []RemoteSafe
<1>1. HostInit => RemoteSafe
  BY DEF HostInit, MemoryInit, RemoteSafe
<1> QED
  BY <1>1, RemoteSafeKept, PTL DEF HostSpec


-----------------------------------------------------------------------------
(* While a cooldown is not over nothing that heeds the latch is let through.*)

LEMMA EvaluateHeat ==
  ASSUME HeatInv, NEW sample \in Samples, NEW bypass \in BOOLEAN, Evaluate(sample, bypass)
  PROVE  /\ latch' = [is |-> latch'.is, fresh |-> latch'.fresh]
         /\ latch'.fresh \in BOOLEAN /\ heated' \in BOOLEAN
         /\ heated' => latch'.fresh /\ latch'.is \in Hot
         /\ Allowed => ~ heated'
<1>1. sample \in {"nominal", "fair", "severe", "unknown"}
  BY DEF Samples
<1>2. latch' = [is |-> Latched(sample, bypass), fresh |-> TRUE]
  BY DEF Evaluate
<1>3. latch'.is = Latched(sample, bypass) /\ latch'.fresh = TRUE
  BY <1>2
<1>4. heated' = (sample \in Hot \/ (heated /\ ~ (bypass /\ sample = "nominal")))
  BY DEF Evaluate
<1>5. heated' \in BOOLEAN
  BY <1>4
<1>6. heated' => Latched(sample, bypass) \in Hot
  <2>1. CASE sample \in Hot
    BY <2>1 DEF Latched, Hot
  <2>2. CASE sample = "nominal"
    BY <1>4, <2>2 DEF Latched, Hot, HeatInv
  <2>3. CASE sample = "unknown"
    BY <1>4, <2>3 DEF Latched, Hot, HeatInv
  <2> QED
    BY <1>1, <2>1, <2>2, <2>3 DEF Hot
<1> QED
  BY <1>2, <1>3, <1>5, <1>6 DEF Allowed

(* What a step does to the caller c alone.                                  *)
LEMMA OneOp ==
  ASSUME HeatInv, NEW c \in Callers, NEW o, IsOp(o), o.hot = FALSE, op' = [op EXCEPT ![c] = o]
  PROVE  /\ op' = [d \in Callers |-> op'[d]]
         /\ \A d \in Callers : IsOp(op'[d]) /\ op'[d].hot = FALSE
BY DEF HeatInv

LEMMA SameHeat ==
  ASSUME HeatInv, op' = [d \in Callers |-> op'[d]],
         \A d \in Callers : IsOp(op'[d]) /\ op'[d].hot = FALSE, UNCHANGED <<latch, heated>>
  PROVE  HeatInv'
BY DEF HeatInv

LEMMA NewHeat ==
  ASSUME HeatInv, UNCHANGED op, NEW sample \in Samples, NEW bypass \in BOOLEAN,
         Evaluate(sample, bypass)
  PROVE  HeatInv'
BY EvaluateHeat DEF HeatInv

LEMMA NoOpIsCalm == IsOp(NoOp) /\ NoOp.hot = FALSE
BY DEF IsOp, NoOp

LEMMA OpField ==
  ASSUME NEW o, IsOp(o), NEW v
  PROVE  /\ IsOp([o EXCEPT !.at = v]) /\ [o EXCEPT !.at = v].hot = o.hot
         /\ IsOp([o EXCEPT !.key = v]) /\ [o EXCEPT !.key = v].hot = o.hot
         /\ IsOp([o EXCEPT !.via = v]) /\ [o EXCEPT !.via = v].hot = o.hot
         /\ IsOp([o EXCEPT !.hot = v]) /\ [o EXCEPT !.hot = v].hot = v
         /\ IsOp([o EXCEPT !.pid = v]) /\ [o EXCEPT !.pid = v].hot = o.hot
BY DEF IsOp

LEMMA MovingIsCalm ==
  ASSUME HeatInv, NEW c \in Callers, NEW at
  PROVE  IsOp([op[c] EXCEPT !.at = at]) /\ [op[c] EXCEPT !.at = at].hot = FALSE
<1>1. IsOp(op[c]) /\ op[c].hot = FALSE
  BY DEF HeatInv
<1> QED
  BY <1>1 DEF IsOp

(* The steps of a start.                                                    *)
LEMMA DecideHeat ==
  ASSUME HeatInv, NEW c \in Callers, DecideStart(c) PROVE HeatInv'
<1>1. PICK sample \in Samples, model \in Recommended, large \in BOOLEAN :
        /\ Evaluate(sample, FALSE)
        /\ IF (Allowed \/ op[c].via = "override") /\ ~Refused(op[c].via, model, large)
           THEN /\ op' = [op EXCEPT ![c].at = "port",
                            ![c].hot = heated' /\ op[c].via # "override"]
                /\ UNCHANGED desk
           ELSE Finish(c)
  BY DEF DecideStart
<1>2. /\ latch' = [is |-> latch'.is, fresh |-> latch'.fresh]
      /\ latch'.fresh \in BOOLEAN /\ heated' \in BOOLEAN
      /\ heated' => latch'.fresh /\ latch'.is \in Hot
      /\ Allowed => ~ heated'
  BY <1>1, EvaluateHeat
<1>3. \E o : op' = [op EXCEPT ![c] = o] /\ IsOp(o) /\ o.hot = FALSE
  <2>1. CASE (Allowed \/ op[c].via = "override") /\ ~Refused(op[c].via, model, large)
    <3> DEFINE h == heated' /\ op[c].via # "override"
               q == [op[c] EXCEPT !.at = "port"]
               o == [q EXCEPT !.hot = h]
    <3>1. op' = [op EXCEPT ![c].at = "port", ![c].hot = h]
      BY <1>1, <2>1
    <3>2. op' = [op EXCEPT ![c] = o]
      BY <3>1 DEF HeatInv
    <3>3. h = FALSE
      BY <1>2, <2>1
    <3>4. IsOp(q)
      BY MovingIsCalm
    <3> HIDE DEF q
    <3>5. op' = [op EXCEPT ![c] = [q EXCEPT !.hot = FALSE]]
      BY <3>2, <3>3
    <3>6. IsOp([q EXCEPT !.hot = FALSE]) /\ [q EXCEPT !.hot = FALSE].hot = FALSE
      BY <3>4, OpField
    <3> QED
      BY <3>5, <3>6
  <2>2. CASE Finish(c)
    BY <2>2, NoOpIsCalm, MovingIsCalm DEF Finish
  <2> QED
    BY <1>1, <2>1, <2>2
<1>4. PICK o : op' = [op EXCEPT ![c] = o] /\ IsOp(o) /\ o.hot = FALSE
  BY <1>3
<1> QED
  BY <1>2, <1>4, OneOp DEF HeatInv

LEMMA StepHeat ==
  ASSUME HeatInv, NEW c \in Callers, RuntimeStep(c) PROVE HeatInv'
<1>1. CASE DecideStart(c)
  BY <1>1, DecideHeat
<1>2. CASE Launch(c)
  <2> DEFINE k == op[c].key
  <2>1. UNCHANGED <<latch, heated>>
    BY <1>2 DEF Launch
  <2>2. CASE op' = [op EXCEPT ![c].at = "wait"]
    <3>1. op' = [op EXCEPT ![c] = [op[c] EXCEPT !.at = "wait"]]
      BY <2>2
    <3> QED
      BY <2>1, <3>1, NoOpIsCalm, MovingIsCalm, OneOp, SameHeat
  <2>3. CASE op' = [op EXCEPT ![c].at = "record", ![c].pid = born + 1]
    <3> DEFINE q == [op[c] EXCEPT !.at = "record"]
               o == [q EXCEPT !.pid = born + 1]
    <3>1. op' = [op EXCEPT ![c] = o]
      BY <2>3 DEF HeatInv
    <3>2. IsOp(q) /\ q.hot = FALSE
      BY MovingIsCalm
    <3> HIDE DEF q
    <3>3. IsOp(o) /\ o.hot = FALSE
      BY <3>2, OpField
    <3> HIDE DEF o
    <3> QED
      BY <2>1, <3>1, <3>3, OneOp, SameHeat
  <2> QED
    BY <1>2, <2>2, <2>3 DEF Launch
<1>3. CASE TryPort(c) \/ Record(c) \/ Waited(c)
  <2>1. UNCHANGED <<latch, heated>>
    BY <1>3 DEF TryPort, Record, Waited
  <2>2. \/ op' = [op EXCEPT ![c] = NoOp]
        \/ \E at : op' = [op EXCEPT ![c].at = at]
    BY <1>3 DEF TryPort, Record, Waited, Finish
  <2>3. ASSUME NEW at, op' = [op EXCEPT ![c].at = at] PROVE HeatInv'
    <3>1. op' = [op EXCEPT ![c] = [op[c] EXCEPT !.at = at]]
      BY <2>3
    <3> QED
      BY <2>1, <3>1, NoOpIsCalm, MovingIsCalm, OneOp, SameHeat
  <2>4. CASE op' = [op EXCEPT ![c] = NoOp]
    BY <2>1, <2>4, NoOpIsCalm, MovingIsCalm, OneOp, SameHeat
  <2> QED
    BY <2>2, <2>3, <2>4
<1> QED
  BY <1>1, <1>2, <1>3 DEF RuntimeStep

LEMMA ServeHeat == ASSUME HeatInv, Serve PROVE HeatInv'
<1>1. CASE \E s \in Terminals : Ensure(s)
  <2>1. PICK s \in Terminals : Ensure(s)
    BY <1>1
  <2>2. PICK sample \in Samples : Evaluate(sample, FALSE)
    BY <2>1 DEF Ensure
  <2>3. \/ UNCHANGED op
        \/ op' = [op EXCEPT ![s].at = "decide", ![s].via = "policy"]
    BY <2>1 DEF Ensure
  <2>4. CASE op' = [op EXCEPT ![s].at = "decide", ![s].via = "policy"]
    <3> DEFINE q == [op[s] EXCEPT !.at = "decide"]
               o == [q EXCEPT !.via = "policy"]
    <3>1. s \in Callers
      BY DEF Callers
    <3>2. op' = [op EXCEPT ![s] = o]
      BY <2>4, <3>1 DEF HeatInv
    <3>4. IsOp(q) /\ q.hot = FALSE
      BY <3>1, MovingIsCalm
    <3> HIDE DEF q
    <3>3. IsOp(o) /\ o.hot = FALSE
      BY <3>4, OpField
    <3> HIDE DEF o
    <3> QED
      BY <2>2, <3>1, <3>2, <3>3, OneOp, EvaluateHeat DEF HeatInv
  <2> QED
    BY <2>2, <2>3, <2>4, NewHeat
<1>2. CASE \/ \E s \in Terminals : CommandStart(s)
           \/ \E p \in Pids, override \in BOOLEAN : ClickStart(p, override)
  <2>0. PICK c \in Callers :
          /\ \E via : op' = [op EXCEPT ![c].at = "decide", ![c].via = via]
          /\ UNCHANGED <<latch, heated>>
    BY <1>2 DEF CommandStart, ClickStart, Callers
  <2>1. PICK via : op' = [op EXCEPT ![c].at = "decide", ![c].via = via]
    BY <2>0
  <2> DEFINE q == [op[c] EXCEPT !.at = "decide"]
             o == [q EXCEPT !.via = via]
  <2>2. IsOp(q) /\ q.hot = FALSE
    BY MovingIsCalm
  <2>3. op' = [op EXCEPT ![c] = o]
    BY <2>1 DEF HeatInv
  <2> HIDE DEF q
  <2>4. IsOp(o) /\ o.hot = FALSE
    BY <2>2, OpField
  <2> HIDE DEF o
  <2> QED
    BY <2>0, <2>3, <2>4, OneOp, SameHeat
<1>3. CASE \E c \in Callers : RuntimeStep(c)
  BY <1>3, StepHeat
<1>4. CASE \/ \E s \in Terminals : CommandStop(s)
           \/ \E p \in Pids : Warm(p) \/ ClickStop(p)
  BY <1>4, SameHeat DEF CommandStop, Warm, ClickStop, StopKey, runVars, HeatInv
<1>5. CASE UiSnapshot \/ RuntimeStatus \/ Doctor \/ StartupReport
  BY <1>5, NewHeat DEF UiSnapshot, RuntimeStatus, Doctor, StartupReport, Observe
<1>6. CASE Cool /\ UNCHANGED <<svcVars, files, op, left>>
  <2>1. latch' = [latch EXCEPT !.fresh = FALSE] /\ heated' = FALSE /\ op' = op
    BY <1>6 DEF Cool
  <2> QED
    BY <2>1 DEF HeatInv
<1> QED
  BY <1>1, <1>2, <1>3, <1>4, <1>5, <1>6 DEF Serve

(* Those that end, and those that answer themselves, decide nothing.        *)
LEMMA LetGoHeat ==
  ASSUME HeatInv, NEW Q, LetGo(Q), UNCHANGED <<latch, heated>> PROVE HeatInv'
<1>1. op' = [c \in Callers |-> IF c \in Q THEN NoOp ELSE op[c]]
  BY DEF LetGo
<1> QED
  BY <1>1, NoOpIsCalm, MovingIsCalm, SameHeat DEF HeatInv

LEMMA ReadyHeat ==
  ASSUME HeatInv, NEW p \in Pids, NEW k, EnsureForChat(p, k), UNCHANGED <<latch, heated>>
  PROVE  HeatInv'
<1> DEFINE at == IF Healthy(k) THEN "ready" ELSE "port"
           o  == [NoOp EXCEPT !.key = k, !.via = "chat", !.at = at]
<1>1. op' = [op EXCEPT ![p] = o] /\ p \in Callers
  BY DEF EnsureForChat, Callers
<1> HIDE DEF at
<1>3. IsOp(o) /\ o.hot = FALSE
  <2> DEFINE n == [NoOp EXCEPT !.key = k]
  <2>1. IsOp(n) /\ n.hot = FALSE
    BY NoOpIsCalm, OpField
  <2>2. o = [[n EXCEPT !.via = "chat"] EXCEPT !.at = at]
    OBVIOUS
  <2> HIDE DEF n, o
  <2>3. IsOp([n EXCEPT !.via = "chat"]) /\ [n EXCEPT !.via = "chat"].hot = FALSE
    BY <2>1, OpField
  <2> DEFINE m == [n EXCEPT !.via = "chat"]
  <2>4. IsOp(m) /\ m.hot = FALSE /\ o = [m EXCEPT !.at = at]
    BY <2>2, <2>3
  <2> HIDE DEF m
  <2> QED
    BY <2>4, OpField
<1> HIDE DEF o
<1> QED
  BY <1>1, <1>3, OneOp, SameHeat

LEMMA HeatInvKept == ASSUME HeatInv, [HostNext]_allVars PROVE HeatInv'
<1>1. CASE \E s \in Terminals : TerminalCloses(s)
  <2>1. PICK s \in Terminals : op' = [op EXCEPT ![s] = NoOp] /\ UNCHANGED <<latch, heated>>
    BY <1>1 DEF TerminalCloses
  <2> QED
    BY <2>1, NoOpIsCalm, MovingIsCalm, OneOp, SameHeat DEF Callers
<1>2. CASE \E p \in Pids : ProcessDies(p)
  BY <1>2, LetGoHeat DEF ProcessDies
<1>3. CASE Supervise
  BY <1>3, LetGoHeat DEF Supervise
<1>4. CASE Serve
  BY <1>4, ServeHeat
<1>5. CASE AskOwnModel
  <2>1. PICK p \in Pids : AskLocal(p) /\ UNCHANGED <<latch, heated>>
    BY <1>5 DEF AskOwnModel
  <2>2. CASE BeginChat(p) \/ ChooseMode(p) \/ ReadyBoth(p)
    BY <2>1, <2>2, ReadyHeat DEF BeginChat, ChooseMode, ReadyBoth
  <2>3. CASE EndChat(p)
    <3>1. op' = [op EXCEPT ![p] = NoOp] /\ p \in Callers
      BY <2>3 DEF EndChat, Callers
    <3> QED
      BY <2>1, <3>1, NoOpIsCalm, MovingIsCalm, OneOp, SameHeat
  <2> QED
    BY <2>1, <2>2, <2>3 DEF AskLocal
<1>6. CASE Chat \/ Send \/ Correspond \/ Ask \/ Write \/ Upkeep \/ UNCHANGED allVars
  <2>1. UNCHANGED <<op, latch, heated>>
    BY <1>6 DEF Chat, Send, Correspond, Ask, Write, Upkeep, allVars, runVars
  <2> QED
    BY <2>1 DEF HeatInv
<1> QED
  BY <1>1, <1>2, <1>3, <1>4, <1>5, <1>6 DEF HostNext

(* No start that heeds the temperature is decided within the cooldown of a  *)
(* hot sample, whoever took that sample and whoever looks meanwhile, unless *)
(* `doctor` cleared the latch (ThermalController.evaluate).                 *)
THEOREM CooldownsHold == HostSpec => []CooldownHolds
<1>1. ASSUME HostInit PROVE HeatInv
  <2>1. /\ op = [c \in Callers |-> NoOp] /\ heated = FALSE
        /\ latch = [is |-> "unknown", fresh |-> FALSE]
    BY <1>1 DEF HostInit, RuntimeInit
  <2>2. \A c \in Callers : op[c] = NoOp
    BY <2>1
  <2> QED
    BY <2>1, <2>2, NoOpIsCalm DEF HeatInv
<1>2. HeatInv => CooldownHolds
  BY DEF HeatInv, CooldownHolds
<1> QED
  BY <1>1, <1>2, HeatInvKept, PTL DEF HostSpec


-----------------------------------------------------------------------------
(* A terminal starts what it could not see; what others ended, started or   *)
(* wrote meanwhile only adds up to one copy for each terminal.              *)

LEMMA WatchedSequence == Watched \in Seq({"ui", "daemon", "watch"})
<1> DEFINE W == <<"ui", "daemon", "watch">>
<1>1. PICK n \in 2..3 : Watched = SubSeq(W, 1, n)
  BY WatchedAssumption
<1>2. W \in Seq({"ui", "daemon", "watch"}) /\ Len(W) = 3
  OBVIOUS
<1> HIDE DEF W
<1> QED
  BY <1>1, <1>2

LEMMA WatchedAre ==
  /\ Len(Watched) \in Nat /\ Len(Watched) >= 2
  /\ \A n \in 1..Len(Watched) : Watched[n] \in {"ui", "daemon", "watch"}
  /\ \A m, n \in 1..Len(Watched) : Watched[m] = Watched[n] => m = n
<1> DEFINE W == <<"ui", "daemon", "watch">>
<1>1. PICK n \in 2..3 : Watched = SubSeq(W, 1, n)
  BY WatchedAssumption
<1>2. /\ W \in Seq({"ui", "daemon", "watch"}) /\ Len(W) = 3
      /\ W[1] = "ui" /\ W[2] = "daemon" /\ W[3] = "watch"
  OBVIOUS
<1> HIDE DEF W
<1>3. Len(Watched) = n /\ \A k \in 1..n : Watched[k] = W[k]
  BY <1>1, <1>2
<1>4. \A k \in 1..n : k \in {1, 2, 3}
  OBVIOUS
<1> QED
  BY <1>2, <1>3, <1>4

LEMMA CountingCopies ==
  ASSUME NEW x
  PROVE  /\ IsFiniteSet(Copies(x)) /\ Cardinality(Copies(x)) \in Nat
         /\ IsFiniteSet(Starting(x)) /\ Cardinality(Starting(x)) \in Nat
         /\ Cardinality(Terminals) \in Nat /\ Cardinality(Starting(x)) <= Cardinality(Terminals)
<1>1. IsFiniteSet(Pids) /\ IsFiniteSet(Terminals)
  <2>1. MaxPids \in Nat
    BY PidsAssumption
  <2> QED
    BY <2>1, TerminalsAssumption, FS_Interval DEF Pids
<1>2. Copies(x) \in SUBSET Pids /\ Starting(x) \in SUBSET Terminals
  BY DEF Copies, Starting
<1>3. IsFiniteSet(Copies(x)) /\ IsFiniteSet(Starting(x))
  BY <1>1, <1>2, FS_Subset
<1>4. Cardinality(Starting(x)) <= Cardinality(Terminals)
  BY <1>1, <1>2, FS_Subset
<1> QED
  BY <1>1, <1>3, <1>4, FS_CardinalityType

(* The shapes, and what they are after a step of the terminal s.            *)
BoundShapes ==
  /\ alive = [p \in Pids |-> alive[p]]
  /\ desk = [s \in Terminals |-> desk[s]]
  /\ \A s \in Terminals :
        /\ IsDesk(desk[s]) /\ desk[s].at \in Nat /\ (desk[s].at = 0 => desk[s].does = "none")
        /\ desk[s].unseen \in BOOLEAN
        /\ desk[s].unseen => desk[s].does = "reconcile" /\ desk[s].at \in 1..Len(Watched)
  /\ missed \in Nat

LEMMA DeskField ==
  ASSUME NEW d, IsDesk(d), NEW v
  PROVE  /\ IsDesk([d EXCEPT !.at = v]) /\ [d EXCEPT !.at = v].at = v
         /\ [d EXCEPT !.at = v].unseen = d.unseen /\ [d EXCEPT !.at = v].does = d.does
         /\ IsDesk([d EXCEPT !.own = v]) /\ [d EXCEPT !.own = v].at = d.at
         /\ [d EXCEPT !.own = v].unseen = d.unseen /\ [d EXCEPT !.own = v].does = d.does
BY DEF IsDesk

LEMMA DeskSeen ==
  ASSUME NEW d, IsDesk(d), NEW v \in BOOLEAN
  PROVE  /\ IsDesk([d EXCEPT !.unseen = v]) /\ [d EXCEPT !.unseen = v].at = d.at
         /\ [d EXCEPT !.unseen = v].unseen = v /\ [d EXCEPT !.unseen = v].does = d.does
BY DEF IsDesk

LEMMA NoMoreCopies ==
  ASSUME BoundInv, BoundShapes', missed <= missed',
         \A x \in Services : Copies(x)' \subseteq Copies(x) /\ Starting(x)' \subseteq Starting(x)
  PROVE  BoundInv'
<1>1. missed \in Nat /\ missed' \in Nat
  BY DEF BoundInv, BoundShapes
<1>2. ASSUME NEW x \in Services
      PROVE  Cardinality(Copies(x)') + Cardinality(Starting(x)') <= Cardinality(Terminals) + missed'
  <2>1. Copies(x)' \in SUBSET Copies(x) /\ Starting(x)' \in SUBSET Starting(x)
    OBVIOUS
  <2>2. Cardinality(Copies(x)') <= Cardinality(Copies(x))
        /\ Cardinality(Copies(x)') \in Nat
    BY <2>1, CountingCopies, FS_Subset, FS_CardinalityType
  <2>3. Cardinality(Starting(x)') <= Cardinality(Starting(x))
        /\ Cardinality(Starting(x)') \in Nat
    BY <2>1, CountingCopies, FS_Subset, FS_CardinalityType
  <2>4. Cardinality(Copies(x)) + Cardinality(Starting(x)) <= Cardinality(Terminals) + missed
    BY DEF BoundInv
  <2> QED
    BY <1>1, <2>2, <2>3, <2>4, CountingCopies
<1>3. Cardinality(Terminals)' = Cardinality(Terminals) /\ Services' = Services
  BY DEF Services
<1> QED
  BY <1>2, <1>3 DEF BoundInv, BoundShapes

(* A terminal that moves on, and is not about to start anything.            *)
LEMMA DeskMoves ==
  ASSUME BoundInv, NEW s \in Terminals, NEW d, IsDesk(d), d.at \in Nat, d.unseen = FALSE,
         d.at # 0 \/ d.does = "none",
         desk' = [desk EXCEPT ![s] = d]
  PROVE  /\ desk' = [r \in Terminals |-> desk'[r]]
         /\ \A r \in Terminals :
              /\ IsDesk(desk'[r]) /\ desk'[r].at \in Nat
              /\ desk'[r].at = 0 => desk'[r].does = "none"
              /\ desk'[r].unseen \in BOOLEAN
              /\ desk'[r].unseen => desk'[r].does = "reconcile" /\ desk'[r].at \in 1..Len(Watched)
         /\ \A x : Starting(x)' = Starting(x) \ {s}
<1>1. \A r \in Terminals : desk'[r] = IF r = s THEN d ELSE desk[r]
  BY DEF BoundInv
<1>2. desk' = [r \in Terminals |-> desk'[r]]
  BY DEF BoundInv
<1>3. \A r \in Terminals :
        /\ IsDesk(desk'[r]) /\ desk'[r].at \in Nat
        /\ desk'[r].at = 0 => desk'[r].does = "none"
        /\ desk'[r].unseen \in BOOLEAN
        /\ desk'[r].unseen => desk'[r].does = "reconcile" /\ desk'[r].at \in 1..Len(Watched)
  BY <1>1 DEF BoundInv
<1>4. \A x : Starting(x)' = Starting(x) \ {s}
  BY <1>1 DEF Starting
<1> QED
  BY <1>2, <1>3, <1>4

LEMMA MovesBounded ==
  ASSUME BoundInv, NEW s \in Terminals, NEW d, IsDesk(d), d.at \in Nat, d.unseen = FALSE,
         d.at # 0 \/ d.does = "none",
         desk' = [desk EXCEPT ![s] = d], UNCHANGED alive, missed' \in {missed, missed + 1}
  PROVE  BoundInv'
<1>1. missed \in Nat
  BY DEF BoundInv
<1>2. BoundShapes'
  <2>1. desk' = [r \in Terminals |-> desk'[r]]
    BY DeskMoves
  <2>2. \A r \in Terminals :
          /\ IsDesk(desk'[r]) /\ desk'[r].at \in Nat
          /\ desk'[r].at = 0 => desk'[r].does = "none"
          /\ desk'[r].unseen \in BOOLEAN
          /\ desk'[r].unseen => desk'[r].does = "reconcile" /\ desk'[r].at \in 1..Len(Watched)
    BY DeskMoves
  <2>3. alive' = [p \in Pids |-> alive'[p]]
    BY DEF BoundInv
  <2> QED
    BY <1>1, <2>1, <2>2, <2>3 DEF BoundShapes
<1>3. \A x \in Services : Copies(x)' \subseteq Copies(x) /\ Starting(x)' \subseteq Starting(x)
  BY DeskMoves DEF Copies
<1> QED
  BY <1>1, <1>2, <1>3, NoMoreCopies

(* Processes that end, and processes that are no service.                   *)
LEMMA EndShrinks ==
  ASSUME BoundInv, NEW Q, End(Q)
  PROVE  /\ alive' = [p \in Pids |-> alive'[p]]
         /\ \A x \in Services : Copies(x)' \subseteq Copies(x)
<1>1. alive' = [p \in Pids |-> IF p \in Q THEN "none" ELSE alive[p]]
  BY DEF End
<1>2. \A x \in Services : x # "none"
  BY WatchedAre DEF Services
<1> QED
  BY <1>1, <1>2 DEF Copies

LEMMA SpawnsOne ==
  ASSUME BoundInv, NEW y, Spawn(y)
  PROVE  /\ alive' = [p \in Pids |-> alive'[p]]
         /\ \A x : x # y => Copies(x)' \subseteq Copies(x)
         /\ Copies(y)' \subseteq Copies(y) \cup {born + 1}
<1>1. alive' = [alive EXCEPT ![born + 1] = y]
  BY DEF Spawn
<1>2. \A p \in Pids : alive'[p] = IF p = born + 1 THEN y ELSE alive[p]
  BY <1>1 DEF BoundInv
<1>3. alive' = [p \in Pids |-> alive'[p]]
  BY <1>1 DEF BoundInv
<1> QED
  BY <1>2, <1>3 DEF Copies

LEMMA DesksBounded ==
  ASSUME BoundInv, UNCHANGED <<desk, missed>>, alive' = [p \in Pids |-> alive'[p]],
         \A x \in Services : Copies(x)' \subseteq Copies(x)
  PROVE  BoundInv'
<1>1. BoundShapes'
  BY DEF BoundShapes, BoundInv
<1>2. \A x \in Services : Starting(x)' \subseteq Starting(x)
  BY DEF Starting
<1> QED
  BY <1>1, <1>2, NoMoreCopies DEF BoundInv

(* A look: what is seen is written down, what is not will be started.       *)
LEMMA LookBounded ==
  ASSUME BoundInv, NEW s \in Terminals, Look(s) PROVE BoundInv'
<1> DEFINE x     == Watched[desk[s].at]
           entry == desk[s].own[x]
<1>0. desk[s].unseen = FALSE
  BY DEF Look, BoundInv
<1>1. /\ desk[s].does = "reconcile" /\ desk[s].at <= Len(Watched) /\ ~ desk[s].unseen
      /\ IsDesk(desk[s]) /\ desk[s].at \in Nat /\ UNCHANGED alive /\ missed \in Nat
  BY DEF Look, BoundInv
<1>2. CASE \E e : desk' = [desk EXCEPT ![s].at = @ + 1, ![s].own[x] = e]
  <2>1. PICK e : desk' = [desk EXCEPT ![s].at = @ + 1, ![s].own[x] = e]
    BY <1>2
  <2> DEFINE d == [desk[s] EXCEPT !.at = desk[s].at + 1]
             o == [desk[s].own EXCEPT ![x] = e]
             n == [d EXCEPT !.own = o]
  <2>2. desk' = [desk EXCEPT ![s] = n]
    BY <1>1, <2>1 DEF BoundInv, IsDesk
  <2>3. IsDesk(d) /\ d.at = desk[s].at + 1 /\ d.unseen = desk[s].unseen
    BY <1>1, DeskField
  <2> HIDE DEF d, o
  <2>4. IsDesk(n) /\ n.at = desk[s].at + 1 /\ n.unseen = desk[s].unseen
    BY <2>3, DeskField
  <2>5. missed' \in {missed, missed + 1}
    BY DEF Look
  <2> HIDE DEF n
  <2>6. n.unseen = FALSE /\ n.at \in Nat /\ n.at # 0
    BY <1>1, <1>0, <2>4
  <2> QED
    BY <1>1, <2>2, <2>4, <2>5, <2>6, MovesBounded
<1>3. CASE /\ desk' = [desk EXCEPT ![s].unseen = TRUE]
           /\ \/ Copies(x) = {} /\ missed' = missed
              \/ missed' = missed + 1
  <2> DEFINE n == [desk[s] EXCEPT !.unseen = TRUE]
  <2>1. \A r \in Terminals : desk'[r] = IF r = s THEN n ELSE desk[r]
    BY <1>3 DEF BoundInv
  <2>2. desk' = [r \in Terminals |-> desk'[r]]
    BY <1>3 DEF BoundInv
  <2>3. IsDesk(n) /\ n.at = desk[s].at /\ n.unseen = TRUE /\ n.does = "reconcile"
    BY <1>1, DeskSeen
  <2> HIDE DEF n
  <2>4. desk[s].at \in 1..Len(Watched)
    <3>1. desk[s].at # 0
      BY <1>1 DEF BoundInv
    <3> QED
      BY <1>1, <3>1, WatchedAre
  <2>5. BoundShapes'
    <3>1. missed' \in Nat /\ alive' = [p \in Pids |-> alive'[p]]
      BY <1>1, <1>3 DEF BoundInv
    <3>2. ASSUME NEW r \in Terminals
          PROVE  /\ IsDesk(desk'[r]) /\ desk'[r].at \in Nat
                 /\ desk'[r].at = 0 => desk'[r].does = "none"
                 /\ desk'[r].unseen \in BOOLEAN
                 /\ desk'[r].unseen => desk'[r].does = "reconcile"
                                        /\ desk'[r].at \in 1..Len(Watched)
      <4>1. CASE r = s
        <5>1. desk'[r].at = desk[s].at /\ desk'[r].unseen = TRUE /\ desk'[r].does = "reconcile"
              /\ IsDesk(desk'[r])
          BY <2>1, <2>3, <4>1
        <5>2. desk[s].at # 0
          BY <2>4, WatchedAre
        <5> QED
          BY <1>1, <2>4, <5>1, <5>2
      <4>2. CASE r # s
        BY <2>1, <4>2 DEF BoundInv
      <4> QED
        BY <4>1, <4>2
    <3> QED
      BY <2>2, <3>1, <3>2 DEF BoundShapes
  <2>6. ASSUME NEW y \in Services
        PROVE  Cardinality(Copies(y))' + Cardinality(Starting(y))' <= Cardinality(Terminals) + missed'
    <3>1. Copies(y)' = Copies(y)
      BY <1>1 DEF Copies
    <3>2. Starting(y)' = IF y = x THEN Starting(y) \cup {s} ELSE Starting(y)
      BY <1>1, <2>1, <2>3 DEF Starting
    <3>3. Cardinality(Copies(y)) + Cardinality(Starting(y)) <= Cardinality(Terminals) + missed
      BY DEF BoundInv
    <3>4. CASE y # x
      BY <1>1, <1>3, <3>1, <3>2, <3>3, <3>4, CountingCopies
    <3>5. CASE y = x /\ missed' = missed + 1
      <4>1. s \notin Starting(y)
        BY <1>1 DEF Starting
      <4>2. Cardinality(Starting(y) \cup {s}) = Cardinality(Starting(y)) + 1
        BY <4>1, CountingCopies, FS_AddElement
      <4> QED
        BY <1>1, <3>1, <3>2, <3>3, <3>5, <4>2, CountingCopies
    <3>6. CASE y = x /\ Copies(x) = {} /\ missed' = missed
      <4>1. Cardinality(Copies(y)) = 0
        BY <3>6, FS_EmptySet
      <4>2. Starting(y) \cup {s} \in SUBSET Terminals
        BY DEF Starting
      <4>3. Cardinality(Starting(y) \cup {s}) <= Cardinality(Terminals)
            /\ Cardinality(Starting(y) \cup {s}) \in Nat
        BY <4>2, TerminalsAssumption, FS_Subset, FS_CardinalityType
      <4> QED
        BY <1>1, <3>1, <3>2, <3>6, <4>1, <4>3, CountingCopies
    <3> QED
      BY <1>3, <3>4, <3>5, <3>6
  <2> QED
    BY <2>5, <2>6 DEF BoundShapes, BoundInv, Services
<1>4. \/ \E e : desk' = [desk EXCEPT ![s].at = @ + 1, ![s].own[x] = e]
      \/ /\ desk' = [desk EXCEPT ![s].unseen = TRUE]
         /\ \/ Copies(x) = {} /\ missed' = missed
            \/ missed' = missed + 1
  <2>1. 0 \in Sightings(x, entry) => Copies(x) = {}
    BY DEF Sightings, Copies, Live, Pids
  <2> QED
    BY <2>1 DEF Look
<1> QED
  BY <1>2, <1>3, <1>4

LEMMA StartBounded ==
  ASSUME BoundInv, NEW s \in Terminals, Start(s) PROVE BoundInv'
<1> DEFINE x == Watched[desk[s].at]
<1>1. /\ desk[s].unseen /\ IsDesk(desk[s]) /\ desk[s].at \in Nat /\ desk[s].at \in 1..Len(Watched)
      /\ missed' = missed /\ missed \in Nat
  BY DEF Start, BoundInv
<1>2. /\ \E e : desk' = [desk EXCEPT ![s].at = @ + 1, ![s].own[x] = e, ![s].unseen = FALSE]
      /\ UNCHANGED alive \/ Spawn(x)
  BY DEF Start
<1>3. PICK n : /\ desk' = [desk EXCEPT ![s] = n]
               /\ IsDesk(n) /\ n.at \in Nat /\ n.at # 0 /\ n.unseen = FALSE
  <2>1. PICK e : desk' = [desk EXCEPT ![s].at = @ + 1, ![s].own[x] = e, ![s].unseen = FALSE]
    BY <1>2
  <2> DEFINE d == [desk[s] EXCEPT !.at = desk[s].at + 1]
             o == [desk[s].own EXCEPT ![x] = e]
             m == [d EXCEPT !.own = o]
             n == [m EXCEPT !.unseen = FALSE]
  <2>2. desk' = [desk EXCEPT ![s] = n]
    BY <1>1, <2>1 DEF BoundInv, IsDesk
  <2>3. IsDesk(d) /\ d.at = desk[s].at + 1
    BY <1>1, DeskField
  <2> HIDE DEF d, o
  <2>4. IsDesk(m) /\ m.at = desk[s].at + 1
    BY <2>3, DeskField
  <2> HIDE DEF m
  <2>5. IsDesk(n) /\ n.at = m.at /\ n.unseen = FALSE
    BY <2>4, DeskSeen
  <2> HIDE DEF n
  <2>6. n.at \in Nat /\ n.at # 0
    BY <1>1, <2>4, <2>5
  <2> QED
    BY <2>2, <2>5, <2>6
<1>4. CASE UNCHANGED alive
  BY <1>1, <1>3, <1>4, MovesBounded
<1>5. CASE Spawn(x)
  <2>1. BoundShapes'
    BY <1>1, <1>3, <1>5, DeskMoves, SpawnsOne DEF BoundShapes
  <2>2. ASSUME NEW y \in Services
        PROVE  Cardinality(Copies(y))' + Cardinality(Starting(y))' <= Cardinality(Terminals) + missed'
    <3>1. Cardinality(Copies(y)) + Cardinality(Starting(y)) <= Cardinality(Terminals) + missed
      BY DEF BoundInv
    <3>2. Starting(y)' = Starting(y) \ {s}
      BY <1>3, DeskMoves
    <3>3. /\ Cardinality(Starting(y) \ {s}) = IF s \in Starting(y) THEN Cardinality(Starting(y)) - 1
                                              ELSE Cardinality(Starting(y))
      BY CountingCopies, FS_RemoveElement
    <3>4. Cardinality(Starting(y) \ {s}) <= Cardinality(Starting(y))
      BY <3>3, CountingCopies
    <3>5. CASE y # x
      <4>1. Copies(y)' \in SUBSET Copies(y)
        BY <1>5, <3>5, SpawnsOne
      <4>2. Cardinality(Copies(y)') <= Cardinality(Copies(y)) /\ Cardinality(Copies(y)') \in Nat
        BY <4>1, CountingCopies, FS_Subset, FS_CardinalityType
      <4>4. Starting(y) \ {s} \in SUBSET Starting(y)
        OBVIOUS
      <4>3. Cardinality(Starting(y) \ {s}) \in Nat
        BY <4>4, CountingCopies, FS_Subset, FS_CardinalityType
      <4> QED
        BY <1>1, <3>1, <3>2, <3>4, <4>2, <4>3, CountingCopies
    <3>6. CASE y = x
      <4>1. s \in Starting(y)
        BY <1>1, <3>6 DEF Starting
      <4>2. Copies(y)' \in SUBSET (Copies(y) \cup {born + 1})
        BY <1>5, <3>6, SpawnsOne
      <4>3. IsFiniteSet(Copies(y) \cup {born + 1})
            /\ Cardinality(Copies(y) \cup {born + 1}) \in Nat
            /\ Cardinality(Copies(y) \cup {born + 1}) <= Cardinality(Copies(y)) + 1
        <5>1. /\ IsFiniteSet(Copies(y) \cup {born + 1})
              /\ \/ Cardinality(Copies(y) \cup {born + 1}) = Cardinality(Copies(y))
                 \/ Cardinality(Copies(y) \cup {born + 1}) = Cardinality(Copies(y)) + 1
          BY CountingCopies, FS_AddElement
        <5> QED
          BY <5>1, CountingCopies
      <4>4. Cardinality(Copies(y)') <= Cardinality(Copies(y) \cup {born + 1})
            /\ Cardinality(Copies(y)') \in Nat
        BY <4>2, <4>3, FS_Subset, FS_CardinalityType
      <4> QED
        BY <1>1, <3>1, <3>2, <3>3, <4>1, <4>3, <4>4, CountingCopies
    <3> QED
      BY <3>5, <3>6
  <2> QED
    BY <2>1, <2>2 DEF BoundShapes, BoundInv, Services
<1> QED
  BY <1>2, <1>4, <1>5


LEMMA SupervisorBounded ==
  ASSUME BoundInv, NEW s \in Terminals, SupervisorStep(s) PROVE BoundInv'
<1>1. CASE Look(s) \/ Start(s)
  BY <1>1, LookBounded, StartBounded
<1>2. CASE BeginReconcile(s) \/ \E include \in BOOLEAN : BeginStop(s, include)
  <2>1. PICK does : desk' = [desk EXCEPT ![s] = [at |-> 1, own |-> book, does |-> does,
                                                 unseen |-> FALSE]]
    BY <1>2 DEF BeginReconcile, BeginStop
  <2> DEFINE d == [at |-> 1, own |-> book, does |-> does, unseen |-> FALSE]
  <2>2. IsDesk(d) /\ d.at \in Nat /\ d.at # 0 /\ d.unseen = FALSE
    BY DEF IsDesk
  <2>3. UNCHANGED <<alive, missed>>
    BY <1>2 DEF BeginReconcile, BeginStop
  <2> HIDE DEF d
  <2> QED
    BY <2>1, <2>2, <2>3, MovesBounded DEF d
<1>3. CASE Save(s)
  <2>1. desk' = [desk EXCEPT ![s] = AtRest] /\ UNCHANGED <<alive, missed>>
    BY <1>3 DEF Save
  <2>2. IsDesk(AtRest) /\ AtRest.at = 0 /\ AtRest.at \in Nat /\ AtRest.unseen = FALSE /\ AtRest.does = "none"
    BY DEF IsDesk, AtRest
  <2> QED
    BY <2>1, <2>2, MovesBounded
<1>4. CASE StopNext(s)
  <2> DEFINE v == IF desk[s].at = Stopped THEN SaveAt ELSE desk[s].at + 1
             d == [desk[s] EXCEPT !.at = v]
  <2>1. /\ desk' = [desk EXCEPT ![s] = d] /\ UNCHANGED missed
        /\ desk[s].does # "reconcile"
        /\ \E Q : End(Q)
    BY <1>4 DEF StopNext
  <2>2. IsDesk(desk[s]) /\ desk[s].at \in Nat /\ desk[s].unseen = FALSE
    BY <2>1 DEF BoundInv
  <2>3. v \in Nat /\ v # 0
    BY <2>2, WatchedAre DEF SaveAt, Stopped
  <2> HIDE DEF v
  <2>4. IsDesk(d) /\ d.at = v /\ d.unseen = FALSE
    BY <2>2, DeskField
  <2> HIDE DEF d
  <2>5. /\ desk' = [r \in Terminals |-> desk'[r]]
        /\ \A r \in Terminals :
             /\ IsDesk(desk'[r]) /\ desk'[r].at \in Nat
             /\ desk'[r].at = 0 => desk'[r].does = "none"
             /\ desk'[r].unseen \in BOOLEAN
             /\ desk'[r].unseen => desk'[r].does = "reconcile" /\ desk'[r].at \in 1..Len(Watched)
        /\ \A x : Starting(x)' = Starting(x) \ {s}
    BY <2>1, <2>3, <2>4, DeskMoves
  <2>6. /\ alive' = [p \in Pids |-> alive'[p]]
        /\ \A x \in Services : Copies(x)' \subseteq Copies(x)
    BY <2>1, EndShrinks
  <2>7. BoundShapes' /\ missed <= missed'
    BY <2>1, <2>5, <2>6 DEF BoundShapes, BoundInv
  <2> QED
    BY <2>5, <2>6, <2>7, NoMoreCopies
<1> QED
  BY <1>1, <1>2, <1>3, <1>4 DEF SupervisorStep

(* Who leaves the desks, or goes on from one to the writing of the book.    *)
LEMMA LeavesBounded ==
  ASSUME BoundInv, NEW s \in Terminals, desk[s].at = RuntimeAt, LeaveDesk(s), UNCHANGED <<alive, missed>>
  PROVE  BoundInv'
<1> DEFINE d == [desk[s] EXCEPT !.at = SaveAt]
<1>1. IsDesk(desk[s]) /\ desk[s].unseen = FALSE
  BY WatchedAre DEF BoundInv, RuntimeAt
<1>2. IsDesk(d) /\ d.at = SaveAt /\ d.unseen = FALSE
  BY <1>1, DeskField
<1>3. desk' = [desk EXCEPT ![s] = d]
  BY DEF LeaveDesk
<1>4. SaveAt \in Nat /\ SaveAt # 0
  BY WatchedAre DEF SaveAt
<1> HIDE DEF d
<1> QED
  BY <1>2, <1>3, <1>4, MovesBounded

LEMMA RuntimeBounded ==
  ASSUME BoundInv, NEW c, RuntimeStep(c) PROVE BoundInv'
<1>1. ASSUME Finish(c), UNCHANGED <<alive, missed>> PROVE BoundInv'
  <2>1. CASE c \in Terminals /\ desk[c].at = RuntimeAt
    BY <1>1, <2>1, LeavesBounded DEF Finish
  <2>2. CASE UNCHANGED desk
    BY <1>1, <2>2, DesksBounded DEF BoundInv, Copies
  <2> QED
    BY <1>1, <2>1, <2>2 DEF Finish
<1>2. ASSUME UNCHANGED <<desk, alive, missed>> PROVE BoundInv'
  BY <1>2, DesksBounded DEF BoundInv, Copies
<1>3. ASSUME NEW k, Spawn(Port(k)), UNCHANGED <<desk, missed>> PROVE BoundInv'
  <2>1. \A x \in Services : x # Port(k)
    BY WatchedAre DEF Services, Port
  <2> QED
    BY <1>3, <2>1, SpawnsOne, DesksBounded
<1>4. CASE DecideStart(c)
  BY <1>1, <1>2, <1>4 DEF DecideStart
<1>5. CASE TryPort(c)
  BY <1>1, <1>2, <1>5 DEF TryPort
<1>6. CASE Launch(c)
  <2>1. UNCHANGED <<desk, missed>>
    BY <1>6 DEF Launch
  <2>2. UNCHANGED alive \/ Spawn(Port(op[c].key))
    BY <1>6 DEF Launch
  <2> QED
    BY <1>2, <1>3, <2>1, <2>2
<1>7. CASE Record(c)
  BY <1>2, <1>7 DEF Record, svcVars
<1>8. CASE Waited(c)
  BY <1>1, <1>2, <1>8 DEF Waited
<1> QED
  BY <1>4, <1>5, <1>6, <1>7, <1>8 DEF RuntimeStep

LEMMA BoundInvKept == ASSUME BoundInv, [HostNext]_allVars PROVE BoundInv'
<1>1. ASSUME UNCHANGED <<desk, alive, missed>> PROVE BoundInv'
  BY <1>1, DesksBounded DEF BoundInv, Copies
<1>2. ASSUME NEW Q, End(Q), UNCHANGED <<desk, missed>> PROVE BoundInv'
  BY <1>2, EndShrinks, DesksBounded
<1>3. CASE \E s \in Terminals : TerminalCloses(s)
  <2>1. PICK s \in Terminals : CutOff(s)
    BY <1>3 DEF TerminalCloses
  <2>2. desk' = [desk EXCEPT ![s] = AtRest] /\ UNCHANGED <<alive, missed>>
    BY <2>1 DEF CutOff
  <2>3. IsDesk(AtRest) /\ AtRest.at = 0 /\ AtRest.at \in Nat /\ AtRest.unseen = FALSE /\ AtRest.does = "none"
    BY DEF IsDesk, AtRest
  <2> QED
    BY <2>2, <2>3, MovesBounded
<1>4. CASE \E p \in Pids : ProcessDies(p)
  <2>1. \E Q : End(Q) /\ UNCHANGED <<desk, missed>>
    BY <1>4 DEF ProcessDies, Die
  <2> QED
    BY <1>2, <2>1
<1>5. CASE Supervise
  <2>1. CASE \E s \in Terminals : SupervisorStep(s)
    BY <2>1, SupervisorBounded
  <2>2. CASE \E p \in Pids : Listen(p)
    <3>1. /\ UNCHANGED <<desk, missed>>
          /\ UNCHANGED alive \/ \E Q : End(Q)
      BY <2>2 DEF Listen
    <3> QED
      BY <1>1, <1>2, <3>1
  <2> QED
    BY <1>5, <2>1, <2>2 DEF Supervise
<1>6. CASE Serve
  <2>1. CASE \E s \in Terminals : Ensure(s)
    <3>1. PICK s \in Terminals : Ensure(s)
      BY <2>1
    <3>2. UNCHANGED <<alive, missed>> /\ desk[s].at = RuntimeAt
      BY <3>1 DEF Ensure, AtDesk
    <3>3. UNCHANGED desk \/ LeaveDesk(s)
      BY <3>1 DEF Ensure
    <3> QED
      BY <1>1, <3>2, <3>3, LeavesBounded
  <2>2. CASE \E c \in Callers : RuntimeStep(c)
    BY <2>2, RuntimeBounded
  <2>3. CASE \/ \E s \in Terminals : CommandStop(s)
             \/ \E p \in Pids : ClickStop(p)
    <3>1. \E Q : End(Q) /\ UNCHANGED <<desk, missed>>
      BY <2>3 DEF CommandStop, ClickStop, StopKey
    <3> QED
      BY <1>2, <3>1
  <2>4. CASE \/ \E s \in Terminals : CommandStart(s)
             \/ \E p \in Pids : Warm(p)
             \/ \E p \in Pids, override \in BOOLEAN : ClickStart(p, override)
             \/ UiSnapshot \/ RuntimeStatus \/ Doctor \/ StartupReport
             \/ Cool /\ UNCHANGED <<svcVars, files, op, left>>
    <3>1. UNCHANGED <<desk, alive, missed>>
      BY <2>4 DEF CommandStart, Warm, ClickStart, UiSnapshot, RuntimeStatus, Doctor,
                  StartupReport, Observe, svcVars
    <3> QED
      BY <1>1, <3>1
  <2> QED
    BY <1>6, <2>1, <2>2, <2>3, <2>4 DEF Serve
<1>7. CASE \/ Chat \/ Send \/ Correspond \/ Ask \/ AskOwnModel \/ Write \/ Upkeep
           \/ UNCHANGED allVars
  <2>1. UNCHANGED <<desk, alive, missed>>
    BY <1>7 DEF Chat, Send, Correspond, Ask, AskOwnModel, Write, Upkeep, allVars, svcVars
  <2> QED
    BY <1>1, <2>1
<1> QED
  BY <1>3, <1>4, <1>5, <1>6, <1>7 DEF HostNext

(* However many terminals run the supervisor's commands, however they       *)
(* overlap, are cut off or write an old book over a new one, the copies of  *)
(* a service are at most the terminals, and one more for each time `ps`     *)
(* failed (AstrataSupervisor.reconcile).                                    *)
THEOREM ServicesAreBound == HostSpec => []ServiceBound
<1>1. ASSUME HostInit PROVE BoundInv
  <2>1. PICK programs, recorded : Begins(programs, recorded)
                                  /\ \/ programs = << >> \/ programs = <<"llama-8080">>
                                     \/ programs = Watched
                                     \/ programs = Watched \o <<"llama-8080", "llama-8081">>
    BY <1>1 DEF HostInit, HostBegins
  <2>2. /\ alive = [p \in Pids |-> IF p <= Len(programs) THEN programs[p] ELSE "none"]
        /\ desk = [s \in Terminals |-> AtRest] /\ missed = 0
    BY <2>1 DEF Begins
  <2>3. IsDesk(AtRest) /\ AtRest.at = 0 /\ AtRest.at \in Nat /\ AtRest.unseen = FALSE /\ AtRest.does = "none"
    BY DEF IsDesk, AtRest
  <2>6. \A s \in Terminals : desk[s] = AtRest
    BY <2>2
  <2>4. BoundShapes
    BY <2>2, <2>3, <2>6 DEF BoundShapes
  <2>5. ASSUME NEW x \in Services
        PROVE  Cardinality(Copies(x)) + Cardinality(Starting(x)) <= Cardinality(Terminals) + missed
    <3>1. PICK n \in 1..Len(Watched) : x = Watched[n]
      BY DEF Services
    <3>2. Copies(x) \in SUBSET {n}
      <4> SUFFICES ASSUME NEW p \in Copies(x) PROVE p = n
        OBVIOUS
      <4>1. x \in {"ui", "daemon", "watch"}
        BY <3>1, WatchedAre
      <4>2. p \in Nat /\ p >= 1 /\ alive[p] = x
        BY PidsAssumption DEF Copies, Pids
      <4>3. p <= Len(programs) /\ programs[p] = x
        BY <2>2, <4>1, <4>2 DEF Copies
      <4>4. p \in 1..Len(Watched) /\ Watched[p] = x
        <5>1. CASE programs = << >> \/ programs = <<"llama-8080">>
          BY <4>1, <4>2, <4>3, <5>1
        <5>2. CASE programs = Watched
          BY <4>2, <4>3, <5>2, WatchedAre
        <5>3. CASE programs = Watched \o <<"llama-8080", "llama-8081">>
          <6>1. Watched \in Seq({"ui", "daemon", "watch"})
            BY WatchedSequence
          <6>2. CASE p <= Len(Watched)
            BY <4>2, <4>3, <5>3, <6>1, <6>2
          <6>3. CASE p > Len(Watched)
            <7>1. p \in {Len(Watched) + 1, Len(Watched) + 2}
              BY <4>2, <4>3, <5>3, <6>1, <6>3, WatchedAre
            <7>2. programs[p] \in {"llama-8080", "llama-8081"}
              BY <5>3, <6>1, <7>1, WatchedAre
            <7> QED
              BY <4>1, <4>3, <7>2
          <6> QED
            BY <4>2, <6>2, <6>3, WatchedAre
        <5> QED
          BY <2>1, <5>1, <5>2, <5>3
      <4> QED
        BY <3>1, <4>4, WatchedAre
    <3>3. IsFiniteSet({n}) /\ Cardinality({n}) = 1
      BY FS_Singleton
    <3>4. Cardinality(Copies(x)) <= 1
      BY <3>2, <3>3, FS_Subset
    <3>5. Starting(x) = {}
      BY <2>2, <2>3 DEF Starting
    <3>6. Cardinality(Starting(x)) = 0
      BY <3>5, FS_EmptySet
    <3>7. Cardinality(Terminals) # 0
      BY TerminalsAssumption, FS_EmptySet
    <3> QED
      BY <2>2, <3>4, <3>6, <3>7, CountingCopies
  <2> QED
    BY <2>4, <2>5 DEF BoundShapes, BoundInv
<1>2. BoundInv => ServiceBound
  <2> SUFFICES ASSUME BoundInv, NEW x \in Services
               PROVE  Cardinality(Copies(x)) <= Cardinality(Terminals) + missed
    BY DEF ServiceBound
  <2>1. Cardinality(Copies(x)) + Cardinality(Starting(x)) <= Cardinality(Terminals) + missed
    BY DEF BoundInv
  <2>2. missed \in Nat
    BY DEF BoundInv
  <2> QED
    BY <2>1, <2>2, CountingCopies
<1> QED
  BY <1>1, <1>2, BoundInvKept, PTL DEF HostSpec


-----------------------------------------------------------------------------
(* A thread in which a message was sent is not given up.                    *)

LEMMA ThreadFacts ==
  /\ 0 \notin Threads /\ Mains \subseteq Threads
  /\ \A n \in Nat : n < MaxThreads => n + 1 \in Threads
BY ChatAssumption DEF Threads

(* n is the request q but for its field f.                                  *)
SameBut(f, q, n) ==
  /\ IsReq(n)
  /\ f # "at" => n.at = q.at
  /\ f # "by" => n.by = q.by
  /\ f # "thread" => n.thread = q.thread
  /\ f # "talk" => n.talk = q.talk
  /\ f # "empty" => n.empty = q.empty
  /\ f # "doomed" => n.doomed = q.doomed
  /\ f # "write" => n.write = q.write
  /\ f # "then" => n.then = q.then
  /\ f # "letter" => n.letter = q.letter

(* What the steps make of a request.                                        *)
Wrote(q, then, t, w) ==
  [q EXCEPT !.at = "open", !.then = then, !.thread = t, !.write = w]

LEMMA WroteFields ==
  ASSUME NEW q, NEW then, NEW t, NEW w,
         IsReq(q)
  PROVE  /\ IsReq(Wrote(q, then, t, w))
         /\ Wrote(q, then, t, w).at = "open" /\ Wrote(q, then, t, w).by = q.by
         /\ Wrote(q, then, t, w).thread = t /\ Wrote(q, then, t, w).talk = q.talk
         /\ Wrote(q, then, t, w).empty = q.empty /\ Wrote(q, then, t, w).doomed = q.doomed
         /\ Wrote(q, then, t, w).write = w /\ Wrote(q, then, t, w).then = then
         /\ Wrote(q, then, t, w).letter = q.letter
<1> DEFINE n1 == [q EXCEPT !.at = "open"]
           n2 == [n1 EXCEPT !.then = then]
           n3 == [n2 EXCEPT !.thread = t]
           n4 == [n3 EXCEPT !.write = w]
<1>1. Wrote(q, then, t, w) = n4
  BY DEF Wrote
<1>2. IsReq(q)
  OBVIOUS
<1>3. SameBut("at", q, n1) /\ n1.at = "open"
  BY <1>2 DEF IsReq, SameBut
<1> HIDE DEF n1
<1>4. SameBut("then", n1, n2) /\ n2.then = then
  BY <1>3 DEF IsReq, SameBut
<1> HIDE DEF n2
<1>5. SameBut("thread", n2, n3) /\ n3.thread = t
  BY <1>4 DEF IsReq, SameBut
<1> HIDE DEF n3
<1>6. SameBut("write", n3, n4) /\ n4.write = w
  BY <1>5 DEF IsReq, SameBut
<1> HIDE DEF n4
<1> QED
  BY <1>1, <1>3, <1>4, <1>5, <1>6 DEF SameBut

Pruned(q, D, w) ==
  [q EXCEPT !.at = "open", !.then = "prune", !.doomed = D, !.write = w]

LEMMA PrunedFields ==
  ASSUME NEW q, NEW D, NEW w,
         IsReq(q)
  PROVE  /\ IsReq(Pruned(q, D, w))
         /\ Pruned(q, D, w).at = "open" /\ Pruned(q, D, w).by = q.by
         /\ Pruned(q, D, w).thread = q.thread /\ Pruned(q, D, w).talk = q.talk
         /\ Pruned(q, D, w).empty = q.empty /\ Pruned(q, D, w).doomed = D
         /\ Pruned(q, D, w).write = w /\ Pruned(q, D, w).then = "prune"
         /\ Pruned(q, D, w).letter = q.letter
<1> DEFINE n1 == [q EXCEPT !.at = "open"]
           n2 == [n1 EXCEPT !.then = "prune"]
           n3 == [n2 EXCEPT !.doomed = D]
           n4 == [n3 EXCEPT !.write = w]
<1>1. Pruned(q, D, w) = n4
  BY DEF Pruned
<1>2. IsReq(q)
  OBVIOUS
<1>3. SameBut("at", q, n1) /\ n1.at = "open"
  BY <1>2 DEF IsReq, SameBut
<1> HIDE DEF n1
<1>4. SameBut("then", n1, n2) /\ n2.then = "prune"
  BY <1>3 DEF IsReq, SameBut
<1> HIDE DEF n2
<1>5. SameBut("doomed", n2, n3) /\ n3.doomed = D
  BY <1>4 DEF IsReq, SameBut
<1> HIDE DEF n3
<1>6. SameBut("write", n3, n4) /\ n4.write = w
  BY <1>5 DEF IsReq, SameBut
<1> HIDE DEF n4
<1> QED
  BY <1>1, <1>3, <1>4, <1>5, <1>6 DEF SameBut

Written(q) ==
  [q EXCEPT !.at = q.then, !.then = "idle", !.write = NoChats]

LEMMA WrittenFields ==
  ASSUME NEW q,
         IsReq(q)
  PROVE  /\ IsReq(Written(q))
         /\ Written(q).at = q.then /\ Written(q).by = q.by
         /\ Written(q).thread = q.thread /\ Written(q).talk = q.talk
         /\ Written(q).empty = q.empty /\ Written(q).doomed = q.doomed
         /\ Written(q).write = NoChats /\ Written(q).then = "idle"
         /\ Written(q).letter = q.letter
<1> DEFINE n1 == [q EXCEPT !.at = q.then]
           n2 == [n1 EXCEPT !.then = "idle"]
           n3 == [n2 EXCEPT !.write = NoChats]
<1>1. Written(q) = n3
  BY DEF Written
<1>2. IsReq(q)
  OBVIOUS
<1>3. SameBut("at", q, n1) /\ n1.at = q.then
  BY <1>2 DEF IsReq, SameBut
<1> HIDE DEF n1
<1>4. SameBut("then", n1, n2) /\ n2.then = "idle"
  BY <1>3 DEF IsReq, SameBut
<1> HIDE DEF n2
<1>5. SameBut("write", n2, n3) /\ n3.write = NoChats
  BY <1>4 DEF IsReq, SameBut
<1> HIDE DEF n3
<1> QED
  BY <1>1, <1>3, <1>4, <1>5 DEF SameBut

Found(q, t, c) ==
  [q EXCEPT !.at = "send", !.thread = t, !.talk = c]

LEMMA FoundFields ==
  ASSUME NEW q, NEW t, NEW c,
         IsReq(q)
  PROVE  /\ IsReq(Found(q, t, c))
         /\ Found(q, t, c).at = "send" /\ Found(q, t, c).by = q.by
         /\ Found(q, t, c).thread = t /\ Found(q, t, c).talk = c
         /\ Found(q, t, c).empty = q.empty /\ Found(q, t, c).doomed = q.doomed
         /\ Found(q, t, c).write = q.write /\ Found(q, t, c).then = q.then
         /\ Found(q, t, c).letter = q.letter
<1> DEFINE n1 == [q EXCEPT !.at = "send"]
           n2 == [n1 EXCEPT !.thread = t]
           n3 == [n2 EXCEPT !.talk = c]
<1>1. Found(q, t, c) = n3
  BY DEF Found
<1>2. IsReq(q)
  OBVIOUS
<1>3. SameBut("at", q, n1) /\ n1.at = "send"
  BY <1>2 DEF IsReq, SameBut
<1> HIDE DEF n1
<1>4. SameBut("thread", n1, n2) /\ n2.thread = t
  BY <1>3 DEF IsReq, SameBut
<1> HIDE DEF n2
<1>5. SameBut("talk", n2, n3) /\ n3.talk = c
  BY <1>4 DEF IsReq, SameBut
<1> HIDE DEF n3
<1> QED
  BY <1>1, <1>3, <1>4, <1>5 DEF SameBut

Fresh(at, by, t, c) ==
  [NoReq EXCEPT !.at = at, !.by = by, !.thread = t, !.talk = c]

LEMMA FreshFields ==
  ASSUME NEW at, NEW by, NEW t, NEW c
  PROVE  /\ IsReq(Fresh(at, by, t, c))
         /\ Fresh(at, by, t, c).at = at /\ Fresh(at, by, t, c).by = by
         /\ Fresh(at, by, t, c).thread = t /\ Fresh(at, by, t, c).talk = c
         /\ Fresh(at, by, t, c).empty = NoReq.empty /\ Fresh(at, by, t, c).doomed = NoReq.doomed
         /\ Fresh(at, by, t, c).write = NoReq.write /\ Fresh(at, by, t, c).then = NoReq.then
         /\ Fresh(at, by, t, c).letter = NoReq.letter
<1> DEFINE n1 == [NoReq EXCEPT !.at = at]
           n2 == [n1 EXCEPT !.by = by]
           n3 == [n2 EXCEPT !.thread = t]
           n4 == [n3 EXCEPT !.talk = c]
<1>1. Fresh(at, by, t, c) = n4
  BY DEF Fresh
<1>2. IsReq(NoReq)
  BY DEF IsReq, NoReq
<1>3. SameBut("at", NoReq, n1) /\ n1.at = at
  BY <1>2 DEF IsReq, SameBut
<1> HIDE DEF n1
<1>4. SameBut("by", n1, n2) /\ n2.by = by
  BY <1>3 DEF IsReq, SameBut
<1> HIDE DEF n2
<1>5. SameBut("thread", n2, n3) /\ n3.thread = t
  BY <1>4 DEF IsReq, SameBut
<1> HIDE DEF n3
<1>6. SameBut("talk", n3, n4) /\ n4.talk = c
  BY <1>5 DEF IsReq, SameBut
<1> HIDE DEF n4
<1> QED
  BY <1>1, <1>3, <1>4, <1>5, <1>6 DEF SameBut

Counted(q, E) ==
  [q EXCEPT !.at = "list", !.empty = E]

LEMMA CountedFields ==
  ASSUME NEW q, NEW E,
         IsReq(q)
  PROVE  /\ IsReq(Counted(q, E))
         /\ Counted(q, E).at = "list" /\ Counted(q, E).by = q.by
         /\ Counted(q, E).thread = q.thread /\ Counted(q, E).talk = q.talk
         /\ Counted(q, E).empty = E /\ Counted(q, E).doomed = q.doomed
         /\ Counted(q, E).write = q.write /\ Counted(q, E).then = q.then
         /\ Counted(q, E).letter = q.letter
<1> DEFINE n1 == [q EXCEPT !.at = "list"]
           n2 == [n1 EXCEPT !.empty = E]
<1>1. Counted(q, E) = n2
  BY DEF Counted
<1>2. IsReq(q)
  OBVIOUS
<1>3. SameBut("at", q, n1) /\ n1.at = "list"
  BY <1>2 DEF IsReq, SameBut
<1> HIDE DEF n1
<1>4. SameBut("empty", n1, n2) /\ n2.empty = E
  BY <1>3 DEF IsReq, SameBut
<1> HIDE DEF n2
<1> QED
  BY <1>1, <1>3, <1>4 DEF SameBut

Listed(q, D) ==
  [q EXCEPT !.at = "prune", !.doomed = D]

LEMMA ListedFields ==
  ASSUME NEW q, NEW D,
         IsReq(q)
  PROVE  /\ IsReq(Listed(q, D))
         /\ Listed(q, D).at = "prune" /\ Listed(q, D).by = q.by
         /\ Listed(q, D).thread = q.thread /\ Listed(q, D).talk = q.talk
         /\ Listed(q, D).empty = q.empty /\ Listed(q, D).doomed = D
         /\ Listed(q, D).write = q.write /\ Listed(q, D).then = q.then
         /\ Listed(q, D).letter = q.letter
<1> DEFINE n1 == [q EXCEPT !.at = "prune"]
           n2 == [n1 EXCEPT !.doomed = D]
<1>1. Listed(q, D) = n2
  BY DEF Listed
<1>2. IsReq(q)
  OBVIOUS
<1>3. SameBut("at", q, n1) /\ n1.at = "prune"
  BY <1>2 DEF IsReq, SameBut
<1> HIDE DEF n1
<1>4. SameBut("doomed", n1, n2) /\ n2.doomed = D
  BY <1>3 DEF IsReq, SameBut
<1> HIDE DEF n2
<1> QED
  BY <1>1, <1>3, <1>4 DEF SameBut

Told(q, m) ==
  [q EXCEPT !.at = "touch", !.letter = m]

LEMMA ToldFields ==
  ASSUME NEW q, NEW m,
         IsReq(q)
  PROVE  /\ IsReq(Told(q, m))
         /\ Told(q, m).at = "touch" /\ Told(q, m).by = q.by
         /\ Told(q, m).thread = q.thread /\ Told(q, m).talk = q.talk
         /\ Told(q, m).empty = q.empty /\ Told(q, m).doomed = q.doomed
         /\ Told(q, m).write = q.write /\ Told(q, m).then = q.then
         /\ Told(q, m).letter = m
<1> DEFINE n1 == [q EXCEPT !.at = "touch"]
           n2 == [n1 EXCEPT !.letter = m]
<1>1. Told(q, m) = n2
  BY DEF Told
<1>2. IsReq(q)
  OBVIOUS
<1>3. SameBut("at", q, n1) /\ n1.at = "touch"
  BY <1>2 DEF IsReq, SameBut
<1> HIDE DEF n1
<1>4. SameBut("letter", n1, n2) /\ n2.letter = m
  BY <1>3 DEF IsReq, SameBut
<1> HIDE DEF n2
<1> QED
  BY <1>1, <1>3, <1>4 DEF SameBut


-----------------------------------------------------------------------------
(* The history only grows, and a thread first used after a poll counted it  *)
(* empty, or while one has counts, is among the hasty.                      *)
Lasting ==
  /\ excepted \subseteq excepted' /\ emptied \subseteq emptied' /\ hasty \subseteq hasty'
  /\ \A t \in used' :
        \/ t \in used \/ t \in hasty'
        \/ t \notin emptied /\ \A r \in Requests : req[r].empty = {}

Quiet ==
  excepted \subseteq excepted' /\ emptied \subseteq emptied' /\ UNCHANGED <<used, hasty, said>>

LEMMA QuietLasts ==
  ASSUME Quiet
  PROVE  Lasting
BY DEF Quiet, Lasting

LEMMA EntryLasts ==
  ASSUME Lasting, NEW t \in Threads, NEW e, EntryKept(t, e)
  PROVE  EntryKept(t, e)'
<1>1. CASE e.status = "deleted" /\ t \notin excepted'
  <2>1. t \notin excepted /\ t \notin Mains /\ t \in emptied /\ Spared(t)
    BY <1>1 DEF Lasting, EntryKept
  <2>2. Spared(t)'
    BY <2>1 DEF Lasting, Spared
  <2> QED
    BY <1>1, <2>1, <2>2 DEF Lasting, EntryKept
<1>2. CASE ~ (e.status = "deleted" /\ t \notin excepted')
  BY <1>2 DEF Lasting, EntryKept
<1> QED
  BY <1>1, <1>2

LEMMA FileLasts ==
  ASSUME Lasting, NEW f, FileKept(f)
  PROVE  FileKept(f)'
BY EntryLasts DEF FileKept

LEMMA RequestLasts ==
  ASSUME Lasting, NEW r \in Requests, NEW q, q = req[r], RequestKept(q)
  PROVE  RequestKept(q)'
<1>1. FileKept(q.write)'
  BY FileLasts DEF RequestKept
<1>2. \A t \in q.empty \cap Threads : t \notin excepted' => Spared(t)'
  BY DEF RequestKept, Lasting, Spared
<1>3. \A t \in q.doomed : t \notin Mains /\ t \in emptied' /\ (t \notin excepted' => Spared(t)')
  BY DEF RequestKept, Lasting, Spared
<1>4. Sending(q) => q.thread \in Threads /\ (q.thread \notin excepted' => q.talk \in {0, q.thread})
  BY DEF RequestKept, Lasting
<1> QED
  BY <1>1, <1>2, <1>3, <1>4 DEF RequestKept, Sending

(* One request becomes n, the file is well kept still.                      *)
LEMMA RequestGoesOn ==
  ASSUME ChatInv, Lasting, FileKept(chats)', named' \in Nat,
         \A t \in Threads : t \in used' /\ t \notin excepted' => t \in said',
         NEW r \in Requests, NEW n, req' = [req EXCEPT ![r] = n], RequestKept(n)'
  PROVE  ChatInv'
<1>1. req' = [s \in Requests |-> req'[s]] /\ req'[r] = n
      /\ \A s \in Requests : s # r => req'[s] = req[s]
  BY DEF ChatInv
<1>2. ASSUME NEW s \in Requests PROVE RequestKept(req[s])'
  <2>1. PICK q : q = req'[s]
    OBVIOUS
  <2>2. RequestKept(q)'
    <3>1. CASE s = r
      BY <1>1, <2>1, <3>1
    <3>2. CASE s # r
      BY <1>1, <2>1, <3>2, RequestLasts DEF ChatInv
    <3> QED
      BY <3>1, <3>2
  <2> QED
    BY <2>1, <2>2 DEF RequestKept, FileKept, EntryKept, Spared, Sending, IsReq
<1> QED
  BY <1>1, <1>2 DEF ChatInv

(* The file stays, and nothing is said.                                     *)
LEMMA QuietStep ==
  ASSUME ChatInv, Quiet, chats' = chats, named' \in Nat,
         NEW r \in Requests, NEW n, req' = [req EXCEPT ![r] = n], RequestKept(n)'
  PROVE  ChatInv'
<1>1. Lasting
  BY QuietLasts
<1>2. PICK f : f = chats
  OBVIOUS
<1>3. FileKept(f)'
  BY <1>1, <1>2, FileLasts DEF ChatInv
<1>4. FileKept(chats)'
  BY <1>2, <1>3 DEF FileKept, EntryKept, Spared
<1>5. \A t \in Threads : t \in used' /\ t \notin excepted' => t \in said'
  BY DEF Quiet, ChatInv
<1> QED
  BY <1>1, <1>4, <1>5, RequestGoesOn

LEMMA NoChatsKept == FileKept(NoChats) /\ FileKept(NoChats)'
BY DEF FileKept, NoChats, EntryKept, Absent

LEMMA NoReqKept == RequestKept(NoReq) /\ RequestKept(NoReq)'
<1>1. IsReq(NoReq) /\ NoReq.at = "idle" /\ NoReq.thread = 0 /\ NoReq.talk = 0
      /\ NoReq.empty = {} /\ NoReq.doomed = {} /\ NoReq.write = NoChats /\ NoReq.then = "idle"
  BY DEF IsReq, NoReq
<1> QED
  BY <1>1, NoChatsKept DEF RequestKept, Sending

LEMMA FileRewritten ==
  ASSUME NEW f, NEW t \in Threads, NEW e, FileKept(f)', EntryKept(t, e)'
  PROVE  FileKept([f EXCEPT ![t] = e])'
<1> DEFINE g == [f EXCEPT ![t] = e]
<1>1. g = [u \in Threads |-> g[u]] /\ g[t] = e /\ \A u \in Threads : u # t => g[u] = f[u]
  BY DEF FileKept
<1> HIDE DEF g
<1>2. \A u \in Threads : EntryKept(u, g[u])'
  <2> SUFFICES ASSUME NEW u \in Threads PROVE EntryKept(u, g[u])'
    OBVIOUS
  <2>1. CASE u = t
    BY <1>1, <2>1
  <2>2. CASE u # t
    BY <1>1, <2>2 DEF FileKept
  <2> QED
    BY <2>1, <2>2
<1>3. FileKept(g)'
  BY <1>1, <1>2 DEF FileKept
<1> QED
  BY <1>3 DEF g

(* A request that is about to write the file as it read it but for one      *)
(* entry.                                                                   *)
LEMMA WroteKept ==
  ASSUME NEW q, NEW then \in {"idle", "rename", "send", "answer", "poll", "prune"},
         NEW t \in Threads, NEW w, RequestKept(q)', FileKept(w)',
         then = "rename" => q.talk \in Threads,
         then = "send" /\ t \notin excepted' => q.talk \in {0, t}
  PROVE  RequestKept(Wrote(q, then, t, w))'
<1>1. PICK n : n = Wrote(q, then, t, w)
  OBVIOUS
<1>2. IsReq(n) /\ n.at = "open" /\ n.thread = t /\ n.talk = q.talk /\ n.empty = q.empty
      /\ n.doomed = q.doomed /\ n.write = w /\ n.then = then
  BY <1>1, WroteFields DEF RequestKept
<1>3. RequestKept(n)'
  BY <1>2 DEF RequestKept, Sending
<1> QED
  BY <1>1, <1>3


(* What the file holds of a thread.                                         *)
LEMMA EntryOf ==
  ASSUME ChatInv, NEW t \in Threads
  PROVE  /\ EntryKept(t, chats[t])
         /\ There(t) => /\ chats[t].talk \in Threads
                        /\ t \notin excepted => chats[t].talk = t
BY DEF ChatInv, FileKept, EntryKept, There

LEMMA ActiveKept ==
  ASSUME NEW t \in Threads, NEW c \in Threads, c = t \/ t \in excepted'
  PROVE  EntryKept(t, Active(t, c))'
<1>1. PICK e : e = Active(t, c)
  OBVIOUS
<1>2. e = [status |-> e.status, talk |-> e.talk] /\ e.status = "active" /\ e.talk = c
  BY <1>1 DEF Active
<1> QED
  BY <1>1, <1>2 DEF EntryKept

(* A thread is about to be written.                                         *)
LEMMA UpsertKeeps ==
  ASSUME ChatInv, Quiet, chats' = chats, named' \in Nat, NEW r \in Requests,
         NEW t \in Threads, NEW e, EntryKept(t, e)',
         NEW then \in {"idle", "rename", "send", "answer", "poll", "prune"},
         then = "rename" => req[r].talk \in Threads,
         then = "send" /\ t \notin excepted' => req[r].talk \in {0, t},
         Upsert(r, t, e, then)
  PROVE  ChatInv'
<1>1. PICK f, q : f = chats /\ q = req[r]
  OBVIOUS
<1>2. Lasting
  BY QuietLasts
<1>3. FileKept(f)' /\ RequestKept(q)'
  BY <1>1, <1>2, FileLasts, RequestLasts DEF ChatInv
<1>4. PICK w : w = [f EXCEPT ![t] = e]
  OBVIOUS
<1>5. FileKept(w)'
  BY <1>3, <1>4, FileRewritten
<1>6. PICK n : n = Wrote(q, then, t, w)
  OBVIOUS
<1>7. RequestKept(n)'
  BY <1>1, <1>3, <1>5, <1>6, WroteKept
<1>8. req' = [req EXCEPT ![r] = n]
  BY <1>1, <1>4, <1>6 DEF Upsert, Wrote
<1> QED
  BY <1>7, <1>8, QuietStep

LEMMA NewThreadKeeps ==
  ASSUME ChatInv, Quiet, chats' = chats, NEW r \in Requests,
         NEW then \in {"idle", "rename", "send"},
         then = "rename" => req[r].talk \in Threads,
         then = "send" => req[r].talk = 0,
         NewThread(r, then)
  PROVE  ChatInv'
<1>1. PICK t : t = named + 1
  OBVIOUS
<1>2. named \in Nat /\ named < MaxThreads /\ named' = t
  BY <1>1 DEF ChatInv, NewThread
<1>3. t \in Threads /\ named' \in Nat
  BY <1>1, <1>2, ThreadFacts
<1>4. PICK e : e = Active(t, t)
  OBVIOUS
<1>5. EntryKept(t, e)'
  BY <1>3, <1>4, ActiveKept DEF EntryKept, Active, Spared
<1>6. Upsert(r, t, e, then)
  BY <1>1, <1>4 DEF NewThread
<1> QED
  BY <1>3, <1>5, <1>6, UpsertKeeps

-----------------------------------------------------------------------------
(* The steps of a request.                                                  *)

LEMMA OpenFileKeeps ==
  ASSUME ChatInv, NEW r \in Requests, OpenFile(r)
  PROVE  ChatInv'
<1>1. Lasting /\ FileKept(chats)'
  BY NoChatsKept DEF OpenFile, Lasting, FileKept, EntryKept, Spared
<1>2. PICK q : q = req[r]
  OBVIOUS
<1>3. RequestKept(q)' /\ q.at = "open"
  BY <1>1, <1>2, RequestLasts DEF ChatInv, OpenFile, AskedBy
<1>4. PICK n : n = [q EXCEPT !.at = "write"]
  OBVIOUS
<1>5. SameBut("at", q, n) /\ n.at = "write"
  BY <1>3, <1>4 DEF RequestKept, IsReq, SameBut
<1>6. RequestKept(n)'
  BY <1>3, <1>5 DEF RequestKept, SameBut, Sending
<1>7. req' = [req EXCEPT ![r] = n]
  BY <1>2, <1>4 DEF OpenFile
<1>8. \A t \in Threads : t \in used' /\ t \notin excepted' => t \in said'
  BY DEF OpenFile, ChatInv
<1>9. named' \in Nat
  BY DEF OpenFile, ChatInv
<1> QED
  BY <1>1, <1>6, <1>7, <1>8, <1>9, RequestGoesOn

LEMMA WriteFileKeeps ==
  ASSUME ChatInv, NEW r \in Requests, WriteFile(r)
  PROVE  ChatInv'
<1>1. Lasting
  BY DEF WriteFile, Lasting
<1>2. PICK q : q = req[r]
  OBVIOUS
<1>3. RequestKept(q)'
  BY <1>1, <1>2, RequestLasts DEF ChatInv
<1>4. FileKept(chats)'
  <2>1. PICK w : w = q.write
    OBVIOUS
  <2>2. FileKept(w)' /\ chats' = w
    BY <1>2, <1>3, <2>1 DEF RequestKept, WriteFile
  <2> QED
    BY <2>2 DEF FileKept, EntryKept, Spared
<1>5. \A t \in Threads : t \in used' /\ t \notin excepted' => t \in said'
  BY DEF WriteFile, ChatInv
<1>6. named' \in Nat
  BY DEF WriteFile, ChatInv
<1>7. CASE q.then = "idle"
  <2>1. req' = [req EXCEPT ![r] = NoReq]
    BY <1>2, <1>7 DEF WriteFile
  <2> QED
    BY <1>1, <1>4, <1>5, <1>6, <2>1, NoReqKept, RequestGoesOn
<1>8. CASE q.then # "idle"
  <2>1. PICK n : n = Written(q)
    OBVIOUS
  <2>2. req' = [req EXCEPT ![r] = n]
    BY <1>2, <1>8, <2>1 DEF WriteFile, Written
  <2>3. /\ IsReq(n) /\ n.at = q.then /\ n.thread = q.thread /\ n.talk = q.talk
        /\ n.empty = q.empty /\ n.doomed = q.doomed /\ n.write = NoChats /\ n.then = "idle"
    BY <1>3, <2>1, WrittenFields DEF RequestKept
  <2>4. RequestKept(n)'
    BY <1>3, <2>3, NoChatsKept DEF RequestKept, Sending
  <2> QED
    BY <1>1, <1>4, <1>5, <1>6, <2>2, <2>4, RequestGoesOn
<1> QED
  BY <1>7, <1>8

LEMMA EnsureMainKeeps ==
  ASSUME ChatInv, NEW r \in Requests, EnsureMain(r)
  PROVE  ChatInv'
<1>1. Quiet /\ Lasting /\ chats' = chats /\ named' \in Nat
  BY DEF EnsureMain, Quiet, Lasting, ChatInv
<1> DEFINE lacking == {t \in Mains : ~ There(t)}
<1>2. CASE lacking = {}
  <2>1. PICK q, E : q = req[r] /\ E = Threads \ said
    OBVIOUS
  <2>2. PICK n : n = Counted(q, E)
    OBVIOUS
  <2>3. req' = [req EXCEPT ![r] = n]
    BY <1>2, <2>1, <2>2 DEF EnsureMain, Counted
  <2>4. RequestKept(q)' /\ q.at = "poll"
    BY <1>1, <2>1, RequestLasts DEF ChatInv, EnsureMain, AskedBy
  <2>5. /\ IsReq(n) /\ n.at = "list" /\ n.thread = q.thread /\ n.talk = q.talk
        /\ n.empty = E /\ n.doomed = q.doomed /\ n.write = q.write /\ n.then = q.then
    BY <2>2, <2>4, CountedFields DEF RequestKept
  <2>6. \A t \in E \cap Threads : t \notin excepted' => Spared(t)'
    BY <2>1 DEF ChatInv, EnsureMain, Spared
  <2>7. RequestKept(n)'
    BY <2>4, <2>5, <2>6 DEF RequestKept, Sending
  <2> QED
    BY <1>1, <2>3, <2>7, QuietStep
<1>3. CASE lacking # {}
  <2>1. PICK t \in Mains : Upsert(r, t, Active(t, t), "poll")
    BY <1>3 DEF EnsureMain
  <2>2. PICK e : e = Active(t, t)
    OBVIOUS
  <2>3. t \in Threads
    BY <2>1, ThreadFacts
  <2>4. EntryKept(t, e)'
    BY <2>2, <2>3, ActiveKept DEF EntryKept, Active, Spared
  <2> QED
    BY <1>1, <2>1, <2>2, <2>3, <2>4, UpsertKeeps
<1> QED
  BY <1>2, <1>3

LEMMA ListThreadsKeeps ==
  ASSUME ChatInv, NEW r \in Requests, ListThreads(r)
  PROVE  ChatInv'
<1>1. Quiet /\ Lasting /\ chats' = chats /\ named' \in Nat
  BY DEF ListThreads, Quiet, Lasting, ChatInv
<1>2. PICK q, D : q = req[r] /\ D = Prunable(r)
  OBVIOUS
<1>3. PICK n : n = Listed(q, D)
  OBVIOUS
<1>4. req' = [req EXCEPT ![r] = n]
  BY <1>2, <1>3 DEF ListThreads, Listed
<1>5. RequestKept(q) /\ RequestKept(q)' /\ q.at = "list"
  BY <1>1, <1>2, RequestLasts DEF ChatInv, ListThreads, AskedBy
<1>6. /\ IsReq(n) /\ n.at = "prune" /\ n.thread = q.thread /\ n.talk = q.talk
      /\ n.empty = q.empty /\ n.doomed = D /\ n.write = q.write /\ n.then = q.then
  BY <1>3, <1>5, ListedFields DEF RequestKept
<1>7. ASSUME NEW t \in D
      PROVE  t \notin Mains /\ t \in emptied' /\ (t \notin excepted' => Spared(t)')
  <2>1. t \in Threads /\ t \notin Mains /\ There(t) /\ chats[t].talk \in q.empty /\ t \in emptied'
    BY <1>2, <1>7 DEF Prunable, ListThreads, There
  <2>2. t \notin excepted => t \in q.empty
    BY <2>1, EntryOf
  <2>3. t \notin excepted => Spared(t)
    BY <1>5, <2>1, <2>2 DEF RequestKept
  <2> QED
    BY <2>1, <2>3 DEF ListThreads, Spared
<1>8. RequestKept(n)'
  BY <1>5, <1>6, <1>7 DEF RequestKept, Sending
<1> QED
  BY <1>1, <1>4, <1>8, QuietStep

LEMMA PruneKeeps ==
  ASSUME ChatInv, NEW r \in Requests, Prune(r)
  PROVE  ChatInv'
<1>1. Quiet /\ Lasting /\ chats' = chats /\ named' \in Nat
  BY DEF Prune, Quiet, Lasting, ChatInv
<1> DEFINE doomed == {t \in req[r].doomed : There(t)}
<1>2. CASE doomed = {}
  <2>1. req' = [req EXCEPT ![r] = NoReq]
    BY <1>2 DEF Prune
  <2> QED
    BY <1>1, <2>1, NoReqKept, QuietStep
<1>3. CASE doomed # {}
  <2>1. PICK f, q : f = chats /\ q = req[r]
    OBVIOUS
  <2>2. PICK t \in doomed : req' = [req EXCEPT ![r] =
                       [@ EXCEPT !.at = "open", !.then = "prune", !.doomed = req[r].doomed \ {t},
                                 !.write = [chats EXCEPT ![t] = [chats[t] EXCEPT !.status = "deleted"]]]]
    BY <1>3 DEF Prune
  <2> HIDE DEF doomed
  <2>3. PICK D, e : D = q.doomed \ {t} /\ e = [f[t] EXCEPT !.status = "deleted"]
    OBVIOUS
  <2>4. PICK w : w = [f EXCEPT ![t] = e]
    OBVIOUS
  <2>5. PICK n : n = Pruned(q, D, w)
    OBVIOUS
  <2>6. req' = [req EXCEPT ![r] = n]
    <3>1. n = [req[r] EXCEPT !.at = "open", !.then = "prune", !.doomed = req[r].doomed \ {t}, !.write = w]
      BY <2>1, <2>3, <2>5 DEF Pruned
    <3>2. w = [chats EXCEPT ![t] = [chats[t] EXCEPT !.status = "deleted"]]
      BY <2>1, <2>3, <2>4
    <3> QED
      BY <2>2, <3>1, <3>2
  <2>7. RequestKept(q)' /\ FileKept(f)' /\ q.at = "prune"
    BY <1>1, <2>1, RequestLasts, FileLasts DEF ChatInv, Prune, AskedBy
  <2>8. t \in Threads /\ t \in q.doomed /\ There(t)
    BY <2>1, <2>2 DEF There, doomed
  <2>9. EntryKept(t, e)'
    <3>1. EntryKept(t, f[t])'
      BY <2>7, <2>8 DEF FileKept
    <3>2. f[t].status # "absent"
      BY <2>1, <2>8 DEF There
    <3>3. e = [status |-> e.status, talk |-> e.talk] /\ e.talk = f[t].talk
      BY <2>3, <3>1 DEF EntryKept
    <3>4. t \notin excepted' => t \notin Mains /\ t \in emptied' /\ Spared(t)'
      BY <2>7, <2>8 DEF RequestKept
    <3> QED
      BY <3>1, <3>2, <3>3, <3>4 DEF EntryKept
  <2>10. FileKept(w)'
    BY <2>4, <2>7, <2>8, <2>9, FileRewritten
  <2>11. /\ IsReq(n) /\ n.at = "open" /\ n.thread = q.thread /\ n.talk = q.talk
         /\ n.empty = q.empty /\ n.doomed = D /\ n.write = w /\ n.then = "prune"
    BY <2>5, <2>7, PrunedFields DEF RequestKept
  <2>12. RequestKept(n)'
    BY <2>3, <2>7, <2>10, <2>11 DEF RequestKept, Sending
  <2> QED
    BY <1>1, <2>6, <2>12, QuietStep
<1> QED
  BY <1>2, <1>3


LEMMA ResolveThreadKeeps ==
  ASSUME ChatInv, NEW r \in Requests, ResolveThread(r)
  PROVE  ChatInv'
<1>1. Quiet /\ Lasting /\ chats' = chats
  BY DEF ResolveThread, Quiet, Lasting
<1>2. PICK q : q = req[r]
  OBVIOUS
<1>3. RequestKept(q)' /\ q.at = "resolve" /\ named \in Nat
  BY <1>1, <1>2, RequestLasts DEF ChatInv, ResolveThread, AskedBy
<1> DEFINE Of(x) == {y \in Threads : There(y) /\ chats[y].talk = x}
           Use(y) == req' = [req EXCEPT ![r].at = "send", ![r].thread = y,
                                        ![r].talk = chats[y].talk]
<1>4. ASSUME NEW y \in Threads, There(y), Use(y), named' = named
      PROVE  ChatInv'
  <2>1. PICK c : c = chats[y].talk
    OBVIOUS
  <2>2. PICK n : n = Found(q, y, c)
    OBVIOUS
  <2>3. req' = [req EXCEPT ![r] = n]
    BY <1>2, <1>4, <2>1, <2>2 DEF Found
  <2>4. /\ IsReq(n) /\ n.at = "send" /\ n.thread = y /\ n.talk = c
        /\ n.empty = q.empty /\ n.doomed = q.doomed /\ n.write = q.write /\ n.then = q.then
    BY <1>3, <2>2, FoundFields DEF RequestKept
  <2>5. c \in Threads /\ (y \notin excepted => c = y) /\ excepted' = excepted
    BY <1>4, <2>1, EntryOf DEF ResolveThread
  <2>6. RequestKept(n)'
    BY <1>3, <2>4, <2>5 DEF RequestKept, Sending
  <2> QED
    BY <1>1, <1>3, <1>4, <2>3, <2>6, QuietStep
<1>5. CASE There(q.thread)
  <2>1. PICK y : y = q.thread
    OBVIOUS
  <2>2. y \in Threads /\ There(y) /\ Use(y) /\ named' = named
    BY <1>2, <1>5, <2>1 DEF ResolveThread, There
  <2> QED
    BY <1>4, <2>2
<1>6. CASE ~ There(q.thread) /\ q.talk # 0 /\ Of(q.talk) # {}
  <2>1. \E y \in Of(q.talk) : Use(y) /\ named' = named
    BY <1>2, <1>6 DEF ResolveThread
  <2> QED
    BY <1>4, <2>1
<1>7. CASE ~ There(q.thread) /\ q.talk # 0 /\ Of(q.talk) = {}
  <2>1. NewThread(r, "rename")
    BY <1>2, <1>7 DEF ResolveThread
  <2>2. req[r].talk \in Threads
    BY <1>2, <1>3, <1>7 DEF RequestKept
  <2> QED
    BY <1>1, <2>1, <2>2, NewThreadKeeps
<1>8. CASE ~ There(q.thread) /\ q.talk = 0 /\ q.thread = 0
  <2>1. NewThread(r, "send")
    BY <1>2, <1>8 DEF ResolveThread
  <2> QED
    BY <1>1, <1>2, <1>8, <2>1, NewThreadKeeps
<1>9. CASE ~ There(q.thread) /\ q.talk = 0 /\ q.thread # 0
  <2>1. PICK t, e : t = q.thread /\ e = Active(t, t)
    OBVIOUS
  <2>2. Upsert(r, t, e, "send") /\ named' = named
    BY <1>2, <1>9, <2>1 DEF ResolveThread
  <2>3. t \in Threads
    BY <1>3, <1>9, <2>1 DEF RequestKept
  <2>4. EntryKept(t, e)'
    BY <2>1, <2>3, ActiveKept DEF EntryKept, Active, Spared
  <2> QED
    BY <1>1, <1>2, <1>3, <1>9, <2>2, <2>3, <2>4, UpsertKeeps
<1> QED
  BY <1>5, <1>6, <1>7, <1>8, <1>9

LEMMA RenameKeeps ==
  ASSUME ChatInv, NEW r \in Requests, Rename(r)
  PROVE  ChatInv'
<1>1. Quiet /\ chats' = chats /\ named' \in Nat
  BY DEF Rename, Quiet, ChatInv
<1>2. PICK t, c : t = req[r].thread /\ c = req[r].talk
  OBVIOUS
<1>3. t \in Threads /\ c \in Threads /\ t \in excepted'
  BY <1>2 DEF ChatInv, RequestKept, Rename, AskedBy
<1>4. PICK e : e = Active(t, c)
  OBVIOUS
<1>5. Upsert(r, t, e, "send")
  BY <1>2, <1>4 DEF Rename
<1>6. EntryKept(t, e)'
  BY <1>3, <1>4, ActiveKept DEF EntryKept, Active, Spared
<1> QED
  BY <1>1, <1>3, <1>5, <1>6, UpsertKeeps

LEMMA TouchKeeps ==
  ASSUME ChatInv, NEW r \in Requests, Touch(r)
  PROVE  ChatInv'
<1>1. Quiet /\ Lasting /\ chats' = chats /\ named' \in Nat
  BY DEF Touch, Quiet, Lasting, ChatInv
<1>2. PICK q : q = req[r]
  OBVIOUS
<1>3. RequestKept(q)' /\ q.at = "touch"
  BY <1>1, <1>2, RequestLasts DEF ChatInv, Touch, AskedBy
<1>4. CASE There(q.thread)
  <2>1. PICK t, e : t = q.thread /\ e = chats[t]
    OBVIOUS
  <2>2. t \in Threads
    BY <1>4, <2>1 DEF There
  <2>3. EntryKept(t, e)'
    BY <1>1, <2>1, <2>2, EntryOf, EntryLasts
  <2>4. Upsert(r, t, e, "answer")
    BY <1>2, <1>4, <2>1 DEF Touch
  <2> QED
    BY <1>1, <2>2, <2>3, <2>4, UpsertKeeps
<1>5. CASE ~ There(q.thread)
  <2>1. PICK n : n = [q EXCEPT !.at = "answer"]
    OBVIOUS
  <2>2. SameBut("at", q, n) /\ n.at = "answer"
    BY <1>3, <2>1 DEF RequestKept, IsReq, SameBut
  <2>3. RequestKept(n)'
    BY <1>3, <2>2 DEF RequestKept, SameBut, Sending
  <2>4. req' = [req EXCEPT ![r] = n]
    BY <1>2, <1>5, <2>1 DEF Touch
  <2> QED
    BY <1>1, <2>3, <2>4, QuietStep
<1> QED
  BY <1>4, <1>5

LEMMA CommandKeeps ==
  ASSUME ChatInv, NEW r \in Requests, Command(r)
  PROVE  ChatInv'
<1>1. Quiet /\ Lasting /\ chats' = chats /\ named' \in Nat
  BY DEF Command, Quiet, Lasting, ChatInv
<1>2. PICK q, s : q = req[r] /\ s = Become[q.at]
  OBVIOUS
<1>3. RequestKept(q)' /\ q.at \in {"archive", "restore", "delete"}
      /\ s = (CASE q.at = "archive" -> "archived" [] q.at = "restore" -> "active"
                [] q.at = "delete" -> "deleted")
  BY <1>1, <1>2, RequestLasts DEF ChatInv, Command, Become
<1>4. CASE There(q.thread)
  <2>1. PICK t, e : t = q.thread /\ e = [chats[t] EXCEPT !.status = s]
    OBVIOUS
  <2>2. t \in Threads /\ (q.at = "delete" => t \in excepted')
    BY <1>2, <1>4, <2>1 DEF There, Command, AskedBy
  <2>3. EntryKept(t, e)'
    <3>1. PICK d : d = chats[t]
      OBVIOUS
    <3>2. EntryKept(t, d)' /\ d.status # "absent"
      BY <1>1, <1>4, <2>1, <2>2, <3>1, EntryOf, EntryLasts DEF There
    <3>3. e = [status |-> e.status, talk |-> e.talk] /\ e.status = s /\ e.talk = d.talk
      BY <2>1, <3>1, <3>2 DEF EntryKept
    <3>4. s = "deleted" => t \in excepted'
      BY <1>3, <2>2
    <3> QED
      BY <3>2, <3>3, <3>4 DEF EntryKept
  <2>4. Upsert(r, t, e, "idle")
    BY <1>2, <1>4, <2>1 DEF Command
  <2> QED
    BY <1>1, <2>2, <2>3, <2>4, UpsertKeeps
<1>5. CASE ~ There(q.thread)
  <2>1. req' = [req EXCEPT ![r] = NoReq]
    BY <1>2, <1>5 DEF Command
  <2> QED
    BY <1>1, <2>1, NoReqKept, QuietStep
<1> QED
  BY <1>4, <1>5

LEMMA SendInKeeps ==
  ASSUME ChatInv, NEW r \in Requests, NEW m, SendIn(r, m)
  PROVE  ChatInv'
<1>1. Lasting /\ named' \in Nat /\ chats' = chats
  BY DEF SendIn, Lasting, ChatInv
<1>2. PICK q, f : q = req[r] /\ f = chats
  OBVIOUS
<1>3. RequestKept(q) /\ RequestKept(q)' /\ q.at = "send" /\ FileKept(f)'
  BY <1>1, <1>2, RequestLasts, FileLasts DEF ChatInv, SendIn, AskedBy
<1>4. FileKept(chats)'
  BY <1>1, <1>2, <1>3 DEF FileKept, EntryKept, Spared
<1>5. \A t \in Threads : t \in used' /\ t \notin excepted' => t \in said'
  <2> SUFFICES ASSUME NEW t \in Threads, t \in used', t \notin excepted' PROVE t \in said'
    OBVIOUS
  <2>1. CASE t = q.thread
    <3>1. q.talk \in {0, t}
      BY <1>3, <2>1 DEF RequestKept, Sending, SendIn
    <3>2. t = IF q.talk = 0 THEN q.thread ELSE q.talk
      BY <2>1, <3>1
    <3> QED
      BY <1>2, <3>2 DEF SendIn
  <2>2. CASE t # q.thread
    BY <1>2, <2>2 DEF SendIn, ChatInv
  <2> QED
    BY <2>1, <2>2
<1>6. PICK n : n = Told(q, m)
  OBVIOUS
<1>7. req' = [req EXCEPT ![r] = n]
  BY <1>2, <1>6 DEF SendIn, Told
<1>8. /\ IsReq(n) /\ n.at = "touch" /\ n.thread = q.thread /\ n.talk = q.talk
      /\ n.empty = q.empty /\ n.doomed = q.doomed /\ n.write = q.write /\ n.then = q.then
  BY <1>3, <1>6, ToldFields DEF RequestKept
<1>9. RequestKept(n)'
  BY <1>3, <1>8 DEF RequestKept, Sending
<1> QED
  BY <1>1, <1>4, <1>5, <1>7, <1>9, RequestGoesOn

LEMMA BeginKeeps ==
  ASSUME ChatInv, NEW r \in Requests, NEW p, NEW at, at \notin {"open", "write", "rename", "send"},
         NEW t \in Threads \cup {0}, NEW c \in Threads \cup {0}, Begin(r, p, at, t, c),
         UNCHANGED <<chats, named, said, used, excepted, emptied, hasty>>
  PROVE  ChatInv'
<1>1. Quiet /\ chats' = chats /\ named' \in Nat
  BY DEF Quiet, ChatInv
<1>2. PICK n : n = Fresh(at, p, t, c)
  OBVIOUS
<1>3. req' = [req EXCEPT ![r] = n]
  BY <1>2 DEF Begin, Fresh
<1>4. /\ IsReq(n) /\ n.at = at /\ n.thread = t /\ n.talk = c /\ n.empty = NoReq.empty
      /\ n.doomed = NoReq.doomed /\ n.write = NoReq.write /\ n.then = NoReq.then
  BY <1>2, FreshFields
<1>5. NoReq.then = "idle" /\ NoReq.empty = {} /\ NoReq.doomed = {} /\ NoReq.write = NoChats
  BY DEF NoReq
<1>6. RequestKept(n)'
  BY <1>4, <1>5, NoChatsKept DEF RequestKept, Sending
<1> QED
  BY <1>1, <1>3, <1>6, QuietStep

LEMMA BeginRequestKeeps ==
  ASSUME ChatInv, NEW r \in Requests, NEW p, BeginRequest(r, p)
  PROVE  ChatInv'
<1>1. CASE Begin(r, p, "poll", 0, 0) \/ Begin(r, p, "create", 0, 0) \/ Begin(r, p, "resolve", 0, 0)
  BY <1>1, BeginKeeps DEF BeginRequest
<1>2. CASE \E t \in Mains : Begin(r, p, "resolve", t, 0)
  BY <1>2, BeginKeeps, ThreadFacts DEF BeginRequest
<1>3. CASE \E t \in Threads, does \in {"resolve"} \cup DOMAIN Become :
             There(t) /\ Begin(r, p, does, t, chats[t].talk)
  <2>1. PICK t \in Threads, does \in {"resolve", "archive", "restore", "delete"} :
             There(t) /\ Begin(r, p, does, t, chats[t].talk)
    BY <1>3 DEF Become
  <2>2. PICK c : c = chats[t].talk
    OBVIOUS
  <2>3. c \in Threads
    BY <2>1, <2>2, EntryOf
  <2> QED
    BY <2>1, <2>2, <2>3, BeginKeeps DEF BeginRequest
<1> QED
  BY <1>1, <1>2, <1>3 DEF BeginRequest

LEMMA AnswerKeeps ==
  ASSUME ChatInv, NEW r \in Requests, Answer(r)
  PROVE  ChatInv'
<1>1. Quiet /\ chats' = chats /\ named' \in Nat /\ req' = [req EXCEPT ![r] = NoReq]
  BY DEF Answer, Quiet, ChatInv
<1> QED
  BY <1>1, NoReqKept, QuietStep

LEMMA CreateKeeps ==
  ASSUME ChatInv, NEW r \in Requests, Create(r)
  PROVE  ChatInv'
<1>1. Quiet /\ chats' = chats /\ NewThread(r, "idle")
  BY DEF Create, Quiet
<1> QED
  BY <1>1, NewThreadKeeps

LEMMA AbandonKeeps ==
  ASSUME ChatInv, NEW Q, Abandon(Q)
  PROVE  ChatInv'
<1>1. Lasting /\ chats' = chats /\ named' \in Nat
  BY DEF Abandon, Lasting, ChatInv
<1>2. PICK f : f = chats
  OBVIOUS
<1>3. FileKept(f)'
  BY <1>1, <1>2, FileLasts DEF ChatInv
<1>4. FileKept(chats)'
  BY <1>1, <1>2, <1>3 DEF FileKept, EntryKept, Spared
<1>5. ASSUME NEW s \in Requests PROVE RequestKept(req[s])'
  <2>1. PICK q : q = req'[s]
    OBVIOUS
  <2>2. q = NoReq \/ q = req[s]
    BY <2>1 DEF Abandon
  <2>3. RequestKept(q)'
    BY <1>1, <2>2, NoReqKept, RequestLasts DEF ChatInv
  <2> QED
    BY <2>1, <2>3 DEF RequestKept, FileKept, EntryKept, Spared, Sending, IsReq
<1>6. req' = [s \in Requests |-> req'[s]]
  BY DEF Abandon
<1> QED
  BY <1>1, <1>4, <1>5, <1>6 DEF ChatInv, Abandon

LEMMA RequestStepKeeps ==
  ASSUME ChatInv, NEW r \in Requests, RequestStep(r)
  PROVE  ChatInv'
BY OpenFileKeeps, WriteFileKeeps, EnsureMainKeeps, ListThreadsKeeps, PruneKeeps,
   ResolveThreadKeeps, RenameKeeps, TouchKeeps, CreateKeeps, CommandKeeps DEF RequestStep

LEMMA ChatUnchanged ==
  ASSUME ChatInv, UNCHANGED chatVars
  PROVE  ChatInv'
<1>1. Lasting /\ chats' = chats /\ named' \in Nat /\ req' = req
  BY DEF Lasting, chatVars, ChatInv
<1>2. PICK f : f = chats
  OBVIOUS
<1>3. FileKept(f)'
  BY <1>1, <1>2, FileLasts DEF ChatInv
<1>4. FileKept(chats)'
  BY <1>1, <1>2, <1>3 DEF FileKept, EntryKept, Spared
<1>5. ASSUME NEW s \in Requests PROVE RequestKept(req[s])'
  <2>1. PICK q : q = req'[s] /\ q = req[s]
    BY <1>1
  <2>2. RequestKept(q)'
    BY <1>1, <2>1, RequestLasts DEF ChatInv
  <2> QED
    BY <2>1, <2>2 DEF RequestKept, FileKept, EntryKept, Spared, Sending, IsReq
<1> QED
  BY <1>1, <1>4, <1>5 DEF ChatInv, chatVars

LEMMA ChatInvKept ==
  ASSUME ChatInv, [HostNext]_allVars
  PROVE  ChatInv'
<1>1. ASSUME NEW p \in Pids, ProcessDies(p) PROVE ChatInv'
  BY <1>1, AbandonKeeps DEF ProcessDies, LetGo
<1>2. ASSUME Supervise PROVE ChatInv'
  BY <1>2, AbandonKeeps DEF Supervise, LetGo
<1>3. ASSUME Chat PROVE ChatInv'
  BY <1>3, BeginRequestKeeps, RequestStepKeeps DEF Chat
<1>4. ASSUME Send PROVE ChatInv'
  BY <1>4, SendInKeeps, AnswerKeeps DEF Send
<1>5. CASE \/ \E s \in Terminals : TerminalCloses(s)
           \/ Serve \/ Correspond \/ Ask \/ AskOwnModel \/ Write \/ Upkeep
           \/ UNCHANGED allVars
  <2>1. UNCHANGED chatVars
    BY <1>5 DEF TerminalCloses, Serve, Correspond, Ask, AskOwnModel, Write, Upkeep, allVars,
                memAndLanes
  <2> QED
    BY <2>1, ChatUnchanged
<1> QED
  BY <1>1, <1>2, <1>3, <1>4, <1>5 DEF HostNext

(* However requests overlap, read a file another has emptied, write over    *)
(* what others wrote or end half way, a thread in which a message was sent  *)
(* disappears only when the user deletes it (ChatThreadRegistry.upsert,     *)
(* _prune_empty_non_main_threads).                                          *)
THEOREM ThreadsAreKept == HostSpec => []ThreadsKept
<1>1. ASSUME HostInit PROVE ChatInv
  <2>1. /\ chats = NoChats /\ named = 0 /\ req = [r \in Requests |-> NoReq] /\ used = {}
    BY <1>1 DEF HostInit, ChatInit
  <2>2. FileKept(chats)
    BY <2>1, NoChatsKept DEF FileKept, EntryKept, Spared
  <2>3. \A r \in Requests : RequestKept(req[r])
    <3> SUFFICES ASSUME NEW r \in Requests PROVE RequestKept(req[r])
      OBVIOUS
    <3>1. req[r] = NoReq
      BY <2>1
    <3> QED
      BY <3>1, NoReqKept DEF RequestKept, FileKept, EntryKept, Spared, Sending, IsReq
  <2>4. req = [r \in Requests |-> req[r]]
    BY <2>1
  <2> QED
    BY <2>1, <2>2, <2>3, <2>4 DEF ChatInv
<1>2. ChatInv => ThreadsKept
  BY DEF ChatInv, FileKept, EntryKept, Spared, ThreadsKept
<1> QED
  BY <1>1, <1>2, ChatInvKept, PTL DEF HostSpec



-----------------------------------------------------------------------------
(* Mail is answered before it is closed, and once by each.                  *)

LEMMA OldestIsDue ==
  ASSUME NEW D, D \subseteq Letters, D # {}
  PROVE  Oldest(D) \in D
<1> DEFINE UpTo(m) == D \cap (1..m)
           S == FiniteSubsetsOf(D)
           R == StrictSubsetOrdering(D)
           T == {UpTo(m) : m \in D}
<1>1. IsFiniteSet(D)
  <2>1. IsFiniteSet(1..MaxLetters)
    BY LettersAssumption, FS_Interval, 1 \in Int, MaxLetters \in Int
  <2> QED
    BY <2>1, FS_Subset DEF Letters
<1>2. IsWellFoundedOn(R, S)
  BY <1>1, FS_StrictSubsetOrderingWellFounded
<1>3. T \subseteq S
  BY <1>1, FS_Subset DEF FiniteSubsetsOf
<1>4. T # {}
  OBVIOUS
<1>5. PICK Z \in T : \A Y \in T : <<Y, Z>> \notin R
  <2> HIDE DEF R, T, S
  <2> QED
    BY <1>2, <1>3, <1>4, WFMin
<1>6. PICK x \in D : Z = UpTo(x)
  OBVIOUS
<1>7. D \subseteq Nat \ {0}
  BY LettersAssumption DEF Letters
<1>8. \A y \in D : x <= y
  <2> SUFFICES ASSUME NEW y \in D, y < x PROVE FALSE
    BY <1>7
  <2>1. UpTo(y) \subseteq UpTo(x) /\ x \in UpTo(x) /\ x \notin UpTo(y)
    BY <1>7
  <2>2. <<UpTo(y), Z>> \in R
    BY <1>6, <2>1 DEF StrictSubsetOrdering
  <2> QED
    BY <1>5, <2>2
<1> QED
  BY <1>8 DEF Oldest

LEMMA DueStays ==
  ASSUME NEW p \in Pids, turn'[p] = turn[p], NEW m, DueOK(p, m),
         mail'[m].status # "unsent", mail'[m].to = mail[m].to, rolled \subseteq rolled',
         Replied(m) => Replied(m)',
         ~ AtOnce(p) => replies'[m][p] = replies[m][p],
         AtOnce(p) => replies'[m][0] = replies[m][0],
         AtOnce(p) => \A r \in Requests : req'[r].letter = req[r].letter \/ req'[r].letter # m,
         AtOnce(p) => \A q \in Pids \ {p} :
            turn'[q].lane = "once" /\ m \in turn'[q].due => AtOnce(q) /\ m \in turn[q].due
  PROVE  DueOK(p, m)'
<1>1. (AtOnce(p)' <=> AtOnce(p)) /\ (Closing(p, m)' <=> Closing(p, m))
  BY DEF AtOnce, Closing
<1>2. AtOnce(p) => /\ \A r \in Requests : req'[r].letter # m
                   /\ \A q \in Pids \ {p} : turn'[q].lane = "once" => m \notin turn'[q].due
  BY DEF DueOK
<1> QED
  BY <1>1, <1>2 DEF DueOK, AtOnce

LEMMA TurnStays ==
  ASSUME NEW p \in Pids, turn'[p] = turn[p], TurnOK(p),
         born \in Nat, born' \in Nat, born <= born'
  PROVE  TurnOK(p)'
<1>1. p \in Nat
  BY PidsAssumption DEF Pids
<1> QED
  BY <1>1 DEF TurnOK, IsTurn, AtOnce

LEMMA HeardStays ==
  ASSUME NEW p \in Pids, NEW m, turn'[p] = turn[p], Heard(p, m),
         born \in Nat, born' \in Nat, born <= born',
         mail'[m].status = "delivered" => mail[m].status = "delivered",
         p <= born /\ alive[p] = "none" => alive'[p] = "none"
  PROVE  Heard(p, m)'
<1>1. p \in Nat
  BY PidsAssumption DEF Pids
<1>2. (AtOnce(p)' <=> AtOnce(p)) /\ (Closing(p, m)' <=> Closing(p, m))
  BY DEF AtOnce, Closing
<1> QED
  BY <1>1, <1>2 DEF Heard

LEMMA RepliedStays ==
  ASSUME NEW m, replies'[m] = replies[m]
  PROVE  Replied(m)' <=> Replied(m)
BY DEF Replied

LEMMA LetterStays ==
  ASSUME NEW m, LetterOK(m), mail'[m] = mail[m], replies'[m] = replies[m],
         rolled \subseteq rolled', dropped \subseteq dropped',
         rebuild'.at # "removed" /\ mail[m].status = "gone" /\ m \notin dropped'
            => rebuild.at # "removed",
         \A p \in Pids : replies[m][p] > 0 /\ m \notin rolled' /\ Heard(p, m) => Heard(p, m)'
  PROVE  LetterOK(m)'
BY RepliedStays DEF LetterOK, IsMail

LEMMA CopyStays ==
  ASSUME NEW m, CopyOK(m), rebuild' = rebuild, dropped' = dropped, Replied(m) => Replied(m)',
         mail[m].status # "unsent" => mail'[m].status # "unsent" /\ mail'[m].to = mail[m].to
  PROVE  CopyOK(m)'
BY DEF CopyOK, IsMail

LEMMA KeptStays ==
  ASSUME KeptOK, rebuild' = rebuild, compact' = compact, dropped' = dropped,
         \A m \in Letters :
            /\ Replied(m) => Replied(m)'
            /\ mail[m].status # "unsent" => mail'[m].status # "unsent" /\ mail'[m].to = mail[m].to
  PROVE  KeptOK'
<1>1. rebuild.at # "none" => \A m \in Letters : CopyOK(m)'
  BY CopyStays DEF KeptOK
<1>2. PICK c : c = compact.of
  OBVIOUS
<1>3. c # 0 => c \in Letters /\ compact.was \notin {"unsent", "gone"}
               /\ (compact.was = "resolved" => Replied(c)')
  <2>1. c # 0 => c \in Letters /\ compact.was \notin {"unsent", "gone"}
                 /\ (compact.was = "resolved" => Replied(c))
    BY <1>2 DEF KeptOK, Replied
  <2> QED
    BY <2>1
<1>4. compact'.of = c
  BY <1>2
<1>5. c # 0 /\ compact'.was = "resolved" => (Replied(compact.of))'
  BY <1>3, <1>4 DEF Replied
<1> QED
  BY <1>1, <1>2, <1>3, <1>4, <1>5 DEF KeptOK

(* A request that sends nothing, and may end.                               *)
LetterWanted(n) ==
  /\ n.at = "touch" \/ "answer" \in {n.at, n.then} => n.letter # 0
  /\ n.then # "touch"

RequestPasses(r) ==
  IsReq(req'[r]) /\ LetterWanted(req'[r]) /\ req'[r].letter \in {req[r].letter, 0}

LEMMA AskedStays ==
  ASSUME NEW r \in Requests, \A q \in Requests : LetterAsked(q) /\ RequestPasses(q),
         \A m \in Letters :
            mail[m].status # "unsent" => mail'[m].status # "unsent" /\ mail'[m].to = mail[m].to,
         \A m \in Letters : req[r].letter = m => replies'[m][0] = replies[m][0]
  PROVE  LetterAsked(r)'
<1>1. PICK m, n : m = req[r].letter /\ n = req'[r]
  OBVIOUS
<1>2. IsReq(n) /\ LetterWanted(n) /\ n.letter \in {m, 0} /\ m \in Letters \cup {0}
  BY <1>1 DEF RequestPasses, LetterAsked
<1>3. CASE n.letter = 0
  BY <1>1, <1>2, <1>3 DEF LetterAsked, LetterWanted, IsReq
<1>4. CASE n.letter = m /\ m # 0
  <2>1. /\ mail[m].status # "unsent" /\ (mail[m].to = "model" \/ replies[m][0] = 0)
        /\ \A q \in Requests \ {r} : req[q].letter # m
    BY <1>1, <1>4 DEF LetterAsked
  <2>2. \A q \in Requests \ {r} : req'[q].letter # m
    BY <1>4, <2>1 DEF RequestPasses
  <2>3. mail'[m].status # "unsent" /\ (mail'[m].to = "model" \/ replies'[m][0] = 0)
    BY <1>1, <1>2, <1>4, <2>1
  <2> QED
    BY <1>1, <1>2, <1>4, <2>2, <2>3 DEF LetterAsked, LetterWanted, IsReq
<1> QED
  BY <1>2, <1>3, <1>4


(* What stays when no turn moves and messages that were sent keep their     *)
(* addressee and their replies.                                             *)
LEMMA DuesStay ==
  ASSUME MailInv, turn' = turn, born' = born, rolled \subseteq rolled',
         \A m \in Letters : mail[m].status # "unsent" =>
            mail'[m].status # "unsent" /\ mail'[m].to = mail[m].to /\ replies'[m] = replies[m],
         \A r \in Requests : \/ req'[r].letter = req[r].letter
                             \/ req'[r].letter \notin Letters
                             \/ mail[req'[r].letter].status = "unsent"
  PROVE  \A p \in Pids : TurnOK(p)' /\ \A m \in turn'[p].due : DueOK(p, m)'
<1> SUFFICES ASSUME NEW p \in Pids
             PROVE  TurnOK(p)' /\ \A m \in turn'[p].due : DueOK(p, m)'
  OBVIOUS
<1>1. TurnOK(p)'
  BY TurnStays DEF MailInv
<1>2. ASSUME NEW m \in turn[p].due PROVE DueOK(p, m)'
  <2>1. DueOK(p, m) /\ m \in Letters
    BY DEF MailInv, TurnOK
  <2>2. /\ mail[m].status # "unsent" /\ mail'[m].status # "unsent"
        /\ mail'[m].to = mail[m].to /\ replies'[m] = replies[m]
    BY <2>1 DEF DueOK
  <2>3. Replied(m) => Replied(m)'
    BY <2>2, RepliedStays
  <2>4. \A r \in Requests : req'[r].letter = req[r].letter \/ req'[r].letter # m
    BY <2>1, <2>2
  <2>5. \A q \in Pids \ {p} :
            turn'[q].lane = "once" /\ m \in turn'[q].due => AtOnce(q) /\ m \in turn[q].due
    BY DEF AtOnce
  <2> QED
    BY <2>1, <2>2, <2>3, <2>4, <2>5, DueStays
<1> QED
  BY <1>1, <1>2

(* A turn that goes on to t, and what it lists then.                        *)
TurnFits(p) ==
  /\ IsTurn(turn'[p]) /\ turn'[p].due \subseteq Letters /\ turn'[p].at # "resolve"
  /\ turn'[p].at = "idle" => turn'[p] = Idle
  /\ turn'[p].at \notin {"idle", "handle"} => turn'[p].due # {}
  /\ turn'[p].at # "idle" /\ turn'[p].lane # "once" => p <= born
  /\ turn[p].at # "resolve" \/ (alive'[p] = "none" /\ turn'[p] = Idle)
  /\ alive[p] = "none" /\ (turn[p] = Idle \/ AtOnce(p)) =>
        turn'[p] = Idle \/ turn'[p].lane = "once"
  /\ \A m \in turn'[p].due :
        /\ mail[m].status # "unsent"
        /\ turn'[p].lane # "once" => m \in rolled \/ replies[m][p] = 0
        /\ turn'[p].lane = "once" =>
             /\ mail[m].to # "model" /\ replies[m][0] = 0
             /\ \A r \in Requests : req'[r].letter # m
             /\ \A q \in Pids \ {p} : turn'[q].lane = "once" => m \notin turn'[q].due

(* Nothing is sent, answered or closed: processes and requests go on.       *)
LEMMA NoMailStep ==
  ASSUME MailInv, UNCHANGED <<mail, replies, keepVars>>,
         alive' = [p \in Pids |-> alive'[p]], born' \in Nat, born <= born',
         \A p \in Pids : /\ alive'[p] # "none" => p <= born'
                         /\ p <= born /\ alive[p] = "none" => alive'[p] = "none",
         turn' = [p \in Pids |-> turn'[p]], req' = [r \in Requests |-> req'[r]],
         \A r \in Requests : RequestPasses(r),
         \A p \in Pids : turn'[p] = turn[p] \/ TurnFits(p)
  PROVE  MailInv'
<1>1. UNCHANGED <<mail, replies, rebuild, compact, rolled, dropped>>
  BY DEF keepVars
<1>2. ASSUME NEW p \in Pids PROVE TurnOK(p)' /\ \A m \in turn'[p].due : DueOK(p, m)'
  <2>1. CASE TurnFits(p)
    <3>1. TurnOK(p)'
      <4>1. p \in Nat /\ born \in Nat
        BY PidsAssumption DEF Pids, MailInv
      <4> QED
        BY <2>1, <4>1 DEF TurnOK, TurnFits, AtOnce, IsTurn
    <3>2. \A m \in turn'[p].due : DueOK(p, m)'
      BY <1>1, <2>1 DEF TurnFits, DueOK, Closing, AtOnce
    <3> QED
      BY <3>1, <3>2
  <2>2. CASE turn'[p] = turn[p]
    <3>1. TurnOK(p)'
      BY <2>2, TurnStays DEF MailInv
    <3>2. ASSUME NEW m \in turn[p].due PROVE DueOK(p, m)'
      <4>1. DueOK(p, m) /\ m \in Letters
        BY DEF MailInv, TurnOK
      <4>2. mail[m].status # "unsent" /\ (Replied(m) => Replied(m)')
        BY <1>1, <4>1, RepliedStays DEF DueOK
      <4>3. \A r \in Requests : req'[r].letter = req[r].letter \/ req'[r].letter # m
        <5>1. m # 0
          BY <4>1, LettersAssumption DEF Letters
        <5> QED
          BY <5>1 DEF RequestPasses
      <4>4. AtOnce(p) => \A q \in Pids \ {p} :
              turn'[q].lane = "once" /\ m \in turn'[q].due => AtOnce(q) /\ m \in turn[q].due
        <5> SUFFICES ASSUME AtOnce(p), NEW q \in Pids \ {p},
                            turn'[q].lane = "once", m \in turn'[q].due
                     PROVE  AtOnce(q) /\ m \in turn[q].due
          OBVIOUS
        <5>1. CASE turn'[q] = turn[q]
          BY <5>1 DEF AtOnce
        <5>2. CASE TurnFits(q)
          BY <2>2, <5>2 DEF AtOnce, TurnFits
        <5> QED
          BY <5>1, <5>2
      <4> QED
        BY <1>1, <2>2, <4>1, <4>2, <4>3, <4>4, DueStays
    <3> QED
      BY <2>2, <3>1, <3>2
  <2> QED
    BY <2>1, <2>2
<1>3. ASSUME NEW m \in Letters PROVE LetterOK(m)'
  <2>1. ASSUME NEW p \in Pids, Heard(p, m) PROVE Heard(p, m)'
    <3>1. CASE turn'[p] = turn[p]
      BY <1>1, <2>1, <3>1, HeardStays DEF MailInv
    <3>2. CASE TurnFits(p)
      <4>1. p \in Nat /\ born \in Nat
        BY PidsAssumption DEF Pids, MailInv
      <4>2. p <= born' /\ p <= born
        BY <2>1, <4>1 DEF Heard
      <4>3. CASE mail[m].status # "delivered"
        BY <1>1, <4>2, <4>3 DEF Heard
      <4>4. CASE Closing(p, m)
        BY <3>2, <4>2, <4>4 DEF Heard, TurnFits, Closing
      <4>5. CASE alive[p] = "none" /\ (turn[p] = Idle \/ AtOnce(p))
        BY <3>2, <4>2, <4>5 DEF Heard, TurnFits, AtOnce
      <4> QED
        BY <2>1, <4>3, <4>4, <4>5 DEF Heard
    <3> QED
      BY <3>1, <3>2
  <2> QED
    BY <1>1, <2>1, LetterStays DEF MailInv
<1>4. \A r \in Requests : LetterAsked(r)'
  BY <1>1, AskedStays DEF MailInv
<1>5. KeptOK'
  <2>1. \A m \in Letters : Replied(m) => Replied(m)'
    BY <1>1, RepliedStays
  <2> QED
    BY <1>1, <2>1, KeptStays DEF MailInv
<1>6. /\ mail' = [m \in Letters |-> mail'[m]]
      /\ replies' = [m \in Letters |-> [p \in Pids \cup {0} |-> replies'[m][p]]]
  BY <1>1 DEF MailInv
<1> QED
  BY <1>2, <1>3, <1>4, <1>5, <1>6 DEF MailInv


-----------------------------------------------------------------------------
(* The steps that send, close or restore a message.                         *)

LEMMA RequestsPass ==
  ASSUME MailInv, req' = req
  PROVE  \A r \in Requests : RequestPasses(r)
<1> SUFFICES ASSUME NEW r \in Requests PROVE RequestPasses(r)
  OBVIOUS
<1>1. LetterAsked(r)
  BY DEF MailInv
<1> QED
  BY <1>1 DEF LetterAsked, RequestPasses, LetterWanted, IsReq

LEMMA LetterRestamped ==
  ASSUME NEW m \in Letters, LetterOK(m), IsMail(mail'[m]), replies'[m] = replies[m],
         rolled \subseteq rolled', born' = born,
         mail'[m].status = "unsent" => mail[m].status = "unsent",
         m \notin rolled' /\ Replied(m) => mail'[m].status # "delivered",
         mail'[m].status = "resolved" => Replied(m),
         mail'[m].status = "gone" /\ rebuild'.at # "removed" /\ m \notin dropped' => Replied(m)
  PROVE  LetterOK(m)'
<1>1. Replied(m)' <=> Replied(m)
  BY RepliedStays
<1>2. m \notin rolled' => \A p \in Pids : replies'[m][p] > 0 => replies'[m][p] = 1 /\ Heard(p, m)'
  <2> SUFFICES ASSUME m \notin rolled', NEW p \in Pids, replies'[m][p] > 0
               PROVE  replies'[m][p] = 1 /\ Heard(p, m)'
    OBVIOUS
  <2>1. replies[m][p] = 1 /\ p <= born /\ Replied(m)
    BY DEF LetterOK, Heard, Replied
  <2> QED
    BY <2>1 DEF Heard
<1> QED
  BY <1>1, <1>2 DEF LetterOK

LEMMA MailStep ==
  ASSUME MailInv, UNCHANGED <<turn, alive, born>>, rolled \subseteq rolled',
         \A m \in Letters : mail[m].status # "unsent" =>
            mail'[m].status # "unsent" /\ mail'[m].to = mail[m].to /\ replies'[m] = replies[m],
         \A r \in Requests : \/ req'[r].letter = req[r].letter
                             \/ req'[r].letter \notin Letters
                             \/ mail[req'[r].letter].status = "unsent",
         mail' = [m \in Letters |-> mail'[m]],
         replies' = [m \in Letters |-> [p \in Pids \cup {0} |-> replies'[m][p]]],
         req' = [r \in Requests |-> req'[r]],
         \A m \in Letters : LetterOK(m)', \A r \in Requests : LetterAsked(r)', KeptOK'
  PROVE  MailInv'
<1>1. \A p \in Pids : TurnOK(p)' /\ \A m \in turn'[p].due : DueOK(p, m)'
  BY DuesStay
<1> QED
  BY <1>1 DEF MailInv

(* One message is stamped anew.                                             *)
LEMMA StampStep ==
  ASSUME MailInv, UNCHANGED <<turn, alive, born, replies, req, rebuild, dropped>>,
         NEW k \in Letters, NEW s, mail' = [mail EXCEPT ![k].status = s],
         mail[k].status # "unsent", s \notin {"unsent", "gone"}, rolled \subseteq rolled',
         k \notin rolled' /\ Replied(k) => s # "delivered",
         s = "resolved" => Replied(k),
         compact'.of = 0 \/ compact' = compact, compact' = [of |-> compact'.of, was |-> compact'.was]
  PROVE  MailInv'
<1>1. PICK e : e = mail[k]
  OBVIOUS
<1>2. PICK n : n = [e EXCEPT !.status = s]
  OBVIOUS
<1>3. IsMail(n) /\ n.status = s /\ n.to = e.to
  <2>1. IsMail(e)
    BY <1>1 DEF MailInv, LetterOK
  <2> QED
    BY <1>2, <2>1 DEF IsMail
<1>4. /\ mail' = [m \in Letters |-> mail'[m]] /\ mail'[k] = n
      /\ \A m \in Letters \ {k} : mail'[m] = mail[m]
  BY <1>1, <1>2 DEF MailInv
<1>5. ASSUME NEW m \in Letters PROVE LetterOK(m)'
  <2>1. CASE m = k
    BY <1>3, <1>4, <2>1, LetterRestamped DEF MailInv
  <2>2. CASE m # k
    <3>1. mail'[m] = mail[m]
      BY <1>4, <2>2
    <3>2. turn' = turn /\ alive' = alive /\ born' = born /\ born \in Nat /\ LetterOK(m)
          /\ replies' = replies /\ rebuild' = rebuild /\ dropped' = dropped
      BY DEF MailInv
    <3>3. ASSUME NEW p \in Pids, Heard(p, m) PROVE Heard(p, m)'
      <4>1. turn'[p] = turn[p] /\ alive'[p] = alive[p] /\ mail'[m].status = mail[m].status
        BY <3>1, <3>2, Zenon
      <4>2. born' \in Nat /\ born <= born'
        BY <3>2
      <4> QED
        BY <3>2, <3>3, <4>1, <4>2, HeardStays
    <3> QED
      BY <3>1, <3>2, <3>3, LetterStays
  <2> QED
    BY <2>1, <2>2
<1>6. \A m \in Letters : mail[m].status # "unsent" =>
            mail'[m].status # "unsent" /\ mail'[m].to = mail[m].to
  BY <1>1, <1>3, <1>4
<1>7. \A r \in Requests : LetterAsked(r)'
  BY <1>6, RequestsPass, AskedStays DEF MailInv
<1>8. KeptOK'
  <2>1. \A m \in Letters : Replied(m) => Replied(m)'
    BY RepliedStays
  <2>2. CASE compact' = compact
    BY <1>6, <2>1, <2>2, KeptStays DEF MailInv
  <2>3. CASE compact'.of = 0
    <3>1. rebuild.at # "none" => \A m \in Letters : CopyOK(m)'
      BY <1>6, <2>1, CopyStays DEF MailInv, KeptOK
    <3> QED
      BY <2>3, <3>1 DEF MailInv, KeptOK
  <2> QED
    BY <2>2, <2>3
<1> QED
  BY <1>4, <1>5, <1>6, <1>7, <1>8, MailStep DEF MailInv

LEMMA AcknowledgeKeeps ==
  ASSUME MailInv, NEW m \in Letters, Acknowledge(m), UNCHANGED <<alive, born, req, keepVars>>
  PROVE  MailInv'
<1>1. mail[m].status # "unsent" /\ compact' = [of |-> compact'.of, was |-> compact'.was]
  BY DEF Acknowledge, Kept, keepVars, MailInv, KeptOK
<1>2. PICK s : s = "acknowledged"
  OBVIOUS
<1>3. /\ mail' = [mail EXCEPT ![m].status = s]
      /\ s \notin {"unsent", "gone", "delivered", "resolved"}
      /\ UNCHANGED <<turn, alive, born, replies, req, rebuild, dropped>>
      /\ rolled \subseteq rolled' /\ compact' = compact
  BY <1>2 DEF Acknowledge, keepVars
<1> QED
  BY <1>1, <1>3, StampStep

LEMMA WriteCompactedKeeps ==
  ASSUME MailInv, WriteCompacted, UNCHANGED <<alive, born, req>>
  PROVE  MailInv'
<1>1. PICK m, s : m = compact.of /\ s = compact.was
  OBVIOUS
<1>2. m \in Letters /\ s \notin {"unsent", "gone"} /\ (s = "resolved" => Replied(m))
  BY <1>1 DEF WriteCompacted, MailInv, KeptOK, Replied
<1>3. /\ UNCHANGED <<turn, alive, born, replies, req, rebuild, dropped>>
      /\ compact'.of = 0 /\ compact' = [of |-> compact'.of, was |-> compact'.was]
  BY DEF WriteCompacted
<1>4. CASE Kept(m)
  <2>1. /\ mail' = [mail EXCEPT ![m].status = s]
        /\ rolled' = IF Replied(m) /\ s \notin Closed THEN rolled \cup {m} ELSE rolled
    BY <1>1, <1>4 DEF WriteCompacted
  <2>2. mail[m].status # "unsent" /\ rolled \subseteq rolled'
        /\ (m \notin rolled' /\ Replied(m) => s # "delivered")
    BY <1>4, <2>1 DEF Kept, Closed
  <2> QED
    BY <1>2, <1>3, <2>1, <2>2, StampStep
<1>5. CASE ~ Kept(m)
  <2>1. mail' = mail /\ rolled' = rolled
    BY <1>1, <1>5 DEF WriteCompacted
  <2>2. \A r \in Requests : RequestPasses(r)
    BY <1>3, RequestsPass
  <2>3. \A k \in Letters : LetterOK(k)'
    <3> SUFFICES ASSUME NEW k \in Letters PROVE LetterOK(k)'
      OBVIOUS
    <3>1. \A p \in Pids : Heard(p, k) => Heard(p, k)'
      BY <1>3, <2>1, HeardStays DEF MailInv
    <3> QED
      BY <1>3, <2>1, <3>1, LetterStays DEF MailInv
  <2>4. \A r \in Requests : LetterAsked(r)'
    BY <1>3, <2>1, <2>2, AskedStays DEF MailInv
  <2>5. \A k \in Letters : Replied(k) => Replied(k)'
    BY <1>3, RepliedStays
  <2>6. rebuild.at # "none" => \A k \in Letters : CopyOK(k)'
    BY <1>3, <2>1, <2>5, CopyStays DEF MailInv, KeptOK
  <2>7. KeptOK'
    BY <1>3, <2>6 DEF MailInv, KeptOK
  <2> QED
    BY <1>3, <2>1, <2>3, <2>4, <2>7, MailStep DEF MailInv
<1> QED
  BY <1>4, <1>5


(* The database stays as it is: only what upkeep has read changes.          *)
LEMMA KeepStep ==
  ASSUME MailInv, UNCHANGED <<mail, replies, turn, alive, born, req, rolled>>,
         dropped \subseteq dropped',
         \A m \in Letters :
            rebuild'.at # "removed" /\ mail[m].status = "gone" /\ m \notin dropped'
               => rebuild.at # "removed",
         KeptOK'
  PROVE  MailInv'
<1>1. ASSUME NEW m \in Letters PROVE LetterOK(m)'
  <2>1. mail'[m] = mail[m] /\ replies'[m] = replies[m] /\ rolled' = rolled /\ LetterOK(m)
    BY DEF MailInv
  <2>2. \A p \in Pids : Heard(p, m) => Heard(p, m)'
    BY HeardStays DEF MailInv
  <2> QED
    BY <2>1, <2>2, LetterStays
<1>2. \A r \in Requests : LetterAsked(r)'
  BY RequestsPass, AskedStays DEF MailInv
<1> QED
  BY <1>1, <1>2, MailStep DEF MailInv

LEMMA TakeSnapshotKeeps ==
  ASSUME MailInv, TakeSnapshot, UNCHANGED <<alive, born, req>>
  PROVE  MailInv'
<1>1. PICK b : b = rebuild'
  OBVIOUS
<1>2. b = [at |-> "copied", copy |-> mail]
  BY <1>1 DEF TakeSnapshot
<1>3. b = [at |-> b.at, copy |-> b.copy] /\ b.at = "copied" /\ b.copy = mail
  BY <1>2
<1>4. UNCHANGED <<mail, replies, turn, compact, rolled, dropped>> /\ rebuild.at = "none"
  BY DEF TakeSnapshot, laneVars
<1>5. ASSUME NEW m \in Letters PROVE CopyOK(m)'
  <2>1. rebuild'.copy[m] = mail[m]
    BY <1>1, <1>3
  <2>2. Replied(m)' <=> Replied(m)
    BY <1>4, RepliedStays
  <2> QED
    BY <1>4, <2>1, <2>2 DEF CopyOK, MailInv, LetterOK, IsMail
<1>6. KeptOK'
  BY <1>1, <1>3, <1>4, <1>5, RepliedStays DEF KeptOK, MailInv, Replied
<1> QED
  BY <1>1, <1>3, <1>4, <1>6, KeepStep

LEMMA CutRunKeeps ==
  ASSUME MailInv, CutRun, UNCHANGED <<alive, born, req>>
  PROVE  MailInv'
<1>1. UNCHANGED <<mail, replies, turn, compact, rolled>> /\ rebuild' = NoRun
      /\ dropped' = dropped \cup {m \in Letters : mail[m].status = "gone"}
  BY DEF CutRun, laneVars
<1>2. rebuild'.at = "none" /\ rebuild' = [at |-> rebuild'.at, copy |-> rebuild'.copy]
  BY <1>1 DEF NoRun
<1>3. KeptOK'
  BY <1>1, <1>2 DEF KeptOK, MailInv, Replied
<1> QED
  BY <1>1, <1>2, <1>3, KeepStep

LEMMA ReadOversizedKeeps ==
  ASSUME MailInv, NEW m \in Letters, ReadOversized(m), UNCHANGED <<alive, born, req>>
  PROVE  MailInv'
<1>1. UNCHANGED <<mail, replies, turn, rebuild, rolled, dropped>>
      /\ compact' = [of |-> m, was |-> mail[m].status]
  BY DEF ReadOversized, laneVars
<1>2. compact'.of = m /\ compact'.was = mail[m].status
      /\ compact' = [of |-> compact'.of, was |-> compact'.was]
  BY <1>1
<1>3. Kept(m) /\ (mail[m].status = "resolved" => Replied(m))
  BY DEF ReadOversized, MailInv, LetterOK
<1>4. rebuild.at # "none" => \A k \in Letters : CopyOK(k)'
  BY <1>1, RepliedStays, CopyStays DEF MailInv, KeptOK
<1>5. KeptOK'
  BY <1>1, <1>2, <1>3, <1>4 DEF KeptOK, MailInv, Replied, Kept
<1> QED
  BY <1>1, <1>5, KeepStep

(* The database itself is removed or replaced: every message that was sent  *)
(* stays with its addressee, or is gone.                                    *)
LEMMA ReplacedStep ==
  ASSUME MailInv, UNCHANGED <<replies, turn, alive, born, req, compact>>,
         rolled \subseteq rolled', mail' = [m \in Letters |-> mail'[m]],
         \A m \in Letters :
            /\ IsMail(mail'[m])
            /\ mail[m].status # "unsent" => mail'[m].status # "unsent" /\ mail'[m].to = mail[m].to
            /\ mail'[m].status = "unsent" => mail[m].status = "unsent"
            /\ m \notin rolled' /\ Replied(m) => mail'[m].status # "delivered"
            /\ mail'[m].status = "resolved" => Replied(m)
            /\ mail'[m].status = "gone" /\ rebuild'.at # "removed" /\ m \notin dropped' => Replied(m),
         rebuild' = [at |-> rebuild'.at, copy |-> rebuild'.copy],
         rebuild'.at # "none" => \A m \in Letters : CopyOK(m)'
  PROVE  MailInv'
<1>1. \A m \in Letters : LetterOK(m)'
  <2> SUFFICES ASSUME NEW m \in Letters PROVE LetterOK(m)'
    OBVIOUS
  <2>1. LetterOK(m) /\ replies'[m] = replies[m] /\ born' = born
    BY DEF MailInv
  <2> QED
    BY <2>1, LetterRestamped
<1>2. \A r \in Requests : LetterAsked(r)'
  BY RequestsPass, AskedStays DEF MailInv
<1>3. KeptOK'
  BY RepliedStays DEF MailInv, KeptOK, Replied
<1> QED
  BY <1>1, <1>2, <1>3, MailStep DEF MailInv

LEMMA RemoveLiveKeeps ==
  ASSUME MailInv, RemoveLive, UNCHANGED <<alive, born, req>>
  PROVE  MailInv'
<1>1. UNCHANGED <<replies, turn, compact, rolled, dropped>> /\ rebuild.at = "copied"
  BY DEF RemoveLive
<1>2. rebuild'.at = "removed" /\ rebuild'.copy = rebuild.copy
      /\ rebuild' = [at |-> rebuild'.at, copy |-> rebuild'.copy]
  BY DEF RemoveLive, MailInv, KeptOK
<1>3. ASSUME NEW m \in Letters
      PROVE  /\ IsMail(mail'[m]) /\ mail'[m].to = mail[m].to
             /\ mail'[m].status = IF mail[m].status = "unsent" THEN "unsent" ELSE "gone"
  <2>1. PICK e : e = mail[m]
    OBVIOUS
  <2>2. IsMail(e)
    BY <2>1 DEF MailInv, LetterOK
  <2>3. CASE Kept(m)
    <3>1. mail'[m] = [e EXCEPT !.status = "gone"]
      BY <2>1, <2>3 DEF RemoveLive
    <3> QED
      BY <2>1, <2>2, <2>3, <3>1 DEF IsMail, Kept
  <2>4. CASE ~ Kept(m)
    <3>1. mail'[m] = e
      BY <2>1, <2>4 DEF RemoveLive
    <3> QED
      BY <2>1, <2>2, <2>4, <3>1 DEF Kept
  <2> QED
    BY <2>3, <2>4
<1>4. \A m \in Letters : CopyOK(m)'
  <2> SUFFICES ASSUME NEW m \in Letters PROVE CopyOK(m)'
    OBVIOUS
  <2>1. CopyOK(m) /\ (Replied(m)' <=> Replied(m))
    BY <1>1, RepliedStays DEF MailInv, KeptOK
  <2>2. rebuild'.copy[m] = rebuild.copy[m] /\ dropped' = dropped
    BY <1>1, <1>2
  <2> QED
    BY <1>3, <2>1, <2>2 DEF CopyOK, IsMail
<1>5. mail' = [m \in Letters |-> mail'[m]]
  BY DEF RemoveLive
<1> QED
  BY <1>1, <1>2, <1>3, <1>4, <1>5, ReplacedStep

LEMMA PutHotKeeps ==
  ASSUME MailInv, PutHot, UNCHANGED <<alive, born, req>>
  PROVE  MailInv'
<1>1. PICK hot : hot = StillOpen(rebuild.copy)
  OBVIOUS
<1>2. /\ mail' = [m \in Letters |->
            IF m \in hot THEN rebuild.copy[m]
            ELSE IF Kept(m) THEN [mail[m] EXCEPT !.status = "gone"] ELSE mail[m]]
      /\ rolled' = rolled \cup {m \in hot : Replied(m)}
      /\ dropped' = dropped \cup
            {m \in Letters \ hot :
               \/ rebuild.copy[m].status = "acknowledged"
               \/ rebuild.copy[m].status = "unsent" /\ mail[m].status # "unsent"}
  BY <1>1 DEF PutHot
<1>3. UNCHANGED <<replies, turn, compact>> /\ rebuild.at = "removed" /\ rebuild' = NoRun
  BY DEF PutHot
<1>4. rebuild'.at = "none" /\ rebuild' = [at |-> rebuild'.at, copy |-> rebuild'.copy]
  BY <1>3 DEF NoRun
<1>5. ASSUME NEW m \in Letters
      PROVE  /\ IsMail(mail'[m])
             /\ mail[m].status # "unsent" => mail'[m].status # "unsent" /\ mail'[m].to = mail[m].to
             /\ mail'[m].status = "unsent" => mail[m].status = "unsent"
             /\ m \notin rolled' /\ Replied(m) => mail'[m].status # "delivered"
             /\ mail'[m].status = "resolved" => Replied(m)
             /\ mail'[m].status = "gone" /\ m \notin dropped' => Replied(m)
  <2>1. PICK e, c : e = mail[m] /\ c = rebuild.copy[m]
    OBVIOUS
  <2>2. LetterOK(m) /\ CopyOK(m)
    BY <1>3 DEF MailInv, KeptOK
  <2>3. /\ IsMail(e) /\ IsMail(c)
        /\ c.status # "unsent" => e.status # "unsent" /\ c.to = e.to
        /\ c.status = "resolved" => Replied(m)
        /\ c.status = "gone" /\ m \notin dropped => Replied(m)
    BY <2>1, <2>2 DEF LetterOK, CopyOK
  <2>4. m \in hot <=> c.status \notin {"acknowledged", "resolved", "unsent", "gone"}
    BY <1>1, <2>1 DEF StillOpen, Closed
  <2>5. CASE m \in hot
    <3>1. mail'[m] = c /\ (Replied(m) => m \in rolled')
      BY <1>2, <2>1, <2>5
    <3> QED
      BY <2>1, <2>3, <2>4, <2>5, <3>1
  <2>6. CASE m \notin hot
    <3>1. IsMail(mail'[m]) /\ mail'[m].to = e.to
          /\ mail'[m].status = IF e.status = "unsent" THEN "unsent" ELSE "gone"
      <4>1. CASE Kept(m)
        <5>1. mail'[m] = [e EXCEPT !.status = "gone"]
          BY <1>2, <2>1, <2>6, <4>1
        <5> QED
          BY <2>1, <2>3, <4>1, <5>1 DEF IsMail, Kept
      <4>2. CASE ~ Kept(m)
        <5>1. mail'[m] = e
          BY <1>2, <2>1, <2>6, <4>2
        <5> QED
          BY <2>1, <2>3, <4>2, <5>1 DEF Kept
      <4> QED
        BY <4>1, <4>2
    <3>2. ASSUME e.status # "unsent", m \notin dropped' PROVE Replied(m)
      <4>1. c.status # "acknowledged" /\ c.status # "unsent" /\ m \notin dropped
        BY <1>2, <2>1, <2>6, <3>2
      <4> QED
        BY <2>3, <2>4, <2>6, <4>1
    <3> QED
      BY <2>1, <3>1, <3>2
  <2> QED
    BY <2>5, <2>6
<1>6. rolled \subseteq rolled' /\ mail' = [m \in Letters |-> mail'[m]]
  BY <1>2
<1> QED
  BY <1>3, <1>4, <1>5, <1>6, ReplacedStep


(* What is known of a message before it is sent.                            *)
LEMMA UnsentFacts ==
  ASSUME MailInv, NEW m \in Letters, mail[m].status = "unsent"
  PROVE  /\ \A p \in Pids \cup {0} : replies[m][p] = 0
         /\ 0 \notin Pids /\ m # 0 /\ ~ Replied(m)
<1>1. \A p \in Pids \cup {0} : replies[m][p] = 0
  BY DEF MailInv, LetterOK
<1>2. 0 \notin Pids /\ m # 0
  BY PidsAssumption, LettersAssumption DEF Pids, Letters
<1>3. ~ Replied(m)
  BY <1>1 DEF Replied
<1> QED
  BY <1>1, <1>2, <1>3

(* A message is sent, and the request that sends it may have a reply.       *)
LEMMA SentStep ==
  ASSUME MailInv, NEW m \in Letters, NEW to, NEW asks, NEW sensitive,
         NewLetter(m, to, asks, sensitive), UNCHANGED <<turn, alive, born, keepVars>>,
         replies' = [k \in Letters |-> [p \in Pids \cup {0} |-> replies'[k][p]]],
         \A k \in Letters \ {m} : replies'[k] = replies[k],
         \A p \in Pids : replies'[m][p] = 0,
         replies'[m][0] \in {0, 1}, replies'[m][0] = 0 \/ to = "model",
         req' = [r \in Requests |-> req'[r]],
         \A r \in Requests :
            \/ req'[r] = req[r]
            \/ /\ IsReq(req'[r]) /\ LetterWanted(req'[r]) /\ req'[r].letter = m
               /\ \A q \in Requests \ {r} : req'[q] = req[q]
  PROVE  MailInv'
<1>1. UNCHANGED <<turn, alive, born, rebuild, compact, rolled, dropped>>
  BY DEF keepVars
<1>2. PICK e : e = [status |-> "delivered", to |-> to, asks |-> asks, sensitive |-> sensitive]
  OBVIOUS
<1>3. IsMail(e) /\ e.status = "delivered" /\ e.to = to
  BY <1>2 DEF IsMail
<1>4. /\ mail[m].status = "unsent" /\ mail' = [k \in Letters |-> mail'[k]] /\ mail'[m] = e
      /\ \A k \in Letters \ {m} : mail'[k] = mail[k]
  BY <1>2 DEF NewLetter, MailInv
<1>5. ~ Replied(m) /\ LetterOK(m) /\ m # 0
  BY <1>4, UnsentFacts DEF MailInv
<1>6. ASSUME NEW k \in Letters PROVE LetterOK(k)'
  <2>1. CASE k = m
    <3>1. IsMail(mail'[m]) /\ mail'[m].status = "delivered"
      BY <1>3, <1>4
    <3>2. \A p \in Pids \cup {0} : replies'[m][p] \in Nat
      OBVIOUS
    <3>3. replies'[m][0] <= 1 /\ \A p \in Pids : ~ (replies'[m][p] > 0)
      OBVIOUS
    <3> QED
      BY <2>1, <3>1, <3>2, <3>3 DEF LetterOK
  <2>2. CASE k # m
    <3>1. mail'[k] = mail[k] /\ replies'[k] = replies[k] /\ LetterOK(k)
      BY <1>4, <2>2 DEF MailInv
    <3>2. ASSUME NEW p \in Pids, Heard(p, k) PROVE Heard(p, k)'
      <4>1. turn'[p] = turn[p] /\ alive'[p] = alive[p] /\ mail'[k].status = mail[k].status
        BY <1>1, <3>1, Zenon
      <4>2. born \in Nat /\ born' \in Nat /\ born <= born'
        BY <1>1 DEF MailInv
      <4> QED
        BY <3>2, <4>1, <4>2, HeardStays
    <3> QED
      BY <1>1, <3>1, <3>2, LetterStays
  <2> QED
    BY <2>1, <2>2
<1>7. \A k \in Letters : mail[k].status # "unsent" =>
            mail'[k].status # "unsent" /\ mail'[k].to = mail[k].to /\ replies'[k] = replies[k]
  BY <1>4
<1>8. ASSUME NEW r \in Requests PROVE LetterAsked(r)'
  <2>1. \A q \in Requests : LetterAsked(q) /\ req[q].letter # m
    BY <1>4, <1>5 DEF MailInv, LetterAsked
  <2>2. CASE req'[r].letter = m /\ IsReq(req'[r]) /\ LetterWanted(req'[r])
             /\ \A q \in Requests \ {r} : req'[q] = req[q]
    <3>1. mail'[m].status # "unsent" /\ (mail'[m].to = "model" \/ replies'[m][0] = 0)
      BY <1>3, <1>4
    <3>2. \A q \in Requests \ {r} : req'[q].letter # m
      BY <2>1, <2>2
    <3> QED
      BY <1>5, <2>2, <3>1, <3>2 DEF LetterAsked, LetterWanted, IsReq
  <2>3. CASE req'[r] = req[r]
    <3>1. PICK k : k = req[r].letter
      OBVIOUS
    <3>2. k # 0 => /\ k \in Letters \ {m} /\ mail[k].status # "unsent"
                   /\ mail[k].to = "model" \/ replies[k][0] = 0
      BY <2>1, <3>1 DEF LetterAsked
    <3>3. k # 0 => mail'[k] = mail[k] /\ replies'[k] = replies[k]
      BY <1>4, <3>2
    <3>4. k # 0 => \A q \in Requests \ {r} : req'[q].letter # k
      <4> SUFFICES ASSUME k # 0, NEW q \in Requests \ {r} PROVE req'[q].letter # k
        OBVIOUS
      <4>1. req[q].letter # k
        BY <2>1, <3>1 DEF LetterAsked
      <4> QED
        BY <3>2, <4>1
    <3>5. LetterAsked(r)
      BY <2>1
    <3> QED
      BY <2>3, <3>1, <3>2, <3>3, <3>4, <3>5 DEF LetterAsked, IsReq
  <2> QED
    BY <2>2, <2>3
<1>9. KeptOK'
  <2>1. ASSUME NEW k \in Letters, Replied(k) PROVE Replied(k)'
    <3>1. replies'[k] = replies[k]
      BY <1>5, <2>1
    <3> QED
      BY <2>1, <3>1, RepliedStays
  <2> QED
    BY <1>1, <1>7, <2>1, KeptStays DEF MailInv
<1>10. \A r \in Requests : \/ req'[r].letter = req[r].letter
                           \/ req'[r].letter \notin Letters
                           \/ mail[req'[r].letter].status = "unsent"
  BY <1>4
<1> QED
  BY <1>1, <1>4, <1>6, <1>7, <1>8, <1>9, <1>10, MailStep

LEMMA PostKeeps ==
  ASSUME MailInv, NEW m \in Letters, Post(m), UNCHANGED <<alive, born, req, keepVars>>
  PROVE  MailInv'
<1>1. PICK to, asks, sensitive : NewLetter(m, to, asks, sensitive)
  BY DEF Post
<1>2. UNCHANGED <<replies, turn>>
  BY DEF Post
<1>3. \A p \in Pids \cup {0} : replies'[m][p] = 0
  BY <1>1, <1>2, UnsentFacts DEF NewLetter
<1>4. replies' = [k \in Letters |-> [p \in Pids \cup {0} |-> replies'[k][p]]]
      /\ req' = [r \in Requests |-> req'[r]]
  BY <1>2 DEF MailInv
<1> QED
  BY <1>1, <1>2, <1>3, <1>4, SentStep

LEMMA SendKeeps ==
  ASSUME MailInv, NEW m \in Letters, NEW r \in Requests, SendIn(r, m),
         SendMessage(m) \/ SendModelChat(m), UNCHANGED <<alive, born, keepVars>>
  PROVE  MailInv'
<1>1. PICK q, n : q = req[r] /\ n = Told(q, m)
  OBVIOUS
<1>2. req' = [req EXCEPT ![r] = n]
  BY <1>1 DEF SendIn, Told
<1>3. LetterAsked(r) /\ req = [s \in Requests |-> req[s]]
  BY DEF MailInv
<1>4. IsReq(q) /\ q.at = "send" /\ q.then # "touch"
  BY <1>1, <1>3 DEF LetterAsked, SendIn, AskedBy
<1>5. IsReq(n) /\ n.at = "touch" /\ n.then = q.then /\ n.letter = m
  BY <1>1, <1>4, ToldFields
<1>6. /\ req' = [s \in Requests |-> req'[s]] /\ req'[r] = n
      /\ \A s \in Requests \ {r} : req'[s] = req[s]
  BY <1>2, <1>3
<1>7. PICK to, asks, sensitive : /\ NewLetter(m, to, asks, sensitive)
                                 /\ SendModelChat(m) /\ ~ SendMessage(m) => to = "model"
  BY DEF SendMessage, SendModelChat
<1>8. \A p \in Pids \cup {0} : replies[m][p] = 0
  BY <1>7, UnsentFacts DEF NewLetter
<1>9. 0 \notin Pids /\ m # 0
  BY <1>7, UnsentFacts DEF NewLetter
<1>10. LetterWanted(n)
  BY <1>4, <1>5, <1>9 DEF LetterWanted
<1>11. turn' = turn
  BY DEF SendMessage, SendModelChat
<1>12. /\ replies' = [k \in Letters |-> [p \in Pids \cup {0} |-> replies'[k][p]]]
       /\ \A k \in Letters \ {m} : replies'[k] = replies[k]
       /\ \A p \in Pids : replies'[m][p] = 0
       /\ replies'[m][0] \in {0, 1} /\ (replies'[m][0] = 0 \/ to = "model")
  <2>1. CASE replies' = replies
    BY <1>8, <2>1 DEF MailInv
  <2>2. CASE replies' # replies
    <3>1. to = "model" /\ replies' = [replies EXCEPT ![m][0] = @ + 1]
      BY <1>7, <2>2 DEF SendMessage, SendModelChat
    <3>2. PICK f : f = replies[m]
      OBVIOUS
    <3>3. PICK one, g : one = f[0] + 1 /\ g = [f EXCEPT ![0] = one]
      OBVIOUS
    <3>4. f = [p \in Pids \cup {0} |-> f[p]] /\ one = 1
      <4>1. f[0] = 0
        BY <1>8, <3>2
      <4>2. one = 1
        BY <3>3, <4>1
      <4>3. f = [p \in Pids \cup {0} |-> f[p]]
        BY <3>2 DEF MailInv
      <4> QED
        BY <4>2, <4>3
    <3>5. g = [p \in Pids \cup {0} |-> g[p]] /\ g[0] = 1 /\ \A p \in Pids : g[p] = f[p]
      BY <1>9, <3>3, <3>4
    <3>6. replies' = [replies EXCEPT ![m] = g]
      BY <3>1, <3>2, <3>3
    <3>7. replies' = [k \in Letters |-> replies'[k]] /\ replies'[m] = g
          /\ \A k \in Letters \ {m} : replies'[k] = replies[k]
      BY <3>6 DEF MailInv
    <3>8. \A k \in Letters : replies'[k] = [p \in Pids \cup {0} |-> replies'[k][p]]
      BY <3>5, <3>7 DEF MailInv
    <3>9. \A p \in Pids : replies'[m][p] = 0
      BY <1>8, <3>2, <3>5, <3>7
    <3> QED
      BY <3>1, <3>5, <3>7, <3>8, <3>9
  <2> QED
    BY <2>1, <2>2
<1> QED
  BY <1>5, <1>6, <1>7, <1>10, <1>11, <1>12, SentStep


(* A turn that was not closing a message goes on in its place.              *)
LEMMA HeardGoesOn ==
  ASSUME NEW p \in Pids, NEW m, Heard(p, m), turn[p].at \notin {"idle", "resolve"},
         turn'[p].lane = turn[p].lane, UNCHANGED <<alive, born>>,
         mail'[m].status = "delivered" => mail[m].status = "delivered"
  PROVE  Heard(p, m)'
BY DEF Heard, Closing, AtOnce, Idle

LEMMA EmitReplyKeeps ==
  ASSUME MailInv, NEW p \in Pids, EmitReply(p), UNCHANGED <<alive, born, req, keepVars>>
  PROVE  MailInv'
<1>1. UNCHANGED <<alive, born, req, mail, rebuild, compact, rolled, dropped>>
  BY DEF EmitReply, keepVars
<1>2. PICK t, m : t = turn[p] /\ m = Oldest(t.due)
  OBVIOUS
<1>3. TurnOK(p) /\ t.at = "reply" /\ IsTurn(t)
  BY <1>2 DEF MailInv, EmitReply, TurnOK
<1>4. t.due # {} /\ t.due \subseteq Letters
  BY <1>2, <1>3 DEF TurnOK
<1>5. m \in t.due /\ m \in Letters
  BY <1>2, <1>4, OldestIsDue
<1>6. PICK by : by = IF t.lane = "once" THEN 0 ELSE p
  OBVIOUS
<1>7. by \in Pids \cup {0} /\ (by = 0 <=> AtOnce(p)) /\ (by # 0 => by = p) /\ 0 \notin Pids
  <2>1. 0 \notin Pids
    BY PidsAssumption DEF Pids
  <2> QED
    BY <1>2, <1>6, <2>1 DEF AtOnce
<1>8. PICK N, n : N = replies[m] /\ n = N[by] + 1
  OBVIOUS
<1>9. PICK M : M = [N EXCEPT ![by] = n]
  OBVIOUS
<1>10. LetterOK(m) /\ DueOK(p, m)
  BY <1>2, <1>5 DEF MailInv
<1>11. N = [q \in Pids \cup {0} |-> N[q]] /\ \A q \in Pids \cup {0} : N[q] \in Nat
  BY <1>5, <1>8, <1>10 DEF MailInv, LetterOK
<1>12. /\ M = [q \in Pids \cup {0} |-> M[q]] /\ M[by] = n
       /\ \A q \in Pids \cup {0} : q # by => M[q] = N[q]
  BY <1>7, <1>9, <1>11
<1>13. /\ replies' = [k \in Letters |-> replies'[k]] /\ replies'[m] = M
       /\ \A k \in Letters \ {m} : replies'[k] = replies[k]
  <2>1. replies' = [replies EXCEPT ![m] = M]
    BY <1>2, <1>6, <1>8, <1>9 DEF EmitReply
  <2> QED
    BY <1>5, <2>1 DEF MailInv
<1>14. PICK u : u = [t EXCEPT !.at = "resolve"]
  OBVIOUS
<1>15. IsTurn(u) /\ u.at = "resolve" /\ u.lane = t.lane /\ u.due = t.due
  BY <1>3, <1>14 DEF IsTurn
<1>16. /\ turn' = [q \in Pids |-> turn'[q]] /\ turn'[p] = u
       /\ \A q \in Pids \ {p} : turn'[q] = turn[q]
  BY <1>2, <1>14 DEF EmitReply, MailInv
<1>17. /\ AtOnce(p)' <=> AtOnce(p)
       /\ \A k : ~ Closing(p, k)
       /\ \A k \in t.due : Closing(p, k)' <=> k = m
  BY <1>2, <1>3, <1>15, <1>16 DEF AtOnce, Closing
<1>18. n \in Nat /\ n > 0 /\ n = N[by] + 1
  BY <1>7, <1>8, <1>11
<1>19. Replied(m)'
  BY <1>7, <1>12, <1>13, <1>18 DEF Replied
<1>20. ASSUME NEW k \in Letters, Replied(k) PROVE Replied(k)'
  <2>1. CASE k = m
    BY <1>19, <2>1
  <2>2. CASE k # m
    BY <1>13, <1>20, <2>2, RepliedStays
  <2> QED
    BY <2>1, <2>2
<1>21. ASSUME NEW q \in Pids PROVE TurnOK(q)' /\ \A k \in turn'[q].due : DueOK(q, k)'
  <2>1. CASE q = p
    <3>1. TurnOK(p)'
      BY <1>1, <1>2, <1>3, <1>4, <1>15, <1>16 DEF TurnOK, AtOnce
    <3>2. ASSUME NEW k \in t.due PROVE DueOK(p, k)'
      <4>1. DueOK(p, k) /\ k \in Letters
        BY <1>2, <1>4 DEF MailInv
      <4>2. k # m => replies'[k] = replies[k]
        BY <1>13, <4>1
      <4>3. mail'[k].status # "unsent" /\ mail'[k].to = mail[k].to
        BY <1>1, <4>1 DEF DueOK
      <4>4. Closing(p, k)' => Replied(k)'
        BY <1>17, <1>19
      <4>5. ~ AtOnce(p) => k \in rolled' \/ replies'[k][p] = 0 \/ Closing(p, k)'
        BY <1>1, <1>17, <4>1, <4>2 DEF DueOK
      <4>6. AtOnce(p) =>
              /\ mail'[k].to # "model" /\ (replies'[k][0] = 0 \/ Closing(p, k)')
              /\ \A r \in Requests : req'[r].letter # k
              /\ \A s \in Pids \ {p} : turn'[s].lane = "once" => k \notin turn'[s].due
        BY <1>1, <1>16, <1>17, <4>1, <4>2, <4>3 DEF DueOK, AtOnce
      <4> QED
        BY <1>17, <4>3, <4>4, <4>5, <4>6 DEF DueOK, AtOnce
    <3> QED
      BY <1>15, <1>16, <2>1, <3>1, <3>2
  <2>2. CASE q # p
    <3>1. TurnOK(q)'
      BY <1>1, <1>16, <2>2, TurnStays DEF MailInv
    <3>2. ASSUME NEW k \in turn[q].due PROVE DueOK(q, k)'
      <4>1. DueOK(q, k) /\ k \in Letters /\ TurnOK(q)
        BY DEF MailInv, TurnOK
      <4>2. k # m => replies'[k] = replies[k]
        BY <1>13, <4>1
      <4>3. ~ AtOnce(q) => replies'[k][q] = replies[k][q]
        BY <1>7, <1>8, <1>12, <1>13, <2>2, <4>2
      <4>4. AtOnce(q) => replies'[k][0] = replies[k][0]
        <5>1. CASE by = 0 /\ k = m /\ AtOnce(q)
          BY <1>5, <1>7, <1>10, <2>2, <5>1 DEF DueOK
        <5>2. CASE by # 0 \/ k # m
          BY <1>8, <1>12, <1>13, <4>2, <5>2
        <5> QED
          BY <5>1, <5>2
      <4>5. mail'[k].status # "unsent" /\ mail'[k].to = mail[k].to /\ turn'[q] = turn[q]
        BY <1>1, <1>16, <2>2, <4>1 DEF DueOK
      <4>6. \A s \in Pids \ {q} :
              turn'[s].lane = "once" /\ k \in turn'[s].due => AtOnce(s) /\ k \in turn[s].due
        BY <1>2, <1>15, <1>16 DEF AtOnce
      <4>7. Replied(k) => Replied(k)'
        BY <1>20, <4>1
      <4> QED
        BY <1>1, <4>1, <4>3, <4>4, <4>5, <4>6, <4>7, DueStays
    <3> QED
      BY <1>16, <2>2, <3>1, <3>2
  <2> QED
    BY <2>1, <2>2
<1>22. ASSUME NEW k \in Letters, NEW q \in Pids, Heard(q, k) PROVE Heard(q, k)'
  <2>1. CASE q = p
    <3>1. turn[p].at \notin {"idle", "resolve"} /\ turn'[p].lane = turn[p].lane
      BY <1>2, <1>3, <1>15, <1>16
    <3> QED
      BY <1>1, <1>22, <2>1, <3>1, HeardGoesOn
  <2>2. CASE q # p
    BY <1>1, <1>16, <1>22, <2>2, HeardStays DEF MailInv
  <2> QED
    BY <2>1, <2>2
<1>23. ASSUME NEW k \in Letters PROVE LetterOK(k)'
  <2>1. CASE k # m
    BY <1>1, <1>13, <1>22, <2>1, LetterStays DEF MailInv
  <2>2. CASE k = m
    <3>1. \A q \in Pids \cup {0} : M[q] \in Nat
      BY <1>11, <1>12, <1>18
    <3>2. M[0] <= 1
      <4>1. CASE by = 0
        <5>1. N[0] = 0
          BY <1>7, <1>8, <1>10, <1>17, <4>1 DEF DueOK
        <5> QED
          BY <1>12, <1>18, <4>1, <5>1
      <4>2. CASE by # 0
        BY <1>8, <1>10, <1>12, <4>2 DEF LetterOK
      <4> QED
        BY <4>1, <4>2
    <3>3. ASSUME m \notin rolled, NEW q \in Pids, M[q] > 0
          PROVE  M[q] = 1 /\ Heard(q, m)'
      <4>1. CASE q = by
        <5>1. q = p /\ ~ AtOnce(p)
          BY <1>7, <4>1
        <5>2. N[p] = 0
          BY <1>8, <1>10, <1>17, <3>3, <5>1 DEF DueOK
        <5>3. M[q] = 1
          BY <1>12, <1>18, <4>1, <5>1, <5>2
        <5>4. p <= born
          BY <1>2, <1>3, <5>1 DEF TurnOK
        <5>5. Heard(p, m)'
          BY <1>1, <1>5, <1>17, <5>1, <5>4 DEF Heard
        <5> QED
          BY <5>1, <5>3, <5>5
      <4>2. CASE q # by
        <5>1. M[q] = replies[m][q]
          BY <1>8, <1>12, <4>2
        <5>2. replies[m][q] = 1 /\ Heard(q, m)
          BY <1>10, <3>3, <5>1 DEF LetterOK
        <5> QED
          BY <1>5, <1>22, <5>1, <5>2
      <4> QED
        BY <4>1, <4>2
    <3>4. mail[m].status # "unsent" /\ IsMail(mail[m])
      BY <1>10 DEF DueOK, LetterOK
    <3> QED
      BY <1>1, <1>13, <1>19, <2>2, <3>1, <3>2, <3>3, <3>4 DEF LetterOK
  <2> QED
    BY <2>1, <2>2
<1>24. ASSUME NEW r \in Requests PROVE LetterAsked(r)'
  <2>1. \A k \in Letters : req[r].letter = k => replies'[k][0] = replies[k][0]
    <3> SUFFICES ASSUME NEW k \in Letters, req[r].letter = k
                 PROVE  replies'[k][0] = replies[k][0]
      OBVIOUS
    <3>1. CASE k # m
      BY <1>13, <3>1
    <3>2. CASE k = m
      <4>1. by # 0
        BY <1>7, <1>10, <3>2 DEF DueOK
      <4> QED
        BY <1>8, <1>12, <1>13, <3>2, <4>1
    <3> QED
      BY <3>1, <3>2
  <2> QED
    BY <1>1, <2>1, RequestsPass, AskedStays DEF MailInv
<1>25. KeptOK'
  BY <1>1, <1>20, KeptStays DEF MailInv
<1>26. replies' = [k \in Letters |-> [q \in Pids \cup {0} |-> replies'[k][q]]]
  <2>1. \A k \in Letters : replies'[k] = [q \in Pids \cup {0} |-> replies'[k][q]]
    BY <1>12, <1>13 DEF MailInv
  <2> QED
    BY <1>13, <2>1
<1> QED
  BY <1>1, <1>16, <1>21, <1>23, <1>24, <1>25, <1>26 DEF MailInv


LEMMA CloseLetterKeeps ==
  ASSUME MailInv, NEW p \in Pids, CloseLetter(p), UNCHANGED <<alive, born, req, keepVars>>
  PROVE  MailInv'
<1>1. UNCHANGED <<alive, born, req, replies, rebuild, compact, rolled, dropped>>
  BY DEF CloseLetter, keepVars
<1>2. PICK t, m : t = turn[p] /\ m = Oldest(t.due)
  OBVIOUS
<1>3. TurnOK(p) /\ t.at = "resolve" /\ IsTurn(t)
  BY <1>2 DEF MailInv, CloseLetter, TurnOK
<1>4. t.due # {} /\ t.due \subseteq Letters
  BY <1>2, <1>3 DEF TurnOK
<1>5. m \in t.due /\ m \in Letters
  BY <1>2, <1>4, OldestIsDue
<1>6. LetterOK(m) /\ DueOK(p, m) /\ Closing(p, m) /\ Replied(m)
  BY <1>2, <1>3, <1>5 DEF MailInv, Closing, DueOK
<1>7. PICK D, u : D = t.due \ {m} /\ u = [t EXCEPT !.at = "handle", !.due = t.due \ {m}]
  OBVIOUS
<1>8. IsTurn(u) /\ u.at = "handle" /\ u.lane = t.lane /\ u.due = D
  BY <1>3, <1>7 DEF IsTurn
<1>9. /\ turn' = [q \in Pids |-> turn'[q]] /\ turn'[p] = u
      /\ \A q \in Pids \ {p} : turn'[q] = turn[q]
  BY <1>2, <1>7 DEF CloseLetter, MailInv
<1>10. /\ AtOnce(p)' <=> AtOnce(p)
       /\ \A k \in D : ~ Closing(p, k)
       /\ \A k : ~ Closing(p, k)'
  BY <1>2, <1>7, <1>8, <1>9 DEF AtOnce, Closing
<1>11. /\ mail' = [k \in Letters |-> mail'[k]]
       /\ \A k \in Letters \ {m} : mail'[k] = mail[k]
       /\ IsMail(mail'[m]) /\ mail'[m].to = mail[m].to
       /\ mail'[m].status = IF Kept(m) THEN "resolved" ELSE mail[m].status
  <2>1. CASE Kept(m)
    <3>1. PICK e, n : e = mail[m] /\ n = [e EXCEPT !.status = "resolved"]
      OBVIOUS
    <3>2. IsMail(n) /\ n.status = "resolved" /\ n.to = e.to
      BY <1>6, <3>1 DEF LetterOK, IsMail
    <3>3. mail' = [mail EXCEPT ![m] = n]
      BY <1>2, <2>1, <3>1 DEF CloseLetter
    <3>4. mail' = [k \in Letters |-> mail'[k]] /\ mail'[m] = n
          /\ \A k \in Letters \ {m} : mail'[k] = mail[k]
      BY <1>5, <3>3 DEF MailInv
    <3> QED
      BY <2>1, <3>1, <3>2, <3>4
  <2>2. CASE ~ Kept(m)
    <3>1. mail' = mail
      BY <1>2, <2>2 DEF CloseLetter
    <3> QED
      BY <1>6, <2>2, <3>1 DEF MailInv, LetterOK
  <2> QED
    BY <2>1, <2>2
<1>12. mail'[m].status \notin {"unsent", "delivered"}
       /\ (mail'[m].status = "gone" => mail[m].status = "gone")
  BY <1>6, <1>11 DEF DueOK, Kept
<1>13. \A k \in Letters : mail[k].status # "unsent" =>
            mail'[k].status # "unsent" /\ mail'[k].to = mail[k].to
  BY <1>11, <1>12
<1>14. \A k \in Letters : Replied(k)' <=> Replied(k)
  BY <1>1, RepliedStays
<1>15. ASSUME NEW q \in Pids PROVE TurnOK(q)' /\ \A k \in turn'[q].due : DueOK(q, k)'
  <2>1. CASE q = p
    <3>1. TurnOK(p)'
      BY <1>1, <1>2, <1>3, <1>4, <1>7, <1>8, <1>9 DEF TurnOK, AtOnce
    <3>2. ASSUME NEW k \in D PROVE DueOK(p, k)'
      <4>1. DueOK(p, k) /\ k \in Letters
        BY <1>2, <1>4, <1>7 DEF MailInv
      <4>2. mail'[k].status # "unsent" /\ mail'[k].to = mail[k].to
        BY <1>13, <4>1 DEF DueOK
      <4>3. \A s \in Pids \ {p} : turn'[s] = turn[s]
        BY <1>9
      <4> QED
        BY <1>1, <1>10, <4>1, <4>2, <4>3 DEF DueOK, AtOnce
    <3> QED
      BY <1>8, <1>9, <2>1, <3>1, <3>2
  <2>2. CASE q # p
    <3>1. TurnOK(q)'
      BY <1>1, <1>9, <2>2, TurnStays DEF MailInv
    <3>2. ASSUME NEW k \in turn[q].due PROVE DueOK(q, k)'
      <4>1. DueOK(q, k) /\ k \in Letters
        BY DEF MailInv, TurnOK
      <4>2. mail'[k].status # "unsent" /\ mail'[k].to = mail[k].to /\ turn'[q] = turn[q]
        BY <1>9, <1>13, <2>2, <4>1 DEF DueOK
      <4>3. \A s \in Pids \ {q} :
              turn'[s].lane = "once" /\ k \in turn'[s].due => AtOnce(s) /\ k \in turn[s].due
        BY <1>2, <1>7, <1>8, <1>9 DEF AtOnce
      <4> QED
        BY <1>1, <1>14, <4>1, <4>2, <4>3, DueStays
    <3> QED
      BY <1>9, <2>2, <3>1, <3>2
  <2> QED
    BY <2>1, <2>2
<1>16. ASSUME NEW k \in Letters PROVE LetterOK(k)'
  <2>1. CASE k = m
    BY <1>1, <1>6, <1>11, <1>12, <2>1, LetterRestamped
  <2>2. CASE k # m
    <3>1. mail'[k] = mail[k]
      BY <1>11, <2>2
    <3>2. ASSUME NEW q \in Pids, Heard(q, k) PROVE Heard(q, k)'
      <4>1. CASE q = p
        <5>1. ~ Closing(p, k) /\ turn[p] # Idle
          BY <1>2, <1>3, <2>2 DEF Closing, Idle
        <5> QED
          BY <1>1, <1>10, <3>1, <3>2, <4>1, <5>1 DEF Heard
      <4>2. CASE q # p
        <5>1. turn'[q] = turn[q] /\ alive'[q] = alive[q] /\ mail'[k].status = mail[k].status
          BY <1>1, <1>9, <3>1, <4>2, Zenon
        <5>2. born \in Nat /\ born' \in Nat /\ born <= born'
          BY <1>1 DEF MailInv
        <5> QED
          BY <3>2, <5>1, <5>2, HeardStays
      <4> QED
        BY <4>1, <4>2
    <3> QED
      BY <1>1, <3>1, <3>2, LetterStays DEF MailInv
  <2> QED
    BY <2>1, <2>2
<1>17. \A r \in Requests : LetterAsked(r)'
  BY <1>1, <1>13, RequestsPass, AskedStays DEF MailInv
<1>18. KeptOK'
  BY <1>1, <1>13, <1>14, KeptStays DEF MailInv
<1> QED
  BY <1>1, <1>9, <1>11, <1>15, <1>16, <1>17, <1>18 DEF MailInv

-----------------------------------------------------------------------------
(* The steps of a turn that send nothing.                                   *)

(* The turn of p becomes t, and no request goes on.                         *)
LEMMA TurnStep ==
  ASSUME MailInv, NEW p \in Pids, NEW t, turn' = [turn EXCEPT ![p] = t],
         UNCHANGED <<alive, born, req, mail, replies, keepVars>>,
         IsTurn(t), t.due \subseteq Letters, t.at # "resolve", turn[p].at # "resolve",
         t.at = "idle" => t = Idle,
         t.at \notin {"idle", "handle"} => t.due # {},
         t.at # "idle" /\ t.lane # "once" => p <= born,
         alive[p] = "none" /\ (turn[p] = Idle \/ AtOnce(p)) => t = Idle \/ t.lane = "once",
         \A m \in t.due :
            /\ mail[m].status # "unsent"
            /\ t.lane # "once" => m \in rolled \/ replies[m][p] = 0,
         t.lane = "once" => AtOnce(p) /\ t.due \subseteq turn[p].due
  PROVE  MailInv'
<1>1. /\ turn' = [q \in Pids |-> turn'[q]] /\ turn'[p] = t
      /\ \A q \in Pids \ {p} : turn'[q] = turn[q]
  BY DEF MailInv
<1>2. ASSUME t.lane = "once", NEW m \in t.due
      PROVE  /\ mail[m].to # "model" /\ replies[m][0] = 0
             /\ \A r \in Requests : req'[r].letter # m
             /\ \A q \in Pids \ {p} : turn'[q].lane = "once" => m \notin turn'[q].due
  <2>1. DueOK(p, m) /\ AtOnce(p) /\ ~ Closing(p, m)
    BY <1>2 DEF MailInv, Closing
  <2> QED
    BY <1>1, <2>1 DEF DueOK, AtOnce
<1>3. TurnFits(p)
  BY <1>1, <1>2 DEF TurnFits
<1>4. \A r \in Requests : RequestPasses(r)
  BY RequestsPass
<1>5. /\ alive' = [q \in Pids |-> alive'[q]] /\ born' \in Nat /\ born <= born'
      /\ req' = [r \in Requests |-> req'[r]]
      /\ \A q \in Pids : alive'[q] # "none" => q <= born'
      /\ \A q \in Pids : alive[q] = "none" => alive'[q] = "none"
  BY DEF MailInv
<1>6. \A q \in Pids : turn'[q] = turn[q] \/ TurnFits(q)
  BY <1>1, <1>3
<1> QED
  BY <1>1, <1>4, <1>5, <1>6, NoMailStep

(* The turn goes on with what it has listed, or stops.                      *)
LEMMA TurnGoesOn ==
  ASSUME MailInv, NEW p \in Pids, NEW at, at \notin {"idle", "resolve"},
         turn[p].at \notin {"idle", "resolve"}, turn[p].due # {},
         turn' = [turn EXCEPT ![p].at = at],
         UNCHANGED <<alive, born, req, mail, replies, keepVars>>
  PROVE  MailInv'
<1>1. PICK t, u : t = turn[p] /\ u = [t EXCEPT !.at = at]
  OBVIOUS
<1>2. TurnOK(p) /\ turn' = [turn EXCEPT ![p] = u]
  BY <1>1 DEF MailInv
<1>3. IsTurn(u) /\ u.at = at /\ u.lane = t.lane /\ u.due = t.due
  BY <1>1, <1>2 DEF TurnOK, IsTurn
<1>4. \A m \in t.due : DueOK(p, m) /\ ~ Closing(p, m)
  BY <1>1 DEF MailInv, Closing
<1>5. t # Idle
  BY <1>1 DEF Idle
<1>6. \A m \in u.due :
         mail[m].status # "unsent" /\ (u.lane # "once" => m \in rolled \/ replies[m][p] = 0)
  BY <1>1, <1>3, <1>4 DEF DueOK, AtOnce
<1>7. /\ u.due \subseteq Letters /\ u.due # {}
      /\ u.lane # "once" => p <= born
      /\ u.lane = "once" => AtOnce(p)
      /\ alive[p] = "none" /\ (turn[p] = Idle \/ AtOnce(p)) => u.lane = "once"
  BY <1>1, <1>2, <1>3, <1>5 DEF TurnOK, AtOnce
<1> QED
  BY <1>1, <1>2, <1>3, <1>6, <1>7, TurnStep

LEMMA IdleFacts ==
  IsTurn(Idle) /\ Idle.at = "idle" /\ Idle.due = {} /\ Idle.lane = "none"
BY DEF IsTurn, Idle

LEMMA TurnEnds ==
  ASSUME MailInv, NEW p \in Pids, turn[p].at # "resolve", turn' = [turn EXCEPT ![p] = Idle],
         UNCHANGED <<alive, born, req, mail, replies, keepVars>>
  PROVE  MailInv'
BY IdleFacts, TurnStep


(* What a pass lists it has not answered yet.                               *)
LEMMA ListedIsFresh ==
  ASSUME MailInv, NEW p \in Pids, NEW lane, NEW m \in Pending(lane), turn[p].at # "resolve",
         ~ (alive[p] = "none" /\ (turn[p] = Idle \/ AtOnce(p)))
  PROVE  m \in Letters /\ mail[m].status # "unsent" /\ (m \in rolled \/ replies[m][p] = 0)
<1>1. m \in Letters /\ mail[m].status = "delivered"
  BY DEF Pending, Next5
<1>2. LetterOK(m)
  BY <1>1 DEF MailInv
<1>3. ~ Heard(p, m)
  BY <1>1 DEF Heard, Closing
<1>4. replies[m][p] \in Nat /\ (m \notin rolled => ~ (replies[m][p] > 0))
  BY <1>2, <1>3 DEF LetterOK
<1> QED
  BY <1>1, <1>4

LEMMA PassBegins ==
  ASSUME MailInv, NEW p \in Pids, NEW lane \in Lanes, turn[p].at # "resolve", p <= born,
         ~ (alive[p] = "none" /\ (turn[p] = Idle \/ AtOnce(p))),
         turn' = [turn EXCEPT ![p] = [at |-> "handle", lane |-> lane, due |-> Pending(lane)]],
         UNCHANGED <<alive, born, req, mail, replies, keepVars>>
  PROVE  MailInv'
<1>1. PICK D : D = Pending(lane)
  OBVIOUS
<1>2. PICK t : t = [at |-> "handle", lane |-> lane, due |-> D]
  OBVIOUS
<1>3. IsTurn(t) /\ t.at = "handle" /\ t.lane = lane /\ t.due = D /\ lane # "once"
  BY <1>2 DEF IsTurn, Lanes
<1>4. \A m \in D : m \in Letters /\ mail[m].status # "unsent" /\ (m \in rolled \/ replies[m][p] = 0)
  BY <1>1, ListedIsFresh
<1>5. turn' = [turn EXCEPT ![p] = t]
  BY <1>1, <1>2
<1> QED
  BY <1>3, <1>4, <1>5, TurnStep

LEMMA BeginTurnsKeeps ==
  ASSUME MailInv, NEW p \in Pids, BeginTurns(p), UNCHANGED <<alive, born, req, keepVars>>
  PROVE  MailInv'
<1>1. /\ alive[p] # "none" /\ turn[p] = Idle /\ "prime" \in Lanes
      /\ turn' = [turn EXCEPT ![p] = [at |-> "handle", lane |-> "prime", due |-> Pending("prime")]]
      /\ UNCHANGED <<mail, replies>>
  BY DEF BeginTurns, Lanes
<1>2. p <= born /\ turn[p].at # "resolve"
  BY <1>1, IdleFacts DEF MailInv
<1> QED
  BY <1>1, <1>2, PassBegins

LEMMA NextLaneKeeps ==
  ASSUME MailInv, NEW p \in Pids, NextLane(p), UNCHANGED <<alive, born, req, keepVars>>
  PROVE  MailInv'
<1>1. turn[p].at = "handle" /\ UNCHANGED <<mail, replies>>
  BY DEF NextLane
<1>2. CASE turn[p].lane = "prime"
  <2>1. turn' = [turn EXCEPT ![p] = [at |-> "handle", lane |-> "local", due |-> Pending("local")]]
    BY <1>2 DEF NextLane
  <2>2. p <= born
    BY <1>1, <1>2 DEF MailInv, TurnOK, AtOnce
  <2>3. turn[p] # Idle /\ ~ AtOnce(p) /\ "local" \in Lanes
    BY <1>1, <1>2, IdleFacts DEF AtOnce, Lanes
  <2> QED
    BY <1>1, <2>1, <2>2, <2>3, PassBegins
<1>3. CASE turn[p].lane # "prime"
  <2>1. turn' = [turn EXCEPT ![p] = Idle]
    BY <1>3 DEF NextLane
  <2> QED
    BY <1>1, <2>1, TurnEnds
<1> QED
  BY <1>2, <1>3

LEMMA HandleKeeps ==
  ASSUME MailInv, NEW p \in Pids, Handle(p), UNCHANGED <<alive, born, req, keepVars>>
  PROVE  MailInv'
<1>1. PICK at \in {"reply", "chat", "prime"} : turn' = [turn EXCEPT ![p].at = at]
  BY DEF Handle
<1>2. turn[p].at = "handle" /\ turn[p].due # {} /\ UNCHANGED <<mail, replies>>
  BY DEF Handle
<1> QED
  BY <1>1, <1>2, TurnGoesOn

LEMMA AskPrimeKeeps ==
  ASSUME MailInv, NEW p \in Pids, AskPrime(p), UNCHANGED <<alive, born, req, keepVars>>
  PROVE  MailInv'
<1>1. turn[p].at = "prime" /\ UNCHANGED <<mail, replies>>
  BY DEF AskPrime
<1>2. turn[p].due # {}
  BY <1>1 DEF MailInv, TurnOK
<1>3. PICK route, answered, agents :
        turn' = [turn EXCEPT ![p] =
                IF route = "none" THEN Idle
                ELSE [@ EXCEPT !.at = IF route = "accepted" /\ answered THEN "reply"
                                      ELSE Instead(Oldest(turn[p].due), agents)]]
  BY DEF AskPrime
<1>4. PICK at : at = IF route = "accepted" /\ answered THEN "reply"
                     ELSE Instead(Oldest(turn[p].due), agents)
  OBVIOUS
<1>5. at \notin {"idle", "resolve"}
  <2>1. \A m : Fallback(m, agents) \in {"nobody", "reception", "local"}
    BY DEF Fallback
  <2>2. \A m : Instead(m, agents) \in {"reception", "chat", "reply"}
    BY <2>1 DEF Instead
  <2> QED
    BY <1>4, <2>2
<1>6. CASE route = "none"
  BY <1>1, <1>3, <1>6, TurnEnds
<1>7. CASE route # "none"
  <2>1. turn' = [turn EXCEPT ![p].at = at]
    BY <1>3, <1>4, <1>7
  <2> QED
    BY <1>1, <1>2, <1>5, <2>1, TurnGoesOn
<1> QED
  BY <1>6, <1>7

LEMMA AskReceptionKeeps ==
  ASSUME MailInv, NEW p \in Pids, AskReception(p), UNCHANGED <<alive, born, req, keepVars>>
  PROVE  MailInv'
<1>1. PICK at \in {"reply", "chat"} : turn' = [turn EXCEPT ![p].at = at]
  BY DEF AskReception
<1>2. turn[p].at = "reception" /\ UNCHANGED <<mail, replies>>
  BY DEF AskReception
<1>3. turn[p].due # {}
  BY <1>2 DEF MailInv, TurnOK
<1> QED
  BY <1>1, <1>2, <1>3, TurnGoesOn

LEMMA AskLocalKeeps ==
  ASSUME MailInv, NEW p \in Pids, AskLocal(p), UNCHANGED <<alive, born, req, keepVars>>
  PROVE  MailInv'
<1>1. PICK at \in {"choose", "fast", "persistent", "reply"} : turn' = [turn EXCEPT ![p].at = at]
  BY DEF AskLocal, BeginChat, ChooseMode, ReadyBoth, EndChat, Reach, Modes
<1>2. turn[p].at \in {"chat", "choose", "fast", "persistent"} /\ UNCHANGED <<mail, replies>>
  BY DEF AskLocal, BeginChat, ChooseMode, ReadyBoth, EndChat
<1>3. turn[p].due # {}
  BY <1>2 DEF MailInv, TurnOK
<1> QED
  BY <1>1, <1>2, <1>3, TurnGoesOn

(* The requests go on as they may.                                          *)
RequestsGoOn == req' = [s \in Requests |-> req'[s]] /\ \A s \in Requests : RequestPasses(s)

(* One request goes on, or ends.                                            *)
LEMMA OnePasses ==
  ASSUME MailInv, NEW r \in Requests, NEW n, req' = [req EXCEPT ![r] = n],
         IsReq(n), LetterWanted(n), n.letter \in {req[r].letter, 0}
  PROVE  RequestsGoOn
<1>1. /\ req' = [s \in Requests |-> req'[s]] /\ req'[r] = n
      /\ \A s \in Requests \ {r} : req'[s] = req[s]
  BY DEF MailInv
<1>2. ASSUME NEW s \in Requests \ {r} PROVE RequestPasses(s)
  <2>1. LetterAsked(s) /\ req'[s] = req[s]
    BY <1>1 DEF MailInv
  <2> QED
    BY <2>1 DEF LetterAsked, RequestPasses, LetterWanted, IsReq
<1>3. RequestPasses(r)
  BY <1>1 DEF RequestPasses
<1> QED
  BY <1>1, <1>2, <1>3 DEF RequestsGoOn

LEMMA NoReqWanted == IsReq(NoReq) /\ LetterWanted(NoReq) /\ NoReq.letter = 0
BY DEF IsReq, LetterWanted, NoReq

(* The request a turn serves is answered, at once or by the model itself.   *)
LEMMA AnswerKeepsMail ==
  ASSUME MailInv, NEW r \in Requests, Answer(r), AnswerAtOnce(req[r].by, req[r].letter),
         UNCHANGED <<alive, born, keepVars>>
  PROVE  MailInv'
<1>1. PICK p, m : p = req[r].by /\ m = req[r].letter
  OBVIOUS
<1>2. LetterAsked(r) /\ req[r].at = "answer" /\ req' = [req EXCEPT ![r] = NoReq]
  BY DEF MailInv, Answer, AskedBy
<1>3. m \in Letters
  BY <1>1, <1>2 DEF LetterAsked
<1>4. /\ mail[m].status # "unsent" /\ (mail[m].to = "model" \/ replies[m][0] = 0)
      /\ \A q \in Requests \ {r} : req[q].letter # m
  BY <1>1, <1>2, <1>3, LettersAssumption DEF LetterAsked, Letters
<1>5. req' = [s \in Requests |-> req'[s]] /\ \A s \in Requests : RequestPasses(s)
  BY <1>2, NoReqWanted, OnePasses DEF RequestsGoOn
<1>6. UNCHANGED <<mail, replies>>
  BY DEF AnswerAtOnce
<1>7. /\ alive' = [q \in Pids |-> alive'[q]] /\ born' \in Nat /\ born <= born'
      /\ \A q \in Pids : alive'[q] # "none" => q <= born'
      /\ \A q \in Pids : alive[q] = "none" => alive'[q] = "none"
  BY DEF MailInv
<1>8. turn' = [q \in Pids |-> turn'[q]] /\ \A q \in Pids : turn'[q] = turn[q] \/ TurnFits(q)
  <2>1. CASE turn' = turn
    BY <2>1 DEF MailInv
  <2>2. CASE turn' # turn
    <3>1. PICK t : t = [at |-> "handle", lane |-> "once", due |-> {m}]
      OBVIOUS
    <3>2. IsTurn(t) /\ t.at = "handle" /\ t.lane = "once" /\ t.due = {m}
      BY <3>1 DEF IsTurn
    <3>3. mail[m].to \in Lanes /\ turn[p] = Idle /\ turn' = [turn EXCEPT ![p] = t]
      BY <1>1, <2>2, <3>1 DEF AnswerAtOnce
    <3>4. /\ turn' = [q \in Pids |-> turn'[q]]
          /\ \A q \in Pids : turn'[q] = IF q = p THEN t ELSE turn[q]
      BY <3>3 DEF MailInv
    <3>5. mail[m].to # "model" /\ replies[m][0] = 0
      BY <1>4, <3>3 DEF Lanes
    <3>6. \A q \in Requests : req'[q].letter # m
      <4>1. m # 0 /\ req'[r] = NoReq /\ \A q \in Requests \ {r} : req'[q] = req[q]
        BY <1>2, <1>3, LettersAssumption DEF Letters, MailInv
      <4> QED
        BY <1>4, <4>1, NoReqWanted
    <3>7. ASSUME NEW q \in Pids \ {p}, turn'[q].lane = "once" PROVE m \notin turn'[q].due
      <4>1. turn'[q] = turn[q]
        BY <3>4
      <4>2. \A k \in turn[q].due : DueOK(q, k)
        BY DEF MailInv
      <4> QED
        BY <1>1, <3>7, <4>1, <4>2 DEF DueOK, AtOnce
    <3>8. p \in Pids => TurnFits(p)
      <4> SUFFICES ASSUME p \in Pids PROVE TurnFits(p)
        OBVIOUS
      <4>1. turn'[p] = t /\ turn[p].at # "resolve"
        BY <3>3, <3>4, IdleFacts
      <4> QED
        BY <1>3, <1>4, <3>2, <3>5, <3>6, <3>7, <4>1 DEF TurnFits
    <3> QED
      BY <3>4, <3>8
  <2> QED
    BY <2>1, <2>2
<1> QED
  BY <1>5, <1>6, <1>7, <1>8, NoMailStep


(* No request loses the message it is to have answered.                     *)
LEMMA UpsertPasses ==
  ASSUME MailInv, NEW r \in Requests, NEW t, NEW e, NEW then, Upsert(r, t, e, then),
         then # "touch", then = "answer" => req[r].letter # 0
  PROVE  RequestsGoOn
<1>1. PICK q, w : q = req[r] /\ w = [chats EXCEPT ![t] = e]
  OBVIOUS
<1>2. PICK n : n = Wrote(q, then, t, w)
  OBVIOUS
<1>3. req' = [req EXCEPT ![r] = n]
  BY <1>1, <1>2 DEF Upsert, Wrote
<1>4. IsReq(q)
  BY <1>1 DEF MailInv, LetterAsked
<1>5. IsReq(n) /\ n.at = "open" /\ n.then = then /\ n.letter = q.letter
  BY <1>2, <1>4, WroteFields
<1>6. LetterWanted(n)
  BY <1>1, <1>5 DEF LetterWanted
<1> QED
  BY <1>1, <1>3, <1>5, <1>6, OnePasses

LEMMA RequestStepPasses ==
  ASSUME MailInv, NEW r \in Requests, RequestStep(r)
  PROVE  RequestsGoOn
<1>1. PICK q : q = req[r]
  OBVIOUS
<1>2. IsReq(q) /\ LetterWanted(q)
  BY <1>1 DEF MailInv, LetterAsked, LetterWanted
<1>3. ASSUME NEW n, req' = [req EXCEPT ![r] = n], IsReq(n), n.letter = q.letter,
             LetterWanted(n)
      PROVE  RequestsGoOn
  BY <1>1, <1>3, OnePasses
<1>4. ASSUME req' = [req EXCEPT ![r] = NoReq] PROVE RequestsGoOn
  BY <1>4, NoReqWanted, OnePasses
<1>5. ASSUME NEW t, NEW e, NEW then, Upsert(r, t, e, then), then \notin {"touch", "answer"}
      PROVE  RequestsGoOn
  BY <1>5, UpsertPasses
<1>6. CASE OpenFile(r)
  <2>1. PICK n : n = [q EXCEPT !.at = "write"]
    OBVIOUS
  <2>2. SameBut("at", q, n) /\ n.at = "write"
    BY <1>2, <2>1 DEF IsReq, SameBut
  <2>3. LetterWanted(n)
    BY <1>2, <2>2 DEF SameBut, LetterWanted
  <2>4. req' = [req EXCEPT ![r] = n]
    BY <1>1, <1>6, <2>1 DEF OpenFile
  <2> QED
    BY <1>3, <2>2, <2>3, <2>4 DEF SameBut
<1>7. CASE WriteFile(r)
  <2>1. CASE q.then = "idle"
    BY <1>1, <1>4, <1>7, <2>1 DEF WriteFile
  <2>2. CASE q.then # "idle"
    <3>1. PICK n : n = Written(q)
      OBVIOUS
    <3>2. req' = [req EXCEPT ![r] = n]
      BY <1>1, <1>7, <2>2, <3>1 DEF WriteFile, Written
    <3>3. IsReq(n) /\ n.at = q.then /\ n.then = "idle" /\ n.letter = q.letter
      BY <1>2, <3>1, WrittenFields
    <3>4. LetterWanted(n)
      BY <1>2, <3>3 DEF LetterWanted
    <3> QED
      BY <1>3, <3>2, <3>3, <3>4
  <2> QED
    BY <2>1, <2>2
<1>8. CASE EnsureMain(r)
  <2>1. CASE \E t \in Mains : Upsert(r, t, Active(t, t), "poll")
    BY <1>5, <2>1
  <2>2. CASE req' = [req EXCEPT ![r] = Counted(q, Threads \ said)]
    <3>1. PICK n : n = Counted(q, Threads \ said)
      OBVIOUS
    <3>2. IsReq(n) /\ n.at = "list" /\ n.then = q.then /\ n.letter = q.letter
      BY <1>2, <3>1, CountedFields
    <3>3. LetterWanted(n)
      BY <1>2, <3>2 DEF LetterWanted
    <3> QED
      BY <1>3, <2>2, <3>1, <3>2, <3>3
  <2>3. \/ \E t \in Mains : Upsert(r, t, Active(t, t), "poll")
        \/ req' = [req EXCEPT ![r] = Counted(q, Threads \ said)]
    BY <1>1, <1>8 DEF EnsureMain, Counted
  <2> QED
    BY <2>1, <2>2, <2>3
<1>9. CASE ListThreads(r)
  <2>1. PICK n : n = Listed(q, Prunable(r))
    OBVIOUS
  <2>2. req' = [req EXCEPT ![r] = n]
    BY <1>1, <1>9, <2>1 DEF ListThreads, Listed
  <2>3. IsReq(n) /\ n.at = "prune" /\ n.then = q.then /\ n.letter = q.letter
    BY <1>2, <2>1, ListedFields
  <2>4. LetterWanted(n)
    BY <1>2, <2>3 DEF LetterWanted
  <2> QED
    BY <1>3, <2>2, <2>3, <2>4
<1>10. CASE Prune(r)
  <2>1. CASE req' = [req EXCEPT ![r] = NoReq]
    BY <1>4, <2>1
  <2>2. CASE req' # [req EXCEPT ![r] = NoReq]
    <3>1. PICK t : req' = [req EXCEPT ![r] =
                       [@ EXCEPT !.at = "open", !.then = "prune", !.doomed = req[r].doomed \ {t},
                                 !.write = [chats EXCEPT ![t] = [chats[t] EXCEPT !.status = "deleted"]]]]
      BY <1>10, <2>2 DEF Prune
    <3>2. PICK D, w : D = q.doomed \ {t}
                      /\ w = [chats EXCEPT ![t] = [chats[t] EXCEPT !.status = "deleted"]]
      OBVIOUS
    <3>3. PICK n : n = Pruned(q, D, w)
      OBVIOUS
    <3>4. n = [req[r] EXCEPT !.at = "open", !.then = "prune", !.doomed = req[r].doomed \ {t}, !.write = w]
      BY <1>1, <3>2, <3>3 DEF Pruned
    <3>5. req' = [req EXCEPT ![r] = n]
      BY <3>1, <3>2, <3>4
    <3>6. IsReq(n) /\ n.at = "open" /\ n.then = "prune" /\ n.letter = q.letter
      BY <1>2, <3>3, PrunedFields
    <3>7. LetterWanted(n)
      BY <3>6 DEF LetterWanted
    <3> QED
      BY <1>3, <3>5, <3>6, <3>7
  <2> QED
    BY <2>1, <2>2
<1>11. CASE ResolveThread(r)
  <2>1. \/ \E y \in Threads : req' = [req EXCEPT ![r] = Found(q, y, chats[y].talk)]
        \/ NewThread(r, "rename") \/ NewThread(r, "send")
        \/ \E t : Upsert(r, t, Active(t, t), "send")
    BY <1>1, <1>11 DEF ResolveThread, Found, There
  <2>2. CASE \E y \in Threads : req' = [req EXCEPT ![r] = Found(q, y, chats[y].talk)]
    <3>1. PICK y : req' = [req EXCEPT ![r] = Found(q, y, chats[y].talk)]
      BY <2>2
    <3>2. PICK n : n = Found(q, y, chats[y].talk)
      OBVIOUS
    <3>3. IsReq(n) /\ n.at = "send" /\ n.then = q.then /\ n.letter = q.letter
      BY <1>2, <3>2, FoundFields
    <3>4. LetterWanted(n)
      BY <1>2, <3>3 DEF LetterWanted
    <3> QED
      BY <1>3, <3>1, <3>2, <3>3, <3>4
  <2>3. CASE NewThread(r, "rename") \/ NewThread(r, "send")
    BY <1>5, <2>3 DEF NewThread
  <2>4. CASE \E t : Upsert(r, t, Active(t, t), "send")
    BY <1>5, <2>4
  <2> QED
    BY <2>1, <2>2, <2>3, <2>4
<1>12. CASE Rename(r)
  BY <1>5, <1>12 DEF Rename
<1>13. CASE Touch(r)
  <2>1. q.letter # 0
    BY <1>1, <1>2, <1>13 DEF Touch, AskedBy, LetterWanted
  <2>2. CASE There(q.thread)
    <3>1. Upsert(r, q.thread, chats[q.thread], "answer")
      BY <1>1, <1>13, <2>2 DEF Touch
    <3> QED
      BY <1>1, <2>1, <3>1, UpsertPasses
  <2>3. CASE ~ There(q.thread)
    <3>1. PICK n : n = [q EXCEPT !.at = "answer"]
      OBVIOUS
    <3>2. SameBut("at", q, n) /\ n.at = "answer"
      BY <1>2, <3>1 DEF IsReq, SameBut
    <3>3. LetterWanted(n)
      BY <1>2, <2>1, <3>2 DEF SameBut, LetterWanted
    <3>4. req' = [req EXCEPT ![r] = n]
      BY <1>1, <1>13, <2>3, <3>1 DEF Touch
    <3> QED
      BY <1>3, <3>2, <3>3, <3>4 DEF SameBut
  <2> QED
    BY <2>2, <2>3
<1>14. CASE Create(r)
  BY <1>5, <1>14 DEF Create, NewThread
<1>15. CASE Command(r)
  <2>1. \/ req' = [req EXCEPT ![r] = NoReq]
        \/ \E t, e : Upsert(r, t, e, "idle")
    BY <1>15 DEF Command
  <2> QED
    BY <1>4, <1>5, <2>1
<1> QED
  BY <1>6, <1>7, <1>8, <1>9, <1>10, <1>11, <1>12, <1>13, <1>14, <1>15 DEF RequestStep

LEMMA BeginRequestPasses ==
  ASSUME MailInv, NEW r \in Requests, NEW p, BeginRequest(r, p)
  PROVE  RequestsGoOn
<1>1. PICK at, t, c : Begin(r, p, at, t, c) /\ at \notin {"touch", "answer"}
  BY DEF BeginRequest, Become
<1>2. PICK n : n = Fresh(at, p, t, c)
  OBVIOUS
<1>3. req' = [req EXCEPT ![r] = n]
  BY <1>1, <1>2 DEF Begin, Fresh
<1>4. IsReq(n) /\ n.at = at /\ n.then = NoReq.then /\ n.letter = NoReq.letter
  BY <1>2, FreshFields
<1>5. LetterWanted(n) /\ n.letter = 0
  BY <1>1, <1>4 DEF LetterWanted, NoReq
<1> QED
  BY <1>3, <1>4, <1>5, OnePasses

LEMMA AbandonPasses ==
  ASSUME MailInv, NEW Q, Abandon(Q)
  PROVE  RequestsGoOn
<1>1. req' = [s \in Requests |-> req'[s]]
      /\ \A s \in Requests : req'[s] = NoReq \/ req'[s] = req[s]
  BY DEF Abandon
<1>2. ASSUME NEW s \in Requests PROVE RequestPasses(s)
  <2>1. CASE req'[s] = NoReq
    BY <2>1, NoReqWanted DEF RequestPasses
  <2>2. CASE req'[s] = req[s]
    BY <2>2 DEF MailInv, LetterAsked, RequestPasses, LetterWanted, IsReq
  <2> QED
    BY <1>1, <2>1, <2>2
<1> QED
  BY <1>1, <1>2 DEF RequestsGoOn


(* Processes start with the next number and end for good.                   *)
LivesGoOn ==
  /\ alive' = [p \in Pids |-> alive'[p]] /\ born' \in Nat /\ born <= born'
  /\ \A p \in Pids : /\ alive'[p] # "none" => p <= born'
                     /\ p <= born /\ alive[p] = "none" => alive'[p] = "none"

LEMMA SameLives ==
  ASSUME MailInv, UNCHANGED <<alive, born>>
  PROVE  LivesGoOn
BY DEF MailInv, LivesGoOn

LEMMA EndLives ==
  ASSUME MailInv, NEW Q, End(Q), UNCHANGED born
  PROVE  LivesGoOn
BY DEF MailInv, LivesGoOn, End

LEMMA SpawnLives ==
  ASSUME MailInv, NEW x, Spawn(x)
  PROVE  LivesGoOn
<1>1. /\ born \in Nat /\ born' = born + 1 /\ alive = [p \in Pids |-> alive[p]]
      /\ \A p \in Pids : alive[p] # "none" => p <= born
      /\ Pids \subseteq Nat
  BY PidsAssumption DEF MailInv, Spawn, Pids
<1>2. PICK n : n = born + 1
  OBVIOUS
<1>3. alive' = [p \in Pids |-> IF p = n THEN x ELSE alive[p]]
  BY <1>1, <1>2 DEF Spawn
<1> QED
  BY <1>1, <1>2, <1>3 DEF LivesGoOn

LEMMA SuperviseLives ==
  ASSUME MailInv,
         \/ \E s \in Terminals : SupervisorStep(s)
         \/ \E p \in Pids : Listen(p)
  PROVE  LivesGoOn
<1>1. CASE \E s \in Terminals : BeginReconcile(s) \/ Look(s) \/ Save(s)
             \/ \E include \in BOOLEAN : BeginStop(s, include)
  <2>1. UNCHANGED <<alive, born>>
    BY <1>1 DEF BeginReconcile, Look, Save, BeginStop
  <2> QED
    BY <2>1, SameLives
<1>2. CASE \E s \in Terminals : Start(s)
  <2>1. UNCHANGED <<alive, born>> \/ \E x : Spawn(x)
    BY <1>2 DEF Start
  <2> QED
    BY <2>1, SameLives, SpawnLives
<1>3. CASE \E s \in Terminals : StopNext(s)
  BY <1>3, EndLives DEF StopNext
<1>4. CASE \E p \in Pids : Listen(p)
  <2>1. (UNCHANGED alive \/ \E Q : End(Q)) /\ UNCHANGED born
    BY <1>4 DEF Listen
  <2> QED
    BY <2>1, SameLives, EndLives
<1> QED
  BY <1>1, <1>2, <1>3, <1>4 DEF SupervisorStep

LEMMA ServeLives ==
  ASSUME MailInv, Serve
  PROVE  LivesGoOn
<1>1. CASE \/ \E s \in Terminals : Ensure(s) \/ CommandStart(s)
           \/ \E p \in Pids : Warm(p)
           \/ \E p \in Pids, override \in BOOLEAN : ClickStart(p, override)
           \/ UiSnapshot \/ RuntimeStatus \/ Doctor \/ StartupReport
           \/ Cool /\ UNCHANGED <<svcVars, files, op, left>>
  <2>1. UNCHANGED <<alive, born>>
    BY <1>1 DEF Ensure, CommandStart, Warm, ClickStart, UiSnapshot, RuntimeStatus, Doctor,
                StartupReport, Observe, svcVars
  <2> QED
    BY <2>1, SameLives
<1>2. CASE \/ \E s \in Terminals : CommandStop(s)
           \/ \E p \in Pids : ClickStop(p)
  <2>1. (\E Q : End(Q)) /\ UNCHANGED born
    BY <1>2 DEF CommandStop, ClickStop, StopKey
  <2> QED
    BY <2>1, EndLives
<1>3. CASE \E c \in Callers : RuntimeStep(c)
  <2>1. UNCHANGED <<alive, born>> \/ \E x : Spawn(x)
    BY <1>3 DEF RuntimeStep, DecideStart, TryPort, Launch, Record, Waited, svcVars
  <2> QED
    BY <2>1, SameLives, SpawnLives
<1> QED
  BY <1>1, <1>2, <1>3 DEF Serve

(* A step that leaves the mail, and lets requests and turns go on or go.    *)
LEMMA LifeStep ==
  ASSUME MailInv, LivesGoOn, RequestsGoOn, UNCHANGED <<mail, replies, keepVars>>,
         NEW Q, \A p \in Q : alive'[p] = "none",
         turn' = [p \in Pids |-> IF p \in Q THEN Idle ELSE turn[p]]
  PROVE  MailInv'
<1>1. ASSUME NEW p \in Pids PROVE turn'[p] = turn[p] \/ TurnFits(p)
  <2>1. CASE p \in Q
    <3>1. turn'[p] = Idle /\ alive'[p] = "none"
      BY <2>1
    <3> QED
      BY <3>1, IdleFacts DEF TurnFits
  <2>2. CASE p \notin Q
    BY <2>2
  <2> QED
    BY <2>1, <2>2
<1>2. turn' = [p \in Pids |-> turn'[p]]
  OBVIOUS
<1> QED
  BY <1>1, <1>2, NoMailStep DEF LivesGoOn, RequestsGoOn

LEMMA StillStep ==
  ASSUME MailInv, LivesGoOn, RequestsGoOn, UNCHANGED <<mail, replies, turn, keepVars>>
  PROVE  MailInv'
<1>1. turn' = [p \in Pids |-> turn'[p]]
  BY DEF MailInv
<1>2. \A p \in Pids : turn'[p] = turn[p] \/ TurnFits(p)
  OBVIOUS
<1>3. UNCHANGED <<mail, replies, keepVars>>
  OBVIOUS
<1> QED
  BY <1>1, <1>2, <1>3, NoMailStep DEF LivesGoOn, RequestsGoOn

LEMMA SameRequests ==
  ASSUME MailInv, UNCHANGED req
  PROVE  RequestsGoOn
BY RequestsPass DEF RequestsGoOn, MailInv

LEMMA MailInvKept ==
  ASSUME MailInv, [HostNext]_allVars
  PROVE  MailInv'
<1>1. ASSUME NEW p \in Pids, ProcessDies(p) PROVE MailInv'
  <2>1. End({p}) /\ UNCHANGED <<born, mail, replies, keepVars>> /\ Abandon({p})
        /\ turn' = [q \in Pids |-> IF q \in {p} THEN Idle ELSE turn[q]]
    BY <1>1 DEF ProcessDies, Die, LetGo
  <2>2. \A q \in {p} : alive'[q] = "none"
    BY <2>1 DEF End
  <2>3. LivesGoOn /\ RequestsGoOn
    BY <2>1, EndLives, AbandonPasses
  <2> QED
    BY <2>1, <2>2, <2>3, LifeStep
<1>2. ASSUME Supervise PROVE MailInv'
  <2>1. PICK Q : Q = Ended
    OBVIOUS
  <2>2. /\ UNCHANGED <<mail, replies, keepVars>> /\ Abandon(Q)
        /\ turn' = [q \in Pids |-> IF q \in Q THEN Idle ELSE turn[q]]
    BY <1>2, <2>1 DEF Supervise, LetGo
  <2>3. \A q \in Q : alive'[q] = "none"
    BY <2>1 DEF Ended
  <2>4. LivesGoOn /\ RequestsGoOn
    BY <1>2, <2>2, SuperviseLives, AbandonPasses DEF Supervise
  <2> QED
    BY <2>2, <2>3, <2>4, LifeStep
<1>3. ASSUME Serve PROVE MailInv'
  <2>1. UNCHANGED <<mail, replies, turn, req, keepVars>>
    BY <1>3 DEF Serve, memAndLanes, laneVars, chatVars
  <2> QED
    BY <1>3, <2>1, ServeLives, SameRequests, StillStep
<1>4. ASSUME Chat PROVE MailInv'
  <2>1. UNCHANGED <<alive, born, mail, replies, turn, keepVars>>
    BY <1>4 DEF Chat, svcVars, laneVars
  <2>2. RequestsGoOn
    BY <1>4, RequestStepPasses, BeginRequestPasses DEF Chat
  <2> QED
    BY <2>1, <2>2, SameLives, StillStep
<1>5. ASSUME Send PROVE MailInv'
  <2>1. UNCHANGED <<alive, born, keepVars>>
    BY <1>5 DEF Send, svcVars
  <2> QED
    BY <1>5, <2>1, SendKeeps, AnswerKeepsMail DEF Send
<1>6. ASSUME Correspond PROVE MailInv'
  <2>1. UNCHANGED <<alive, born, req, keepVars>>
    BY <1>6 DEF Correspond, svcVars, chatVars
  <2> QED
    BY <1>6, <2>1, PostKeeps, AcknowledgeKeeps, BeginTurnsKeeps, NextLaneKeeps, HandleKeeps,
       EmitReplyKeeps, CloseLetterKeeps DEF Correspond
<1>7. ASSUME Ask PROVE MailInv'
  <2>1. UNCHANGED <<alive, born, req, keepVars>>
    BY <1>7 DEF Ask, svcVars, chatVars
  <2> QED
    BY <1>7, <2>1, AskPrimeKeeps, AskReceptionKeeps DEF Ask
<1>8. ASSUME AskOwnModel PROVE MailInv'
  <2>1. UNCHANGED <<alive, born, req, keepVars>>
    BY <1>8 DEF AskOwnModel, svcVars, chatVars
  <2> QED
    BY <1>8, <2>1, AskLocalKeeps DEF AskOwnModel
<1>9. ASSUME Upkeep PROVE MailInv'
  <2>1. UNCHANGED <<alive, born, req>>
    BY <1>9 DEF Upkeep, svcVars, chatVars
  <2> QED
    BY <1>9, <2>1, TakeSnapshotKeeps, RemoveLiveKeeps, PutHotKeeps, CutRunKeeps,
       ReadOversizedKeeps, WriteCompactedKeeps DEF Upkeep
<1>10. CASE \/ \E s \in Terminals : TerminalCloses(s)
            \/ Write \/ UNCHANGED allVars
  <2>1. UNCHANGED <<alive, born, mail, replies, turn, req, keepVars>>
    BY <1>10 DEF TerminalCloses, CutOff, Write, allVars, memAndLanes, svcVars, laneVars, chatVars
  <2> QED
    BY <2>1, SameLives, SameRequests, StillStep
<1> QED
  BY <1>1, <1>2, <1>3, <1>4, <1>5, <1>6, <1>7, <1>8, <1>9, <1>10 DEF HostNext

(* Whatever ends, overlaps or is archived in between, a message is closed   *)
(* only after somebody answered it, and the request that sent it and the    *)
(* passes of each process answer it at most once each, but for what upkeep  *)
(* made open again or lost (LaneRuntime.process_pending_turns,              *)
(* handle_message and _emit_reply).                                         *)
THEOREM MailIsAnswered == HostSpec => []MailAnswered
<1>1. ASSUME HostInit PROVE MailInv
  <2>1. PICK programs, recorded : Begins(programs, recorded)
                                  /\ \/ programs = << >> \/ programs = <<"llama-8080">>
                                     \/ programs = Watched
                                     \/ programs = Watched \o <<"llama-8080", "llama-8081">>
    BY <1>1 DEF HostInit, HostBegins
  <2>2. Len(programs) \in Nat
    <3>1. Watched \in Seq({"ui", "daemon", "watch", "llama-8080", "llama-8081"})
      BY WatchedSequence
    <3> QED
      BY <2>1, <3>1
  <2>3. /\ alive = [p \in Pids |-> IF p <= Len(programs) THEN programs[p] ELSE "none"]
        /\ born = Len(programs)
    BY <2>1 DEF Begins
  <2>4. /\ mail = [m \in Letters |-> Unsent]
        /\ replies = [m \in Letters |-> [p \in Pids \cup {0} |-> 0]]
        /\ turn = [p \in Pids |-> Idle] /\ req = [r \in Requests |-> NoReq]
    BY <1>1 DEF HostInit, LaneInit, ChatInit
  <2>5. rebuild = NoRun /\ compact = [of |-> 0, was |-> "none"]
    BY <1>1 DEF HostInit, UpkeepInit
  <2>6. \A p \in Pids : turn[p] = Idle
    BY <2>4
  <2>7. \A p \in Pids : TurnOK(p) /\ turn[p].due = {}
    BY <2>6, IdleFacts DEF TurnOK
  <2>8. IsMail(Unsent) /\ Unsent.status = "unsent"
    BY DEF IsMail, Unsent
  <2>9. ASSUME NEW m \in Letters PROVE LetterOK(m)
    <3>1. mail[m] = Unsent /\ \A p \in Pids \cup {0} : replies[m][p] = 0
      BY <2>4
    <3> QED
      BY <2>8, <3>1 DEF LetterOK
  <2>10. ASSUME NEW r \in Requests PROVE LetterAsked(r)
    <3>1. req[r] = NoReq
      BY <2>4
    <3> QED
      BY <3>1, NoReqWanted DEF LetterAsked, LetterWanted
  <2>11. KeptOK
    BY <2>5 DEF KeptOK, NoRun
  <2>12. /\ alive = [p \in Pids |-> alive[p]] /\ born \in Nat
         /\ \A p \in Pids : alive[p] # "none" => p <= born
    BY <2>2, <2>3
  <2> QED
    BY <2>4, <2>7, <2>9, <2>10, <2>11, <2>12 DEF MailInv
<1>2. MailInv => MailAnswered
  <2> SUFFICES ASSUME MailInv, NEW m \in Letters
               PROVE  /\ m \notin rolled => \A p \in Pids \cup {0} : replies[m][p] <= 1
                      /\ mail[m].status = "resolved" => Replied(m)
                      /\ mail[m].status = "gone" /\ rebuild.at # "removed" /\ m \notin dropped
                            => Replied(m)
    BY DEF MailAnswered
  <2>1. LetterOK(m)
    BY DEF MailInv
  <2>2. ASSUME m \notin rolled, NEW p \in Pids \cup {0} PROVE replies[m][p] <= 1
    <3>1. CASE p = 0
      BY <2>1, <3>1 DEF LetterOK
    <3>2. CASE p \in Pids
      <4>1. replies[m][p] \in Nat /\ (replies[m][p] > 0 => replies[m][p] = 1)
        BY <2>1, <2>2, <3>2 DEF LetterOK
      <4> QED
        BY <4>1
    <3> QED
      BY <3>1, <3>2
  <2> QED
    BY <2>1, <2>2 DEF LetterOK
<1> QED
  BY <1>1, <1>2, MailInvKept, PTL DEF HostSpec
=============================================================================
