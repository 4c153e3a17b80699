------------------------- MODULE ServiceSupervisor -------------------------
(* The supervisor of the always-on services (supervisor.py): the processes  *)
(* of the host, the book supervisor.json keeps of them, and the commands    *)
(* `supervisor-reconcile` and `supervisor-stop` run from several terminals. *)
(* A command reads the book, looks at each service in turn, starts what it  *)
(* does not find, and writes the whole book back at the end.  A process     *)
(* number is never used again here.                                         *)
EXTENDS Integers, Sequences, FiniteSets

CONSTANTS
    Terminals,      \* where commands are run, one at a time in each
    Watched,        \* the services of a reconcile, in order
    MaxPids         \* bound: processes started in a behaviour

ASSUME TerminalsAssumption == IsFiniteSet(Terminals) /\ Terminals # {}
ASSUME PidsAssumption == MaxPids \in Nat
ASSUME WatchedAssumption ==
    \E n \in 2..3 : Watched = SubSeq(<<"ui", "daemon", "watch">>, 1, n)

VARIABLES
    alive,          \* what each live process runs
    bound,          \* the processes that hold their port
    up,             \* those that answer on it
    born,           \* processes started so far
    book,           \* supervisor.json: the process recorded of each service
    desk,           \* the command each terminal is running
    missed,         \* looks for which `ps` failed
    left            \* bound: how often each outside event may still happen

svcVars == <<alive, bound, up, born, book, desk, missed>>

Services == {Watched[n] : n \in 1..Len(Watched)}
Checked  == {"ui"}              \* the services with a health_url
Stopped  == 2                   \* supervisor-stop is given no relay profile
Pids     == 1..MaxPids
NoEntry  == [pid |-> 0, adopted |-> FALSE]
Blank    == [x \in Services |-> NoEntry]
AtRest   == [at |-> 0, own |-> Blank, does |-> "none", unseen |-> FALSE]

Live        == {p \in Pids : alive[p] # "none"}
Copies(x)   == {p \in Pids : alive[p] = x}
Answers(x)  == Copies(x) \cap up # {}
Resting(s)  == desk[s].at = 0
SaveAt      == Len(Watched) + 2
RuntimeAt   == Len(Watched) + 1

Spend(k) == left[k] > 0 /\ left' = [left EXCEPT ![k] = @ - 1]

(* The state of the world once process p runs x.                            *)
Spawn(x) ==
    /\ born < MaxPids
    /\ born' = born + 1
    /\ alive' = [alive EXCEPT ![born + 1] = x]

(* Fault: only the recorded process is looked for.                          *)
RecordedOnly(x, entry) == IF entry.pid \in Live THEN {entry.pid} ELSE {0}

(* A look at a service, _service_status: the recorded process if it lives,  *)
(* otherwise any whose command line matches; `ps` may fail.                 *)
Sightings(x, entry) ==
    CASE entry.pid \in Live -> {entry.pid}
      [] OTHER -> IF Copies(x) = {} THEN {0} ELSE Copies(x)

BeginReconcile(s) ==
    /\ Resting(s) /\ Spend("reconcile")
    /\ desk' = [desk EXCEPT ![s] =
                  [at |-> 1, own |-> book, does |-> "reconcile", unseen |-> FALSE]]
    /\ UNCHANGED <<alive, bound, up, born, book, missed>>

(* One service of a reconcile: kept, adopted, or unseen and started by the  *)
(* next step.                                                               *)
Look(s) ==
    /\ desk[s].does = "reconcile" /\ desk[s].at <= Len(Watched) /\ ~desk[s].unseen
    /\ LET x     == Watched[desk[s].at]
           entry == desk[s].own[x]
           Note(e) == desk' = [desk EXCEPT ![s].at = @ + 1, ![s].own[x] = e]
           Unseen  == IF x \in Checked /\ Answers(x)
                      THEN Note([pid |-> entry.pid, adopted |-> TRUE])
                      ELSE desk' = [desk EXCEPT ![s].unseen = TRUE]
       IN \/ /\ \E p \in Sightings(x, entry) :
                    IF p = 0 THEN Unseen
                    ELSE Note([pid |-> p,
                               adopted |-> p # entry.pid \/ entry.adopted])
             /\ UNCHANGED <<missed, left>>
          \/ /\ entry.pid \notin Live /\ Copies(x) # {} /\ Spend("ps")
             /\ missed' = missed + 1
             /\ Unseen
    /\ UNCHANGED <<alive, bound, up, born, book>>

Start(s) ==
    /\ desk[s].does = "reconcile" /\ desk[s].unseen
    /\ LET x == Watched[desk[s].at]
           Note(e) == desk' = [desk EXCEPT ![s].at = @ + 1, ![s].own[x] = e,
                                           ![s].unseen = FALSE]
       IN IF x \in Checked /\ Answers(x)
          THEN /\ Note([pid |-> 0, adopted |-> TRUE])
               /\ UNCHANGED <<alive, born>>
          ELSE /\ Spawn(x)
               /\ Note([pid |-> born + 1, adopted |-> FALSE])
    /\ UNCHANGED <<bound, up, book, missed, left>>

Save(s) ==
    /\ desk[s].at = SaveAt
    /\ book' = desk[s].own
    /\ desk' = [desk EXCEPT ![s] = AtRest]
    /\ UNCHANGED <<alive, bound, up, born, missed, left>>

BeginStop(s, include) ==
    /\ Resting(s) /\ Spend("stop")
    /\ desk' = [desk EXCEPT ![s] = [at |-> 1, own |-> book, unseen |-> FALSE,
                                    does |-> IF include THEN "stop all" ELSE "stop"]]
    /\ UNCHANGED <<alive, bound, up, born, book, missed>>

(* The end of the processes in Q, whatever ended them.                      *)
End(Q) ==
    /\ alive' = [p \in Pids |-> IF p \in Q THEN "none" ELSE alive[p]]
    /\ bound' = bound \ Q
    /\ up' = up \ Q

(* One service of a stop: the recorded process, unless it was adopted.      *)
StopNext(s) ==
    /\ desk[s].does \in {"stop", "stop all"} /\ desk[s].at <= Stopped
    /\ LET entry == desk[s].own[Watched[desk[s].at]]
       IN End(IF entry.adopted /\ desk[s].does = "stop" THEN {}
              ELSE Live \cap {entry.pid})
    /\ desk' = [desk EXCEPT ![s].at = IF @ = Stopped THEN SaveAt ELSE @ + 1]
    /\ UNCHANGED <<born, book, missed, left>>

(* A command ends before it is done; while the book is being written, the   *)
(* file may stay empty and is read as no book at all.                       *)
CutOff(s) ==
    /\ ~Resting(s) /\ Spend("cut")
    /\ desk' = [desk EXCEPT ![s] = AtRest]
    /\ \/ desk[s].at = SaveAt /\ book' = Blank
       \/ UNCHANGED book
    /\ UNCHANGED <<alive, bound, up, born, missed>>

Die(p) == p \in Live /\ Spend("death") /\ End({p})

(* A server takes its port, or ends because another process has it.         *)
Listen(p) ==
    /\ p \in Live \ bound /\ alive[p] \notin {"daemon", "watch"}
    /\ IF Copies(alive[p]) \cap bound # {}
       THEN End({p})
       ELSE /\ bound' = bound \cup {p}
            /\ up' = IF alive[p] \in Checked THEN up \cup {p} ELSE up
            /\ UNCHANGED alive
    /\ UNCHANGED <<born, book, desk, missed, left>>

(* The host at first: nothing runs, a model server of the user's does, the  *)
(* services run as an earlier reconcile left them, or both models as well.  *)
Begins(programs, recorded) ==
    /\ alive = [p \in Pids |-> IF p <= Len(programs) THEN programs[p] ELSE "none"]
    /\ born = Len(programs)
    /\ bound = {p \in 1..Len(programs) : programs[p] \notin {"daemon", "watch"}}
    /\ up = bound
    /\ book = [x \in Services |->
                 IF ~recorded THEN NoEntry
                 ELSE [pid |-> CHOOSE p \in Pids : programs[p] = x, adopted |-> FALSE]]
    /\ desk = [s \in Terminals |-> AtRest]
    /\ missed = 0

HostBegins(from) ==
    CASE from = "nothing" -> Begins(<<>>, FALSE)
      [] from = "server" -> Begins(<<"llama-8080">>, FALSE)
      [] from = "services" -> Begins(Watched, TRUE)
      [] OTHER -> Begins(Watched \o <<"llama-8080", "llama-8081">>, TRUE)

SupervisorStep(s) ==
    \/ BeginReconcile(s) \/ Look(s) \/ Start(s) \/ Save(s) \/ StopNext(s)
    \/ \E include \in BOOLEAN : BeginStop(s, include)

(* However the commands of several terminals overlap, are cut off or write   *)
(* an old book over a new one, a terminal never adds a second copy to one   *)
(* it could have seen: the copies of a service are at most the terminals,   *)
(* and one more for each time `ps` failed (AstrataSupervisor.reconcile).    *)
ServiceBound ==
    \A x \in Services : Cardinality(Copies(x)) <= Cardinality(Terminals) + missed
=============================================================================
