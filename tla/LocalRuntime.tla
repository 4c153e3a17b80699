---------------------------- MODULE LocalRuntime ----------------------------
(* The model servers of the host (local/runtime, local/thermal.py and those *)
(* who start them): ensure_local_runtime at the end of a reconcile, the     *)
(* desktop UI's start and stop, the `local-runtime-*` commands, and the     *)
(* chats of the services.  They share the state file of each runtime key,   *)
(* the thermal latch and the ports, and no lock.                            *)
(* One evaluation of the thermal latch, a load and a store with nothing     *)
(* between, is one step here.                                               *)
EXTENDS ServiceSupervisor

VARIABLES
    files,          \* local_runtime[-<key>].json: the process recorded, or 0
    latch,          \* thermal_state.json
    heated,         \* a hot sample was seen and its cooldown is not over
    op              \* the start each terminal or service is in

runVars == <<files, latch, heated, op>>

Keys    == {"default", "fast", "persistent"}
Port(k) == IF k = "fast" THEN "llama-8081" ELSE "llama-8080"
Healthy(k) == Answers(Port(k))              \* LlamaCppBackend.healthcheck
Hot     == {"fair", "severe"}               \* "critical" is as "severe"
Samples == IF left["telemetry"] = 1 THEN {"nominal", "fair", "severe", "unknown"}
           ELSE {"unknown"}     \* probe_thermal_state: only macOS is asked
Callers == Terminals \cup Pids
NoOp    == [at |-> "none", key |-> "default", via |-> "none", hot |-> FALSE,
            pid |-> 0]

----------------------------------------------------------------------------
(* Fault: a nominal sample ends the cooldown at once.                       *)
LatchedAtOnce(sample, bypass) ==
    IF sample = "unknown" /\ latch.fresh THEN latch.is ELSE sample

(* ThermalController.evaluate: what is latched, and whether new local work  *)
(* may start.  Every evaluation dates the latch anew.                       *)
Latched(sample, bypass) ==
    CASE sample \in Hot -> sample
      [] sample = "nominal" ->
            IF ~bypass /\ latch.is \in Hot /\ latch.fresh THEN "fair" ELSE "nominal"
      [] OTHER -> IF latch.fresh THEN latch.is ELSE "unknown"

Evaluate(sample, bypass) ==
    /\ latch' = [is |-> Latched(sample, bypass), fresh |-> TRUE]
    /\ heated' = (sample \in Hot \/ (heated /\ ~(bypass /\ sample = "nominal")))

Allowed == latch'.is \notin Hot

(* 300 seconds without an evaluation; they matter to a hot latch only.      *)
Cool ==
    /\ latch.fresh /\ latch.is \in Hot
    /\ latch' = [latch EXCEPT !.fresh = FALSE]
    /\ heated' = FALSE

----------------------------------------------------------------------------
(* _resolve_live_pid: the recorded process, or one of the same command.     *)
Resolve(k) ==
    IF files[k] = 0 THEN 0
    ELSE IF files[k] \in Live THEN files[k]
    ELSE IF Copies(Port(k)) = {} THEN 0
    ELSE CHOOSE p \in Copies(Port(k)) : \A q \in Copies(Port(k)) : p <= q

(* The UI's manager asks every state file for its status, which adopts a    *)
(* process or removes the file.                                             *)
Swept == [k \in Keys |-> Resolve(k)]

ActiveKey ==
    CASE Swept["default"] # 0 -> "default"
      [] Swept["default"] = 0 /\ Swept["fast"] # 0 -> "fast"
      [] Swept["default"] = 0 /\ Swept["fast"] = 0 /\ Swept["persistent"] # 0 ->
            "persistent"
      [] OTHER -> "default"

AtDesk(s) == desk[s].does = "reconcile" /\ desk[s].at = RuntimeAt
LeaveDesk(s) == desk' = [desk EXCEPT ![s].at = SaveAt]

(* ensure_local_runtime, the last step of a reconcile.                      *)
Ensure(s) ==
    /\ AtDesk(s) /\ op[s] = NoOp
    /\ files' = Swept
    /\ \E sample \in Samples : Evaluate(sample, FALSE)
    /\ IF Allowed /\ ~Healthy("default")
       THEN op' = [op EXCEPT ![s].at = "decide", ![s].via = "policy"] /\ UNCHANGED desk
       ELSE LeaveDesk(s) /\ UNCHANGED op
    /\ UNCHANGED <<alive, bound, up, born, book, missed, left>>

(* The UI's start, in the UI's process, and `local-runtime-start`.          *)
ClickStart(p, override) ==
    /\ alive[p] = "ui" /\ p \in up /\ op[p] = NoOp /\ Spend("start")
    /\ op' = [op EXCEPT ![p].at = "decide",
                        ![p].via = IF override THEN "override" ELSE "operator"]
    /\ UNCHANGED <<svcVars, files, latch, heated>>

CommandStart(s) ==
    /\ Resting(s) /\ op[s] = NoOp /\ Spend("start")
    /\ op' = [op EXCEPT ![s].at = "decide", ![s].via = "command"]
    /\ UNCHANGED <<svcVars, files, latch, heated>>

Finish(c) ==
    /\ op' = [op EXCEPT ![c] = NoOp]
    /\ IF c \in Terminals /\ desk[c].at = RuntimeAt THEN LeaveDesk(c) ELSE UNCHANGED desk

(* What a model may be recommended, and what is then refused: one that is   *)
(* not eligible unless the user asked, one too large unless overridden; the *)
(* command has neither policy.                                              *)
Recommended == {"none", "eligible", "other"}

ResourceBlocked(via, large) == large /\ via \in {"policy", "operator"}

Refused(via, model, large) ==
    \/ model = "none"
    \/ model = "other" /\ via = "policy"
    \/ ResourceBlocked(via, large)

(* start_local_runtime up to start_managed: the manager's sweep (the        *)
(* command has none), the thermal decision, and the policies.               *)
DecideStart(c) ==
    /\ op[c].at = "decide"
    /\ files' = IF op[c].via = "command" THEN files ELSE Swept
    /\ \E sample \in Samples, model \in Recommended, large \in BOOLEAN :
          /\ Evaluate(sample, FALSE)
          /\ IF (Allowed \/ op[c].via = "override") /\ ~Refused(op[c].via, model, large)
             THEN /\ op' = [op EXCEPT ![c].at = "port",
                              ![c].hot = heated' /\ op[c].via # "override"]
                  /\ UNCHANGED desk
             ELSE Finish(c)
    /\ UNCHANGED <<alive, bound, up, born, book, missed, left>>

(* A chat of a service needs runtime k (_ensure_runtime): a server that     *)
(* answers is used, otherwise one is started, whatever the temperature.     *)
EnsureForChat(p, k) ==
    op' = [op EXCEPT ![p] =
             [NoOp EXCEPT !.key = k, !.via = "chat",
                          !.at = IF Healthy(k) THEN "ready" ELSE "port"]]

(* start_managed: a port in use is refused; the chat asks it once more.     *)
TryPort(c) ==
    /\ op[c].at = "port"
    /\ LET k == op[c].key
       IN IF Copies(Port(k)) \cap bound = {}
          THEN op' = [op EXCEPT ![c].at = "launch"] /\ UNCHANGED desk
          ELSE IF op[c].via # "chat" THEN Finish(c)
          ELSE /\ op' = [op EXCEPT ![c].at = IF Healthy(k) THEN "ready" ELSE "failed"]
               /\ UNCHANGED desk
    /\ UNCHANGED <<alive, bound, up, born, book, missed, files, latch, heated, left>>

(* ManagedProcessController.start: a live process of the key is taken,      *)
(* otherwise one is started and then written down.                          *)
Launch(c) ==
    /\ op[c].at = "launch"
    /\ LET k == op[c].key
       IN /\ files' = [files EXCEPT ![k] = Resolve(k)]
          /\ IF Resolve(k) # 0
             THEN /\ op' = [op EXCEPT ![c].at = "wait"]
                  /\ UNCHANGED <<alive, born>>
             ELSE /\ Spawn(Port(k))
                  /\ op' = [op EXCEPT ![c].at = "record", ![c].pid = born + 1]
    /\ UNCHANGED <<bound, up, book, desk, missed, latch, heated, left>>

Record(c) ==
    /\ op[c].at = "record"
    /\ files' = [files EXCEPT ![op[c].key] = op[c].pid]
    /\ op' = [op EXCEPT ![c].at = "wait"]
    /\ UNCHANGED <<svcVars, latch, heated, left>>

(* _wait_until_healthy: an answer on the port, or sixty seconds without.    *)
(* What was started is left running.                                        *)
Waited(c) ==
    /\ op[c].at = "wait"
    /\ IF op[c].via = "chat"
       THEN /\ op' = [op EXCEPT ![c].at = IF Healthy(op[c].key)
                                         THEN "ready" ELSE "failed"]
            /\ UNCHANGED desk
       ELSE Finish(c)
    /\ UNCHANGED <<alive, bound, up, born, book, missed, files, latch, heated, left>>

(* The model is loaded: /health, 503 until then, answers.                   *)
Warm(p) ==
    /\ p \in bound \ up
    /\ up' = up \cup {p}
    /\ UNCHANGED <<alive, bound, born, book, desk, missed, runVars, left>>

(* stop_managed: the UI stops a named key or the active one, the command    *)
(* only "default".                                                          *)
StopKey(k, seen) ==
    /\ Spend("start")
    /\ End({Resolve(k)} \ {0})
    /\ files' = [seen EXCEPT ![k] = 0]
    /\ UNCHANGED <<born, book, desk, missed, latch, heated, op>>

ClickStop(p) ==
    /\ alive[p] = "ui" /\ p \in up /\ op[p] = NoOp
    /\ \E k \in Keys \cup {ActiveKey} : StopKey(k, Swept)

CommandStop(s) == Resting(s) /\ op[s] = NoOp /\ StopKey("default", files)

(* Those who only look.  `doctor` and the report at startup evaluate        *)
(* without hysteresis, which clears the latch for everyone.                 *)
Observe(seen, bypass) ==
    /\ Spend("peek")
    /\ files' = seen
    /\ \E sample \in Samples : Evaluate(sample, bypass)
    /\ UNCHANGED <<svcVars, op>>

UiSnapshot    == Observe(Swept, FALSE)
RuntimeStatus == Observe(Swept, FALSE)
Doctor        == Observe(Swept, TRUE)
StartupReport == Observe([files EXCEPT !["default"] = Resolve("default")], TRUE)

RuntimeInit ==
    /\ files = [k \in Keys |-> 0]
    /\ latch = [is |-> "unknown", fresh |-> FALSE]
    /\ heated = FALSE
    /\ op = [c \in Callers |-> NoOp]

RuntimeStep(c) ==
    \/ DecideStart(c) \/ TryPort(c) \/ Launch(c) \/ Record(c) \/ Waited(c)

(* A start that the thermal policy lets through was never decided within    *)
(* the cooldown of a hot sample, whoever took that sample, as long as no    *)
(* `doctor` cleared the latch (ThermalController.evaluate and its callers). *)
CooldownHolds == \A c \in Callers : ~op[c].hot
=============================================================================
