----------------------------- MODULE LaneTurns -----------------------------
(* The turns of the lanes Prime and Local (comms/runtime.py): the user's    *)
(* messages, the desktop UI that answers one as it is sent, the daemon and  *)
(* the UI's loop that answer those they list, Prime's provider and what is  *)
(* tried when it does not answer.  Nothing marks a message as being         *)
(* answered: whoever has listed it answers it.                              *)
(* A process takes one turn at a time here.                                 *)
EXTENDS LocalRuntime, ProjectedMemory, ChatThreads

CONSTANTS
    MaxLetters,     \* bound: messages sent
    TurnLimit       \* how many one pass takes of a lane (5)

ASSUME LettersAssumption == MaxLetters \in Nat

VARIABLES
    mail,           \* the user's messages, in the order sent
    replies,        \* how often each process, or the request that sent it (0),
                    \* answered each of them
    made,           \* how often work was made of each of them
    turn            \* the turn each process is in

laneVars == <<mail, replies, made, turn>>

Letters == 1..MaxLetters
Lanes   == {"prime", "local"}
Idle    == [at |-> "idle", lane |-> "none", due |-> {}]
Unsent  == [status |-> "unsent", to |-> "none", asks |-> "none", sensitive |-> FALSE]

Kept(m)   == mail[m].status \notin {"unsent", "gone"}  \* get_message finds it
Oldest(D) == CHOOSE m \in D : \A k \in D : m <= k
Next5(D)  == {m \in D : Cardinality({k \in D : k < m}) < TurnLimit}

(* Fault: a pass lists what is already closed as well.                      *)
PendingToo(lane) == Next5({m \in Letters : mail[m].to = lane})

(* process_pending_turns: the messages of a lane still to be answered.      *)
Pending(lane) ==
    Next5({m \in Letters : mail[m].to = lane /\ mail[m].status = "delivered"})

----------------------------------------------------------------------------
(* PrincipalMessageLane.send, by the command or by the UI.                  *)
NewLetter(m, to, asks, sensitive) ==
    /\ mail[m].status = "unsent"
    /\ \A k \in 1..(m - 1) : mail[k].status # "unsent"
    /\ mail' = [mail EXCEPT ![m] = [status |-> "delivered", to |-> to, asks |-> asks,
                                    sensitive |-> sensitive]]

Asked == {"state", "work", "talk"}

Post(m) ==
    /\ \/ \E to \in Lanes, asks \in Asked : NewLetter(m, to, asks, FALSE)
       \/ NewLetter(m, "prime", "talk", TRUE)
    /\ UNCHANGED <<replies, made, turn>>

(* The UI's send_message stores the message, in its chat, and answers it at *)
(* once, whatever else is still waiting.                                    *)
SendMessage(m) ==
    /\ \E to \in Lanes, asks \in Asked : NewLetter(m, to, asks, FALSE)
    /\ UNCHANGED <<replies, made, turn>>

(* send_model_chat: the reply, if the model gives one, is sent; the message *)
(* is addressed to no lane and stays as it is.                              *)
SendModelChat(m) ==
    /\ NewLetter(m, "model", "talk", FALSE)
    /\ replies' \in {replies, [replies EXCEPT ![m][0] = @ + 1]}
    /\ UNCHANGED <<made, turn>>

AnswerAtOnce(p, m) ==
    /\ IF mail[m].to \in Lanes
       THEN /\ turn[p] = Idle
            /\ turn' = [turn EXCEPT ![p] = [at |-> "handle", lane |-> "once", due |-> {m}]]
       ELSE UNCHANGED turn
    /\ UNCHANGED <<mail, replies, made>>

(* A cycle of the daemon, or the UI's run_loop: Prime's lane, then Local's. *)
BeginTurns(p) ==
    /\ alive[p] \in {"ui", "daemon"} /\ turn[p] = Idle
    /\ Pending("prime") \cup Pending("local") # {}
    /\ turn' = [turn EXCEPT ![p] = [at |-> "handle", lane |-> "prime",
                                    due |-> Pending("prime")]]
    /\ UNCHANGED <<mail, replies, made>>

(* The lane is done: the next is listed only now.                           *)
NextLane(p) ==
    /\ turn[p].at = "handle" /\ turn[p].due = {}
    /\ turn' = [turn EXCEPT ![p] = IF turn[p].lane = "prime"
                                   THEN [at |-> "handle", lane |-> "local",
                                         due |-> Pending("local")]
                                   ELSE Idle]
    /\ UNCHANGED <<mail, replies, made>>

(* handle_message: what is answered from state, what becomes work and is    *)
(* then told, and what is talked about.                                     *)
AnsweredFromState(m) == mail[m].asks = "state"
MakesWork(m)         == mail[m].asks = "work"

Handle(p) ==
    /\ turn[p].at = "handle" /\ turn[p].due # {}
    /\ LET m == Oldest(turn[p].due)
       IN /\ made' = IF MakesWork(m) THEN [made EXCEPT ![m] = @ + 1] ELSE made
          /\ turn' = [turn EXCEPT ![p].at =
                IF AnsweredFromState(m) \/ MakesWork(m) THEN "reply"
                ELSE IF mail[m].to = "local" THEN "chat" ELSE "prime"]
    /\ UNCHANGED <<mail, replies>>

(* CoordinatorController.coordinate: the advisor's providers come first, or *)
(* codex, of those that are configured; without any the router's error is   *)
(* not caught; the quota may make the chosen one wait.                      *)
Sources == {"codex", "cheap"}
Advised == {{"codex"}, {"cheap"}}

Chosen(configured, advised) ==
    IF configured \cap advised # {} THEN configured \cap advised ELSE configured

Coordinated(configured, advised) ==
    IF Chosen(configured, advised) = {} THEN {"none"} ELSE {"accepted", "deferred"}

Routes == UNION {Coordinated(c, a) : c \in SUBSET Sources, a \in Advised}

(* The agents a look at durable_agents.json finds: the bootstrapped ones,   *)
(* with Reception at work or not, or none while the file is rewritten.      *)
Agencies == {{"prime", "reception", "local"}, {"prime", "local"}, {}}

(* choose_fallback: Reception, Local if she is not at work or the message   *)
(* is sensitive, nobody if no agent is found.                               *)
Fallback(m, agents) ==
    CASE agents = {} -> "nobody"
      [] agents # {} /\ "reception" \in agents /\ ~mail[m].sensitive -> "reception"
      [] OTHER -> "local"

(* _handle_prime_unavailable: what the turn does then.                      *)
Instead(m, agents) ==
    CASE Fallback(m, agents) = "reception" -> "reception"
      [] Fallback(m, agents) = "local" -> "chat"
      [] Fallback(m, agents) = "nobody" -> "reply"

(* _handle_prime_reply.  Without any provider the error ends the whole pass *)
(* and the messages behind this one wait as well.                           *)
AskPrime(p) ==
    /\ turn[p].at = "prime"
    /\ \E route \in Routes, hits \in SUBSET Slugs, answered \in BOOLEAN, agents \in Agencies :
          /\ IF route = "accepted" THEN ShowRemote(hits) ELSE UNCHANGED shown
          /\ turn' = [turn EXCEPT ![p] =
                IF route = "none" THEN Idle
                ELSE [@ EXCEPT !.at = IF route = "accepted" /\ answered THEN "reply"
                                      ELSE Instead(Oldest(turn[p].due), agents)]]
    /\ UNCHANGED <<mail, replies, made>>

(* _attempt_agent_failover: Reception, and Local when it does not answer.   *)
AskReception(p) ==
    /\ turn[p].at = "reception"
    /\ \E called, answered \in BOOLEAN, hits \in SUBSET Slugs :
          /\ IF called THEN ShowRemote(hits) ELSE UNCHANGED shown
          /\ turn' = [turn EXCEPT ![p].at = IF called /\ answered THEN "reply" ELSE "chat"]
    /\ UNCHANGED <<mail, replies, made>>

----------------------------------------------------------------------------
(* The local endpoint's chat.  The fast model is made ready to choose the   *)
(* mode, then what the strategy of that mode runs on: the persistent model, *)
(* or both.  What comes of a completion does not matter here: a reply is    *)
(* sent in any case, one that says so if something failed.                  *)
Rests(p)      == op[p] = NoOp
Ready(p)      == op[p].at = "ready"
Reach(p, at)  == turn' = [turn EXCEPT ![p].at = at]

BeginChat(p) ==
    turn[p].at = "chat" /\ Rests(p) /\ EnsureForChat(p, "fast") /\ Reach(p, "choose")

(* _choose_mode: what the model picks, or a rule of thumb.                  *)
Modes == {"fast", "persistent"}

ChooseMode(p) ==
    /\ turn[p].at = "choose" /\ Ready(p)
    /\ \E mode \in Modes : EnsureForChat(p, mode) /\ Reach(p, mode)

(* _execute_strategy in the fast mode: an answer may escalate, so both      *)
(* models are made ready before either is asked.                            *)
ReadyBoth(p) ==
    turn[p].at = "fast" /\ Ready(p) /\ EnsureForChat(p, "persistent") /\ Reach(p, "persistent")

EndChat(p) ==
    /\ \/ turn[p].at = "persistent" /\ Ready(p)
       \/ turn[p].at \in {"choose", "fast", "persistent"} /\ op[p].at = "failed"
    /\ op' = [op EXCEPT ![p] = NoOp]
    /\ Reach(p, "reply")

AskLocal(p) ==
    /\ BeginChat(p) \/ ChooseMode(p) \/ ReadyBoth(p) \/ EndChat(p)
    /\ UNCHANGED <<mail, replies, made>>

----------------------------------------------------------------------------
(* _emit_reply sends the reply and then resolves the message.               *)
EmitReply(p) ==
    /\ turn[p].at = "reply"
    /\ LET by == IF turn[p].lane = "once" THEN 0 ELSE p
       IN replies' = [replies EXCEPT ![Oldest(turn[p].due)][by] = @ + 1]
    /\ turn' = [turn EXCEPT ![p].at = "resolve"]
    /\ UNCHANGED <<mail, made>>

CloseLetter(p) ==
    /\ turn[p].at = "resolve"
    /\ LET m == Oldest(turn[p].due)
       IN /\ mail' = IF Kept(m) THEN [mail EXCEPT ![m].status = "resolved"] ELSE mail
          /\ turn' = [turn EXCEPT ![p].at = "handle", ![p].due = @ \ {m}]
    /\ UNCHANGED <<replies, made>>

(* acknowledge, by the UI or the command, whatever the message is at.       *)
Acknowledge(m) ==
    /\ Kept(m)
    /\ mail' = [mail EXCEPT ![m].status = "acknowledged"]
    /\ UNCHANGED <<replies, made, turn>>

LaneInit ==
    /\ mail = [m \in Letters |-> Unsent]
    /\ replies = [m \in Letters |-> [p \in Pids \cup {0} |-> 0]]
    /\ made = [m \in Letters |-> 0]
    /\ turn = [p \in Pids |-> Idle]

=============================================================================
