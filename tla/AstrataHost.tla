---------------------------- MODULE AstrataHost ----------------------------
(* One machine that runs Astrata: the supervisor, the model servers, the    *)
(* chats and lane turns of the services and the memory they are shown.      *)
EXTENDS RuntimeArchive

CONSTANTS
    Budgets         \* bound: what runs at first, and how often each event comes

memAndLanes == <<memVars, laneVars, chatVars, keepVars>>
allVars     == <<svcVars, runVars, memAndLanes, left>>

HostInit ==
    /\ RuntimeInit /\ MemoryInit /\ LaneInit /\ ChatInit /\ UpkeepInit
    /\ \E b \in Budgets : HostBegins(b.from) /\ left = b.left

(* The processes that end leave what they were doing.                       *)
Ended == {p \in Live : alive'[p] = "none"}

LetGo(Q) ==
    /\ op' = [c \in Callers |-> IF c \in Q THEN NoOp ELSE op[c]]
    /\ turn' = [p \in Pids |-> IF p \in Q THEN Idle ELSE turn[p]]
    /\ Abandon(Q)

(* A terminal closes, or a process ends, with whatever it was doing.        *)
TerminalCloses(s) ==
    /\ CutOff(s)
    /\ op' = [op EXCEPT ![s] = NoOp]
    /\ UNCHANGED <<files, latch, heated, memAndLanes>>

ProcessDies(p) ==
    /\ Die(p)
    /\ LetGo({p})
    /\ UNCHANGED <<born, book, desk, missed, files, latch, heated, memVars,
                   mail, replies, made, keepVars>>

Supervise ==
    /\ \/ \E s \in Terminals : SupervisorStep(s)
       \/ \E p \in Pids : Listen(p)
    /\ LetGo(Ended)
    /\ UNCHANGED <<files, latch, heated, memVars, mail, replies, made, keepVars>>

Serve ==
    /\ \/ \E s \in Terminals : Ensure(s) \/ CommandStart(s) \/ CommandStop(s)
       \/ \E c \in Callers : RuntimeStep(c)
       \/ \E p \in Pids : Warm(p) \/ ClickStop(p)
       \/ \E p \in Pids, override \in BOOLEAN : ClickStart(p, override)
       \/ UiSnapshot \/ RuntimeStatus \/ Doctor \/ StartupReport
       \/ Cool /\ UNCHANGED <<svcVars, files, op, left>>
    /\ UNCHANGED memAndLanes

(* The UI serves a request of a chat.                                       *)
Chat ==
    /\ \/ \E r \in Requests, p \in up :
             alive[p] = "ui" /\ Spend("chat") /\ BeginRequest(r, p)
       \/ \E r \in Requests : RequestStep(r) /\ UNCHANGED left
    /\ UNCHANGED <<svcVars, runVars, memVars, laneVars, keepVars>>

Send ==
    /\ \E r \in Requests :
          \/ \E m \in Letters : SendIn(r, m) /\ Spend("click") /\ SendMessage(m)
          \/ \E m \in Letters :
                SendIn(r, m) /\ SendModelChat(m) /\ UNCHANGED left
          \/ Answer(r) /\ AnswerAtOnce(req[r].by, req[r].letter) /\ UNCHANGED left
    /\ UNCHANGED <<svcVars, runVars, memVars, keepVars>>

Correspond ==
    /\ \/ \E m \in Letters : Spend("mail") /\ Post(m)
       \/ \E m \in Letters : Spend("ack") /\ Acknowledge(m)
       \/ \E p \in Pids :
             /\ \/ BeginTurns(p) \/ NextLane(p) \/ Handle(p)
                \/ EmitReply(p) \/ CloseLetter(p)
             /\ UNCHANGED left
    /\ UNCHANGED <<svcVars, runVars, memVars, chatVars, keepVars>>

Ask ==
    /\ \E p \in Pids : AskPrime(p) \/ AskReception(p)
    /\ UNCHANGED <<svcVars, runVars, pages, draft, chatVars, keepVars, left>>

AskOwnModel ==
    /\ \E p \in Pids : AskLocal(p)
    /\ UNCHANGED <<svcVars, files, latch, heated, memVars, chatVars, keepVars, left>>

Write ==
    /\ \/ \E w \in Writers : PutPage(w) /\ UNCHANGED left
       \/ \E w \in Writers, x \in Slugs, c \in Classifications, given \in Given :
             Spend("write") /\ BeginWrite(w, x, c, given)
    /\ UNCHANGED <<svcVars, runVars, laneVars, chatVars, keepVars>>

Upkeep ==
    /\ \/ TakeSnapshot /\ Spend("archive")
       \/ (RemoveLive \/ PutHot) /\ UNCHANGED left
       \/ CutRun /\ Spend("cut")
       \/ \E m \in Letters : ReadOversized(m) /\ Spend("compact")
       \/ WriteCompacted /\ UNCHANGED left
    /\ UNCHANGED <<svcVars, runVars, memVars, chatVars>>

HostNext ==
    \/ \E s \in Terminals : TerminalCloses(s)
    \/ \E p \in Pids : ProcessDies(p)
    \/ Supervise \/ Serve \/ Chat \/ Send \/ Correspond \/ Ask \/ AskOwnModel \/ Write \/ Upkeep

HostSpec == HostInit /\ [][HostNext]_allVars
=============================================================================
