----------------------------- MODULE ChatThreads -----------------------------
(* The desktop UI's chats (chats/service.py and their part of               *)
(* ui/service.py): chat_threads.json names the threads, the messages of a   *)
(* conversation are in the database.  The UI serves requests side by side;  *)
(* each change of a thread reads the whole file and rewrites it, and the    *)
(* file is empty, which reads as no threads, from its opening to its        *)
(* writing.  A thread is read, and the file for its change, at once here.   *)
EXTENDS Integers, FiniteSets

CONSTANTS
    Mains,          \* the main threads of prime, local and reception
    MaxThreads,     \* bound: threads made
    Requests        \* requests under way at a time

ASSUME ChatAssumption ==
    MaxThreads \in Nat /\ Mains \subseteq Nat /\ Mains \cap (0..MaxThreads) = {}

VARIABLES
    chats,          \* chat_threads.json
    named,          \* threads made so far
    req,            \* what each request is at
    said,           \* the conversations that have messages
    used,           \* history: the threads that messages were sent in,
    excepted,       \* those the user deleted or that replace a lost one,
    emptied,        \* those a poll decided to delete,
    hasty           \* those used first after that, or while a poll had counted

chatVars == <<chats, named, req, said, used, excepted, emptied, hasty>>

Threads  == Mains \cup 1..MaxThreads
Absent   == [status |-> "absent", talk |-> 0]
NoChats  == [t \in Threads |-> Absent]
Active(t, talk) == [status |-> "active", talk |-> talk]
NoReq    == [at |-> "idle", by |-> 0, thread |-> 0, talk |-> 0, empty |-> {},
             doomed |-> {}, write |-> NoChats, then |-> "idle", letter |-> 0]
There(t) == t \in Threads /\ chats[t].status # "absent"
AskedBy(r, at) == req[r].at = at

(* A request p serves begins.                                               *)
Begin(r, p, at, thread, talk) ==
    /\ AskedBy(r, "idle")
    /\ req' = [req EXCEPT ![r] = [NoReq EXCEPT !.at = at, !.by = p,
                                               !.thread = thread, !.talk = talk]]

----------------------------------------------------------------------------
(* ChatThreadRegistry.upsert: the file as it is now with one thread changed *)
(* will be written, and the request goes on from there.                     *)
Upsert(r, t, entry, then) ==
    req' = [req EXCEPT ![r] = [@ EXCEPT !.at = "open", !.then = then, !.thread = t,
                                        !.write = [chats EXCEPT ![t] = entry]]]

OpenFile(r) ==
    /\ AskedBy(r, "open")
    /\ chats' = NoChats
    /\ req' = [req EXCEPT ![r].at = "write"]
    /\ UNCHANGED <<named, said, used, excepted, emptied, hasty>>

WriteFile(r) ==
    /\ AskedBy(r, "write")
    /\ chats' = req[r].write
    /\ req' = [req EXCEPT ![r] =
         IF req[r].then = "idle" THEN NoReq
         ELSE [@ EXCEPT !.at = req[r].then, !.then = "idle", !.write = NoChats]]
    /\ UNCHANGED <<named, said, used, excepted, emptied, hasty>>

(* create_thread.                                                           *)
NewThread(r, then) ==
    /\ named < MaxThreads
    /\ named' = named + 1
    /\ Upsert(r, named + 1, Active(named + 1, named + 1), then)

----------------------------------------------------------------------------
(* A poll of the summary, _chat_snapshot: the main threads are made if they *)
(* are not there, the messages of every conversation are counted, and the   *)
(* active threads then listed without any are deleted, save the main ones.  *)
EnsureMain(r) ==
    /\ AskedBy(r, "poll")
    /\ LET lacking == {t \in Mains : ~There(t)}
       IN IF lacking = {}
          THEN req' = [req EXCEPT ![r].at = "list", ![r].empty = Threads \ said]
          ELSE \E t \in lacking : Upsert(r, t, Active(t, t), "poll")
    /\ UNCHANGED <<chats, named, said, used, excepted, emptied, hasty>>

(* Fault: the count does not matter.                                        *)
PrunableUncounted(r) == {t \in Threads \ Mains : chats[t].status = "active"}

Prunable(r) ==
    {t \in Threads \ Mains : chats[t].status = "active" /\ chats[t].talk \in req[r].empty}

ListThreads(r) ==
    /\ AskedBy(r, "list")
    /\ req' = [req EXCEPT ![r].at = "prune", ![r].doomed = Prunable(r)]
    /\ emptied' = emptied \cup Prunable(r)
    /\ UNCHANGED <<chats, named, said, used, excepted, hasty>>

Prune(r) ==
    /\ AskedBy(r, "prune")
    /\ LET doomed == {t \in req[r].doomed : There(t)}
       IN IF doomed = {}
          THEN req' = [req EXCEPT ![r] = NoReq]
          ELSE \E t \in doomed :
                  LET deleted == [chats[t] EXCEPT !.status = "deleted"]
                  IN req' = [req EXCEPT ![r] =
                       [@ EXCEPT !.at = "open", !.then = "prune", !.doomed = req[r].doomed \ {t},
                                 !.write = [chats EXCEPT ![t] = deleted]]]
    /\ UNCHANGED <<chats, named, said, used, excepted, emptied, hasty>>

(* A message is sent, _resolve_chat_thread: the thread the client names, or *)
(* that of the conversation it names, deleted or not; else a new one, which *)
(* is then given that conversation; without a name, the agent's main one,   *)
(* or a new one if the client wants it.                                     *)
ResolveThread(r) ==
    /\ AskedBy(r, "resolve")
    /\ LET t == req[r].thread
           c == req[r].talk
           Of(x) == {y \in Threads : There(y) /\ chats[y].talk = x}
           Use(y) == req' = [req EXCEPT ![r].at = "send", ![r].thread = y,
                                        ![r].talk = chats[y].talk]
       IN IF There(t) THEN Use(t) /\ UNCHANGED named
          ELSE IF c # 0 /\ Of(c) # {} THEN (\E y \in Of(c) : Use(y)) /\ UNCHANGED named
          ELSE IF c # 0 THEN NewThread(r, "rename")
          ELSE IF t = 0 THEN NewThread(r, "send")
          ELSE Upsert(r, t, Active(t, t), "send") /\ UNCHANGED named
    /\ UNCHANGED <<chats, said, used, excepted, emptied, hasty>>

Rename(r) ==
    /\ AskedBy(r, "rename")
    /\ Upsert(r, req[r].thread, Active(req[r].thread, req[r].talk), "send")
    /\ excepted' = excepted \cup {req[r].thread}
    /\ UNCHANGED <<chats, named, said, used, emptied, hasty>>

(* The message m itself, with the step of the lanes that stores it; then    *)
(* the thread is touched, and the message answered.                         *)
SendIn(r, m) ==
    /\ AskedBy(r, "send")
    /\ LET t == req[r].thread
           c == IF req[r].talk = 0 THEN t ELSE req[r].talk
       IN /\ said' = said \cup {c}
          /\ used' = used \cup {t}
          /\ hasty' = hasty \cup
                IF t \notin used /\ (t \in emptied \/ \E q \in Requests : req[q].empty # {})
                THEN {t} ELSE {}
    /\ req' = [req EXCEPT ![r].at = "touch", ![r].letter = m]
    /\ UNCHANGED <<chats, named, excepted, emptied>>

Touch(r) ==
    /\ AskedBy(r, "touch")
    /\ IF There(req[r].thread)
       THEN Upsert(r, req[r].thread, chats[req[r].thread], "answer")
       ELSE req' = [req EXCEPT ![r].at = "answer"]
    /\ UNCHANGED <<chats, named, said, used, excepted, emptied, hasty>>

Answer(r) ==
    /\ AskedBy(r, "answer")
    /\ req' = [req EXCEPT ![r] = NoReq]
    /\ UNCHANGED <<chats, named, said, used, excepted, emptied, hasty>>

(* create_chat_thread and update_chat_thread_status, as one request each.   *)
Create(r) ==
    /\ AskedBy(r, "create")
    /\ NewThread(r, "idle")
    /\ UNCHANGED <<chats, said, used, excepted, emptied, hasty>>

Become == [archive |-> "archived", restore |-> "active", delete |-> "deleted"]

Command(r) ==
    /\ req[r].at \in DOMAIN Become
    /\ LET t == req[r].thread
       IN IF There(t)
          THEN /\ Upsert(r, t, [chats[t] EXCEPT !.status = Become[req[r].at]], "idle")
               /\ excepted' = IF AskedBy(r, "delete") THEN excepted \cup {t} ELSE excepted
          ELSE req' = [req EXCEPT ![r] = NoReq] /\ UNCHANGED excepted
    /\ UNCHANGED <<chats, named, said, used, emptied, hasty>>

(* The processes that served them end; a file one had opened stays empty.   *)
Abandon(Q) ==
    /\ req' = [r \in Requests |-> IF req[r].by \in Q THEN NoReq ELSE req[r]]
    /\ UNCHANGED <<chats, named, said, used, excepted, emptied, hasty>>

ChatInit ==
    /\ chats = NoChats /\ named = 0 /\ req = [r \in Requests |-> NoReq]
    /\ said = {} /\ used = {} /\ excepted = {} /\ emptied = {} /\ hasty = {}

(* A client asks for anything it may have seen.                             *)
BeginRequest(r, p) ==
    /\ \/ Begin(r, p, "poll", 0, 0) \/ Begin(r, p, "create", 0, 0)
       \/ Begin(r, p, "resolve", 0, 0)
       \/ \E t \in Mains : Begin(r, p, "resolve", t, 0)
       \/ \E t \in Threads, does \in {"resolve"} \cup DOMAIN Become :
             There(t) /\ Begin(r, p, does, t, chats[t].talk)
    /\ UNCHANGED <<chats, named, said, used, excepted, emptied, hasty>>

RequestStep(r) ==
    \/ OpenFile(r) \/ WriteFile(r) \/ EnsureMain(r) \/ ListThreads(r) \/ Prune(r)
    \/ ResolveThread(r) \/ Rename(r) \/ Touch(r) \/ Create(r) \/ Command(r)

(* A thread in which a message was sent disappears only when the user       *)
(* deletes it, however requests overlap and write over what others wrote; a *)
(* poll may give one up whose first message came after it had counted, or a *)
(* thread that takes the place of a lost one, and never a main thread       *)
(* (_prune_empty_non_main_threads).                                         *)
ThreadsKept ==
    \A t \in Threads : chats[t].status = "deleted" /\ t \notin excepted =>
        t \notin Mains /\ (t \notin used \/ t \in hasty)
=============================================================================
