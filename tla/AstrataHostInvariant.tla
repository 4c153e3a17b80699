------------------------ MODULE AstrataHostInvariant ------------------------
(***************************************************************************)
(* The inductive invariants of the host, one behind each of ServiceBound,  *)
(* CooldownHolds, ThreadsKept and MailAnswered.  Each speaks of its own    *)
(* part of the state and of nothing the other parts keep.                  *)
(***************************************************************************)
EXTENDS AstrataHost

-----------------------------------------------------------------------------
(* ServiceBound: a terminal about to start a service saw no copy of it, or  *)
(* `ps` failed when it looked.                                              *)

Starting(x) == {s \in Terminals : desk[s].unseen /\ Watched[desk[s].at] = x}

IsDesk(d) == d = [at |-> d.at, own |-> d.own, does |-> d.does, unseen |-> d.unseen]

BoundInv ==
  /\ alive = [p \in Pids |-> alive[p]]
  /\ desk = [s \in Terminals |-> desk[s]]
  /\ \A s \in Terminals :
        /\ IsDesk(desk[s]) /\ desk[s].at \in Nat /\ (desk[s].at = 0 => desk[s].does = "none")
        /\ desk[s].unseen \in BOOLEAN
        /\ desk[s].unseen => desk[s].does = "reconcile" /\ desk[s].at \in 1..Len(Watched)
  /\ missed \in Nat
  /\ \A x \in Services :
        Cardinality(Copies(x)) + Cardinality(Starting(x)) <= Cardinality(Terminals) + missed

-----------------------------------------------------------------------------
(* CooldownHolds: while a cooldown is not over the latch is hot and fresh.  *)

IsOp(o) == o = [at |-> o.at, key |-> o.key, via |-> o.via, hot |-> o.hot, pid |-> o.pid]

HeatInv ==
  /\ op = [c \in Callers |-> op[c]]
  /\ \A c \in Callers : IsOp(op[c]) /\ op[c].hot = FALSE
  /\ latch = [is |-> latch.is, fresh |-> latch.fresh]
  /\ latch.fresh \in BOOLEAN /\ heated \in BOOLEAN
  /\ heated => latch.fresh /\ latch.is \in Hot

-----------------------------------------------------------------------------
(* ThreadsKept: a thread keeps its own conversation unless it took the      *)
(* place of a lost one, every message is counted under it, and what a poll  *)
(* gives up, or a request is about to write as deleted, had no message when *)
(* it was counted.                                                          *)

IsReq(q) == q = [at |-> q.at, by |-> q.by, thread |-> q.thread, talk |-> q.talk,
                 empty |-> q.empty, doomed |-> q.doomed, write |-> q.write,
                 then |-> q.then, letter |-> q.letter]

Spared(t) == t \in used => t \in hasty

EntryKept(t, e) ==
  /\ e = [status |-> e.status, talk |-> e.talk]
  /\ e.status # "absent" => e.talk \in Threads /\ (t \notin excepted => e.talk = t)
  /\ e.status = "deleted" /\ t \notin excepted => t \notin Mains /\ t \in emptied /\ Spared(t)

FileKept(f) == f = [t \in Threads |-> f[t]] /\ \A t \in Threads : EntryKept(t, f[t])

(* A request on its way to send a message: the thread, and the conversation *)
(* it sends in.                                                             *)
Sending(q) == "send" \in {q.at, q.then}

RequestKept(q) ==
  /\ IsReq(q)
  /\ q.thread \in Threads \cup {0} /\ q.talk \in Threads \cup {0}
  /\ q.then \in {"idle", "rename", "send", "answer", "poll", "prune"}
  /\ q.at \notin {"open", "write"} => q.then = "idle"
  /\ "rename" \in {q.at, q.then} => q.thread \in Threads /\ q.talk \in Threads
  /\ Sending(q) => q.thread \in Threads /\ (q.thread \notin excepted => q.talk \in {0, q.thread})
  /\ FileKept(q.write)
  /\ \A t \in q.empty \cap Threads : t \notin excepted => Spared(t)
  /\ \A t \in q.doomed : t \notin Mains /\ t \in emptied /\ (t \notin excepted => Spared(t))

ChatInv ==
  /\ FileKept(chats)
  /\ req = [r \in Requests |-> req[r]] /\ \A r \in Requests : RequestKept(req[r])
  /\ \A t \in Threads : t \in used /\ t \notin excepted => t \in said
  /\ named \in Nat

-----------------------------------------------------------------------------
(* MailAnswered: who still has a message to answer has not answered it, and *)
(* who has answered it is about to close it, has closed it or is gone.      *)

IsTurn(t) == t = [at |-> t.at, lane |-> t.lane, due |-> t.due]
IsMail(e) == e = [status |-> e.status, to |-> e.to, asks |-> e.asks, sensitive |-> e.sensitive]

(* The message p has answered and not yet closed.                           *)
Closing(p, m) == turn[p].at = "resolve" /\ m \in turn[p].due /\ m = Oldest(turn[p].due)

AtOnce(p) == turn[p].lane = "once"

(* What p has listed is still to be answered by it; what the request it     *)
(* serves sent, by nobody else at once.                                     *)
TurnOK(p) ==
  /\ IsTurn(turn[p]) /\ turn[p].due \subseteq Letters
  /\ turn[p].at = "idle" => turn[p] = Idle
  /\ turn[p].at \notin {"idle", "handle"} => turn[p].due # {}
  /\ turn[p].at # "idle" /\ ~ AtOnce(p) => p <= born

DueOK(p, m) ==
  /\ mail[m].status # "unsent"
  /\ Closing(p, m) => Replied(m)
  /\ ~ AtOnce(p) => m \in rolled \/ replies[m][p] = 0 \/ Closing(p, m)
  /\ AtOnce(p) =>
       /\ mail[m].to # "model" /\ (replies[m][0] = 0 \/ Closing(p, m))
       /\ \A r \in Requests : req[r].letter # m
       /\ \A q \in Pids \ {p} : AtOnce(q) => m \notin turn[q].due

(* A message a process answered is not listed by it again.                  *)
Heard(p, m) ==
  /\ p <= born
  /\ \/ mail[m].status # "delivered"
     \/ ~ AtOnce(p) /\ Closing(p, m)
     \/ alive[p] = "none" /\ (turn[p] = Idle \/ AtOnce(p))

LetterOK(m) ==
  /\ IsMail(mail[m])
  /\ \A p \in Pids \cup {0} : replies[m][p] \in Nat
  /\ replies[m][0] <= 1
  /\ m \notin rolled => \A p \in Pids : replies[m][p] > 0 => replies[m][p] = 1 /\ Heard(p, m)
  /\ mail[m].status = "unsent" => \A p \in Pids \cup {0} : replies[m][p] = 0
  /\ mail[m].status = "resolved" => Replied(m)
  /\ mail[m].status = "gone" /\ rebuild.at # "removed" /\ m \notin dropped => Replied(m)

LetterAsked(r) ==
  /\ IsReq(req[r]) /\ req[r].letter \in Letters \cup {0}
  /\ req[r].at = "touch" \/ "answer" \in {req[r].at, req[r].then} => req[r].letter # 0
  /\ req[r].then # "touch"
  /\ req[r].letter # 0 =>
       /\ mail[req[r].letter].status # "unsent"
       /\ mail[req[r].letter].to = "model" \/ replies[req[r].letter][0] = 0
       /\ \A q \in Requests \ {r} : req[q].letter # req[r].letter

(* What an archive run copied, and a compaction read, is as it was then.    *)
CopyOK(m) ==
  /\ IsMail(rebuild.copy[m])
  /\ rebuild.copy[m].status # "unsent" =>
       mail[m].status # "unsent" /\ rebuild.copy[m].to = mail[m].to
  /\ rebuild.copy[m].status = "resolved" => Replied(m)
  /\ rebuild.copy[m].status = "gone" /\ m \notin dropped => Replied(m)

KeptOK ==
  /\ rebuild = [at |-> rebuild.at, copy |-> rebuild.copy]
  /\ rebuild.at # "none" => \A m \in Letters : CopyOK(m)
  /\ compact = [of |-> compact.of, was |-> compact.was]
  /\ compact.of # 0 =>
       /\ compact.of \in Letters /\ compact.was \notin {"unsent", "gone"}
       /\ compact.was = "resolved" => Replied(compact.of)

MailInv ==
  /\ alive = [p \in Pids |-> alive[p]] /\ born \in Nat
  /\ \A p \in Pids : alive[p] # "none" => p <= born
  /\ mail = [m \in Letters |-> mail[m]]
  /\ replies = [m \in Letters |-> [p \in Pids \cup {0} |-> replies[m][p]]]
  /\ turn = [p \in Pids |-> turn[p]] /\ req = [r \in Requests |-> req[r]]
  /\ \A p \in Pids : TurnOK(p) /\ \A m \in turn[p].due : DueOK(p, m)
  /\ \A m \in Letters : LetterOK(m)
  /\ \A r \in Requests : LetterAsked(r)
  /\ KeptOK
=============================================================================
