----------------------------- MODULE RelayQueue -----------------------------
(***************************************************************************)
(* What the hosted relay promises about one profile's queue: a request     *)
(* that was enqueued stays until it is acknowledged, an acknowledged       *)
(* request is never pending again, and an answer is never taken back.      *)
(***************************************************************************)
CONSTANT Requests

VARIABLES pending, acked, results

queueVars == <<pending, acked, results>>

QueueInit == pending \subseteq Requests /\ acked = {} /\ results = {}

EnqueueRequest(r) ==
  /\ r \notin pending \cup acked
  /\ pending' = pending \cup {r}
  /\ UNCHANGED <<acked, results>>

AcknowledgeRequest(r) ==
  /\ r \in pending
  /\ pending' = pending \ {r}
  /\ acked' = acked \cup {r}
  /\ UNCHANGED results

AnswerRequest(r) ==
  /\ r \in pending \cup acked
  /\ results' = results \cup {r}
  /\ UNCHANGED <<pending, acked>>

QueueNext == \E r \in Requests :
  EnqueueRequest(r) \/ AcknowledgeRequest(r) \/ AnswerRequest(r)

QueueSpec == QueueInit /\ [][QueueNext]_queueVars
=============================================================================
