------------------------- MODULE DelegationContract -------------------------
(***************************************************************************)
(* What Loop 0 promises of the tasks it delegates, without a word of how:  *)
(* no messages, results, attempts or supervision, only the tasks and the   *)
(* lanes that may answer them.                                             *)
(***************************************************************************)
CONSTANTS
  Tasks,      \* governed tasks
  Workers,    \* the lanes that may be opened, one after the other
  DependsOn   \* DependsOn[t]: the tasks that must be complete before t

VARIABLES
  status,     \* status[t]: what the task record says
  lanes,      \* lanes[t]: the worker that may answer t, if there is one
  used        \* the workers that were ever given a task

contractVars == <<status, lanes, used>>

ContractInit ==
  /\ status = [t \in Tasks |-> "pending"]
  /\ lanes = [t \in Tasks |-> {}]
  /\ used = {}

Free(t) == status[t] \in {"pending", "failed", "blocked"}
Due(t)  == Free(t) /\ \A d \in DependsOn[t] : status[d] = "complete"

(* A lane is opened for a task that is due, or in the place of one that is  *)
(* gone.                                                                    *)
OpenLane(t, w) ==
  /\ Due(t) \/ status[t] = "working"
  /\ lanes[t] = {} /\ w \notin used
  /\ lanes' = [lanes EXCEPT ![t] = {w}]
  /\ used' = used \cup {w}
  /\ UNCHANGED status

BeginWork(t) ==
  /\ Due(t) /\ lanes[t] # {}
  /\ status' = [status EXCEPT ![t] = "working"]
  /\ UNCHANGED <<lanes, used>>

(* The worker has answered, or is given up.                                 *)
CloseLane(t) ==
  /\ status[t] = "working" /\ lanes[t] # {}
  /\ lanes' = [lanes EXCEPT ![t] = {}]
  /\ UNCHANGED <<status, used>>

Settle(t, s) ==
  /\ status[t] = "working" /\ lanes[t] = {}
  /\ status' = [status EXCEPT ![t] = s]
  /\ UNCHANGED <<lanes, used>>

(* The task is answered where it is, or put off.                            *)
AnswerInPlace(t, s) ==
  /\ Due(t) /\ lanes[t] = {}
  /\ status' = [status EXCEPT ![t] = s]
  /\ UNCHANGED <<lanes, used>>

ContractNext ==
  \E t \in Tasks :
    \/ \E w \in Workers : OpenLane(t, w)
    \/ BeginWork(t) \/ CloseLane(t)
    \/ \E s \in {"complete", "failed", "blocked"} : Settle(t, s)
    \/ \E s \in {"complete", "pending"} : AnswerInPlace(t, s)

ContractSpec == ContractInit /\ [][ContractNext]_contractVars
=============================================================================
