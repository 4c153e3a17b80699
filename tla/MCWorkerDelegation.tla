------------------------- MODULE MCWorkerDelegation -------------------------
(* Instances of WorkerDelegation for TLC.                                  *)
EXTENDS WorkerDelegationInvariant, TLC

CONSTANTS t1, t2

(* t2 was materialised as a follow-up that depends on t1.                   *)
Chain == [t \in Tasks |-> IF t = t2 THEN {t1} ELSE {}]
Independent == [t \in Tasks |-> {}]

SymmetricWorkers == Permutations(Workers)
SymmetricRunners == Permutations(Runners)
=============================================================================
