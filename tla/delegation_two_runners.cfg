SPECIFICATION Spec
CONSTANTS
  t1 = t1
  t2 = t2
  Tasks = {t1}
  Workers = {w1}
  Runners = {p1, p2}
  DependsOn <- Independent
  Outcomes = {"applied", "failed"}
  TurnLimit = 5
  MaxCrashes = 0
  None = None
SYMMETRY SymmetricRunners
INVARIANTS
  NoLostDelegation
  CompletionIsEarned
