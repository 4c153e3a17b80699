SPECIFICATION Spec
CONSTANTS
  t1 = t1
  t2 = t2
  Tasks = {t1}
  Workers = {w1, w2, w3, w4}
  Runners = {p1}
  DependsOn <- Independent
  Outcomes = {"applied", "failed", "blocked"}
  TurnLimit = 5
  MaxCrashes = 3
  None = None
SYMMETRY SymmetricWorkers
INVARIANTS
  ReassignBudget
