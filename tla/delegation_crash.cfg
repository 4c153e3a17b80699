SPECIFICATION Spec
CONSTANTS
  t1 = t1
  t2 = t2
  Tasks = {t1, t2}
  Workers = {w1, w2, w3}
  Runners = {p1}
  DependsOn <- Chain
  Outcomes = {"applied", "failed", "blocked"}
  TurnLimit = 5
  MaxCrashes = 1
  None = None
SYMMETRY SymmetricWorkers
INVARIANTS
  TypeOK
  AckedIsRecorded
  ServedOncePerCrash
  DependenciesEarned
