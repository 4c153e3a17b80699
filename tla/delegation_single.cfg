SPECIFICATION FairSpec
CONSTANTS
  t1 = t1
  t2 = t2
  Tasks = {t1, t2}
  Workers = {w1, w2, w3}
  Runners = {p1}
  DependsOn <- Independent
  Outcomes = {"applied", "failed"}
  TurnLimit = 1
  MaxCrashes = 0
  None = None
INVARIANTS
  OneLiveWorker
  NoSilentStall
PROPERTIES
  KeepsContract
  StallsEnd
