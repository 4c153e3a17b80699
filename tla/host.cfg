SPECIFICATION HostSpec
CONSTANTS
  s1 = s1
  s2 = s2
  r1 = r1
  r2 = r2
  ann = ann
  page = page
  Terminals = {s1, s2}
  Watched <- MCWatched
  MaxPids = 6
  Slugs = {page}
  Writers = {ann}
  Classifications <- MCClassifications
  MaxLetters = 2
  TurnLimit = 5
  Requests = {r1, r2}
  Mains = {9}
  MaxThreads = 2
  Budgets <- MCBudgets
SYMMETRY MCSymmetry
INVARIANTS ServiceBound  RemoteSafe  
CHECK_DEADLOCK FALSE
