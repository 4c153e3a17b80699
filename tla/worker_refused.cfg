SPECIFICATION WorkerSpec
CONSTANTS
  s1 = s1
  s2 = s2
  once = once
  twice = twice
  Slots = {s1, s2}
  Emails = {ann, bob}
  Invites = {once, twice}
  OneTime = {once}
  MaxUses <- MCMaxUses
  Clients = {gpt, ide}
  Public = Public
  Keys = {k1, k2}
  Budgets <- MCBudgets
  MaxDrops = 1
SYMMETRY MCSymmetry
INVARIANTS TokensAdmit
CHECK_DEADLOCK FALSE
