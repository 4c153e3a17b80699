SPECIFICATION Spec
CONSTANTS
  Requests = {r1, r2}
  Processes = {"web"}
  Bound = TRUE
  MaxCrashes = 0
  None = None
INVARIANTS
  AcceptedIsKept
  AcceptedIsTold
PROPERTIES
  RefinesQueue
