SPECIFICATION Spec
CONSTANTS
  Requests = {r1}
  Processes = {"watch", "desktop"}
  Bound = TRUE
  MaxCrashes = 1
  None = None
SYMMETRY SymmetricRequests
INVARIANTS
  TypeOK
  NeverBoth
  ResultMeansHandled
