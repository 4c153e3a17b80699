SPECIFICATION Spec
CONSTANTS
  Emails = {e1, e2}
  Processes = {server, command}
  ProfileNames = {4}
  MaxCalls = 2
  MaxCrashes = 1
SYMMETRY SymmetricProcesses
INVARIANTS
  TypeOK
  HostedByInvite
  TokensEarned
  BoundToLink
  InviteOnce
  RevocationLasts
  AdmittedStay
CHECK_DEADLOCK FALSE
