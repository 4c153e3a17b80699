SPECIFICATION CycleSpec
CONSTANTS
  charter = charter
  module = module
  granted = granted
  other = other
  r1 = r1
  r2 = r2
  Paths = {charter, module}
  Protected = {charter}
  Planned = {charter, module}
  Templates = {module}
  Orders = {granted, other}
  Wants <- MCWants
  Granted = {granted}
  Routes = {r1, r2}
  NoRoute = NoRoute
  Lane <- MCLane
  Prime = r1
  Capability <- MCCapability
  Risky = {other}
  Texts = {1, 2}
  Weak = {1}
  Edited = {charter}
  MaxCycleCrashes = 1
INVARIANTS DriftTold Governed AppliedOnce
