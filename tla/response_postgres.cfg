SPECIFICATION Spec
CONSTANTS
  Cases <- OneCase
  EntityOf <- Actor
  Facts <- SeriousOnly
  Keys = {k1, k2}
  Asks <- Holds1
  People = {"alice", "bob"}
  Sessions = {s1, s2}
  Expiry = expiry
  ExpiryRuns = TRUE
  Faults = {"none", "connector"}
  Isolation = "postgresql"
  MaxAborts = 1
INVARIANTS TypeOK ControlIsAuthorised
SYMMETRY Symmetry
CHECK_DEADLOCK FALSE
