SPECIFICATION FairSpec
CONSTANTS
  Cases <- OneCase
  EntityOf <- Actor
  Facts <- Changing
  Keys = {k1, k2}
  Asks <- Holds2
  People = {"alice", "bob"}
  Sessions = {s1}
  Expiry = expiry
  ExpiryRuns = TRUE
  Faults = {"none", "connector"}
  Isolation = "serial"
  MaxAborts = 1
INVARIANTS ControlFollowsOwner NoDuplicateHold
PROPERTIES TerminalStaysTerminal ImplementsHolds HoldsEnd
CHECK_DEADLOCK FALSE
