SPECIFICATION FairSpec
CONSTANTS
  Requests <- OneRequest
  Workers = {w1}
  Profile <- InternalProfile
  Creator <- Requested
  LinkedCase <- OneRequest
  Principals <- Deciders
  EvidenceCatalog <- InternalEvidence
  Provider = "sandbox"
  ReviewProvider = "disabled"
  Isolation = "serial"
  MaxAttempts = 3
  MaxVersion = 7
  MaxCrashes = 2
INVARIANT PendingWorkHasJob
PROPERTIES AccessIsTemporary RevocationTakesEffect
CHECK_DEADLOCK FALSE
