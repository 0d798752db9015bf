SPECIFICATION Spec
CONSTANTS
  Requests <- OneRequest
  Workers = {w1}
  Profile <- InternalProfile
  Creator <- Requested
  LinkedCase <- OneRequest
  Principals <- Deciders
  EvidenceCatalog <- InternalEvidence
  Provider = "signed_webhook"
  ReviewProvider = "disabled"
  Isolation = "serial"
  MaxAttempts = 5
  MaxVersion = 4
  MaxCrashes = 0
INVARIANT RevocationIsDurable
CHECK_DEADLOCK FALSE
