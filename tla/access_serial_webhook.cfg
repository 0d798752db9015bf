SPECIFICATION Spec
CONSTANTS
  Requests <- OneRequest
  Workers = {w1}
  Profile <- CriticalProfile
  Creator <- Requested
  LinkedCase <- OneRequest
  Principals <- Deciders
  EvidenceCatalog <- CriticalEvidence
  Provider = "signed_webhook"
  ReviewProvider = "groq"
  Isolation = "serial"
  MaxAttempts = 2
  MaxVersion = 7
  MaxCrashes = 1
INVARIANT AuthorityInvariant
PROPERTIES ImplementsLifecycle VersionIdentifiesRow
CHECK_DEADLOCK FALSE
