SPECIFICATION Spec
CONSTANTS
  Requests <- OneRequest
  Workers = {w1, w2}
  Profile <- InternalProfile
  Creator <- Requested
  LinkedCase = {}
  Principals <- Deciders
  EvidenceCatalog <- InternalEvidence
  Provider = "signed_webhook"
  ReviewProvider = "disabled"
  Isolation = "postgresql"
  MaxAttempts = 2
  MaxVersion = 5
  MaxCrashes = 1
INVARIANTS TypeOK AccessNeedsAuthority GrantStateTruthful
SYMMETRY WorkerSymmetry
CHECK_DEADLOCK FALSE
