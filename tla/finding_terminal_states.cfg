SPECIFICATION Spec
CONSTANTS
  Requests <- OneRequest
  Workers = {w1, w2}
  Profile <- InternalProfile
  Creator <- Requested
  LinkedCase <- OneRequest
  Principals <- Deciders
  EvidenceCatalog <- InternalEvidence
  Provider = "sandbox"
  ReviewProvider = "disabled"
  Isolation = "postgresql"
  MaxAttempts = 5
  MaxVersion = 5
  MaxCrashes = 0
PROPERTY TerminalStatesAreFinal
CHECK_DEADLOCK FALSE
