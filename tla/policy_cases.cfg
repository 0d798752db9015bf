SPECIFICATION Spec
CONSTANTS
  Profiles <- AllProfiles
  Catalog <- SomeEvidence
INVARIANTS SensitivityOnlyTightens BreakGlassWaivesNoCheck
PROPERTY EvidenceOnlyCures
