SPECIFICATION Spec
CONSTANTS
  Events = {1, 2, 3}
  EventOf <- ThreeEvents
  Entries = {"project", "transfer", "reading"}
  EntryOf <- ThreeEntries
  ChangePoints = {30, 60}
  CaseIds = {1, 2}
  SignalsSeen <- QuietOrStrange
  Instants = {61, 70}
  Sessions = {s1, s2}
  Thresholds = {22}
  MaxFeedback = 1
  MaxCrashes = 1
SYMMETRY Interchangeable
INVARIANTS TypeOK CreditIsCurrent MatchedIsCurrent RiskWithinBounds LinearRevisions BudgetOnlyAdds LatchHasCase
PROPERTIES ContextNeverRaisesRisk RetroactiveIsFlagged
CHECK_DEADLOCK FALSE
