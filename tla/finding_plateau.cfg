SPECIFICATION Spec
CONSTANTS
  Length = 10
  One <- Exact
  Values <- LowHigh
  Forget = 4
  Delta <- AnEighth
  Lambda <- ThreeEighths
INVARIANT PlateauReportsOnce
CHECK_DEADLOCK FALSE
