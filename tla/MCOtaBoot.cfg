CONSTANTS
  first = first
  better = better
  deaf = deaf
  broken = broken
  None = None
  Images <- AllImages
  Factory = first
  Reaching = {first, better}
  Crashing = {broken}
  RecordLen <- SameLength
  EmptyBodies = TRUE
  MaxSeq = 3
  MaxCuts = 1
  MaxFaults = 1
SPECIFICATION Spec
INVARIANT OtaTypeOK
INVARIANT WayBack
PROPERTY UpdateIsSafe
PROPERTY TrialEnds
CHECK_DEADLOCK TRUE
