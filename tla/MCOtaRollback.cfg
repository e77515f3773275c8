CONSTANTS
  first = first
  better = better
  deaf = deaf
  broken = broken
  None = None
  Images <- FirstAndDeaf
  Factory = first
  Reaching = {first}
  Crashing = {}
  RecordLen <- LongerRecord
  EmptyBodies = FALSE
  MaxSeq = 4
  MaxCuts = 0
  MaxFaults = 0
SPECIFICATION Spec
INVARIANT SettingsSurvive
CHECK_DEADLOCK TRUE
