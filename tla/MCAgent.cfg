CONSTANTS
  s1 = s1
  s2 = s2
  n1 = n1
  Blank = Blank
  None = None
  MaxJoinFailures = 1
  PortalEdits = FALSE
  MaxMoves = 2
  MaxReboots = 1
  MaxFaults = 1
  Home <- MCHome
  Servers <- MCServers
  Names <- MCNames
SPECIFICATION Spec
INVARIANT TypeOK
INVARIANT WaitsForItsAnswer
INVARIANT NeverStranded
INVARIANT TargetIsConfig
CHECK_DEADLOCK TRUE
