CONSTANTS
  s1 = s1
  s2 = s2
  n1 = n1
  Blank = Blank
  None = None
  MaxJoinFailures = 1
  PortalEdits = TRUE
  MaxMoves = 1
  MaxReboots = 0
  MaxFaults = 0
  Home <- MCHome
  Servers <- MCServers
  Names <- MCNames
SPECIFICATION Spec
CHECK_DEADLOCK TRUE
INVARIANT NeverStranded
