CONSTANTS
  s1 = s1
  s2 = s2
  n1 = n1
  Blank = Blank
  None = None
  MaxJoinFailures = 1
  PortalEdits = FALSE
  MaxMoves = 1
  MaxReboots = 1
  MaxFaults = 1
  Home <- MCHome
  Servers <- MCServers
  Names <- MCNames
SPECIFICATION Spec
PROPERTY TrialEnds
PROPERTY CheckIsAnswered
CHECK_DEADLOCK TRUE
