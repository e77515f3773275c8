CONSTANTS
  here = here
  there = there
  None = None
  Motion = Motion
  Servers <- HereOnly
  Home = here
  Commands = {}
  Others = {}
  LiveFrames = 0
  MaxJoinFailures = 1
  MaxEvents = 1
  MaxFaults = 1
SPECIFICATION Spec
PROPERTY PhotoArrives
CHECK_DEADLOCK TRUE
