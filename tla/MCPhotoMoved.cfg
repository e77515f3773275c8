CONSTANTS
  here = here
  there = there
  None = None
  Motion = Motion
  Servers <- HereAndThere
  Home = here
  Commands <- MoveThere
  Others = {}
  LiveFrames = 0
  MaxJoinFailures = 1
  MaxEvents = 2
  MaxFaults = 0
SPECIFICATION Spec
INVARIANT StampOfServer
CHECK_DEADLOCK TRUE
