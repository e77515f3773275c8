CONSTANTS
  here = here
  there = there
  None = None
  Motion = Motion
  Servers <- HereOnly
  Home = here
  Commands <- CacheCommands
  Others = {messages}
  LiveFrames = 2
  MaxJoinFailures = 1
  MaxEvents = 1
  MaxFaults = 1
SPECIFICATION Spec
INVARIANT TypeOK
INVARIANT OwnAnswer
INVARIANT StampOfPhoto
PROPERTY PhotoIsKept
CHECK_DEADLOCK TRUE
