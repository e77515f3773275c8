CONSTANTS
  r = r
  yes = yes
  here = here
  there = there
  None = None
  MaxJoinFailures = 3
  Requests <- MCRequests
  Answers <- MCAnswers
  Settings <- MCSettings
SPECIFICATION NetSpec
CHECK_DEADLOCK TRUE
PROPERTY HotspotThenJoin
