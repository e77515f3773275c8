CONSTANTS
  builtIn = builtIn
  configA = configA
  configB = configB
  get = get
  reply = reply
  here = here
  there = there
  chime = chime
  beep = beep
  Defaults = builtIn
  NoConfig = NoConfig
  SeqMod = 6
  Configs <- MCConfigs
  Formats <- MCFormats
  None = None
  MaxJoinFailures = 3
  Requests <- MCRequests
  Answers <- MCAnswers
  Settings <- MCSettings
  CheckInGoal = "checkin"
  FocusGoal = "focus"
  BreatheGoal = "breathe"
  PlainGoals = {}
  PerGoal = 1
  PerHug = 1
  FullEnergy = 2
  HistoryDays = 1
  UnlockAt <- MCUnlockAt
  MaxDay = 2
  MaxTotal = 2
  MaxTrips = 1
  MaxFaults = 1
  Radio = TRUE
  DayLength = 2
  SnoozeMin = 1
  Tunes = 2
  Nothing = Nothing
  MaxNow = 3
  FullLight = 255
  BedsideDim = 10
  DimPercent = 30
  DimMin = 8
  LedsStep = 8
  LedsMin = 8
  Wrap = 6
  Works = {1, 2}
  Breaks = {1}
  MaxSessions = 2
  MaxLaps = 2
  MaxRun = 7
  MaxBase = 1
  Ids = {1, 2}
  AlbumSlots = {1, 2}
  ListMax = 2
  NoteIds = {1}
  Other = Other
  Nil = Nil
  Phones = {p1, p2, p3}
  TableSize = 2
  Unleased = Unleased
  Lines = 3
  MaxWarnings = 7
  Sounds = {chime, beep}
  TestSound = beep
  Samples <- MCSamples
  Chunk = 2
  Silence = Silence
  NoSound = NoSound
  Layout <- MCLayout
  Default = Default
SPECIFICATION MCSpec
INVARIANT PartsTypeOK
INVARIANT BootFindsSaved
INVARIANT PendingIsOwed
INVARIANT GoalsAddUp
INVARIANT UnsavedIsDirty
INVARIANT ScreenIsOwned
INVARIANT LightIsRestored
INVARIANT TimersKeepTime
INVARIANT AwaitsItsOwn
INVARIANT AlbumIsKept
INVARIANT SeenIsReported
INVARIANT LeasesDiffer
INVARIANT LogIsInOrder
INVARIANT SoundIsWhole
INVARIANT OlderRecordsRead
PROPERTY LiveCopySurvives
PROPERTY ImplementsCell
PROPERTY ResetWasConfirmed
PROPERTY LanesAreKept
PROPERTY ReachableAgain
PROPERTY PortalOpens
PROPERTY SystemIsServed
CHECK_DEADLOCK TRUE
