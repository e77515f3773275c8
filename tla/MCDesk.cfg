CONSTANTS
  Radio = TRUE
  DayLength = 2
  SnoozeMin = 1
  Tunes = 2
  Nothing = Nothing
  MaxNow = 3
SPECIFICATION DeskSpec
CHECK_DEADLOCK FALSE
PROPERTY RingingKeysOnlySilence
