CONSTANTS
  x = x
  y = y
  None = None
  Sector = 2
  Sectors = 2
  Slots = {0, 1}
  Units <- MCUnits
  Bodies <- MCBodies
SPECIFICATION Spec
INVARIANT HeaderMeansData
INVARIANT SectorsAligned
PROPERTY ImplementsCells
CHECK_DEADLOCK TRUE
