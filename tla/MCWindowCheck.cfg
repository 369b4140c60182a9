CONSTANTS
  MinuteTicks = 2
  MinutesInADay = 3
  DaysInAWeek = 2
  LastTick = 14
  RawWindows <- MCRawWindows
  Zones <- MCZones
  Entries <- MCEntries
SPECIFICATION Spec
INVARIANTS AppliesInside OnceLostStaysLost ReadingDecides NoDeadWindow
CHECK_DEADLOCK FALSE
