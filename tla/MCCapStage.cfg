CONSTANTS
  MinuteTicks = 2
  MinutesInADay = 3
  DaysInAWeek = 2
  MaxStayDays = 5
  CapCall <- MCCapCall
SPECIFICATION StageSpec
INVARIANTS LowestCeilingStands LongerNeverCheaper NestedCapsCompose
