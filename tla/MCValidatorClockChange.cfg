CONSTANTS
  MinuteTicks = 1
  MinutesInADay = 48
  DaysInAWeek = 3
  ReferenceDate = 1
  MaxStayMinutes = 192
  LongestStay = 100
  Plans <- CeilingPlans
  Zones <- ClocksGoForward
SPECIFICATION Spec
INVARIANTS ProbeProduces
