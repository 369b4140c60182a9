CONSTANTS
  MinuteTicks = 2
  MinutesInADay = 4
  DaysInAWeek = 2
  MaxStayDays = 4
  RUNS_SPELLED_OUT = 2
  Walk <- TwiceLived
SPECIFICATION Spec
INVARIANTS CapAnswers
