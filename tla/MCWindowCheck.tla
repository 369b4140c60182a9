--------------------------- MODULE MCWindowCheck ---------------------------
(* Days of three minutes of two ticks, weeks of two days: every pair of      *)
(* entry limits, every exit limit, every span, on a weekday and on a date.   *)
EXTENDS WindowCheck

WindowsOn(kind, days, ceilings) ==
  {[kind |-> kind, days |-> days, enter_from |-> f, enter_by |-> b, exit_by |-> x,
    day_span |-> s, ceiling |-> c] :
     f, b, x \in TimesOfDay, s \in DOMAIN DAY_SPAN_LIMITS, c \in ceilings}

MCRawWindows ==
  WindowsOn("days_of_week", {1}, {Unbounded}) \cup WindowsOn("dates", {0, 1}, {Unbounded, 3})

(* No change; back a minute inside a day; forward a minute over a midnight.  *)
SteadyZone == [at |-> 0, before |-> 0, after |-> 0]
MCZones ==
  {SteadyZone, [at |-> 8, before |-> 2, after |-> 0], [at |-> 11, before |-> 0, after |-> 2]}

MCEntries == 0 .. 2 * DayTicks - 1
=============================================================================
