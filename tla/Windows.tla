------------------------------ MODULE Windows ------------------------------
(***************************************************************************)
(* The conditions of a time window (rules/time_window.py): the day the car *)
(* came in, the entry limits, and how late it may leave. Every one of them *)
(* is read off a local wall clock truncated to the minute (wallclock.py).  *)
(*                                                                         *)
(* A reading is one number, the minutes since local date 0 began; its date *)
(* and its time of day are the two parts the code compares.                *)
(***************************************************************************)
EXTENDS Clock

CONSTANT DaysInAWeek

ASSUME WeekAssumption == DaysInAWeek \in Nat \ {0}

(* A fault: a part-minute counts as the minute after it. *)
LocalMinuteRoundedUp(zone, instant) == CeilDiv(WallClock(zone, instant), MinuteTicks)

(* wallclock.local_minute. *)
LocalMinute(zone, instant) == WallClock(zone, instant) \div MinuteTicks

DateOf(reading) == reading \div MinutesInADay
TimeOf(reading) == reading % MinutesInADay

(* What %H:%M and the date of a breakdown line show of an instant. *)
Printed(zone, instant) ==
  <<LocalDate(zone, instant), (WallClock(zone, instant) % DayTicks) \div MinuteTicks>>

Unbounded == -1   \* no ceiling, no last day

(* DAY_SPAN_LIMITS: how many local days after entry the exit may fall. *)
DAY_SPAN_LIMITS == [same_day |-> 0, next_day |-> 1, any_span |-> Unbounded]

TimesOfDay == 0 .. MinutesInADay - 1   \* what "HH:MM" can name

(* A window. Days of the week are numbered; `ceiling` is max_duration_minutes *)
(* of a `rate` effect.                                                      *)
WindowType ==
  {w \in [kind : {"days_of_week", "dates"}, days : SUBSET Int,
         enter_from : TimesOfDay, enter_by : TimesOfDay, exit_by : TimesOfDay,
         day_span : DOMAIN DAY_SPAN_LIMITS, ceiling : {Unbounded} \cup (Nat \ {0})] :
     w.kind = "days_of_week" => w.days \subseteq 0 .. DaysInAWeek - 1}

(* A fault: only any_span refuses a limit that would have to wrap. *)
LoadsWhateverTheSpan(w) ==
  /\ w.days # {}
  /\ w.enter_from <= w.enter_by
  /\ w.exit_by < w.enter_from => w.day_span # "any_span"

(* build, _refuse_a_limit_that_cannot_be_meant, _days, _dates: the windows   *)
(* the loader takes. Under next_day a limit before enter_from is the         *)
(* ordinary evening window.                                                 *)
Loads(w) ==
  /\ w.days # {}
  /\ w.enter_from <= w.enter_by
  /\ w.exit_by < w.enter_from => w.day_span = "next_day"
-----------------------------------------------------------------------------
(* _applies_on_the_entry_date. *)
AppliesOn(w, date) ==
  (IF w.kind = "days_of_week" THEN date % DaysInAWeek ELSE date) \in w.days

(* _exit_limit: the date and the time a bounded window's limit falls on.     *)
ExitLimit(w, entry) == <<DateOf(entry) + DAY_SPAN_LIMITS[w.day_span], w.exit_by>>

Later(a, b) == a[1] > b[1] \/ (a[1] = b[1] /\ a[2] > b[2])

(* A fault, and what the code did before F39: the limit is a time of day     *)
(* whatever the span.                                                       *)
ExitFailureByTimeOfDay(w, entry, exit) ==
  LET span == DAY_SPAN_LIMITS[w.day_span]
  IN  IF span # Unbounded /\ DateOf(exit) - DateOf(entry) > span THEN {"day_span"}
      ELSE IF TimeOf(exit) > w.exit_by THEN {"exit_by"} ELSE {}

(* A fault: the span is not looked at where the limit is met.                *)
ExitFailureWithoutSpan(w, entry, exit) ==
  IF TimeOf(exit) > w.exit_by THEN {"exit_by"} ELSE {}

(* _exit_failure: the day span or the limit, never both.                     *)
ExitFailure(w, entry, exit) ==
  LET span == DAY_SPAN_LIMITS[w.day_span]
  IN  IF span # Unbounded /\ DateOf(exit) - DateOf(entry) > span THEN {"day_span"}
      ELSE IF span = Unbounded
      THEN IF TimeOf(exit) > w.exit_by THEN {"exit_by"} ELSE {}
      ELSE IF Later(<<DateOf(exit), TimeOf(exit)>>, ExitLimit(w, entry))
           THEN {"exit_by"} ELSE {}

DayFailure(w, entry) == IF AppliesOn(w, DateOf(entry)) THEN {} ELSE {"day"}

EntryFailure(w, entry) ==
  IF TimeOf(entry) < w.enter_from THEN {"enter_from"}
  ELSE IF TimeOf(entry) > w.enter_by THEN {"enter_by"} ELSE {}

CeilingFailure(w, minutes) ==
  IF w.ceiling # Unbounded /\ minutes > w.ceiling THEN {"ceiling"} ELSE {}

(* _failures, whole. *)
Failures(w, entry, exit, minutes) ==
  DayFailure(w, entry) \cup EntryFailure(w, entry)
    \cup ExitFailure(w, entry, exit) \cup CeilingFailure(w, minutes)

Holds(w, entry, exit, minutes) == Failures(w, entry, exit, minutes) = {}
=============================================================================
