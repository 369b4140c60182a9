-------------------------------- MODULE Caps --------------------------------
(***************************************************************************)
(* What the daily and the weekly max hold a stay to, as operators: where   *)
(* each day and week starts (daily_max._day_starts, weekly_max.weeks_of),  *)
(* what the time in each was charged (increment.charged_by, charge_in) and *)
(* the ceiling each cap allows (daily_max.apply, weekly_max.week_ceilings).*)
(* A walk is a function from the indexes of its days to <<start, end>>.    *)
(* The loops that find the days one at a time are module DayWalk.          *)
(***************************************************************************)
EXTENDS Clock, FiniteSets, FiniteSetsExt

CONSTANTS DaysInAWeek, MaxStayDays

ASSUME CapsAssumption ==
  /\ DaysInAWeek \in Nat \ {0}
  /\ MaxStayDays \in Nat

(* A base that is one price for the whole stay says None of its accrual. *)
Flat == [kind |-> "flat"]

RateType == [kind : {"rate"}, first_len : Nat \ {0}, first : Nat,
             repeat_len : Nat \ {0}, repeat : Nat]
DayCapType == [boundary : {"calendar_day", "rolling_24h"}, most : Nat]
StayType == [entry : Int, exit : Int]
-----------------------------------------------------------------------------
(* increment._charges, added up: the first period is owed from the first    *)
(* instant, a repeat period from its first minute.                          *)
Repeats(rate, minutes) ==
  IF minutes <= rate.first_len THEN 0
  ELSE CeilDiv(minutes - rate.first_len, rate.repeat_len)

ChargedBy(rate, minutes) == rate.first + Repeats(rate, minutes) * rate.repeat

(* charge_in: what the time from `start` to `end` was charged. *)
ChargeIn(stay, rate, start, end) ==
  ChargedBy(rate, MinutesUntil(stay.entry, end))
    - (IF start = stay.entry THEN 0
       ELSE ChargedBy(rate, MinutesUntil(stay.entry, start)))
-----------------------------------------------------------------------------
(* A fault: a local midnight found by adding 24 hours to the one before. *)
DayStartByHours(cap, stay, zone, index) ==
  IF index = 0 THEN stay.entry
  ELSE IF cap.boundary = "rolling_24h" THEN stay.entry + index * DayTicks
  ELSE Midnight(zone, LocalDate(zone, stay.entry)) + index * DayTicks

(* _start_of_day: where the stay's day `index` starts, day 0 being entry's. *)
DayStart(cap, stay, zone, index) ==
  IF index = 0 THEN stay.entry
  ELSE IF cap.boundary = "rolling_24h" THEN stay.entry + index * DayTicks
  ELSE Midnight(zone, LocalDate(zone, stay.entry) + index)

(* _day_holding's first guess, from the date or the time since entry. *)
GuessedDay(cap, stay, zone, instant) ==
  IF cap.boundary = "rolling_24h" THEN (instant - stay.entry) \div DayTicks
  ELSE AtLeast(0, LocalDate(zone, instant) - LocalDate(zone, stay.entry))

(* _day_holding: the guess checked against the starts, both ways. *)
DayHolding(cap, stay, zone, instant) ==
  LET started(i) == DayStart(cap, stay, zone, i) <= instant
      back == Max({0} \cup {i \in 1 .. GuessedDay(cap, stay, zone, instant) : started(i)})
  IN  IF instant <= stay.entry THEN 0
      ELSE Min({i \in back .. back + MaxStayDays + 2 : ~started(i + 1)})

(* days_of, from the day numbered `first`. *)
DaysOf(cap, stay, zone, first) ==
  LET start(i) == DayStart(cap, stay, zone, i)
      last == IF stay.exit <= stay.entry THEN first
              ELSE Min({i \in first .. first + MaxStayDays + 2 : start(i + 1) >= stay.exit})
  IN  [i \in first .. last |-> <<start(i), IF i = last THEN stay.exit ELSE start(i + 1)>>]

(* pieces: those days cut down to the part of the stay from start to end. *)
PiecesOf(cap, stay, zone, start, end) ==
  LET days == DaysOf(cap, stay, zone, DayHolding(cap, stay, zone, start))
      inside(i) == days[i][1] < end /\ days[i][2] > start
      kept == {i \in DOMAIN days : \A j \in DOMAIN days : j <= i => inside(j)}
  IN  IF end <= start THEN [i \in {0} |-> <<start, end>>]
      ELSE [i \in kept |-> <<AtLeast(days[i][1], start), AtMost(days[i][2], end)>>]

(* A fault: a day is held to the max once it is over, and not before. *)
DaysPayWhenOver(cap, stay, zone, rate, start, end) ==
  LET parts == PiecesOf(cap, stay, zone, start, end)
      charge(i) == ChargeIn(stay, rate, parts[i][1], parts[i][2])
      pays(i) == IF parts[i][2] = end THEN charge(i) ELSE AtMost(cap.most, charge(i))
  IN  MapThenSumSet(pays, DOMAIN parts)

(* each_capped_day, summed: what the days of a part pay under the cap. *)
DaysPay(cap, stay, zone, rate, start, end) ==
  LET parts == PiecesOf(cap, stay, zone, start, end)
  IN  MapThenSumSet(LAMBDA i : AtMost(cap.most, ChargeIn(stay, rate, parts[i][1], parts[i][2])),
                    DOMAIN parts)

(* days_covered. *)
DaysCovered(cap, stay, zone) == Cardinality(DOMAIN DaysOf(cap, stay, zone, 0))

(* daily_max.apply: the most the stay may cost under this cap. *)
DailyCeiling(cap, stay, zone, rate) ==
  IF rate = Flat THEN cap.most * DaysCovered(cap, stay, zone)
  ELSE DaysPay(cap, stay, zone, rate, stay.entry, stay.exit)
-----------------------------------------------------------------------------
(* _week_start: the first date of the week a date falls in. Date 0 is the   *)
(* first day of a week that starts on day 0.                                *)
WeekOf(date, startsOn) == date - ((date - startsOn) % DaysInAWeek)

WeekStart(cap, stay, zone, index) ==
  IF index = 0 THEN stay.entry
  ELSE IF cap.boundary = "rolling_7d" THEN stay.entry + index * DaysInAWeek * DayTicks
  ELSE Midnight(zone, WeekOf(LocalDate(zone, stay.entry), cap.starts_on)
                        + index * DaysInAWeek)

(* weeks_of: the stay cut at this cap's week boundaries. *)
WeeksOf(cap, stay, zone) ==
  LET start(i) == WeekStart(cap, stay, zone, i)
      last == IF stay.exit = stay.entry THEN 0
              ELSE Min({i \in 0 .. MaxStayDays + 2 : start(i + 1) >= stay.exit})
  IN  [i \in 0 .. last |-> <<start(i), IF i = last THEN stay.exit ELSE start(i + 1)>>]

(* A fault: a week's ceiling that forgets the daily caps beside it. *)
WeekCeilingAlone(cap, dayCaps, stay, zone, rate, start, end) ==
  Min({cap.most} \cup (IF rate = Flat THEN {} ELSE {ChargeIn(stay, rate, start, end)}))

(* week_ceilings, one week: the week's charge, each of its days capped by    *)
(* every daily cap beside it, and no more than the weekly max.              *)
WeekCeiling(cap, dayCaps, stay, zone, rate, start, end) ==
  LET byDays == {IF rate = Flat
                 THEN d.most * Cardinality(DOMAIN PiecesOf(d, stay, zone, start, end))
                 ELSE DaysPay(d, stay, zone, rate, start, end) : d \in dayCaps}
      charged == IF rate = Flat THEN {} ELSE {ChargeIn(stay, rate, start, end)}
  IN  Min({cap.most} \cup charged \cup byDays)
=============================================================================
