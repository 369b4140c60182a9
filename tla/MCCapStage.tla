----------------------------- MODULE MCCapStage -----------------------------
(* Small instances of CapStage: days of three minutes of two ticks, weeks of *)
(* two days, stays of up to five days, one or two daily caps and one or two  *)
(* weekly ones, in either order of id.                                      *)
EXTENDS CapStage

Day(id, boundary, most) ==
  [id |-> id, type |-> "daily_max", boundary |-> boundary, most |-> most]
Week(id, boundary, starts, most) ==
  [id |-> id, type |-> "weekly_max", starts_on |-> starts, boundary |-> boundary, most |-> most]

DayBoundaries == {"calendar_day", "rolling_24h"}
WeekBoundaries == {"calendar_week", "rolling_7d"}

OneOfEach == {{Day(d, db, 9), Week(3 - d, wb, s, m)} :
                d \in {1, 2}, db \in DayBoundaries, wb \in WeekBoundaries,
                s \in 0 .. 1, m \in {12, 20}}
TwoOfOne == {{Day(1, "calendar_day", 9), Day(2, "rolling_24h", 8)},
             {Day(1, "calendar_day", 9), Day(2, "calendar_day", 8), Week(3, "calendar_week", 1, 14)},
             {Week(1, "calendar_week", 1, 14), Week(2, "rolling_7d", 0, 13)},
             {Day(2, "rolling_24h", 7), Week(1, "rolling_7d", 0, 15),
              Week(3, "calendar_week", 0, 13)}}

Zones == {[at |-> 0, before |-> 0, after |-> 0], [at |-> 8, before |-> 0, after |-> 2],
          [at |-> 15, before |-> 0, after |-> -2]}

Rates == {[kind |-> "rate", first_len |-> 1, first |-> 8, repeat_len |-> 1, repeat |-> 4],
          [kind |-> "rate", first_len |-> 2, first |-> 3, repeat_len |-> 2, repeat |-> 5]}

Calls(caps, zones, entries, lengths) ==
  LET stays == {[entry |-> a, exit |-> a + n] : a \in entries, n \in lengths}
  IN  {[stay |-> s, zone |-> z, rate |-> r, base |-> ChargedBy(r, Duration(s)), caps |-> c] :
         s \in stays, z \in zones, r \in Rates, c \in caps}
      \cup
      {[stay |-> s, zone |-> z, rate |-> Flat, base |-> 30, caps |-> c] :
         s \in stays, z \in zones, c \in caps}

MCCapCall == Calls(OneOfEach \cup TwoOfOne, Zones, {0, 2, 5, 7, 9},
                   {0, 1, 5, 6, 7, 11, 12, 16, 21, 26, 29})
=============================================================================
