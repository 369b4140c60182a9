------------------------------- MODULE Clock -------------------------------
(***************************************************************************)
(* Time as the engine reads it. An instant is a whole number of ticks; a   *)
(* minute is MinuteTicks of them, so a part-minute exists; a local day is  *)
(* MinutesInADay minutes of wall clock. A zone keeps one change of its UTC *)
(* offset: `before` until the instant `at`, `after` from it on. One change *)
(* is enough, because the engine only ever compares boundaries on either   *)
(* side of the nearest one.                                                *)
(***************************************************************************)
EXTENDS Arith

CONSTANTS MinuteTicks, MinutesInADay

ASSUME ClockAssumption ==
  /\ MinuteTicks \in Nat \ {0}
  /\ MinutesInADay \in Nat \ {0}

DayTicks == MinuteTicks * MinutesInADay

ZoneType == [at : Int, before : Int, after : Int]

(* Stay.minutes_until: whole minutes from entry, a part-minute a minute. *)
MinutesUntil(entry, instant) == CeilDiv(instant - entry, MinuteTicks)
-----------------------------------------------------------------------------
(* zoneinfo, as the engine uses it: the local reading of an instant. *)
WallClock(zone, instant) ==
  instant + (IF instant < zone.at THEN zone.before ELSE zone.after)

(* instant.astimezone(zone).date(), dates counted from a date that is 0. *)
LocalDate(zone, instant) == WallClock(zone, instant) \div DayTicks

(* datetime.combine(date, time(0), tzinfo=zone).astimezone(UTC), fold=0: of  *)
(* two readings the first, and in a gap the offset before it.               *)
Midnight(zone, date) ==
  LET wall == date * DayTicks
  IN  wall - (IF wall < zone.at + AtLeast(zone.before, zone.after)
              THEN zone.before ELSE zone.after)

(* A zone whose every local date starts after the date before it and after  *)
(* every instant of that date: the offset moves by less than a day, and no   *)
(* local midnight lies strictly inside the stretch of wall clock that is     *)
(* repeated. Every zone in use today is one; the tz database holds past      *)
(* changes that are not (Pacific/Apia 2011, America/St_Johns to 2011).       *)
OrdinaryZone(zone) ==
  /\ zone.after - zone.before < DayTicks
  /\ zone.before - zone.after < DayTicks
  /\ zone.after < zone.before =>
       (zone.at + zone.before - 1) \div DayTicks = (zone.at + zone.after) \div DayTicks

(* No local midnight lies strictly inside a stretch the clocks skip, so that *)
(* each date starts at its midnight, or at the end of a gap that starts there.*)
NoMidnightSkipped(zone) ==
  zone.before < zone.after =>
    (zone.at + zone.after - 1) \div DayTicks = (zone.at + zone.before) \div DayTicks
=============================================================================
