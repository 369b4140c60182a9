------------------------------ MODULE CapStage ------------------------------
(***************************************************************************)
(* The CAP stage of one pricing pass: engine._priced at CAP, which applies *)
(* every cap covering the stay to the running total in ascending rule id,  *)
(* each told how the base's charge built up (engine._charged_by). A daily  *)
(* max answers in one step, whose inside is module DayWalk; a weekly max   *)
(* tallies its weeks one at a time first (weekly_max.week_ceilings).       *)
(***************************************************************************)
EXTENDS Caps

CONSTANTS CapCall   \* the CAP stages that are explored

(* A stage: the stay, the base's rate (or Flat) and what its lines charged, *)
(* and the caps covering the stay.                                          *)
DailyCap == [id : Nat, type : {"daily_max"},
             boundary : {"calendar_day", "rolling_24h"}, most : Nat]
WeeklyCap == [id : Nat, type : {"weekly_max"}, starts_on : 0 .. DaysInAWeek - 1,
              boundary : {"calendar_week", "rolling_7d"}, most : Nat]
CallType == [stay : StayType, zone : ZoneType, rate : RateType \cup {Flat},
             base : Nat, caps : SUBSET (DailyCap \cup WeeklyCap)]

Duration(stay) == MinutesUntil(stay.entry, stay.exit)

(* What the engine and the loader see to before CAP begins: the stay is not *)
(* longer than is priced, ids are unique, and the base's accrual is what its *)
(* lines charged (_charged_by stops the quote where it is not). The zone's   *)
(* dates follow one another; where they do not, see DayWalk.                *)
ASSUME CapCallAssumption ==
  \A c \in CapCall :
    /\ c \in CallType
    /\ c.stay.entry <= c.stay.exit
    /\ Duration(c.stay) <= MaxStayDays * MinutesInADay
    /\ \A a, b \in c.caps : a.id = b.id => a = b
    /\ c.rate # Flat => ChargedBy(c.rate, Duration(c.stay)) = c.base
    /\ OrdinaryZone(c.zone)

VARIABLES
  call,      \* the stage
  pending,   \* the caps that have not answered
  running,   \* the ledger's total
  weeks      \* Amounts, of the weekly max being asked: how many weeks and their sum

stageVars == <<call, pending, running, weeks>>

NoWeeks == [count |-> 0, total |-> 0]
-----------------------------------------------------------------------------
Dailies(c) == {k \in c.caps : k.type = "daily_max"}

(* _in_application_order: the lowest id of those that have not answered. *)
IsNext(cap) == cap \in pending /\ \A k \in pending : cap.id <= k.id

(* apply, both caps: the excess comes off, or the cap was not reached. *)
TakenDown(total, ceiling) ==
  IF total <= ceiling THEN total ELSE total + (ceiling - total)

StageInit ==
  /\ call \in CapCall
  /\ pending = call.caps
  /\ running = call.base
  /\ weeks = NoWeeks

(* daily_max.apply. *)
ApplyDaily(cap) ==
  /\ IsNext(cap)
  /\ cap.type = "daily_max"
  /\ running' = TakenDown(running, DailyCeiling(cap, call.stay, call.zone, call.rate))
  /\ pending' = pending \ {cap}
  /\ UNCHANGED <<call, weeks>>

(* week_ceilings: the next week's ceiling, tallied. *)
TallyWeek(cap) ==
  LET cut == WeeksOf(cap, call.stay, call.zone)
      week == weeks.count
  IN  /\ IsNext(cap)
      /\ cap.type = "weekly_max"
      /\ week \in DOMAIN cut
      /\ weeks' = [count |-> week + 1,
                   total |-> weeks.total
                     + WeekCeiling(cap, Dailies(call), call.stay, call.zone, call.rate,
                                   cut[week][1], cut[week][2])]
      /\ UNCHANGED <<call, pending, running>>

(* A fault: a weekly max goes on from the tally of the one before it. *)
ApplyWeeklyKeepsTally(cap) ==
  /\ IsNext(cap)
  /\ cap.type = "weekly_max"
  /\ weeks.count \notin DOMAIN WeeksOf(cap, call.stay, call.zone)
  /\ running' = TakenDown(running, weeks.total)
  /\ pending' = pending \ {cap}
  /\ UNCHANGED <<call, weeks>>

(* weekly_max.apply, once every week is tallied. *)
ApplyWeekly(cap) ==
  /\ IsNext(cap)
  /\ cap.type = "weekly_max"
  /\ weeks.count \notin DOMAIN WeeksOf(cap, call.stay, call.zone)
  /\ running' = TakenDown(running, weeks.total)
  /\ pending' = pending \ {cap}
  /\ weeks' = NoWeeks
  /\ UNCHANGED call

Done == pending = {}

StageStep == \E cap \in pending : ApplyDaily(cap) \/ TallyWeek(cap) \/ ApplyWeekly(cap)
StageNext == StageStep \/ (Done /\ UNCHANGED stageVars)

StageSpec == StageInit /\ [][StageNext]_stageVars
-----------------------------------------------------------------------------
(* The reference: every ceiling worked out from the base alone, whatever    *)
(* order the caps answer in, and the lowest of them.                        *)
WeeklyCeiling(c, cap) ==
  LET cut == WeeksOf(cap, c.stay, c.zone)
  IN  MapThenSumSet(LAMBDA i : WeekCeiling(cap, Dailies(c), c.stay, c.zone, c.rate,
                                           cut[i][1], cut[i][2]),
                    DOMAIN cut)

CeilingOf(c, cap) ==
  IF cap.type = "daily_max" THEN DailyCeiling(cap, c.stay, c.zone, c.rate)
  ELSE WeeklyCeiling(c, cap)

CappedFee(c) == Min({c.base} \cup {CeilingOf(c, k) : k \in c.caps})

(* The same stage for a car that leaves at another time. *)
LeavingAt(c, exit) ==
  LET stay == [c.stay EXCEPT !.exit = exit]
  IN  [c EXCEPT !.stay = stay,
                !.base = IF c.rate = Flat THEN @ ELSE ChargedBy(c.rate, Duration(stay))]

Nests(day, week) ==
  \/ day.boundary = "calendar_day" /\ week.boundary = "calendar_week"
  \/ day.boundary = "rolling_24h" /\ week.boundary = "rolling_7d"
-----------------------------------------------------------------------------
(* F33: the caps compose, and the lowest ceiling stands whichever order they *)
(* answered in, though a weekly max reads the daily caps' terms and a later  *)
(* cap sees a total an earlier one has already taken down.                  *)
LowestCeilingStands == Done => running = CappedFee(call)

(* Staying a minute longer never costs less, whichever days and weeks the    *)
(* minute opens or splits.                                                  *)
LongerNeverCheaper ==
  Done => \A more \in 1 .. MinuteTicks :
            running <= CappedFee(LeavingAt(call, call.stay.exit + more))

(* With a base that is a rate, and where the days of every daily max that   *)
(* has answered nest in a weekly max's weeks, the weekly max finds the total *)
(* at or above its own ceiling, and takes it down to exactly that: the daily *)
(* maxes have taken nothing off that its weeks had not.                      *)
NestedCapsCompose ==
  \A w \in pending :
    LET answered == call.caps \ pending
    IN  (/\ call.rate # Flat /\ w.type = "weekly_max" /\ answered # {}
         /\ \A k \in answered : k.type = "daily_max" /\ Nests(k, w))
        => CeilingOf(call, w) <= running
=============================================================================
