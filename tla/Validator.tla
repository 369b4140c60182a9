----------------------------- MODULE Validator -----------------------------
(***************************************************************************)
(* validate_plan: a plan asked about stays either side of every boundary it*)
(* states (probe_stays), each distinct gap and conflict kept with the      *)
(* first probe that found it. The questions are the engine's own           *)
(* (RateRules), and a time window is asked its own conditions (Windows).   *)
(*                                                                         *)
(* A probe is written in wall-clock minutes: `midnight + timedelta` moves  *)
(* the local reading, and both ends of a probe carry the plan's own zone,  *)
(* so that its length is the difference of two readings. What an owner is  *)
(* shown of it are the two instants those readings name (isoformat).       *)
(***************************************************************************)
EXTENDS Windows, RateRules

CONSTANTS Plans, Zones, ReferenceDate

Hour == MinutesInADay \div 24

ASSUME ValidatorAssumption ==
  /\ MinutesInADay % 24 = 0
  /\ ReferenceDate \in Int /\ MaxStayMinutes \in Nat
  /\ Zones \subseteq ZoneType
  /\ \A plan \in Plans :
       /\ plan.class_order \in Seq(plan.classes) /\ plan.class_order # << >>
       /\ plan.classes = Range(plan.class_order)
       /\ IsFiniteSet(plan.rules)
       /\ \A a, b \in plan.rules : a.id = b.id => a = b
       /\ \A r \in plan.rules :
            /\ r.type = "time_window" => /\ r.window \in WindowType /\ Loads(r.window)
                                        /\ IsFiniteSet(r.window.days)
            /\ r.stage = ACCUMULATE => /\ r.first_period \in Nat \ {0}
                                       /\ r.repeat_period \in Nat \ {0}
                                       /\ r.max \in {NoLimit} \cup (Nat \ {0})
-----------------------------------------------------------------------------
(* A stay by its two local readings, its minutes and what else is asked of   *)
(* it; and a plan as it stands for that stay, its windows' conditions asked. *)
StayOf(in, out, minutes, class, figure) ==
  [in |-> in, out |-> out, minutes |-> minutes, class |-> class, occupancy |-> figure,
   entry |-> in]

Asked(plan, stay) ==
  LET asked(r) == IF r.type = "time_window"
                  THEN r @@ [holds |-> Holds(r.window, stay.in, stay.out, stay.minutes)]
                  ELSE r
  IN  [plan EXCEPT !.rules = {asked(r) : r \in @}]

Ids(rules) == {r.id : r \in rules}

(* The rules a finding names (Finding.rule_ids). *)
About(code, plan, stay) ==
  CASE code = "GAP_STAY_EXCEEDS_MAX_DURATION" ->
         Ids({r \in RulesAt(plan, ACCUMULATE) : Covers(r, stay)})
    [] code = "CONFLICT_UNORDERED_ADJUSTMENTS" -> Ids(QualifiedAt(plan, stay, ADJUST))
    [] code = "CONFLICT_OVERLAPPING_FILL_RULES" ->
         Ids({r \in QualifiedAt(plan, stay, ADJUST) : Has("one_per_stay", r)})
    [] code = "GAP_NO_OCCUPANCY_AT_ENTRY" ->
         Ids({r \in plan.rules : Has("needs_occupancy_at_entry", r) /\ Covers(r, stay)})
    [] OTHER -> {}

(* find_gaps + find_conflicts, asked about one stay. *)
Found(plan, stay) ==
  LET p == Asked(plan, stay)
  IN  {<<c, About(c, p, stay)>> : c \in FindGaps(p, stay) \cup FindConflicts(p, stay)}
-----------------------------------------------------------------------------
(* A fault, and what the code read until U7g: only the specials' times.      *)
WindowsAtQualify(plan) ==
  {r.window : r \in {q \in plan.rules : q.type = "time_window" /\ q.stage = QUALIFY}}

(* _windowed_rules: every rule that states a day or a time, at every stage.  *)
WindowsOf(plan) == {r.window : r \in {q \in plan.rules : q.type = "time_window"}}

DEFAULT_PROBE_ENTRY_MINUTE == 7 * Hour

(* _entry_minutes_of_day. *)
EntryMinutesOfDay(plan) ==
  {m \in {DEFAULT_PROBE_ENTRY_MINUTE, 0}
           \cup UNION {{w.enter_by, w.enter_by - 1, w.enter_from, w.enter_from + 1} :
                         w \in WindowsOf(plan)} : m \in 0 .. MinutesInADay - 1}

ReferenceWeek == (ReferenceDate \div DaysInAWeek) * DaysInAWeek

(* _entry_dates: weekdays become the dates of the reference date's own week. *)
EntryDates(plan) ==
  LET stated(w) == IF w.kind = "days_of_week" THEN {ReferenceWeek + d : d \in w.days} ELSE w.days
  IN  {ReferenceDate} \cup UNION {stated(w) : w \in WindowsOf(plan)}

Around(length) == {length - 1, length, length + 1}

(* How long a stay from `minute` is when it leaves at the window's limit.    *)
LengthToLimit(w, minute) ==
  LET span == DAY_SPAN_LIMITS[w.day_span]
  IN  (IF span = Unbounded THEN 0 ELSE span * MinutesInADay) + w.exit_by - minute

(* _duration_marks: lengths either side of each period, each ceiling and each *)
(* exit limit, and some that cross one midnight and several.                 *)
DurationMarks(plan, minute) ==
  LET rates == {r \in plan.rules : r.stage = ACCUMULATE}
      periods == UNION {{r.first_period, r.repeat_period} : r \in rates}
      ceilings == {r.max : r \in rates} \ {NoLimit}
      limits == {l \in {LengthToLimit(w, minute) : w \in WindowsOf(plan)} : l > 0}
  IN  {0, 1, 17 * Hour, 25 * Hour, 49 * Hour}
        \cup {3 * MinutesInADay : r \in {q \in rates : q.max = NoLimit}}
        \cup UNION {Around(l) : l \in periods \cup ceilings \cup limits}

FULL_BP == 10000

(* _occupancy_marks. *)
OccupancyMarks(plan) ==
  LET fills == {r \in plan.rules : Has("needs_occupancy_at_entry", r)}
      marks == {FULL_BP} \cup UNION {{r.threshold_bp - 1, r.threshold_bp} : r \in fills}
  IN  IF fills = {} THEN {NoFigure} ELSE {m \in marks : m \in 0 .. FULL_BP}
-----------------------------------------------------------------------------
VARIABLES
  plan,
  zone,     \* plan.timezone
  at,       \* where probe_stays' nested loops stand
  seen,     \* finding -> the first probe that found it
  pc        \* "probing" or "done"

vars == <<plan, zone, at, seen, pc>>

After(marks, mark) == {m \in marks : m > mark}

LengthsAt(minute) == {m \in DurationMarks(plan, minute) : m >= 0}
First(marks) == Min(marks)

(* The first probe that enters at a class, a date and a minute. *)
ProbeFrom(class, date, minute) ==
  [class |-> class, date |-> date, minute |-> minute,
   length |-> First(LengthsAt(minute)), figure |-> First(OccupancyMarks(plan))]

ProbedStay(p) ==
  LET in == p.date * MinutesInADay + p.minute
  IN  StayOf(in, in + p.length, p.length, plan.class_order[p.class], p.figure)

Init ==
  /\ plan \in Plans
  /\ zone \in Zones
  /\ at = ProbeFrom(1, First(EntryDates(plan)), First(EntryMinutesOfDay(plan)))
  /\ seen = << >>
  /\ pc = "probing"

(* A fault: the entry is written for the exit too. *)
KeepEntryTwice(found) == seen @@ [f \in found |-> [at EXCEPT !.length = 0]]

(* A fault: a later probe takes the place of the first. *)
KeepLast(found) == [f \in found |-> at] @@ seen

(* seen.setdefault((code, rule_ids), ...). *)
Keep(found) ==
  [f \in DOMAIN seen \cup found |-> IF f \in DOMAIN seen THEN seen[f] ELSE at]

(* One stay asked; then the next of the innermost loop that has one left.    *)
Probe ==
  /\ pc = "probing"
  /\ seen' = Keep(Found(plan, ProbedStay(at)))
  /\ LET figures == After(OccupancyMarks(plan), at.figure)
         lengths == After(LengthsAt(at.minute), at.length)
         minutes == After(EntryMinutesOfDay(plan), at.minute)
         dates == After(EntryDates(plan), at.date)
     IN  \/ /\ figures # {}
            /\ at' = [at EXCEPT !.figure = First(figures)] /\ UNCHANGED pc
         \/ /\ figures = {} /\ lengths # {}
            /\ at' = [at EXCEPT !.length = First(lengths), !.figure = First(OccupancyMarks(plan))]
            /\ UNCHANGED pc
         \/ /\ figures \cup lengths = {} /\ minutes # {}
            /\ at' = ProbeFrom(at.class, at.date, First(minutes)) /\ UNCHANGED pc
         \/ /\ figures \cup lengths \cup minutes = {} /\ dates # {}
            /\ at' = ProbeFrom(at.class, First(dates), First(EntryMinutesOfDay(plan)))
            /\ UNCHANGED pc
         \/ /\ figures \cup lengths \cup minutes \cup dates = {} /\ at.class < Len(plan.class_order)
            /\ at' = ProbeFrom(at.class + 1, First(EntryDates(plan)), First(EntryMinutesOfDay(plan)))
            /\ UNCHANGED pc
         \/ /\ figures \cup lengths \cup minutes \cup dates = {} /\ at.class = Len(plan.class_order)
            /\ pc' = "done" /\ UNCHANGED at
  /\ UNCHANGED <<plan, zone>>

Done == pc = "done" /\ UNCHANGED vars

Next == Probe \/ Done

Spec == Init /\ [][Next]_vars
-----------------------------------------------------------------------------
Reported == DOMAIN seen

(* The instant a local reading names, of two the first, and in a gap by the  *)
(* offset before it (datetime, fold=0); and a stay sent to the engine by its *)
(* two instants, read there on the plan's own clock.                         *)
InstantAt(reading) ==
  LET ticks == reading * MinuteTicks
  IN  ticks - (IF ticks < zone.at + AtLeast(zone.before, zone.after) THEN zone.before ELSE zone.after)

Sent(entry, exit, class, figure) ==
  StayOf(LocalMinute(zone, entry), LocalMinute(zone, exit), MinutesUntil(entry, exit), class, figure)

(* What quote names when it refuses the stay, this plan in force. *)
RefusedFor(stay) ==
  IF TooLong(stay) THEN {<<"GAP_STAY_LONGER_THAN_MAX_STAY", {}>>} ELSE Found(plan, stay)

(* Every finding is one the engine refuses the stay shown with it for: the   *)
(* entry and exit an owner is told about, sent to quote, give that finding   *)
(* (F49, R5).                                                               *)
ProbeProduces ==
  \A f \in Reported :
    LET p == ProbedStay(seen[f])
        entry == InstantAt(p.in)
        exit == InstantAt(p.out)
    IN  entry <= exit /\ f \in RefusedFor(Sent(entry, exit, p.class, p.occupancy))

(* The probe kept with a finding is the first that finds it: no probe before *)
(* it, in the order they are made, does (F49).                               *)
Earlier(p, q) ==
  \/ p.class < q.class
  \/ p.class = q.class /\ p.date < q.date
  \/ p.class = q.class /\ p.date = q.date /\ p.minute < q.minute
  \/ p.class = q.class /\ p.date = q.date /\ p.minute = q.minute /\ p.length < q.length

FirstProbeKept ==
  pc = "done" =>
    \A f \in Reported : \A c \in 1 .. seen[f].class, d \in EntryDates(plan),
       m \in EntryMinutesOfDay(plan), figure \in OccupancyMarks(plan) :
         \A l \in LengthsAt(m) :
           LET p == [class |-> c, date |-> d, minute |-> m, length |-> l, figure |-> figure]
           IN  Earlier(p, seen[f]) => f \notin Found(plan, ProbedStay(p))

CONSTANT LongestStay   \* the lengths EveryFindingShown looks at

(* Whatever stay of up to LongestStay enters in the week of the reference    *)
(* date, the engine refuses it for nothing the owner was not shown (F19, and *)
(* the README's "a conflict a rule can currently express is one this finds").*)
(* Not so of a window without a last day on a stay that leaves on a later    *)
(* date: its limit is probed on the date of entry alone. Nor of every plan:  *)
(* of the minutes outside an entry limit only 0:00 and 7:00 are probed, so   *)
(* that the hours between two windows may be looked at by no probe.         *)
LimitsAreProbed(in, out) ==
  DateOf(in) = DateOf(out) \/ \A w \in WindowsOf(plan) : w.day_span # "any_span"

EveryFindingShown ==
  pc = "done" =>
    \A class \in plan.classes, figure \in OccupancyMarks(plan),
       day \in 0 .. DaysInAWeek - 1, minute \in 0 .. MinutesInADay - 1 :
      LET entry == ((ReferenceWeek + day) * MinutesInADay + minute) * MinuteTicks
      IN  \A length \in 0 .. LongestStay :
            LET stay == Sent(entry, entry + length * MinuteTicks, class, figure)
            IN  LimitsAreProbed(stay.in, stay.out) => RefusedFor(stay) \subseteq Reported
=============================================================================
