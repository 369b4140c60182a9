------------------------ MODULE WindowCheck_proofs ------------------------
(***************************************************************************)
(* What a time window answers, for any window the loader takes, any zone   *)
(* and any stay. The arithmetic is that of a reading and its two parts, the*)
(* date and the time of day; the invariant says which conditions have been *)
(* looked at, and that the answer a tick ago was of the stay a tick ago.   *)
(***************************************************************************)
EXTENDS WindowCheck, FiniteSetTheorems, TLAPS

Typed ==
  /\ window \in WindowType /\ Loads(window)
  /\ zone \in ZoneType /\ entry \in Entries /\ exit \in Int /\ entry <= exit
  /\ exit <= entry + LastTick

Looked ==
  /\ pc = "day" => failed = {}
  /\ pc = "entry" => failed = DayFailure(window, EntryLocal)
  /\ pc = "exit" => failed = DayFailure(window, EntryLocal) \cup EntryFailure(window, EntryLocal)
  /\ pc = "ceiling" => failed = DayFailure(window, EntryLocal) \cup EntryFailure(window, EntryLocal)
                                  \cup ExitFailure(window, EntryLocal, ExitLocal)
  /\ pc = "said" => failed = Failures(window, EntryLocal, ExitLocal, Minutes)

(* What was said a tick ago was said of the stay that ended a tick ago.       *)
Remembered ==
  before = "not_applied" =>
    ~Holds(window, EntryLocal, LocalMinute(zone, exit - 1), MinutesUntil(entry, exit - 1))

IInv == Typed /\ Looked /\ Remembered
-----------------------------------------------------------------------------
LEMMA SpanLimits ==
  /\ DOMAIN DAY_SPAN_LIMITS = {"same_day", "next_day", "any_span"}
  /\ DAY_SPAN_LIMITS["same_day"] = 0 /\ DAY_SPAN_LIMITS["next_day"] = 1
  /\ DAY_SPAN_LIMITS["any_span"] = -1
BY DEF DAY_SPAN_LIMITS, Unbounded

LEMMA WindowParts ==
  ASSUME NEW w \in WindowType
  PROVE  /\ w.enter_from \in TimesOfDay /\ w.enter_by \in TimesOfDay /\ w.exit_by \in TimesOfDay
         /\ w.day_span \in {"same_day", "next_day", "any_span"}
         /\ w.ceiling \in {-1} \cup (Nat \ {0})
         /\ w.kind \in {"days_of_week", "dates"} /\ w.days \subseteq Int
         /\ w.kind = "days_of_week" => w.days \subseteq 0 .. DaysInAWeek - 1
BY SpanLimits DEF WindowType, Unbounded

(* Division of whole numbers.                                                *)
LEMMA Parts ==
  ASSUME NEW x \in Int, NEW m \in Nat \ {0}
  PROVE  /\ x \div m \in Int /\ x % m \in 0 .. m - 1
         /\ x = (x \div m) * m + (x % m)
OBVIOUS

LEMMA OnlyParts ==
  ASSUME NEW m \in Nat \ {0}, NEW q \in Int, NEW r \in 0 .. m - 1
  PROVE  (q * m + r) \div m = q /\ (q * m + r) % m = r
OBVIOUS

LEMMA TimesMonotone ==
  ASSUME NEW m \in Nat \ {0}, NEW a \in Int, NEW b \in Int, a < b
  PROVE  a * m + m <= b * m
<1>1. (b - a - 1) * m >= 0
  OBVIOUS
<1> QED
  BY <1>1

LEMMA DivMonotone ==
  ASSUME NEW m \in Nat \ {0}, NEW x \in Int, NEW y \in Int, x <= y
  PROVE  x \div m <= y \div m
<1>1. x = (x \div m) * m + (x % m) /\ y = (y \div m) * m + (y % m)
      /\ x % m \in 0 .. m - 1 /\ y % m \in 0 .. m - 1 /\ x \div m \in Int /\ y \div m \in Int
  BY Parts
<1>2. y \div m < x \div m => (y \div m) * m + m <= (x \div m) * m
  BY <1>1, TimesMonotone
<1> QED
  BY <1>1, <1>2

(* Of two readings the later is the one of the later date, or of the later   *)
(* time on one date.                                                        *)
LEMMA Lexicographic ==
  ASSUME NEW a \in Int, NEW b \in Int, NEW s \in TimesOfDay, NEW t \in TimesOfDay
  PROVE  a * MinutesInADay + s <= b * MinutesInADay + t <=> a < b \/ (a = b /\ s <= t)
<1>1. MinutesInADay \in Nat \ {0}
  BY ClockAssumption
<1>2. a < b => a * MinutesInADay + MinutesInADay <= b * MinutesInADay
  BY <1>1, TimesMonotone
<1>3. b < a => b * MinutesInADay + MinutesInADay <= a * MinutesInADay
  BY <1>1, TimesMonotone
<1> QED
  BY <1>1, <1>2, <1>3 DEF TimesOfDay

LEMMA ReadingParts ==
  ASSUME NEW x \in Int
  PROVE  /\ DateOf(x) \in Int /\ TimeOf(x) \in TimesOfDay
         /\ x = DateOf(x) * MinutesInADay + TimeOf(x)
BY ClockAssumption, Parts DEF DateOf, TimeOf, TimesOfDay

LEMMA ReadingOf ==
  ASSUME NEW date \in Int, NEW time \in TimesOfDay
  PROVE  /\ date * MinutesInADay + time \in Int
         /\ DateOf(date * MinutesInADay + time) = date
         /\ TimeOf(date * MinutesInADay + time) = time
BY ClockAssumption, OnlyParts DEF DateOf, TimeOf, TimesOfDay
-----------------------------------------------------------------------------
LEMMA ReadingsAreWhole ==
  ASSUME NEW z \in ZoneType, NEW t \in Int
  PROVE  WallClock(z, t) \in Int /\ LocalMinute(z, t) \in Int
<1>1. WallClock(z, t) \in Int
  BY DEF WallClock, ZoneType
<1> QED
  BY <1>1, Parts, ClockAssumption DEF LocalMinute

LEMMA MinutesAreWhole ==
  ASSUME NEW t \in Int, NEW u \in Int
  PROVE  MinutesUntil(t, u) \in Int
<1>1. (-(u - t)) \div MinuteTicks \in Int
  BY Parts, ClockAssumption
<1> QED
  BY <1>1 DEF MinutesUntil, CeilDiv

(* The conditions on the exit are one: out by exit_by of the last day.        *)
LEMMA ExitInside ==
  ASSUME NEW w \in WindowType, NEW in \in Int, NEW out \in Int
  PROVE  LET midnight == DateOf(in) * MinutesInADay
             lastDays == IF w.day_span = "same_day" THEN {0}
                         ELSE IF w.day_span = "next_day" THEN {1}
                         ELSE {DateOf(out) - DateOf(in)}
         IN  ExitFailure(w, in, out) = {} <=>
               \E d \in lastDays : out <= midnight + d * MinutesInADay + w.exit_by
<1> DEFINE midnight == DateOf(in) * MinutesInADay
           late(d) == out <= midnight + d * MinutesInADay + w.exit_by
<1>1. MinutesInADay \in Nat \ {0} /\ w.exit_by \in TimesOfDay
  BY ClockAssumption, WindowParts
<1>2. /\ DateOf(in) \in Int /\ DateOf(out) \in Int /\ TimeOf(out) \in TimesOfDay
      /\ out = DateOf(out) * MinutesInADay + TimeOf(out)
  BY ReadingParts
<1>3. ASSUME NEW d \in Int
      PROVE  late(d) <=> DateOf(out) < DateOf(in) + d
                           \/ (DateOf(out) = DateOf(in) + d /\ TimeOf(out) <= w.exit_by)
  <2>1. midnight + d * MinutesInADay + w.exit_by = (DateOf(in) + d) * MinutesInADay + w.exit_by
    BY <1>1, <1>2 DEF TimesOfDay
  <2>2. DateOf(in) + d \in Int
    BY <1>2
  <2>3. DateOf(out) * MinutesInADay + TimeOf(out) <= (DateOf(in) + d) * MinutesInADay + w.exit_by
          <=> DateOf(out) < DateOf(in) + d
                \/ (DateOf(out) = DateOf(in) + d /\ TimeOf(out) <= w.exit_by)
    BY <1>1, <1>2, <2>2, Lexicographic
  <2>4. late(d) <=> out <= (DateOf(in) + d) * MinutesInADay + w.exit_by
    BY <2>1, Zenon
  <2> HIDE DEF late
  <2> QED
    BY <1>2, <2>3, <2>4, Zenon
<1> HIDE DEF late
<1>4. CASE w.day_span = "same_day"
  <2>1. ExitFailure(w, in, out) = {} <=>
          DateOf(out) - DateOf(in) <= 0 /\ ~Later(<<DateOf(out), TimeOf(out)>>, ExitLimit(w, in))
    BY <1>2, <1>4, SpanLimits DEF ExitFailure, Unbounded
  <2>2. ExitLimit(w, in) = <<DateOf(in) + 0, w.exit_by>>
    BY <1>4, SpanLimits DEF ExitLimit
  <2>3. ExitFailure(w, in, out) = {} <=> late(0)
    BY <1>1, <1>2, <1>3, <2>1, <2>2 DEF Later, TimesOfDay
  <2> QED
    BY <1>4, <2>3 DEF late
<1>5. CASE w.day_span = "next_day"
  <2>1. ExitFailure(w, in, out) = {} <=>
          DateOf(out) - DateOf(in) <= 1 /\ ~Later(<<DateOf(out), TimeOf(out)>>, ExitLimit(w, in))
    BY <1>2, <1>5, SpanLimits DEF ExitFailure, Unbounded
  <2>2. ExitLimit(w, in) = <<DateOf(in) + 1, w.exit_by>>
    BY <1>5, SpanLimits DEF ExitLimit
  <2>3. ExitFailure(w, in, out) = {} <=> late(1)
    BY <1>1, <1>2, <1>3, <2>1, <2>2 DEF Later, TimesOfDay
  <2> QED
    BY <1>5, <2>3 DEF late
<1>6. CASE w.day_span = "any_span"
  <2>1. DateOf(out) - DateOf(in) \in Int
    BY <1>2
  <2>2. ExitFailure(w, in, out) = {} <=> TimeOf(out) <= w.exit_by
    BY <1>1, <1>2, <1>6, SpanLimits DEF ExitFailure, Unbounded, TimesOfDay
  <2>3. ExitFailure(w, in, out) = {} <=> late(DateOf(out) - DateOf(in))
    BY <1>2, <1>3, <2>1, <2>2
  <2> QED
    BY <1>6, <2>3 DEF late
<1> QED
  BY <1>4, <1>5, <1>6, WindowParts

LEMMA EntryInside ==
  ASSUME NEW w \in WindowType, NEW in \in Int
  PROVE  EntryFailure(w, in) = {} <=>
           in \in DateOf(in) * MinutesInADay + w.enter_from
                    .. DateOf(in) * MinutesInADay + w.enter_by
<1>1. w.enter_from \in Int /\ w.enter_by \in Int /\ MinutesInADay \in Int
  BY ClockAssumption, WindowParts DEF TimesOfDay
<1>2. /\ DateOf(in) \in Int /\ TimeOf(in) \in Int
      /\ in = DateOf(in) * MinutesInADay + TimeOf(in)
  BY ReadingParts DEF TimesOfDay
<1> DEFINE midnight == DateOf(in) * MinutesInADay
<1>3. midnight \in Int /\ in = midnight + TimeOf(in)
  BY <1>1, <1>2
<1> HIDE DEF midnight
<1>4. EntryFailure(w, in) = {} <=> ~(TimeOf(in) < w.enter_from) /\ ~(TimeOf(in) > w.enter_by)
  BY DEF EntryFailure
<1>5. in \in midnight + w.enter_from .. midnight + w.enter_by <=>
        w.enter_from <= TimeOf(in) /\ TimeOf(in) <= w.enter_by
  BY <1>1, <1>2, <1>3
<1> QED
  BY <1>1, <1>2, <1>4, <1>5 DEF midnight

LEMMA HoldsInside ==
  ASSUME NEW w \in WindowType, NEW in \in Int, NEW out \in Int, NEW minutes \in Int
  PROVE  Holds(w, in, out, minutes) <=> Inside(w, in, out, minutes)
<1>1. DayFailure(w, in) = {} <=> AppliesOn(w, DateOf(in))
  BY DEF DayFailure
<1>2. CeilingFailure(w, minutes) = {} <=> w.ceiling = Unbounded \/ minutes <= w.ceiling
  BY WindowParts DEF CeilingFailure, Unbounded
<1>3. Holds(w, in, out, minutes) <=>
        /\ DayFailure(w, in) = {} /\ EntryFailure(w, in) = {}
        /\ ExitFailure(w, in, out) = {} /\ CeilingFailure(w, minutes) = {}
  BY DEF Holds, Failures
<1> QED
  BY <1>1, <1>2, <1>3, EntryInside, ExitInside DEF Inside
-----------------------------------------------------------------------------
LEMMA InitEstablishes == Init => IInv
BY WindowCheckAssumption DEF Init, IInv, Typed, Looked, Remembered

LEMMA StepKeeps == IInv /\ [Next]_vars => IInv'
<1> SUFFICES ASSUME IInv, [Next]_vars
    PROVE  IInv'
  OBVIOUS
<1>1. ASSUME NEW here, NEW next, NEW found, Check(here, next, found), Looked'
      PROVE  IInv'
  BY <1>1 DEF Check, IInv, Typed, Remembered, EntryLocal
<1>2. CASE CheckDay
  BY <1>1, <1>2 DEF CheckDay, Check, IInv, Looked, EntryLocal, ExitLocal, Minutes
<1>3. CASE CheckEntry
  BY <1>1, <1>3 DEF CheckEntry, Check, IInv, Looked, EntryLocal, ExitLocal, Minutes
<1>4. CASE CheckExit
  BY <1>1, <1>4 DEF CheckExit, Check, IInv, Looked, EntryLocal, ExitLocal, Minutes
<1>5. CASE CheckCeiling
  BY <1>1, <1>5 DEF CheckCeiling, Check, IInv, Looked, EntryLocal, ExitLocal, Minutes, Failures
<1>6. CASE AskLater
  <2>1. Typed'
    BY <1>6, WindowCheckAssumption DEF AskLater, IInv, Typed
  <2>2. Looked'
    BY <1>6 DEF AskLater, Looked
  <2>3. exit' - 1 = exit
    BY <1>6 DEF AskLater, IInv, Typed
  <2>4. before' = "not_applied" => ~Holds(window, EntryLocal, ExitLocal, Minutes)
    BY <1>6 DEF AskLater, IInv, Looked, Holds
  <2>5. Remembered'
    BY <1>6, <2>3, <2>4 DEF AskLater, Remembered, EntryLocal, ExitLocal, Minutes
  <2> QED
    BY <2>1, <2>2, <2>5 DEF IInv
<1>7. CASE UNCHANGED vars
  BY <1>7 DEF vars, IInv, Typed, Looked, Remembered, EntryLocal, ExitLocal, Minutes
<1> QED
  BY <1>2, <1>3, <1>4, <1>5, <1>6, <1>7 DEF Next

LEMMA Always == Spec => []IInv
BY InitEstablishes, StepKeeps, PTL DEF Spec
-----------------------------------------------------------------------------
(* A window applies exactly inside the stretch of local time it states, and  *)
(* gives one reason for a side that fails (F2, F25, F27, F28, F39).          *)
THEOREM ExactlyInside == Spec => []AppliesInside
<1>1. IInv => AppliesInside
  <2> SUFFICES ASSUME IInv, pc = "said"
      PROVE  /\ (failed = {}) = Inside(window, EntryLocal, ExitLocal, Minutes)
             /\ Cardinality(failed \cap {"enter_from", "enter_by"}) <= 1
             /\ Cardinality(failed \cap {"day_span", "exit_by"}) <= 1
    BY DEF AppliesInside
  <2>1. failed = Failures(window, EntryLocal, ExitLocal, Minutes)
    BY DEF IInv, Looked
  <2>2. EntryLocal \in Int /\ ExitLocal \in Int /\ Minutes \in Int /\ window \in WindowType
    BY ReadingsAreWhole, MinutesAreWhole, WindowCheckAssumption
       DEF IInv, Typed, EntryLocal, ExitLocal, Minutes
  <2>3. (failed = {}) <=> Inside(window, EntryLocal, ExitLocal, Minutes)
    BY <2>1, <2>2, HoldsInside DEF Holds
  <2>4. Inside(window, EntryLocal, ExitLocal, Minutes) \in BOOLEAN
    BY DEF Inside
  <2>5. \/ failed \cap {"enter_from", "enter_by"} = {}
        \/ \E reason : failed \cap {"enter_from", "enter_by"} = {reason}
    BY <2>1 DEF Failures, DayFailure, EntryFailure, ExitFailure, CeilingFailure
  <2>6. \/ failed \cap {"day_span", "exit_by"} = {}
        \/ \E reason : failed \cap {"day_span", "exit_by"} = {reason}
    BY <2>1 DEF Failures, DayFailure, EntryFailure, ExitFailure, CeilingFailure
  <2>7. Cardinality({}) = 0 /\ \A x : Cardinality({x}) = 1
    BY FS_EmptySet, FS_Singleton
  <2>8. (failed = {}) = Inside(window, EntryLocal, ExitLocal, Minutes)
    BY <2>3, <2>4, Zenon
  <2>9. 0 <= 1 /\ 1 <= 1
    OBVIOUS
  <2> QED
    BY <2>5, <2>6, <2>7, <2>8, <2>9, Zenon
<1> QED
  BY <1>1, Always, PTL

(* A minute more never brings a reading back, unless the clocks go back.      *)
LEMMA LaterReads ==
  ASSUME NEW z \in ZoneType, NEW t \in Int, NEW u \in Int, t <= u, z.before <= z.after
  PROVE  LocalMinute(z, t) <= LocalMinute(z, u)
<1>1. WallClock(z, t) <= WallClock(z, u)
  BY DEF WallClock, ZoneType
<1> QED
  BY <1>1, ReadingsAreWhole, DivMonotone, ClockAssumption DEF LocalMinute

LEMMA LaterIsLonger ==
  ASSUME NEW t \in Int, NEW u \in Int, NEW v \in Int, u <= v
  PROVE  MinutesUntil(t, u) <= MinutesUntil(t, v)
<1>1. (-(v - t)) \div MinuteTicks <= (-(u - t)) \div MinuteTicks
  BY DivMonotone, ClockAssumption
<1>2. (-(v - t)) \div MinuteTicks \in Int /\ (-(u - t)) \div MinuteTicks \in Int
  BY Parts, ClockAssumption
<1> QED
  BY <1>1, <1>2 DEF MinutesUntil, CeilDiv

(* Inside a bounded stretch with one exit, inside it with every earlier one.  *)
LEMMA BoundedFromBelow ==
  ASSUME NEW w \in WindowType, w.day_span # "any_span", NEW in \in Int,
         NEW out \in Int, NEW sooner \in Int, sooner <= out,
         NEW minutes \in Int, NEW fewer \in Int, fewer <= minutes,
         Inside(w, in, out, minutes)
  PROVE  Inside(w, in, sooner, fewer)
<1>1. w.ceiling = Unbounded \/ fewer <= w.ceiling
  <2>1. w.ceiling = Unbounded \/ minutes <= w.ceiling
    BY Zenon DEF Inside
  <2>2. w.ceiling \in Int
    BY WindowParts
  <2> QED
    BY <2>1, <2>2
<1>2. DateOf(in) * MinutesInADay \in Int /\ w.exit_by \in Int /\ MinutesInADay \in Int
  <2>1. DateOf(in) \in Int /\ MinutesInADay \in Int /\ w.exit_by \in TimesOfDay
    BY ReadingParts, WindowParts, ClockAssumption
  <2> QED
    BY <2>1 DEF TimesOfDay
<1> DEFINE lastDays == IF w.day_span = "same_day" THEN {0} ELSE {1}
<1>3. PICK d \in lastDays : out <= DateOf(in) * MinutesInADay + d * MinutesInADay + w.exit_by
  BY WindowParts DEF Inside
<1>4. DateOf(in) * MinutesInADay + d * MinutesInADay + w.exit_by \in Int
  BY <1>2
<1>5. sooner <= DateOf(in) * MinutesInADay + d * MinutesInADay + w.exit_by
  BY <1>3, <1>4
<1> QED
  BY <1>1, <1>5, WindowParts DEF Inside

(* Who has stayed too long for a bounded rate does not win it back by staying *)
(* on, where the clocks do not go back.                                      *)
THEOREM LostForGood == Spec => []OnceLostStaysLost
<1>1. IInv => OnceLostStaysLost
  <2> SUFFICES ASSUME IInv, before = "not_applied", window.day_span # "any_span",
                      zone.before <= zone.after, pc = "said", failed = {}
      PROVE  FALSE
    BY DEF OnceLostStaysLost, Applied
  <2> DEFINE earlier == LocalMinute(zone, exit - 1)
             fewer == MinutesUntil(entry, exit - 1)
  <2>1. entry \in Int /\ exit \in Int /\ exit - 1 \in Int /\ exit - 1 <= exit
        /\ zone \in ZoneType /\ window \in WindowType
    BY WindowCheckAssumption DEF IInv, Typed
  <2>2. EntryLocal \in Int /\ ExitLocal \in Int /\ Minutes \in Int
        /\ earlier \in Int /\ fewer \in Int
    BY <2>1, ReadingsAreWhole, MinutesAreWhole DEF EntryLocal, ExitLocal, Minutes
  <2>3. Holds(window, EntryLocal, ExitLocal, Minutes)
    BY DEF IInv, Looked, Holds
  <2>4. earlier <= ExitLocal /\ fewer <= Minutes
    BY <2>1, LaterReads, LaterIsLonger DEF ExitLocal, Minutes
  <2>5. ~Holds(window, EntryLocal, earlier, fewer)
    BY DEF IInv, Remembered
  <2> HIDE DEF earlier, fewer
  <2>6. Inside(window, EntryLocal, earlier, fewer)
    BY <2>1, <2>2, <2>3, <2>4, HoldsInside, BoundedFromBelow
  <2> QED
    BY <2>1, <2>2, <2>5, <2>6, HoldsInside
<1> QED
  BY <1>1, Always, PTL
-----------------------------------------------------------------------------
(* The date and the minute a line prints are the two parts of the reading.    *)
LEMMA NestedParts ==
  ASSUME NEW x \in Int, NEW m \in Nat \ {0}, NEW n \in Nat \ {0}
  PROVE  x \div m = (x \div (m * n)) * n + ((x % (m * n)) \div m)
<1> DEFINE whole == m * n
           day == x \div whole
           rest == x % whole
           minute == rest \div m
<1>1. whole \in Nat \ {0}
  OBVIOUS
<1> HIDE DEF whole
<1>2. day \in Int /\ rest \in Int /\ x = day * whole + rest
  BY <1>1, Parts
<1>3. minute \in Int /\ rest % m \in 0 .. m - 1 /\ rest = minute * m + (rest % m)
  BY <1>2, Parts
<1> HIDE DEF day, minute, rest
<1>4. day * whole = (day * n) * m
  BY <1>2 DEF whole
<1>5. day * n \in Int /\ (day * n + minute) * m = (day * n) * m + minute * m
  BY <1>2, <1>3
<1>6. x = (day * n + minute) * m + (rest % m)
  BY <1>2, <1>3, <1>4, <1>5
<1>7. day * n + minute \in Int
  BY <1>3, <1>5
<1>8. x \div m = day * n + minute
  BY <1>3, <1>6, <1>7, OnlyParts
<1> QED
  BY <1>8 DEF day, minute, rest, whole

LEMMA PrintedIsRead ==
  ASSUME NEW z \in ZoneType, NEW y \in ZoneType, NEW t \in Int, NEW u \in Int,
         Printed(z, t) = Printed(y, u)
  PROVE  LocalMinute(z, t) = LocalMinute(y, u)
<1>1. ASSUME NEW x \in Int
      PROVE  x \div MinuteTicks
               = (x \div DayTicks) * MinutesInADay + ((x % DayTicks) \div MinuteTicks)
  BY NestedParts, ClockAssumption DEF DayTicks
<1>2. /\ WallClock(z, t) \div DayTicks = WallClock(y, u) \div DayTicks
      /\ (WallClock(z, t) % DayTicks) \div MinuteTicks = (WallClock(y, u) % DayTicks) \div MinuteTicks
  BY DEF Printed, LocalDate
<1>3. WallClock(z, t) \in Int /\ WallClock(y, u) \in Int
  BY ReadingsAreWhole
<1> QED
  BY <1>1, <1>2, <1>3, Zenon DEF LocalMinute

(* Two stays that print the same are told the same of every condition but the *)
(* rate's own ceiling, whatever the zone and the side of a change (F18, F40).*)
THEOREM WhatIsPrintedDecides == Spec => []ReadingDecides
<1>1. IInv => ReadingDecides
  <2> SUFFICES ASSUME IInv, pc = "said", NEW z \in Zones, NEW t \in Entries, NEW u \in Int,
                      Printed(z, t) = Printed(zone, entry), Printed(z, u) = Printed(zone, exit)
      PROVE  Failures(window, LocalMinute(z, t), LocalMinute(z, u), 0) = failed \ {"ceiling"}
    <3>1. entry - MinuteTicks .. entry + LastTick \subseteq Int
      OBVIOUS
    <3> QED
      BY <3>1, Zenon DEF ReadingDecides
  <2>1. zone \in ZoneType /\ z \in ZoneType /\ t \in Int /\ entry \in Int /\ exit \in Int
    BY WindowCheckAssumption DEF IInv, Typed
  <2>2. LocalMinute(z, t) = EntryLocal /\ LocalMinute(z, u) = ExitLocal
    BY <2>1, PrintedIsRead DEF EntryLocal, ExitLocal
  <2>3. failed = Failures(window, EntryLocal, ExitLocal, Minutes)
    BY DEF IInv, Looked
  <2>4. CeilingFailure(window, 0) = {}
    BY WindowParts DEF CeilingFailure, Unbounded, IInv, Typed
  <2>5. CeilingFailure(window, Minutes) \in SUBSET {"ceiling"}
    BY DEF CeilingFailure
  <2>6. "ceiling" \notin DayFailure(window, EntryLocal) \cup EntryFailure(window, EntryLocal)
                          \cup ExitFailure(window, EntryLocal, ExitLocal)
    BY DEF DayFailure, EntryFailure, ExitFailure
  <2> QED
    BY <2>2, <2>3, <2>4, <2>5, <2>6 DEF Failures
<1> QED
  BY <1>1, Always, PTL

(* Every window the loader takes gives its rate to some stay on every day it  *)
(* applies on: what is refused at load is refused so that this holds.        *)
THEOREM EveryWindowCanApply == Spec => []NoDeadWindow
<1>1. IInv => NoDeadWindow
  <2> SUFFICES ASSUME IInv, NEW date \in window.days
      PROVE  \E in, out \in date * MinutesInADay .. (date + 2) * MinutesInADay - 1 :
               DateOf(in) = date /\ in <= out /\ Holds(window, in, out, out - in)
    BY DEF NoDeadWindow
  <2> DEFINE in == date * MinutesInADay + window.enter_from
  <2>1. /\ window \in WindowType /\ Loads(window) /\ date \in Int /\ MinutesInADay \in Nat \ {0}
        /\ window.enter_from \in TimesOfDay /\ window.exit_by \in TimesOfDay
        /\ window.enter_by \in TimesOfDay
    BY WindowParts, ClockAssumption DEF IInv, Typed
  <2>2. in \in Int /\ DateOf(in) = date /\ TimeOf(in) = window.enter_from
    BY <2>1, ReadingOf
  <2>3. in \in date * MinutesInADay .. (date + 2) * MinutesInADay - 1
    <3>1. date * MinutesInADay + MinutesInADay <= (date + 2) * MinutesInADay
      BY <2>1, TimesMonotone
    <3> QED
      BY <2>1, <3>1 DEF TimesOfDay
  <2> HIDE DEF in
  <2>4. DayFailure(window, in) = {}
    <3>1. window.kind = "days_of_week" => date \in 0 .. DaysInAWeek - 1
      BY <2>1, WindowParts
    <3>2. date \in 0 .. DaysInAWeek - 1 => date % DaysInAWeek = date
      BY WeekAssumption
    <3> QED
      BY <2>2, <3>1, <3>2 DEF DayFailure, AppliesOn
  <2>5. EntryFailure(window, in) = {}
    BY <2>1, <2>2 DEF EntryFailure, Loads, TimesOfDay
  <2>6. ExitFailure(window, in, in) = {}
    <3>1. window.exit_by < window.enter_from => window.day_span = "next_day"
      BY <2>1 DEF Loads
    <3>2. window.day_span \in {"same_day", "next_day", "any_span"}
      BY <2>1, WindowParts
    <3>3. CASE window.day_span = "same_day"
      BY <2>1, <2>2, <3>1, <3>3, SpanLimits
         DEF ExitFailure, ExitLimit, Later, Unbounded, TimesOfDay
    <3>4. CASE window.day_span = "next_day"
      BY <2>1, <2>2, <3>4, SpanLimits
         DEF ExitFailure, ExitLimit, Later, Unbounded, TimesOfDay
    <3>5. CASE window.day_span = "any_span"
      BY <2>1, <2>2, <3>1, <3>5, SpanLimits DEF ExitFailure, Unbounded, TimesOfDay
    <3> QED
      BY <3>2, <3>3, <3>4, <3>5
  <2>7. in - in = 0 /\ in <= in
    BY <2>2
  <2>8. CeilingFailure(window, in - in) = {}
    BY <2>1, <2>7, WindowParts DEF CeilingFailure, Unbounded
  <2>9. Holds(window, in, in, in - in)
    BY <2>4, <2>5, <2>6, <2>8 DEF Holds, Failures
  <2> QED
    BY <2>2, <2>3, <2>7, <2>9
<1> QED
  BY <1>1, Always, PTL
=============================================================================
