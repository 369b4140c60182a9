----------------------------- MODULE MCDayWalk -----------------------------
(* Small instances of DayWalk: days of four minutes of two ticks, stays of   *)
(* up to three days, and zones whose clocks change in each way that moves a  *)
(* midnight.                                                                 *)
EXTENDS DayWalk

Zone(at, before, after) == [at |-> at, before |-> before, after |-> after]

Ordinary == {Zone(0, 0, 0),      \* no change
             Zone(11, 0, 2),     \* forward during the day
             Zone(11, 2, 0),     \* back during the day
             Zone(16, -1, 1),    \* forward over a midnight
             Zone(16, 0, -2),    \* back at midnight to the day before
             Zone(18, 0, -2)}    \* back to midnight: the date starts twice

(* America/St_Johns to 2011: one minute past midnight, back an hour, so the *)
(* date before is lived again after the new one has begun.                  *)
TwiceALocalDate == Zone(9, 0, -4)

Rates == {[kind |-> "rate", first_len |-> 1, first |-> 8, repeat_len |-> 1, repeat |-> 4],
          [kind |-> "rate", first_len |-> 3, first |-> 2, repeat_len |-> 2, repeat |-> 5]}

DayCaps == {[boundary |-> b, most |-> m] : b \in {"calendar_day", "rolling_24h"}, m \in {7, 15}}

Applies(zones, entries, lengths, rates, dayCaps, runnings) ==
  {[stay |-> [entry |-> a, exit |-> a + n], zone |-> z, cap |-> c, rate |-> r,
    asked |-> "apply", start |-> a, end |-> a + n, running |-> m] :
      a \in entries, n \in lengths, z \in zones, c \in dayCaps, r \in rates, m \in runnings}

PartsOf(zones, entries, lengths, rates, dayCaps) ==
  UNION {{[stay |-> [entry |-> a, exit |-> a + n], zone |-> z, cap |-> c, rate |-> r,
           asked |-> "pieces", start |-> s, end |-> e, running |-> 0] :
             z \in zones, c \in dayCaps, r \in rates,
             s \in {a, a + 2, a + 5, a + 9}, e \in {a + 9, a + 13, a + n}}
           : a \in entries, n \in lengths}

Sound(walks) == {w \in walks : w.start <= w.end /\ w.end <= w.stay.exit}

MCWalk ==
  Applies(Ordinary, {6, 8, 9, 11, 15}, {0, 1, 8, 9, 15, 23}, Rates \cup {Flat}, DayCaps, {10, 60})
    \cup Sound(PartsOf(Ordinary, {6, 9, 11}, {9, 16, 23}, Rates \cup {Flat}, DayCaps))
    \cup Sound(PartsOf({TwiceALocalDate}, {6, 8}, {9, 16, 23}, Rates, DayCaps))

(* A date lived twice, the entry in its second half or before it.           *)
TwiceLived == Applies({TwiceALocalDate}, 8 .. 13, {3, 8, 20}, Rates, DayCaps, {60})

=============================================================================
