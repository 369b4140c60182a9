---------------------------- MODULE WindowCheck ----------------------------
(***************************************************************************)
(* One window asked about a car that is still parked: time_window._failures*)
(* a condition at a time, and the same question again a tick later. A      *)
(* caller may ask as often as it likes what a stay would come to if it     *)
(* ended now, so the answers of one stay at successive exits are one       *)
(* behaviour here; `before` keeps the last of them.                         *)
(***************************************************************************)
EXTENDS Windows, FiniteSets

CONSTANTS RawWindows, Zones, Entries, LastTick

ASSUME WindowCheckAssumption ==
  /\ RawWindows \subseteq WindowType
  /\ Zones \subseteq ZoneType
  /\ Entries \subseteq Int
  /\ LastTick \in Nat

VARIABLES
  window,
  zone,      \* plan.timezone
  entry,     \* stay.entry_at
  exit,      \* stay.exit_at
  pc,        \* the condition looked at next, or "said"
  failed,    \* the conditions found to fail so far
  before     \* the answer a tick ago: "unasked", "applied" or "not_applied"

vars == <<window, zone, entry, exit, pc, failed, before>>

EntryLocal == LocalMinute(zone, entry)
ExitLocal == LocalMinute(zone, exit)
Minutes == MinutesUntil(entry, exit)

Init ==
  /\ window \in {w \in RawWindows : Loads(w)}
  /\ zone \in Zones
  /\ entry \in Entries
  /\ exit = entry
  /\ pc = "day" /\ failed = {} /\ before = "unasked"

Check(here, next, found) ==
  /\ pc = here
  /\ failed' = failed \cup found
  /\ pc' = next
  /\ UNCHANGED <<window, zone, entry, exit, before>>

CheckDay == Check("day", "entry", DayFailure(window, EntryLocal))
CheckEntry == Check("entry", "exit", EntryFailure(window, EntryLocal))
CheckExit == Check("exit", "ceiling", ExitFailure(window, EntryLocal, ExitLocal))
CheckCeiling == Check("ceiling", "said", CeilingFailure(window, Minutes))

(* The caller asks again, a tick later. *)
AskLater ==
  /\ pc = "said" /\ exit - entry < LastTick
  /\ exit' = exit + 1
  /\ before' = IF failed = {} THEN "applied" ELSE "not_applied"
  /\ pc' = "day" /\ failed' = {}
  /\ UNCHANGED <<window, zone, entry>>

Next == CheckDay \/ CheckEntry \/ CheckExit \/ CheckCeiling \/ AskLater

Spec == Init /\ [][Next]_vars
-----------------------------------------------------------------------------
Applied == pc = "said" /\ failed = {}

(* The window as a stretch of local time: from enter_from to enter_by of a   *)
(* day it applies on, and out by exit_by of the last day its span reaches    *)
(* (of any day, where it names no last one).                                 *)
Inside(w, in, out, minutes) ==
  LET midnight == DateOf(in) * MinutesInADay
      lastDays == IF w.day_span = "same_day" THEN {0}
                  ELSE IF w.day_span = "next_day" THEN {1}
                  ELSE {DateOf(out) - DateOf(in)}
  IN  /\ AppliesOn(w, DateOf(in))
      /\ in \in midnight + w.enter_from .. midnight + w.enter_by
      /\ \E d \in lastDays : out <= midnight + d * MinutesInADay + w.exit_by
      /\ w.ceiling = Unbounded \/ minutes <= w.ceiling

(* A window applies exactly inside that stretch (F2, F25, F27, F28, F39), and *)
(* a failing side is given one reason, never two (_failures' docstring).     *)
AppliesInside ==
  pc = "said" =>
    /\ (failed = {}) = Inside(window, EntryLocal, ExitLocal, Minutes)
    /\ Cardinality(failed \cap {"enter_from", "enter_by"}) <= 1
    /\ Cardinality(failed \cap {"day_span", "exit_by"}) <= 1

(* A rate a stay has lost by staying too long under a bounded span is never   *)
(* won back by staying longer, unless the clocks go back.                    *)
OnceLostStaysLost ==
  (before = "not_applied" /\ window.day_span # "any_span" /\ zone.before <= zone.after)
    => ~Applied

(* What a breakdown shows decides: two stays whose entries and exits print    *)
(* the same dates and minutes are told the same of every condition but the   *)
(* rate's own ceiling, in whatever zone and on whichever side of a clock     *)
(* change they were read (F18, F40).                                         *)
ReadingDecides ==
  pc = "said" =>
    \A z \in Zones :
      LET shows(t, u) == Printed(z, t) = Printed(zone, u)
          ins == {t \in Entries : shows(t, entry)}
          outs == {t \in entry - MinuteTicks .. entry + LastTick : shows(t, exit)}
      IN  \A t \in ins, u \in outs :
            Failures(window, LocalMinute(z, t), LocalMinute(z, u), 0) = failed \ {"ceiling"}

(* No window the loader takes is dead: on every day it applies on, where the *)
(* clocks do not change, some stay is given its rate without leaving that    *)
(* day or the next (the refusal at load exists so that this holds).          *)
NoDeadWindow ==
  \A date \in window.days :
    \E in, out \in date * MinutesInADay .. (date + 2) * MinutesInADay - 1 :
      DateOf(in) = date /\ in <= out /\ Holds(window, in, out, out - in)
=============================================================================
