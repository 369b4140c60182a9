---------------------------- MODULE MCValidator ----------------------------
(* Plans of each kind the validator has missed a finding of, on days of 48   *)
(* minutes (an hour is two minutes) and weeks of three days. Times and       *)
(* lengths below are in hours.                                               *)
EXTENDS Validator

Window(kind, days, from, by, exit, span) ==
  [kind |-> kind, days |-> days, enter_from |-> from * Hour, enter_by |-> by * Hour,
   exit_by |-> exit * Hour, day_span |-> span, ceiling |-> Unbounded]
EveryDay == {0, 1, 2}
Weekly(days, from, by, exit, span) == Window("days_of_week", days, from, by, exit, span)

RuleOf(id, type, stage, classes) == [id |-> id, type |-> type, stage |-> stage, classes |-> classes]
Both == {"car", "vip"}
Discount(id, window) == RuleOf(id, "time_window", ADJUST, Both) @@ [window |-> window]
Special(id, window, classes) == RuleOf(id, "time_window", QUALIFY, classes) @@ [window |-> window]
Rate(id, classes, max) ==
  RuleOf(id, "increment", ACCUMULATE, classes)
    @@ [first_period |-> Hour, repeat_period |-> Hour,
        max |-> IF max = NoLimit THEN NoLimit ELSE max * Hour]
Grace(id, hours) == RuleOf(id, "grace", QUALIFY, Both) @@ [minutes |-> hours * Hour]
Fill(id, threshold, classes) ==
  RuleOf(id, "fill_level", ADJUST, classes) @@ [threshold_bp |-> threshold]

PlanOf(rules, order) ==
  [rules |-> rules, classes |-> Both, class_order |-> <<"vip", "car">>, adjust_order |-> order]

Unlimited == Rate(1, Both, NoLimit)

(* Two discounts, in every pair: they meet only early, only late, only at    *)
(* the weekend, only on one date, only past midnight, or never.              *)
Early == Weekly(EveryDay, 0, 5, 9, "same_day")
Dawn == Weekly(EveryDay, 4, 8, 20, "same_day")
Evening == Weekly(EveryDay, 18, 21, 2, "next_day")
Night == Weekly(EveryDay, 20, 23, 6, "next_day")
Weekend == Weekly({2}, 0, 23, 23, "next_day")
Holiday == Window("dates", {2, 4}, 10, 12, 22, "same_day")
Anytime == Weekly(EveryDay, 3, 9, 9, "any_span")

(* For whoever leaves in the morning, whatever day, and for the late night:  *)
(* both apply to a stay of one night, of a length that is no limit of theirs.*)
Morning == Weekly(EveryDay, 5, 22, 6, "any_span")
LateNight == Weekly(EveryDay, 20, 22, 23, "next_day")

Discounts == {Early, Dawn, Evening, Night, Weekend, Holiday, Anytime, Morning, LateNight}

TwoDiscounts ==
  {PlanOf({Unlimited, Discount(2, w), Discount(3, v)}, Unordered) : w, v \in Discounts}

(* Ceilings and specials that leave stays without a price; fill rules that   *)
(* meet above one figure.                                                    *)
WithGaps ==
  {PlanOf({Rate(1, Both, 30)}, Unordered),
   PlanOf({Rate(1, {"car"}, NoLimit)}, Unordered),
   PlanOf({Rate(1, Both, 10), Rate(2, {"vip"}, 20), Grace(3, 3)}, Unordered),
   PlanOf({Rate(1, {"car"}, 12), Special(2, Early, Both), Special(3, Weekend, {"vip"})}, Unordered),
   PlanOf({Rate(1, Both, 26), Special(2, Evening, Both)}, Unordered),
   PlanOf({Unlimited, Fill(2, 5000, Both), Fill(3, 8000, {"vip"})}, <<2, 3>>),
   PlanOf({Unlimited, Fill(2, 5000, Both), Discount(3, Night)}, Unordered),
   PlanOf({Unlimited, Discount(2, Evening), Discount(3, Night)}, <<3, 2>>)}

MCPlans == TwoDiscounts \cup WithGaps
MCZones == {[at |-> 0, before |-> 0, after |-> 0]}

(* A ceiling of thirty hours, and an hour that is missing from the morning   *)
(* after the reference date.                                                *)
CeilingPlans == {PlanOf({Rate(1, Both, 30)}, Unordered)}
ClocksGoForward == {[at |-> 2 * MinutesInADay + 2 * Hour, before |-> 0, after |-> Hour]}

(* A special in the morning and one from the afternoon on, each good until   *)
(* midnight of any day, and no time-based rate: the hours between them have  *)
(* no price.                                                                *)
UntilMidnight(w) == [w EXCEPT !.exit_by = MinutesInADay - 1]
Mornings == UntilMidnight(Weekly(EveryDay, 0, 8, 23, "any_span"))
Afternoons ==
  [UntilMidnight(Weekly(EveryDay, 17, 23, 23, "any_span")) EXCEPT !.enter_by = MinutesInADay - 1]
NothingAtNoon ==
  {PlanOf({Special(1, Mornings, Both), Special(2, Afternoons, Both)}, Unordered)}
=============================================================================
