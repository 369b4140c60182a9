------------------------------ MODULE MCEngine ------------------------------
(* Small instances of Engine: every subset of six rules that can price the   *)
(* time, dressed with caps, surcharges, adjustments and fill rules, for      *)
(* stays short and long, of each class, with and without an occupancy.       *)
EXTENDS Engine

Base(id, type, stage, classes, price) ==
  [id |-> id, type |-> type, stage |-> stage, classes |-> classes, price |-> price]
Grace(id, classes, minutes) ==
  Base(id, "grace", QUALIFY, classes, 0) @@ [minutes |-> minutes]
Special(id, classes, holds, price) ==
  Base(id, "time_window", QUALIFY, classes, price) @@ [holds |-> holds]
TimeRate(id, classes, max, price) ==
  Base(id, "increment", ACCUMULATE, classes, price) @@ [max |-> max]

Vip == {"vip"}
BothClasses == {"car", "vip"}

(* The specials 3 and 4 charge the same, and so do the rates 5 and 6. *)
Bases == {Grace(1, BothClasses, 1), Special(2, BothClasses, TRUE, 9), Special(3, Vip, TRUE, 12),
          Special(4, Vip, TRUE, 12), TimeRate(5, BothClasses, NoLimit, 12), TimeRate(6, Vip, 3, 12),
          Special(7, BothClasses, FALSE, 5)}

Dress(id, type, stage, classes) == [id |-> id, type |-> type, stage |-> stage, classes |-> classes]

(* A cap's ceiling depends on how the base's charge built up, so the dearer  *)
(* base can be the cheaper stay.                                            *)
CapRules == {Dress(10, "daily_max", CAP, BothClasses)
           @@ [ceilings |-> [b \in 1 .. 7 |-> IF b = 2 THEN 9 ELSE IF b = 3 THEN 7 ELSE 8]],
         Dress(11, "weekly_max", CAP, Vip)
           @@ [ceilings |-> [b \in 1 .. 7 |-> IF b = 6 THEN 6 ELSE 10]]}

Surcharges == {Dress(20, "space_surcharge", SURCHARGE, Vip)
                 @@ [kind |-> "fixed", amount |-> 4, rounding |-> "up"],
               Dress(21, "space_surcharge", SURCHARGE, Vip)
                 @@ [kind |-> "percent", amount |-> 1500, rounding |-> "down"]}

Adjustment(id, direction, kind, amount) ==
  Dress(id, "time_window", ADJUST, BothClasses)
    @@ [holds |-> TRUE, direction |-> direction, kind |-> kind, amount |-> amount,
        rounding |-> "up"]
Discounts == {Adjustment(30, "discount", "percent", 3333), Adjustment(31, "discount", "fixed", 9)}
Increase == Adjustment(32, "increase", "percent", 1500)

FillRuleOf(id, specials, extra) ==
  Dress(id, "fill_level", ADJUST, Vip)
    @@ [threshold_bp |-> 8000, percent_bp |-> 2500, rounding |-> "up",
        raises_specials |-> specials, raises_vip_extra |-> extra]

PlanOf(rules, order, resolution) ==
  [version |-> 1, from |-> 0, classes |-> BothClasses, rules |-> rules,
   adjust_order |-> order, resolution |-> resolution]

ById == [s \in {QUALIFY, ACCUMULATE} |-> Unordered]
Stated == [s \in {QUALIFY, ACCUMULATE} |->
             IF s = QUALIFY THEN <<7, 4, 3, 2, 1>> ELSE <<6, 5>>]

(* What is beside the bases: nothing; caps; caps and surcharges; then        *)
(* adjustments stated in an order or not, with a fill rule or two.           *)
Dressings ==
  {<<{}, Unordered>>, <<CapRules, Unordered>>, <<CapRules \cup Surcharges, Unordered>>,
   <<CapRules \cup Surcharges \cup Discounts, <<31, 30>>>>,
   <<Surcharges \cup Discounts, Unordered>>,
   <<Surcharges \cup {Increase}, Unordered>>}
  \cup {<<Surcharges \cup {FillRuleOf(40, s, x)} \cup more, order>> :
          s, x \in BOOLEAN,
          more \in {{}, Discounts, {Increase}},
          order \in {<<30, 31, 32, 40>>}}
  \cup {<<CapRules \cup {FillRuleOf(40, TRUE, FALSE), FillRuleOf(41, FALSE, TRUE)}, <<40, 41>>>>}

StayOf(minutes, class, occupancy) ==
  [entry |-> 5, minutes |-> minutes, class |-> class, occupancy |-> occupancy]

Stays == {StayOf(1, "vip", 9000), StayOf(3, "vip", 9000), StayOf(3, "vip", 500),
          StayOf(3, "vip", NoFigure), StayOf(4, "car", 9000), StayOf(4, "vip", 8000),
          StayOf(3, "bus", 9000), StayOf(11, "vip", 9000)}

OnePlan(bases, dressings, resolutions, stays) ==
  {[plans |-> {PlanOf(b \cup d[1], d[2], r)}, stay |-> s] :
     b \in bases, d \in dressings, r \in resolutions, s \in stays}

(* Every set of bases, plainly dressed; and a few of them in every dressing.   *)
EverySet ==
  OnePlan({b \in SUBSET Bases : Cardinality(b) <= 5},
          {<<CapRules, Unordered>>,
           <<Surcharges \cup Discounts \cup {FillRuleOf(40, TRUE, FALSE)}, <<30, 31, 40>>>>},
          {ById, Stated}, {StayOf(1, "vip", 9000), StayOf(3, "vip", 9000), StayOf(4, "car", 9000)})

Some(ids) == {b \in Bases : b.id \in ids}
EveryDressing ==
  OnePlan({Some({2, 5}), Some({1, 3, 5}), Some({3, 4, 5, 6}), Some({5, 6, 7})},
          Dressings, {ById}, Stays)

(* Versions that took effect before, at and after entry, and two at once. *)
VersionOf(number, from, price) ==
  [PlanOf({TimeRate(5, BothClasses, NoLimit, price)}, Unordered, ById) EXCEPT !.version = number, !.from = from]
Versions == {VersionOf(1, 2, 7), VersionOf(2, 5, 8), VersionOf(3, 5, 9), VersionOf(4, 6, 10)}

Selection == {[plans |-> ps, stay |-> StayOf(3, "car", NoFigure)] :
                ps \in {s \in SUBSET Versions : s # {}}}

Requests == Selection \cup EverySet \cup EveryDressing
MCRequest == Requests
=============================================================================
