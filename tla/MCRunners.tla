----------------------------- MODULE MCRunners ------------------------------
(* A sound document with every one of its fields broken in turn and in       *)
(* pairs; every type of rule, sound and unsound; two discounts, an increase  *)
(* and two fill rules under every order of their names; two specials and two *)
(* rates under every stated order.                                          *)
EXTENDS Runners

Of(type, id, params) ==
  [type |-> type, id |-> id, params |-> params, tidy |-> TRUE, words |-> TRUE,
   classes |-> <<"std">>,
   stage |-> IF type = "time_window" THEN IF params.effect.kind = "adjust" THEN "ADJUST" ELSE "QUALIFY"
             ELSE RunsAt[type]]

Rate(first, repeat, minor, ceiling) ==
  [first_minutes |-> first, repeat_minutes |-> repeat, first_minor |-> minor,
   repeat_minor |-> 100, rounding |-> "ceil", ceiling |-> ceiling]

Flat(minor) == [kind |-> "flat", price_minor |-> minor]
Adjusts(direction, unit, amount, rounding) ==
  [kind |-> "adjust", direction |-> direction, unit |-> unit, amount |-> amount,
   rounding |-> rounding]

Hours(from, by, exit, span, days) ==
  [kind |-> "days_of_week", days |-> days, enter_from |-> from, enter_by |-> by,
   exit_by |-> exit, day_span |-> span, ceiling |-> Unbounded]
AllDay == Hours(0, 2, 2, "any_span", {0})

Window(id, effect, hours) == Of("time_window", id, [effect |-> effect, window |-> hours])

Off(id) == Window(id, Adjusts("discount", "percent", 2000, "down"), AllDay)
Fill(id) == Of("fill_level", id,
  [threshold_bp |-> 9000, percent_bp |-> 1000, rounding |-> "up",
   raises_specials |-> "no", raises_vip_extra |-> "yes"])
Increment(id) == Of("increment", id, Rate(60, 30, 500, Unbounded))
Special(id) == Window(id, Flat(800), AllDay)

SoundRules ==
  {Of("grace", "g", [minutes |-> 10]), Increment("i"), Special("s"), Fill("f"),
   Window("o", Adjusts("discount", "percent", 10000, "down"), Hours(1, 2, 0, "next_day", {0})),
   Window("o", Adjusts("increase", "percent", 20000, "up"), AllDay),
   Window("o", Adjusts("discount", "fixed", 20000, "up"), AllDay),
   Window("r", [kind |-> "rate", rate |-> Rate(60, 30, 0, 90)], AllDay),
   Of("daily_max", "d", [max_minor |-> 0, boundary |-> "rolling_24h"]),
   Of("weekly_max", "w", [max_minor |-> 900, boundary |-> "calendar_week", starts_on |-> 0]),
   Of("weekly_max", "w", [max_minor |-> 900, boundary |-> "rolling_7d", starts_on |-> NoDay]),
   Of("space_surcharge", "p", [kind |-> "flat", surcharge_minor |-> 0]),
   Of("space_surcharge", "p", [kind |-> "percent", percent_bp |-> 10000, rounding |-> "up"])}

UnsoundRules ==
  {Of("grace", "g", [minutes |-> 0]),
   Of("increment", "i", Rate(0, 30, 500, Unbounded)),
   Of("increment", "i", Rate(60, 0, 500, Unbounded)),
   Of("increment", "i", Rate(60, 30, -1, Unbounded)),
   Of("increment", "i", Rate(60, 30, 500, 0)),
   Of("increment", "i", [Rate(60, 30, 500, 90) EXCEPT !.rounding = "floor"]),
   Window("o", Adjusts("discount", "percent", 10001, "down"), AllDay),
   Window("o", Adjusts("discount", "percent", 10001, "nearest"), AllDay),
   Window("", Adjusts("discount", "percent", 10001, "up"), Hours(2, 1, 2, "same_day", {})),
   Window("o", Adjusts("discount", "percent", 0, "up"), AllDay),
   Window("o", Adjusts("refund", "fixed", 5, "up"), AllDay),
   Window("s", Flat(-1), AllDay), Window("s", Flat(800), Hours(1, 2, 0, "same_day", {0})),
   Window("s", [kind |-> "rate", rate |-> Rate(60, 0, 500, Unbounded)], AllDay),
   Window("s", Flat(800), Hours(1, 2, 0, "any_span", {0})),
   [Special("s") EXCEPT !.stage = "ADJUST"], [Off("o") EXCEPT !.stage = "QUALIFY"],
   [Special("s") EXCEPT !.words = FALSE],
   Of("daily_max", "d", [max_minor |-> 900, boundary |-> "calendar_week"]),
   Of("daily_max", "d", [max_minor |-> -1, boundary |-> "calendar_day"]),
   Of("weekly_max", "w", [max_minor |-> 900, boundary |-> "calendar_week", starts_on |-> NoDay]),
   Of("weekly_max", "w", [max_minor |-> 900, boundary |-> "rolling_7d", starts_on |-> 0]),
   Of("space_surcharge", "p", [kind |-> "percent", percent_bp |-> 10001, rounding |-> "up"]),
   Of("space_surcharge", "p", [kind |-> "flat", surcharge_minor |-> -1]),
   [Fill("f") EXCEPT !.params.threshold_bp = 10001], [Fill("f") EXCEPT !.params.percent_bp = 0],
   [Fill("f") EXCEPT !.params.raises_specials = "maybe"], [Fill("f") EXCEPT !.params.rounding = "nearest"],
   [Increment("i") EXCEPT !.tidy = FALSE], [Increment("") EXCEPT !.stage = "ACCUMULATE"],
   [Increment("i") EXCEPT !.stage = "CAP"], [Increment("i") EXCEPT !.classes = << >>],
   [Increment("i") EXCEPT !.classes = <<"std", "vip">>],
   [Increment("i") EXCEPT !.type = "tiered"], [Increment("i") EXCEPT !.type = "a list"]}

Cheapest == [mode |-> "cheapest_wins", order |-> Null]
Stated(ids) == [mode |-> "stated_order", order |-> Listed(ids)]
Resolved(q, a) == [QUALIFY |-> q, ACCUMULATE |-> a]

Base ==
  [object |-> TRUE, whole |-> TRUE, keys |-> PLAN_KEYS,
   readable |-> {"plan_version", "effective_from", "timezone", "currency"},
   space_classes |-> <<"std">>, resolution |-> Resolved(Cheapest, Cheapest),
   adjust_order |-> Null, rules |-> <<Increment("i")>>, decisions |-> << >>]

Breakages(d) ==
  {[d EXCEPT !.object = FALSE], [d EXCEPT !.whole = FALSE],
   [d EXCEPT !.keys = PLAN_KEYS \ {"adjust_order"}], [d EXCEPT !.keys = PLAN_KEYS \cup {"base"}],
   [d EXCEPT !.space_classes = << >>], [d EXCEPT !.space_classes = <<"std", "std">>],
   [d EXCEPT !.space_classes = <<"std", "">>], [d EXCEPT !.rules = << >>],
   [d EXCEPT !.resolution = [QUALIFY |-> Cheapest]],
   [d EXCEPT !.resolution = [Resolved(Cheapest, Cheapest) EXCEPT !.QUALIFY.mode = "first"]],
   [d EXCEPT !.resolution = [Resolved(Cheapest, Cheapest) EXCEPT !.QUALIFY.order = Listed(<<"i">>)]],
   [d EXCEPT !.resolution = Resolved(Cheapest, [mode |-> "stated_order", order |-> Null])],
   [d EXCEPT !.decisions = <<DECISION_KEYS, DECISION_KEYS \ {"note"}>>],
   [d EXCEPT !.decisions = <<DECISION_KEYS>>]}
    \cup {[d EXCEPT !.readable = @ \ {f}] : f \in d.readable}

OneRule == {[Base EXCEPT !.rules = <<r>>] : r \in SoundRules \cup UnsoundRules}
RuleAfterRule == {[Base EXCEPT !.rules = <<Special("q"), r>>] : r \in SoundRules \cup UnsoundRules}

Names == {"o", "p", "f", "h"}
Orders == {Null} \cup {Listed(ids) : ids \in SeqOf(Names, 4)}
Adjusting ==
  {[Base EXCEPT !.rules = rules, !.adjust_order = order] :
     order \in Orders,
     rules \in {<<Increment("i")>>, <<Off("o"), Increment("p")>>, <<Fill("f"), Off("o")>>,
                <<Off("o"), Fill("f"), Off("p")>>, <<Fill("f"), Off("o"), Fill("h")>>,
                <<Off("o"), Fill("h"), Off("p"), Fill("f")>>, <<Off("o"), Off("o")>>}}

StatedOrders == {Cheapest} \cup {Stated(ids) : ids \in SeqOf({"s", "t", "i"}, 3)}
Resolving ==
  {[Base EXCEPT !.resolution = Resolved(q, a),
                !.rules = <<Special("s"), Increment("i"), Special("t")>>] :
     q \in StatedOrders, a \in {Cheapest, Stated(<<"i">>), Stated(<<"s", "i">>), Stated(<< >>)}}

Documents ==
  OneRule \cup RuleAfterRule \cup Adjusting \cup Resolving
    \cup Breakages(Base)
    \cup UNION {Breakages(d) : d \in Breakages(Base) \cup
                                       {[Base EXCEPT !.rules = <<r>>] : r \in UnsoundRules}}

MCDocument == Documents

Taxes == INSTANCE MCTaxDocuments
MCTaxRequest == Taxes!Requests
=============================================================================
