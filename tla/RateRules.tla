----------------------------- MODULE RateRules -----------------------------
(***************************************************************************)
(* Rules, plans and stays as the engine sees them: which stage a rule runs *)
(* at, what its type declares of itself (rules/__init__.py), whether it    *)
(* qualifies for a stay, what it does to the total at its stage, and why a *)
(* plan cannot price a stay (engine.find_gaps, engine.find_conflicts).     *)
(*                                                                         *)
(* What a rule charges for one stay is data here: `price` of a base, and   *)
(* `ceilings` of a cap, one for each base that may have priced the time    *)
(* (modules Caps and CapStage work those out). `holds` is whether a time   *)
(* window's own conditions are met by the stay.                            *)
(***************************************************************************)
EXTENDS AdjustRules

CONSTANT MaxStayMinutes   \* max_stay_minutes()

NoLimit == -1     \* max_duration_minutes: null
NoFigure == -1    \* a stay without occupancy_at_entry_bp
Unordered == << >>   \* adjust_order: null

QUALIFY == "QUALIFY"
ACCUMULATE == "ACCUMULATE"
CAP == "CAP"
SURCHARGE == "SURCHARGE"
ADJUST == "ADJUST"
STAGES == {QUALIFY, ACCUMULATE, CAP, SURCHARGE, ADJUST}

(* register: the traits each rule type declares that the engine acts on. *)
RULE_TRAITS ==
  [grace |-> {"terminal"}, time_window |-> {"speaks_unqualified"}, increment |-> {},
   daily_max |-> {"told_the_base"}, weekly_max |-> {"told_the_base"},
   space_surcharge |-> {"on_the_time_charge"},
   fill_level |-> {"speaks_unqualified", "on_the_time_charge", "needs_occupancy_at_entry",
                   "one_per_stay", "told_the_pass"}]

Has(trait, r) == trait \in RULE_TRAITS[r.type]
-----------------------------------------------------------------------------
Covers(r, stay) == stay.class \in r.classes

(* QUALIFIERS: each type's qualifies. The caps and the surcharge ask the    *)
(* space class and nothing else.                                            *)
Qualifies(r, stay) ==
  /\ Covers(r, stay)
  /\ r.type = "grace" => stay.minutes <= r.minutes
  /\ r.type = "time_window" => r.holds
  /\ r.type = "increment" => r.max = NoLimit \/ stay.minutes <= r.max
  /\ r.type = "fill_level" => stay.occupancy # NoFigure /\ stay.occupancy >= r.threshold_bp

(* Plan.rules_for_stage, and _Qualified.at: those of them that qualify. *)
RulesAt(plan, stage) == {r \in plan.rules : r.stage = stage}
QualifiedAt(plan, stay, stage) == {r \in RulesAt(plan, stage) : Qualifies(r, stay)}

(* _terminal_rule: the rules that price the stay alone. *)
Terminals(rules) == {r \in rules : Has("terminal", r)}
-----------------------------------------------------------------------------
(* _longer_than_priced. *)
TooLong(stay) == stay.minutes > MaxStayMinutes

(* select_plan: the plans in force at entry that took effect last. *)
InForce(plans, stay) ==
  LET begun == {p \in plans : p.from <= stay.entry}
  IN  {p \in begun : \A q \in begun : q.from <= p.from}

(* _time_based_gaps: why the time-based rate alone cannot price the stay. *)
TimeBasedGaps(plan, stay) ==
  LET covering == {r \in RulesAt(plan, ACCUMULATE) : Covers(r, stay)}
  IN  IF covering = {} THEN {"GAP_NO_ACCUMULATE_RULE"}
      ELSE IF QualifiedAt(plan, stay, ACCUMULATE) = {}
      THEN {"GAP_STAY_EXCEEDS_MAX_DURATION"} ELSE {}

(* find_gaps. *)
FindGaps(plan, stay) ==
  LET needing == {r \in plan.rules : Has("needs_occupancy_at_entry", r) /\ Covers(r, stay)}
      noFigure == IF stay.occupancy = NoFigure /\ needing # {}
                  THEN {"GAP_NO_OCCUPANCY_AT_ENTRY"} ELSE {}
      noPrice == IF QualifiedAt(plan, stay, QUALIFY) # {} THEN {}
                 ELSE TimeBasedGaps(plan, stay)
  IN  IF stay.class \notin plan.classes THEN {"GAP_UNDECLARED_SPACE_CLASS"}
      ELSE noFigure \cup noPrice

(* find_conflicts, _conflict_at. *)
FindConflicts(plan, stay) ==
  LET several(rules) == \E a, b \in rules : a # b
      onePerStay(stage) == {r \in QualifiedAt(plan, stay, stage) : Has("one_per_stay", r)}
  IN  (IF \E stage \in STAGES : several(onePerStay(stage))
       THEN {"CONFLICT_OVERLAPPING_FILL_RULES"} ELSE {})
      \cup
      (IF plan.adjust_order = Unordered /\ several(QualifiedAt(plan, stay, ADJUST))
       THEN {"CONFLICT_UNORDERED_ADJUSTMENTS"} ELSE {})
-----------------------------------------------------------------------------
(* CAP: every cap takes the total down to its ceiling. *)
AtCap(plan, stay, base, total) ==
  Min({total} \cup {k.ceilings[base.id] : k \in QualifiedAt(plan, stay, CAP)})

(* space_surcharge.apply: an amount, or a percent of the charge for the time. *)
Surcharge(r, timeCharge) ==
  IF r.kind = "fixed" THEN r.amount ELSE PercentOf(timeCharge, r.amount, r.rounding)

(* SURCHARGE: every surcharge is taken of the charge for the time, never of  *)
(* the running total.                                                       *)
AtSurcharge(plan, stay, timeCharge, total) ==
  total + MapThenSumSet(LAMBDA r : Surcharge(r, timeCharge),
                        QualifiedAt(plan, stay, SURCHARGE))

(* ADJUST: the call of _adjusted, its rules in the plan's stated order or,   *)
(* where it states none, by id (_in_application_order).                     *)
AdjustCall(plan, stay, base, timeCharge, extras) ==
  LET rules == RulesAt(plan, ADJUST)
      place(r) == CHOOSE i \in DOMAIN plan.adjust_order : plan.adjust_order[i] = r.id
  IN  [time |-> timeCharge, extras |-> extras, by_special |-> base.stage = QUALIFY,
       rules |-> rules, qualified |-> QualifiedAt(plan, stay, ADJUST),
       rank |-> [r \in rules |-> IF plan.adjust_order = Unordered THEN r.id ELSE place(r)]]

AtAdjust(plan, stay, base, timeCharge, total) ==
  AdjustedTotal(AdjustCall(plan, stay, base, timeCharge, total - timeCharge))
-----------------------------------------------------------------------------
(* A fault: a special that qualifies keeps every time-based rate out. *)
WaysSpecialFirst(plan, stay) ==
  IF QualifiedAt(plan, stay, QUALIFY) # {} THEN QualifiedAt(plan, stay, QUALIFY)
  ELSE QualifiedAt(plan, stay, ACCUMULATE)

(* The ways a stay can be priced (_the_cheapest_way): each special that      *)
(* qualified, and each time-based rate that did where the time-based rate    *)
(* alone can price the stay.                                                *)
Ways(plan, stay) ==
  QualifiedAt(plan, stay, QUALIFY)
    \cup (IF TimeBasedGaps(plan, stay) = {} THEN QualifiedAt(plan, stay, ACCUMULATE) ELSE {})
-----------------------------------------------------------------------------
(* The bases whose fee may be the one charged: a terminal rule prices the    *)
(* stay alone, whatever else qualified.                                     *)
Competing(plan, stay) ==
  LET alone == Terminals(QualifiedAt(plan, stay, QUALIFY))
  IN  IF alone # {} THEN alone ELSE Ways(plan, stay)

(* A stay through the whole pipeline with one base pricing the time. *)
FeeBy(plan, stay, base) ==
  LET time == AtCap(plan, stay, base, base.price)
      extra == AtSurcharge(plan, stay, time, time)
  IN  IF Has("terminal", base) THEN base.price
      ELSE AtAdjust(plan, stay, base, time, extra)

(* What the ways of pricing a request come to, and why it is refused before  *)
(* any of them is priced.                                                   *)
Offers(req) ==
  UNION {{FeeBy(p, req.stay, w) : w \in Competing(p, req.stay)} :
           p \in InForce(req.plans, req.stay)}

Findings(req) ==
  LET plans == InForce(req.plans, req.stay)
  IN  IF TooLong(req.stay) THEN {"GAP_STAY_LONGER_THAN_MAX_STAY"}
      ELSE IF plans = {} THEN {"GAP_NO_PLAN_IN_FORCE_AT_ENTRY"}
      ELSE IF \E p, q \in plans : p # q THEN {"CONFLICT_AMBIGUOUS_PLAN_SELECTION"}
      ELSE UNION {FindGaps(p, req.stay) \cup FindConflicts(p, req.stay) : p \in plans}
=============================================================================
