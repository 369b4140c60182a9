---------------------------- MODULE RuleBuilders ----------------------------
(***************************************************************************)
(* The rule builders of rules/: what each registered type demands of a     *)
(* rule written in a plan, and the stage a rule of it runs at.             *)
(*                                                                         *)
(* A raw rule is what the document says. Its values are kept where a       *)
(* builder compares them; `tidy` says that it carries exactly the fields   *)
(* of its type, and `words` that the labels and times in it can be read.   *)
(***************************************************************************)
EXTENDS Windows, SequencesExt

RESOLVING == {"QUALIFY", "ACCUMULATE"}

(* register: the one stage of a type that has one. *)
RunsAt ==
  [grace |-> "QUALIFY", increment |-> "ACCUMULATE", daily_max |-> "CAP",
   weekly_max |-> "CAP", space_surcharge |-> "SURCHARGE", fill_level |-> "ADJUST"]

EFFECT_STAGES == [flat |-> "QUALIFY", rate |-> "QUALIFY", adjust |-> "ADJUST"]

RULE_TYPES == DOMAIN RunsAt \cup {"time_window"}

WHOLE_FEE_BP == 10000
DIRECTIONS == {"discount", "increase"}
ROUNDINGS == {"up", "down"}
ANSWERS == {"yes", "no"}

NoDay == -1   \* week_starts_on: null
NoCode == "none"
INVALID_PERCENT_DISCOUNT_OVER_100 == "INVALID_PERCENT_DISCOUNT_OVER_100"

(* A list of rule ids, or null. *)
Null == [stated |-> FALSE, ids |-> << >>]
Listed(ids) == [stated |-> TRUE, ids |-> ids]
-----------------------------------------------------------------------------
(* increment.build_params. *)
SoundRate(p) ==
  /\ p.first_minutes > 0 /\ p.repeat_minutes > 0
  /\ p.first_minor >= 0 /\ p.repeat_minor >= 0
  /\ p.rounding = "ceil"
  /\ p.ceiling = Unbounded \/ p.ceiling > 0

(* _effect, _amount. *)
SoundEffect(e) ==
  \/ e.kind = "flat" /\ e.price_minor >= 0
  \/ e.kind = "rate" /\ SoundRate(e.rate)
  \/ /\ e.kind = "adjust"
     /\ e.direction \in DIRECTIONS /\ e.rounding \in ROUNDINGS
     /\ e.unit \in {"percent", "fixed"} /\ e.amount > 0

(* A fault: the bound is met by whatever is not past twice the fee. *)
OverTwiceTheFee(e) ==
  e.kind = "adjust" /\ e.direction = "discount" /\ e.unit = "percent"
    /\ e.amount > 2 * WHOLE_FEE_BP

(* _refuse_a_discount_over_the_whole_fee. *)
OverTheWholeFee(e) ==
  e.kind = "adjust" /\ e.direction = "discount" /\ e.unit = "percent"
    /\ e.amount > WHOLE_FEE_BP

SoundGrace(p) == p.minutes > 0

SoundDailyMax(p) == p.max_minor >= 0 /\ p.boundary \in {"calendar_day", "rolling_24h"}

(* A starting day is stated exactly when the week has one. *)
SoundWeeklyMax(p) ==
  /\ p.max_minor >= 0
  /\ \/ p.boundary = "calendar_week" /\ p.starts_on \in 0 .. DaysInAWeek - 1
     \/ p.boundary = "rolling_7d" /\ p.starts_on = NoDay

SoundSurcharge(p) ==
  \/ p.kind = "flat" /\ p.surcharge_minor >= 0
  \/ p.kind = "percent" /\ p.rounding \in ROUNDINGS /\ p.percent_bp \in 1 .. WHOLE_FEE_BP

SoundFill(p) ==
  /\ p.rounding \in ROUNDINGS
  /\ p.raises_specials \in ANSWERS /\ p.raises_vip_extra \in ANSWERS
  /\ p.threshold_bp \in 0 .. WHOLE_FEE_BP /\ p.percent_bp \in 1 .. WHOLE_FEE_BP

SoundWindow(p) ==
  SoundEffect(p.effect) /\ ~OverTheWholeFee(p.effect) /\ Loads(p.window)

SoundParams(raw) ==
  \/ raw.type = "grace" /\ SoundGrace(raw.params)
  \/ raw.type = "increment" /\ SoundRate(raw.params)
  \/ raw.type = "daily_max" /\ SoundDailyMax(raw.params)
  \/ raw.type = "weekly_max" /\ SoundWeeklyMax(raw.params)
  \/ raw.type = "space_surcharge" /\ SoundSurcharge(raw.params)
  \/ raw.type = "fill_level" /\ SoundFill(raw.params)
  \/ raw.type = "time_window" /\ SoundWindow(raw.params)
-----------------------------------------------------------------------------
StageOf(raw) ==
  IF raw.type = "time_window" THEN EFFECT_STAGES[raw.params.effect.kind]
  ELSE RunsAt[raw.type]

(* common_fields and check_stated_stage. *)
SoundCommon(raw, classes) ==
  /\ raw.tidy /\ raw.words
  /\ raw.id # ""
  /\ raw.stage = StageOf(raw)
  /\ raw.classes # << >> /\ ToSet(raw.classes) \subseteq classes

(* build_rule: what a rule has to be for its builder to return it. *)
SoundRule(raw, classes) ==
  raw.type \in RULE_TYPES /\ SoundParams(raw) /\ SoundCommon(raw, classes)

(* The code a refused rule carries: a window's effect is read before         *)
(* anything else the rule says.                                             *)
CodeOf(raw) ==
  IF raw.type = "time_window" /\ SoundEffect(raw.params.effect)
       /\ OverTheWholeFee(raw.params.effect)
  THEN INVALID_PERCENT_DISCOUNT_OVER_100 ELSE NoCode

(* `rule_type not in RULE_TYPES` hashes the type: a list has no hash. *)
Hashable(raw) == raw.type # "a list"

BuiltRule(raw) ==
  [id |-> raw.id, type |-> raw.type, stage |-> StageOf(raw),
   classes |-> ToSet(raw.classes), params |-> raw.params]
=============================================================================
