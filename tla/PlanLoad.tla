------------------------------ MODULE PlanLoad ------------------------------
(***************************************************************************)
(* load_plan: a plan document is read one field after another, its rules   *)
(* are built one after another (RuleBuilders), the orders it states are    *)
(* held against the rules it has, and the first fault met is the refusal.  *)
(*                                                                         *)
(* A document keeps what the loader compares: the keys it carries, which   *)
(* of its plain fields can be read, its classes, orders, rules and         *)
(* decisions. `whole` says that no float, bool or Decimal is anywhere in   *)
(* it.                                                                     *)
(***************************************************************************)
EXTENDS RuleBuilders

CONSTANT Document

PLAN_KEYS ==
  {"plan_version", "effective_from", "timezone", "currency", "space_classes",
   "resolution", "adjust_order", "rules", "decisions"}

DECISION_KEYS == {"code", "decided_by", "decided_at", "note"}

OrderType == [stated : BOOLEAN, ids : Seq(STRING)]

ASSUME DocumentAssumption ==
  \A d \in Document :
    /\ d.object \in BOOLEAN /\ d.whole \in BOOLEAN
    /\ d.readable \subseteq {"plan_version", "effective_from", "timezone", "currency"}
    /\ d.space_classes \in Seq(STRING)
    /\ d.adjust_order \in OrderType
    /\ \A s \in DOMAIN d.resolution : d.resolution[s].order \in OrderType
    /\ Len(d.rules) \in Nat /\ DOMAIN d.rules = 1 .. Len(d.rules)
    /\ \A i \in DOMAIN d.rules :
         /\ d.rules[i].classes \in Seq(STRING)
         /\ d.rules[i].type = "time_window" /\ d.rules[i].params.effect.kind = "adjust"
              => d.rules[i].params.effect.amount \in Int
-----------------------------------------------------------------------------
IdsAt(rules, stage) == {rules[i].id : i \in {k \in DOMAIN rules : rules[k].stage = stage}}
FillIds(rules) == {rules[i].id : i \in {k \in DOMAIN rules : rules[k].type = "fill_level"}}

(* _resolution: the two stages that resolve, each with its mode. *)
SoundSettings(s) ==
  \/ s.mode = "cheapest_wins" /\ ~s.order.stated
  \/ s.mode = "stated_order" /\ s.order.stated /\ IsInjective(s.order.ids)

SoundResolution(resolution) ==
  DOMAIN resolution = RESOLVING /\ \A s \in RESOLVING : SoundSettings(resolution[s])

(* _check_stated_orders. *)
NamesEveryRule(resolution, rules) ==
  \A s \in RESOLVING :
    resolution[s].mode = "stated_order"
      => ToSet(resolution[s].order.ids) = IdsAt(rules, s)

(* The last n names of an order. *)
EndOf(order, n) == SubSeq(order, Len(order) - n + 1, Len(order))

(* A fault: one fill rule at the end is enough. *)
LastIsAFill(order, rules) ==
  FillIds(rules) # {} => order[Len(order)] \in FillIds(rules)

FillsLast(order, rules) ==
  FillIds(rules) # {} => ToSet(EndOf(order, Cardinality(FillIds(rules)))) = FillIds(rules)

SoundAdjustOrder(order, rules) ==
  order.stated =>
    /\ IsInjective(order.ids)
    /\ ToSet(order.ids) = IdsAt(rules, "ADJUST")
    /\ FillsLast(order.ids, rules)
-----------------------------------------------------------------------------
VARIABLES
  document,
  at,        \* how many checks have passed
  built,     \* the rules built so far
  verdict

vars == <<document, at, built, verdict>>

Unread == [kind |-> "unread"]
Loaded(plan) == [kind |-> "loaded", plan |-> plan]
Refused(fault) == [kind |-> "refused", fault |-> fault]
Fallen == [kind |-> "fallen"]

(* The checks in the order of load_plan. *)
Checks ==
  <<"document", "money", "keys", "plan_version", "effective_from", "timezone", "currency",
    "space_classes", "resolution", "rules", "build", "ids", "orders", "adjust_order",
    "decisions">>

(* What a check asks of a document and of the rules built from it. *)
Passes(check, d, rules) ==
  \/ check = "document" /\ d.object
  \/ check = "money" /\ d.whole
  \/ check = "keys" /\ d.keys = PLAN_KEYS
  \/ check \in d.readable
  \/ check = "space_classes" /\ d.space_classes # << >>
       /\ "" \notin ToSet(d.space_classes) /\ IsInjective(d.space_classes)
  \/ check = "resolution" /\ SoundResolution(d.resolution)
  \/ check = "rules" /\ d.rules # << >>
  \/ check = "ids" /\ IsInjective([i \in DOMAIN rules |-> rules[i].id])
  \/ check = "orders" /\ NamesEveryRule(d.resolution, rules)
  \/ check = "adjust_order" /\ SoundAdjustOrder(d.adjust_order, rules)
  \/ check = "decisions" /\ \A i \in DOMAIN d.decisions : d.decisions[i] = DECISION_KEYS

Fault(check, code) == [check |-> check, code |-> code]

PlanFrom(d, rules) ==
  [classes |-> ToSet(d.space_classes), resolution |-> d.resolution,
   adjust_order |-> d.adjust_order, rules |-> rules]

Init == document \in Document /\ at = 0 /\ built = << >> /\ verdict = Unread

Reading(check) == verdict = Unread /\ at < Len(Checks) /\ Checks[at + 1] = check

(* One check, passed or the refusal. *)
Check(check) ==
  /\ Reading(check)
  /\ IF Passes(check, document, built)
     THEN at' = at + 1 /\ UNCHANGED verdict
     ELSE verdict' = Refused(Fault(check, NoCode)) /\ UNCHANGED at
  /\ UNCHANGED <<document, built>>

NextRule == document.rules[Len(built) + 1]

BuildRule ==
  /\ Reading("build") /\ Len(built) < Len(document.rules)
  /\ Hashable(NextRule) /\ SoundRule(NextRule, ToSet(document.space_classes))
  /\ built' = Append(built, BuiltRule(NextRule))
  /\ UNCHANGED <<document, at, verdict>>

RefuseRule ==
  /\ Reading("build") /\ Len(built) < Len(document.rules)
  /\ Hashable(NextRule) /\ ~SoundRule(NextRule, ToSet(document.space_classes))
  /\ verdict' = Refused(Fault("build", CodeOf(NextRule)))
  /\ UNCHANGED <<document, at, built>>

(* A TypeError, which nothing that calls load_plan catches. *)
FallOnRule ==
  /\ Reading("build") /\ Len(built) < Len(document.rules)
  /\ ~Hashable(NextRule)
  /\ verdict' = Fallen
  /\ UNCHANGED <<document, at, built>>

RulesBuilt ==
  /\ Reading("build") /\ Len(built) = Len(document.rules)
  /\ at' = at + 1
  /\ UNCHANGED <<document, built, verdict>>

Return ==
  /\ verdict = Unread /\ at = Len(Checks)
  /\ verdict' = Loaded(PlanFrom(document, built))
  /\ UNCHANGED <<document, at, built>>

Done == verdict # Unread /\ UNCHANGED vars

Next ==
  \/ \E check \in ToSet(Checks) \ {"build"} : Check(check)
  \/ BuildRule \/ RefuseRule \/ FallOnRule \/ RulesBuilt
  \/ Return
  \/ Done

Spec == Init /\ [][Next]_vars
-----------------------------------------------------------------------------
(* Two rules of an order, the one before the other.                          *)
Before(order, a, b) ==
  \E k, l \in DOMAIN order : k < l /\ order[k] = a /\ order[l] = b

(* A plan that loads leaves no choice between its rules to the order of its  *)
(* list: of any two rules at a stage that is in a stated order exactly one   *)
(* comes first, and no discount is taken after the garage is found full      *)
(* (F35, F37, F55).                                                         *)
EveryChoiceIsStated ==
  verdict.kind = "loaded" =>
    LET plan == verdict.plan
        stated(stage) ==
          IF stage = "ADJUST" THEN plan.adjust_order ELSE plan.resolution[stage].order
    IN  /\ \A stage \in RESOLVING \cup {"ADJUST"} :
             stated(stage).stated =>
               \A a, b \in IdsAt(plan.rules, stage) :
                 a # b => Before(stated(stage).ids, a, b) # Before(stated(stage).ids, b, a)
        /\ plan.adjust_order.stated =>
             \A a \in FillIds(plan.rules), b \in IdsAt(plan.rules, "ADJUST") :
               Before(plan.adjust_order.ids, a, b) => b \in FillIds(plan.rules)

(* What is wrong with a document, its rules read from the document itself    *)
(* and the orders held against them one name at a time.                     *)
PaysTheDriver(raw) ==
  raw.type = "time_window" /\ raw.params.effect.kind = "adjust"
    /\ raw.params.effect.direction = "discount" /\ raw.params.effect.unit = "percent"
    /\ raw.params.effect.amount > WHOLE_FEE_BP

Owed(raw) ==
  IF PaysTheDriver(raw) /\ raw.params.effect.rounding \in ROUNDINGS
  THEN INVALID_PERCENT_DISCOUNT_OVER_100 ELSE NoCode

Unsound(d) ==
  {i \in DOMAIN d.rules :
     ~SoundRule(d.rules[i], ToSet(d.space_classes)) \/ PaysTheDriver(d.rules[i])}

NamesOnce(order, d, stage) ==
  /\ \A i \in DOMAIN d.rules :
       d.rules[i].stage = stage
         => \E k \in DOMAIN order : \A l \in DOMAIN order : order[l] = d.rules[i].id <=> l = k
  /\ \A k \in DOMAIN order : \E i \in DOMAIN d.rules :
       d.rules[i].stage = stage /\ d.rules[i].id = order[k]

IsAFill(id, d) == \E i \in DOMAIN d.rules : d.rules[i].id = id /\ d.rules[i].type = "fill_level"

RaisedLast(order, d) ==
  \A k, l \in DOMAIN order : k < l /\ IsAFill(order[k], d) => IsAFill(order[l], d)

Wrong(check, d) ==
  \/ check = "document" /\ ~d.object
  \/ check = "money" /\ ~d.whole
  \/ check = "keys" /\ d.keys # PLAN_KEYS
  \/ check \in {"plan_version", "effective_from", "timezone", "currency"} \ d.readable
  \/ check = "space_classes" /\ (d.space_classes = << >> \/ "" \in ToSet(d.space_classes)
       \/ Cardinality(ToSet(d.space_classes)) # Len(d.space_classes))
  \/ check = "resolution" /\ ~SoundResolution(d.resolution)
  \/ check = "rules" /\ d.rules = << >>
  \/ check = "ids" /\ \E i, j \in DOMAIN d.rules : i # j /\ d.rules[i].id = d.rules[j].id
  \/ check = "orders" /\ \E s \in RESOLVING \cap DOMAIN d.resolution :
       d.resolution[s].mode = "stated_order" /\ ~NamesOnce(d.resolution[s].order.ids, d, s)
  \/ check = "adjust_order" /\ d.adjust_order.stated
       /\ ~(NamesOnce(d.adjust_order.ids, d, "ADJUST") /\ RaisedLast(d.adjust_order.ids, d))
  \/ check = "decisions" /\ \E i \in DOMAIN d.decisions : d.decisions[i] # DECISION_KEYS

WrongWith(d) ==
  {Fault(check, NoCode) : check \in {c \in ToSet(Checks) : Wrong(c, d)}}
    \cup {Fault("build", Owed(d.rules[i])) : i \in Unsound(d)}

Promised(d) == PlanFrom(d, [i \in DOMAIN d.rules |-> BuiltRule(d.rules[i])])

Unanswerable(d) == \E i \in DOMAIN d.rules : ~Hashable(d.rules[i])

Promise == INSTANCE LoadPromise WITH
  Document <- Document, WrongWith <- WrongWith, PlanOf <- Promised,
  Unanswerable <- Unanswerable, document <- document, verdict <- verdict

(* A document is refused for a fault it has, and loads, as it stands,        *)
(* exactly when it has none; a percent discount above the whole fee says so  *)
(* in a code, whatever else is wrong with its rule (F16, F35, F37, F60).     *)
KeepsTheLoadPromise == Promise!Spec
=============================================================================
