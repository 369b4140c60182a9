------------------------------- MODULE Engine -------------------------------
(***************************************************************************)
(* engine.quote, step by step: the stay's length is checked, the plan in   *)
(* force at entry is selected, its gaps and conflicts are found, and then  *)
(* the stay is priced every way it can be, each way through the whole      *)
(* pipeline a stage at a time (_priced), the fees are compared             *)
(* (_the_cheapest_way) and the cheapest way is priced again, now with a    *)
(* line for each rule that lost.                                           *)
(*                                                                         *)
(* A plan's rules are a set: where the code goes through them in the       *)
(* order of the caller's array, any order is taken here.                   *)
(***************************************************************************)
EXTENDS RateRules

CONSTANT Request   \* the quotes asked for: a stay, and the plan versions supplied

(* What load_plan and the rule types' own build functions see to: an id names *)
(* one rule, a stated order places every base of its stage and adjust_order  *)
(* every ADJUST rule, a terminal rule runs at QUALIFY and charges nothing, a  *)
(* fill rule runs at ADJUST, and what a base charges, what a cap leaves of it *)
(* and what a surcharge adds is never below nothing.                         *)
ASSUME RequestAssumption ==
  \A req \in Request :
    \A p \in req.plans :
         /\ {"rules", "adjust_order"} \subseteq DOMAIN p
         /\ IsFiniteSet(p.rules)
         /\ \A a, b \in p.rules : a.id = b.id => a = b
         /\ \A stage \in {QUALIFY, ACCUMULATE} :
              /\ p.resolution[stage] \in Seq(Nat)
              /\ p.resolution[stage] # Unordered =>
                   \A r \in RulesAt(p, stage) : r.id \in Range(p.resolution[stage])
         /\ p.adjust_order \in Seq(Nat)
         /\ p.adjust_order # Unordered =>
              \A r \in RulesAt(p, ADJUST) : r.id \in Range(p.adjust_order)
         /\ \A r \in p.rules :
              /\ r.id \in Nat
              /\ r.stage \in {QUALIFY, ACCUMULATE} =>
                   /\ r.price \in Nat
                   /\ \A k \in RulesAt(p, CAP) : k.ceilings[r.id] \in Nat
              /\ Has("terminal", r) => r.stage = QUALIFY /\ r.price = 0
              /\ r.stage = SURCHARGE =>
                   /\ r.kind \in {"fixed", "percent"}
                   /\ r.amount \in Nat /\ r.rounding \in {"up", "down"}
              /\ r.stage = ADJUST => SoundAdjustment(r)
              /\ r.type = "fill_level" => r.stage = ADJUST

VARIABLES
  request,
  pc,            \* where in quote: a step of its own, or the stage of a pass
  plan,          \* the plan selected, once it is
  pass,          \* why the stay is being priced: "only", "trial" or "final"
  base,          \* the rule that prices the time on this pass
  fees,          \* _Compared.fees: what each way priced so far came to
  total,         \* this pass's ledger total
  time_charge,   \* the total when SURCHARGE began
  receipt,       \* this pass's lines about the rules that can price the time
  answer

vars == <<request, pc, plan, pass, base, fees, total, time_charge, receipt, answer>>

NoPlan == [rules |-> {}]
Unanswered == [kind |-> "unanswered"]
Refused(codes) == [kind |-> "refused", codes |-> codes]
Priced(fee) == [kind |-> "priced", fee |-> fee]

stay == request.stay
At(stage) == QualifiedAt(plan, stay, stage)
-----------------------------------------------------------------------------
(* _rank: the lowest fee, then the lowest charge of its own, then the name   *)
(* the plan's mode gives: its place in the stated order, or its id.         *)
Named(r) ==
  LET order == plan.resolution[r.stage]
  IN  IF order = Unordered THEN r.id ELSE CHOOSE i \in DOMAIN order : order[i] = r.id

NotAfter(a, b) ==
  /\ fees[a.id] <= fees[b.id]
  /\ fees[a.id] = fees[b.id] => a.price <= b.price
  /\ fees[a.id] = fees[b.id] /\ a.price = b.price => Named(a) <= Named(b)

First(r, rules) == r \in rules /\ \A q \in rules : NotAfter(r, q)

(* _cheapest. *)
Cheapest(rules) == CHOOSE r \in rules : First(r, rules)

WaysAt(stage) == {w \in Ways(plan, stay) : w.stage = stage}

(* A fault: a time-based rate wins a tie. *)
ChargedWayTieToTime(w) ==
  /\ First(w, WaysAt(w.stage))
  /\ w.stage = QUALIFY => \A t \in WaysAt(ACCUMULATE) : fees[w.id] < fees[t.id]
  /\ w.stage = ACCUMULATE => \A s \in WaysAt(QUALIFY) : fees[w.id] <= fees[s.id]

(* The way charged: a time-based rate only where it comes to less than the   *)
(* cheapest special; a special keeps a tie.                                 *)
ChargedWay(w) ==
  /\ First(w, WaysAt(w.stage))
  /\ w.stage = QUALIFY => \A t \in WaysAt(ACCUMULATE) : fees[w.id] <= fees[t.id]
  /\ w.stage = ACCUMULATE =>
       \A s \in WaysAt(QUALIFY) : fees[w.id] <= fees[s.id] /\ fees[w.id] # fees[s.id]
-----------------------------------------------------------------------------
Line(r, code) == [rule |-> r.id, code |-> code]

(* A fault: the special the comparison line is about gets a second verdict. *)
QualifyLinesTwice ==
  {Line(r, "not_applied") : r \in RulesAt(plan, QUALIFY) \ At(QUALIFY)}
    \cup {Line(r, "resolved") : r \in At(QUALIFY) \ {base}}
    \cup {Line(r, "charged") : r \in {base} \cap RulesAt(plan, QUALIFY)}

(* The lines of the QUALIFY stage on one pass: the base's own, why each      *)
(* special that did not qualify did not, and what beat each one that did.    *)
(* On the time-based way the cheapest special is left to the comparison line.*)
QualifyLines ==
  LET lost == IF Has("terminal", base) THEN {Line(r, "superseded") : r \in At(QUALIFY) \ {base}}
              ELSE IF pass # "final" THEN {}
              ELSE IF base.stage = QUALIFY
              THEN {Line(r, "resolved") : r \in At(QUALIFY) \ {base}}
              ELSE IF At(QUALIFY) = {} THEN {}
              ELSE {Line(r, "resolved") : r \in At(QUALIFY) \ {Cheapest(At(QUALIFY))}}
  IN  {Line(r, "not_applied") : r \in RulesAt(plan, QUALIFY) \ At(QUALIFY)}
        \cup lost
        \cup {Line(r, "charged") : r \in {base} \cap RulesAt(plan, QUALIFY)}

AccumulateLines ==
  {Line(base, "charged")}
    \cup (IF pass = "final" THEN {Line(r, "resolved") : r \in At(ACCUMULATE) \ {base}} ELSE {})

(* The line that says which way was charged and what the other comes to,    *)
(* where a special qualified.                                               *)
ComparisonLines ==
  LET special == Cheapest(WaysAt(QUALIFY))
  IN  IF Has("terminal", base) \/ WaysAt(QUALIFY) = {} THEN {}
      ELSE IF pass = "only" THEN {Line(base, "special_used")}
      ELSE IF base.stage = ACCUMULATE THEN {Line(special, "time_based_used")}
      ELSE {Line(special, "special_used")}
-----------------------------------------------------------------------------
Init ==
  /\ request \in Request
  /\ pc = "quote"
  /\ plan = NoPlan
  /\ pass = "none"
  /\ base = NoRule
  /\ fees = << >>
  /\ total = 0
  /\ time_charge = 0
  /\ receipt = {}
  /\ answer = Unanswered

Refuse(codes) ==
  /\ answer' = Refused(codes)
  /\ pc' = "answered"
  /\ UNCHANGED <<request, plan, pass, base, fees, total, time_charge, receipt>>

(* First of all, before a plan is read (F62). *)
RefuseTooLong ==
  /\ pc = "quote"
  /\ TooLong(stay)
  /\ Refuse({"GAP_STAY_LONGER_THAN_MAX_STAY"})

RefuseSelection ==
  LET plans == InForce(request.plans, stay)
  IN  /\ pc = "quote"
      /\ ~TooLong(stay)
      /\ \/ plans = {} /\ Refuse({"GAP_NO_PLAN_IN_FORCE_AT_ENTRY"})
         \/ /\ \E p, q \in plans : p # q
            /\ Refuse({"CONFLICT_AMBIGUOUS_PLAN_SELECTION"})

SelectPlan ==
  LET plans == InForce(request.plans, stay)
  IN  /\ pc = "quote"
      /\ ~TooLong(stay)
      /\ \E p \in plans : plans = {p} /\ plan' = p
      /\ pc' = "check"
      /\ UNCHANGED <<request, pass, base, fees, total, time_charge, receipt, answer>>

(* A fault: a plan's conflicts are not looked for. *)
BlockingGapsOnly == FindGaps(plan, stay)

Blocking == FindGaps(plan, stay) \cup FindConflicts(plan, stay)

RefuseBlocked ==
  /\ pc = "check"
  /\ Blocking # {}
  /\ Refuse(Blocking)

(* _priced: a pass begins with an empty ledger. *)
Begin(rule, why) ==
  /\ base' = rule
  /\ pass' = why
  /\ total' = 0
  /\ time_charge' = 0
  /\ receipt' = {}
  /\ pc' = QUALIFY
  /\ UNCHANGED <<request, plan, fees, answer>>

(* A terminal rule prices the stay alone; one way is priced once. *)
PriceAlone ==
  /\ pc = "check"
  /\ Blocking = {}
  /\ LET alone == Terminals(At(QUALIFY))
     IN  \/ \E rule \in alone : Begin(rule, "only")
         \/ alone = {} /\ \E rule \in Ways(plan, stay) :
                            Ways(plan, stay) = {rule} /\ Begin(rule, "only")

(* Each way is priced once to learn its fee. *)
PriceWay ==
  /\ \/ pc = "check" /\ Blocking = {} /\ Terminals(At(QUALIFY)) = {}
     \/ pc = "compare"
  /\ \E a, b \in Ways(plan, stay) : a # b
  /\ \E rule \in Ways(plan, stay) : rule.id \notin DOMAIN fees /\ Begin(rule, "trial")

QualifyStage ==
  /\ pc = QUALIFY
  /\ total' = IF base.stage = QUALIFY THEN total + base.price ELSE total
  /\ receipt' = receipt \cup QualifyLines
  /\ pc' = IF Has("terminal", base) THEN "priced" ELSE ACCUMULATE
  /\ UNCHANGED <<request, plan, pass, base, fees, time_charge, answer>>

(* A special prices the time on its own pass, so no time-based rate does. *)
AccumulateStage ==
  /\ pc = ACCUMULATE
  /\ IF base.stage = QUALIFY
     THEN UNCHANGED <<total, receipt>>
     ELSE total' = total + base.price /\ receipt' = receipt \cup AccumulateLines
  /\ pc' = CAP
  /\ UNCHANGED <<request, plan, pass, base, fees, time_charge, answer>>

CapTheTime ==
  /\ pc = CAP
  /\ total' = AtCap(plan, stay, base, total)
  /\ pc' = SURCHARGE
  /\ UNCHANGED <<request, plan, pass, base, fees, time_charge, receipt, answer>>

SurchargeStage ==
  /\ pc = SURCHARGE
  /\ time_charge' = total
  /\ total' = AtSurcharge(plan, stay, total, total)
  /\ pc' = ADJUST
  /\ UNCHANGED <<request, plan, pass, base, fees, receipt, answer>>

AdjustStage ==
  /\ pc = ADJUST
  /\ total' = AtAdjust(plan, stay, base, time_charge, total)
  /\ pc' = "priced"
  /\ UNCHANGED <<request, plan, pass, base, fees, time_charge, receipt, answer>>

(* A fault: the ways are compared before their surcharges and adjustments.   *)
KeepTimeCharge ==
  /\ pc = "priced"
  /\ pass = "trial"
  /\ fees' = [id \in DOMAIN fees \cup {base.id} |->
                IF id = base.id THEN time_charge ELSE fees[id]]
  /\ pc' = "compare"
  /\ UNCHANGED <<request, plan, pass, base, total, time_charge, receipt, answer>>

(* A trial pass ends: only its fee is kept. *)
KeepFee ==
  /\ pc = "priced"
  /\ pass = "trial"
  /\ fees' = [id \in DOMAIN fees \cup {base.id} |-> IF id = base.id THEN total ELSE fees[id]]
  /\ pc' = "compare"
  /\ UNCHANGED <<request, plan, pass, base, total, time_charge, receipt, answer>>

(* Every way's fee is known: the cheapest is priced again, with its lines. *)
PriceCheapest ==
  /\ pc = "compare"
  /\ \A w \in Ways(plan, stay) : w.id \in DOMAIN fees
  /\ \E w \in Ways(plan, stay) : ChargedWay(w) /\ Begin(w, "final")

(* quote: the fee is the ledger's total, and a negative one is refused. *)
Answer ==
  /\ pc = "priced"
  /\ pass # "trial"
  /\ receipt' = receipt \cup ComparisonLines
  /\ answer' = IF total < 0 THEN Refused({"CONFLICT_NEGATIVE_TOTAL"}) ELSE Priced(total)
  /\ pc' = "answered"
  /\ UNCHANGED <<request, plan, pass, base, fees, total, time_charge>>

Step ==
  \/ RefuseTooLong \/ RefuseSelection \/ SelectPlan \/ RefuseBlocked
  \/ PriceAlone \/ PriceWay \/ QualifyStage \/ AccumulateStage \/ CapTheTime
  \/ SurchargeStage \/ AdjustStage \/ KeepFee \/ PriceCheapest \/ Answer

Next == Step \/ (pc = "answered" /\ UNCHANGED vars)

Spec == Init /\ [][Next]_vars
-----------------------------------------------------------------------------
Promise == INSTANCE Tariff WITH
  Request <- Request, Findings <- Findings, Offers <- Offers,
  request <- request, answer <- answer

(* The engine keeps the tariff's promise: whatever order the ways are priced *)
(* in, the answer is the one Tariff allows -- the least fee of every way     *)
(* through every stage, or exactly the findings that stop it.               *)
KeepsThePromise == Promise!Spec

(* The final pass charges what the trial said: the lines for the rules that  *)
(* lost, written only then, move no fee (_priced, F63).                     *)
FinalPassIsTheTrial ==
  (pass = "final" /\ pc = "priced") => total = fees[base.id]

(* What the caps split by the day is the base's own charge and nothing else  *)
(* (the assertion in _charged_by), on every pass.                           *)
BaseAloneIsCapped == pc = CAP => total = base.price

(* A receipt answers "why not this rate?" for every special of the plan and, *)
(* where the time was charged, for every time-based rate that qualified: one *)
(* charged rule, and for each other one verdict.                            *)
ReceiptAnswersEveryRate ==
  answer.kind = "priced" =>
    LET said(r) == {l \in receipt : l.rule = r.id /\ l.code # "special_used"}
        lostOnTime == IF base.stage = ACCUMULATE THEN At(ACCUMULATE) ELSE {}
    IN  /\ Line(base, "charged") \in receipt
        /\ \A r \in RulesAt(plan, QUALIFY) \cup lostOnTime :
             /\ Cardinality(said(r)) = 1
             /\ Line(r, "charged") \in receipt => r = base

(* The comparison a receipt prints never shows a cheaper way than the one    *)
(* charged, and the rule it names as the cheaper special is.                *)
ComparisonIsHonest ==
  (answer.kind = "priced" /\ pass = "final") =>
    /\ \A id \in DOMAIN fees : fees[id] >= answer.fee
    /\ base.stage = ACCUMULATE => \A w \in WaysAt(QUALIFY) : fees[w.id] > answer.fee
    /\ \A l \in receipt : l.code \in {"special_used", "time_based_used"} =>
         \A w \in WaysAt(QUALIFY) : fees[l.rule] <= fees[w.id]

(* One more special, or one more time-based rate, never makes a stay dearer. *)
MoreWaysNeverDearer ==
  answer.kind = "priced" =>
    \A r \in {w \in Ways(plan, stay) : ~Has("terminal", w)} :
      LET less == [plan EXCEPT !.rules = @ \ {r}]
      IN  (FindGaps(less, stay) = {} /\ Competing(less, stay) # {}) =>
            \A w \in Competing(less, stay) :
              answer.fee <= FeeBy(less, stay, w)

(* A full garage never makes a stay cheaper: it costs at least what it does  *)
(* on the same plan without its fill rule.                                  *)
FullNeverCheaper ==
  answer.kind = "priced" =>
    LET less == [plan EXCEPT !.rules = {r \in @ : r.type # "fill_level"}]
    IN  \E w \in Competing(less, stay) : answer.fee >= FeeBy(less, stay, w)

=============================================================================
