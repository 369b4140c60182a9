--------------------------- MODULE Engine_proofs ---------------------------
(***************************************************************************)
(* What TLAPS proves of a quote, for every set of requests: the ledger of  *)
(* each pass is, stage after stage, the figure the tariff names for that   *)
(* way of pricing the stay; so what is capped is the base alone, the final *)
(* pass charges what its trial did, and quote implements the tariff. The   *)
(* receipt answers for each rate once and compares it honestly, one way    *)
(* more never makes a stay dearer, and a full garage never makes it cheaper.*)
(***************************************************************************)
EXTENDS Engine, Adjust_proofs

PassPoints == {QUALIFY, ACCUMULATE, CAP, SURCHARGE, ADJUST, "priced"}
Planned == PassPoints \cup {"check", "compare"}

Fee(w) == FeeBy(plan, stay, w)
Capped == AtCap(plan, stay, base, base.price)

(* Nothing is answered before the end, and the plan in hand is the one plan  *)
(* in force, for a stay that is not too long.                               *)
Selected ==
  /\ request \in Request
  /\ pc \in Planned \cup {"quote", "answered"}
  /\ pc # "answered" => answer = Unanswered
  /\ pc \in Planned => ~TooLong(stay) /\ InForce(request.plans, stay) = {plan}

(* Passes and comparisons are for a plan nothing blocks, and fees are        *)
(* compared only where no terminal rule prices the stay alone.              *)
Unblocked ==
  /\ pc \in PassPoints \cup {"compare"} => Blocking = {}
  /\ pc \in PassPoints => pass \in {"only", "trial", "final"}
  /\ (pc = "compare" \/ (pc \in PassPoints /\ pass # "only")) => Terminals(At(QUALIFY)) = {}

(* A fee that is kept is the fee of the way it is kept for.                 *)
FeesAreFees ==
  /\ pc \in {"quote", "check"} => fees = << >>
  /\ pc \in PassPoints \cup {"compare"} =>
       \A w \in plan.rules : w.id \in DOMAIN fees => fees[w.id] = Fee(w)

(* The base of a pass is one of the ways; but for a trial its fee is the     *)
(* one the tariff charges.                                                  *)
BaseCompetes ==
  pc \in PassPoints =>
    /\ base \in Competing(plan, stay)
    /\ pass # "trial" => Promise!Charged(request, Fee(base))
    /\ pass = "final" => base.id \in DOMAIN fees

(* The ledger, stage by stage. *)
PassIsTheWay ==
  /\ pc = QUALIFY => total = 0
  /\ pc \in {ACCUMULATE, CAP, SURCHARGE, ADJUST} => ~Has("terminal", base)
  /\ pc = ACCUMULATE => total = IF base.stage = QUALIFY THEN base.price ELSE 0
  /\ pc = CAP => total = base.price
  /\ pc = SURCHARGE => total = Capped
  /\ pc = ADJUST => time_charge = Capped /\ total = AtSurcharge(plan, stay, Capped, Capped)
  /\ pc = "priced" => total = Fee(base)

IInv == Selected /\ Unblocked /\ FeesAreFees /\ BaseCompetes /\ PassIsTheWay
-----------------------------------------------------------------------------
(* The points of a quote are told apart.                                     *)
LEMMA PointsDiffer ==
  /\ {"quote", "answered"} \cap Planned = {}
  /\ {"check", "compare"} \cap PassPoints = {}
  /\ PassPoints \subseteq Planned
  /\ QUALIFY = "QUALIFY" /\ ACCUMULATE = "ACCUMULATE" /\ CAP = "CAP"
  /\ SURCHARGE = "SURCHARGE" /\ ADJUST = "ADJUST"
  BY DEF PassPoints, Planned, QUALIFY, ACCUMULATE, CAP, SURCHARGE, ADJUST

(* The plan in force is one of those supplied.                              *)
LEMMA PlanIsSupplied ==
  ASSUME NEW plans, NEW s, NEW p, InForce(plans, s) = {p}
  PROVE  p \in plans
  BY DEF InForce

(* A competing base is a rule of the plan, at one of the two base stages.    *)
LEMMA CompetingIsABase ==
  ASSUME NEW p, NEW s, NEW w \in Competing(p, s)
  PROVE  w \in p.rules /\ w.stage \in {QUALIFY, ACCUMULATE}
<1>1. \A stage : QualifiedAt(p, s, stage) \subseteq {r \in p.rules : r.stage = stage}
  BY DEF QualifiedAt, RulesAt
<1>2. Ways(p, s) \subseteq QualifiedAt(p, s, QUALIFY) \cup QualifiedAt(p, s, ACCUMULATE)
  BY DEF Ways
<1>3. Terminals(QualifiedAt(p, s, QUALIFY)) \subseteq QualifiedAt(p, s, QUALIFY)
  BY DEF Terminals
<1> QED
  BY <1>1, <1>2, <1>3 DEF Competing

-----------------------------------------------------------------------------
(* What the ADJUST stage is handed: for a plan as it is loaded, and a stay   *)
(* that no two fill rules raise, a sound call of _adjusted.                  *)
SoundPlan(p) ==
  /\ {"rules", "adjust_order"} \subseteq DOMAIN p
  /\ IsFiniteSet(p.rules)
  /\ \A a, b \in p.rules : a.id = b.id => a = b
  /\ p.adjust_order \in Seq(Nat)
  /\ p.adjust_order # Unordered => \A r \in RulesAt(p, ADJUST) : r.id \in Range(p.adjust_order)
  /\ \A r \in p.rules : r.id \in Nat /\ (r.stage = ADJUST => SoundAdjustment(r))

LEMMA SuppliedIsSound ==
  ASSUME NEW req \in Request, NEW p \in req.plans
  PROVE  SoundPlan(p)
  BY RequestAssumption DEF SoundPlan

OneFill(p, s) ==
  \A a, b \in QualifiedAt(p, s, ADJUST) :
    Has("one_per_stay", a) /\ Has("one_per_stay", b) => a = b

LEMMA OneFillRaises ==
  ASSUME NEW p, NEW s, FindConflicts(p, s) = {}
  PROVE  OneFill(p, s)
<1>1. ADJUST \in STAGES
  BY DEF STAGES
<1>2. ~ \E stage \in STAGES : \E a, b \in {r \in QualifiedAt(p, s, stage) : Has("one_per_stay", r)} :
          a # b
  BY Zenon DEF FindConflicts
<1> QED
  BY <1>1, <1>2 DEF OneFill

CallOf(c, p, s, w, t, x) ==
  /\ IsCall(c)
  /\ c.rules = RulesAt(p, ADJUST) /\ c.qualified = QualifiedAt(p, s, ADJUST)
  /\ c.time = t /\ c.extras = x /\ c.by_special = (w.stage = QUALIFY)
  /\ \A r \in RulesAt(p, ADJUST) :
       c.rank[r] = IF p.adjust_order = Unordered THEN r.id
                   ELSE CHOOSE i \in DOMAIN p.adjust_order : p.adjust_order[i] = r.id

LEMMA CallIs ==
  ASSUME NEW p, NEW s, NEW w, NEW t \in Nat, NEW x \in Nat
  PROVE  CallOf(AdjustCall(p, s, w, t, x), p, s, w, t, x)
  BY DEF AdjustCall, IsCall, CallOf

LEMMA CallIsSound ==
  ASSUME NEW p, SoundPlan(p), NEW s, OneFill(p, s), NEW w, NEW t \in Nat, NEW x \in Nat
  PROVE  SoundCall(AdjustCall(p, s, w, t, x))
<1> DEFINE c == AdjustCall(p, s, w, t, x)
           rules == RulesAt(p, ADJUST)
           order == p.adjust_order
<1>1. /\ IsCall(c) /\ c.rules = rules /\ c.qualified = QualifiedAt(p, s, ADJUST)
      /\ \A r \in rules : c.rank[r] = IF order = Unordered THEN r.id
                                      ELSE CHOOSE i \in DOMAIN order : order[i] = r.id
  <2>1. CallOf(c, p, s, w, t, x)
    BY CallIs
  <2> QED
    BY <2>1 DEF CallOf
<1> HIDE DEF c
<1>2. \A r \in rules : r \in p.rules /\ r.id \in Nat /\ SoundAdjustment(r)
  BY DEF RulesAt, SoundPlan
<1>3. IsFiniteSet(rules)
  BY FS_Subset DEF RulesAt, SoundPlan
<1>4. ASSUME NEW r \in rules, order # Unordered
      PROVE  c.rank[r] \in DOMAIN order /\ order[c.rank[r]] = r.id
  <2>1. r.id \in Range(order)
    BY <1>4 DEF SoundPlan
  <2>2. \E i \in DOMAIN order : order[i] = r.id
    BY <2>1 DEF Range
  <2> QED
    BY <1>1, <1>4, <2>2
<1>5. order \in Seq(Nat)
  BY DEF SoundPlan
<1> HIDE DEF order, rules
<1>6. \A r \in rules : c.rank[r] \in Nat
  <2> SUFFICES ASSUME NEW r \in rules PROVE c.rank[r] \in Nat
    OBVIOUS
  <2>1. CASE order = Unordered
    BY <1>1, <1>2, <2>1
  <2>2. CASE order # Unordered
    BY <1>4, <1>5, <2>2
  <2> QED
    BY <2>1, <2>2
<1>7. ASSUME NEW r \in rules, NEW q \in rules, c.rank[r] = c.rank[q]
      PROVE  r = q
  <2>1. r.id = q.id
    <3>1. CASE order = Unordered
      BY <1>1, <1>7, <3>1
    <3>2. CASE order # Unordered
      BY <1>4, <1>7, <3>2
    <3> QED
      BY <3>1, <3>2
  <2> QED
    BY <1>2, <2>1 DEF SoundPlan
<1>8. ASSUME NEW r \in Fills(c), NEW q \in Fills(c)
      PROVE  r = q
  <2>1. \A f : f.type = "fill_level" => Has("one_per_stay", f)
    BY DEF Has, RULE_TRAITS
  <2>2. /\ r \in QualifiedAt(p, s, ADJUST) /\ q \in QualifiedAt(p, s, ADJUST)
        /\ r.type = "fill_level" /\ q.type = "fill_level"
    BY <1>1 DEF Fills
  <2> QED
    BY <2>1, <2>2 DEF OneFill
<1>9. \A r \in c.rules : SoundAdjustment(r) /\ c.rank[r] \in Nat
  BY <1>1, <1>2, <1>6
<1>10. IsFiniteSet(c.rules) /\ \A r, q \in c.rules : c.rank[r] = c.rank[q] => r = q
  BY <1>1, <1>3, <1>7
<1> HIDE DEF Fills
<1>11. SoundCall(c)
  BY <1>1, <1>8, <1>9, <1>10 DEF SoundCall
<1> QED
  BY <1>11 DEF c

(* What SURCHARGE adds is the surcharges' amounts, one after another, and    *)
(* never below nothing.                                                      *)
ExtraStep(t, it, s) ==
  IF s = {} THEN 0 ELSE LET x == CHOOSE y \in s : TRUE IN Surcharge(x, t) + it[s \ {x}]

ExtraOver(t, S) == MapThenSumSet(LAMBDA r : Surcharge(r, t), S)

Extras(t, S, it) == it = [s \in SUBSET S |-> ExtraStep(t, it, s)]

LEMMA ExtraIs ==
  ASSUME NEW t, NEW S
  PROVE  ExtraOver(t, S) = (CHOOSE it : Extras(t, S, it))[S]
BY DEF ExtraOver, MapThenSumSet, MapThenFoldSet, Extras, ExtraStep

LEMMA ExtrasExist ==
  ASSUME NEW t, NEW S, IsFiniteSet(S)
  PROVE  \E it : Extras(t, S, it)
<1> DEFINE Right(h, s) == h[s] = ExtraStep(t, h, s)
           UpTo(h, n) == /\ h = [s \in SUBSET S |-> h[s]]
                         /\ \A s \in SUBSET S : Cardinality(s) <= n => Right(h, s)
           N == {n \in Nat : \E h : UpTo(h, n)}
<1>0. \A s \in SUBSET S : IsFiniteSet(s) /\ Cardinality(s) \in Nat
  BY FS_Subset, FS_CardinalityType
<1>1. 0 \in N
  <2> DEFINE h == [s \in SUBSET S |-> 0]
  <2>1. ASSUME NEW s \in SUBSET S, Cardinality(s) <= 0
        PROVE  Right(h, s)
    <3>1. s = {}
      BY <1>0, <2>1, FS_EmptySet
    <3> QED
      BY <3>1 DEF ExtraStep
  <2>2. h = [s \in SUBSET S |-> h[s]]
    OBVIOUS
  <2>3. UpTo(h, 0)
    BY <2>1, <2>2
  <2> QED
    BY <2>3
<1>2. ASSUME NEW n \in N
      PROVE  n + 1 \in N
  <2>1. PICK h : UpTo(h, n)
    OBVIOUS
  <2> DEFINE k == [s \in SUBSET S |-> ExtraStep(t, h, s)]
  <2>2. ASSUME NEW s \in SUBSET S, Cardinality(s) <= n + 1
        PROVE  Right(k, s)
    <3>1. CASE s = {}
      BY <3>1 DEF ExtraStep
    <3>2. CASE s # {}
      <4> DEFINE x == CHOOSE y \in s : TRUE
      <4>1. x \in s
        BY <3>2
      <4> HIDE DEF x
      <4>2. s \ {x} \in SUBSET S /\ Cardinality(s \ {x}) <= n
        BY <1>0, <2>2, <4>1, FS_RemoveElement
      <4>3. h[s \ {x}] = ExtraStep(t, h, s \ {x})
        BY <2>1, <4>2
      <4>4. k[s \ {x}] = h[s \ {x}]
        BY <4>2, <4>3
      <4>5. k[s] = Surcharge(x, t) + h[s \ {x}]
        BY <3>2 DEF ExtraStep, x
      <4>6. ExtraStep(t, k, s) = Surcharge(x, t) + k[s \ {x}]
        BY <3>2 DEF ExtraStep, x
      <4> QED
        BY <4>4, <4>5, <4>6
    <3> QED
      BY <3>1, <3>2
  <2>3. k = [s \in SUBSET S |-> k[s]]
    OBVIOUS
  <2>4. \E h1 : UpTo(h1, n + 1)
    <3> HIDE DEF k
    <3> QED
      BY <2>2, <2>3
  <2>5. n + 1 \in Nat
    OBVIOUS
  <2> HIDE DEF UpTo
  <2> QED
    BY <2>4, <2>5
<1>3. N = Nat
  <2> HIDE DEF N
  <2>1. N \in SUBSET Nat
    BY DEF N
  <2> QED
    BY <1>1, <1>2, <2>1, Induction
<1>4. PICK h : UpTo(h, Cardinality(S))
  BY <1>0, <1>3
<1>5. \A s \in SUBSET S : Cardinality(s) <= Cardinality(S)
  BY FS_Subset
<1>6. h = [s \in SUBSET S |-> ExtraStep(t, h, s)]
  BY <1>4, <1>5
<1> QED
  BY <1>6 DEF Extras

LEMMA ExtrasAreNat ==
  ASSUME NEW t, NEW S, IsFiniteSet(S), \A r \in S : Surcharge(r, t) \in Nat
  PROVE  ExtraOver(t, S) \in Nat
<1> DEFINE it == CHOOSE h : Extras(t, S, h)
           G == {s \in SUBSET S : it[s] \in Nat}
<1>1. Extras(t, S, it)
  BY ExtrasExist
<1>2. ExtraOver(t, S) = it[S]
  BY ExtraIs
<1> HIDE DEF it
<1>3. \A s \in SUBSET S : it[s] = ExtraStep(t, it, s)
  BY <1>1 DEF Extras
<1>4. {} \in G
  BY <1>3 DEF ExtraStep
<1>5. ASSUME NEW s \in SUBSET S, s # {}, \A x \in s : s \ {x} \in G
      PROVE  s \in G
  <2> DEFINE x == CHOOSE y \in s : TRUE
  <2>1. x \in s
    BY <1>5
  <2> HIDE DEF x
  <2>2. it[s \ {x}] \in Nat /\ Surcharge(x, t) \in Nat
    BY <1>5, <2>1
  <2>3. it[s] = Surcharge(x, t) + it[s \ {x}]
    BY <1>3, <1>5 DEF ExtraStep, x
  <2> QED
    BY <2>2, <2>3
<1>6. \A s \in SUBSET S : s \in G
  <2> HIDE DEF G
  <2> QED
    BY <1>4, <1>5, SubsetInduction
<1> QED
  BY <1>2, <1>6

(* A plan as it is loaded charges a natural number of minor units for every  *)
(* way of pricing a stay nothing blocks.                                     *)
PricedSoundly(p, w) ==
  /\ w.price \in Nat
  /\ \A k \in RulesAt(p, CAP) : k.ceilings[w.id] \in Nat
  /\ \A r \in RulesAt(p, SURCHARGE) :
       r.kind \in {"fixed", "percent"} /\ r.amount \in Nat /\ r.rounding \in {"up", "down"}

LEMMA SuppliedPricesSoundly ==
  ASSUME NEW req \in Request, NEW p \in req.plans, NEW s, NEW w \in Competing(p, s)
  PROVE  PricedSoundly(p, w)
<1>1. w \in p.rules /\ w.stage \in {QUALIFY, ACCUMULATE}
  BY CompetingIsABase
<1>2. w.price \in Nat /\ \A k \in RulesAt(p, CAP) : k.ceilings[w.id] \in Nat
  BY <1>1, RequestAssumption
<1>3. \A r \in RulesAt(p, SURCHARGE) :
        r.kind \in {"fixed", "percent"} /\ r.amount \in Nat /\ r.rounding \in {"up", "down"}
  BY RequestAssumption DEF RulesAt
<1> QED
  BY <1>2, <1>3 DEF PricedSoundly

TimeOf(p, s, w) == AtCap(p, s, w, w.price)
ExtraOf(p, s, t) == ExtraOver(t, QualifiedAt(p, s, SURCHARGE))

LEMMA TimeIsNat ==
  ASSUME NEW p, NEW s, NEW w, PricedSoundly(p, w)
  PROVE  TimeOf(p, s, w) \in Nat
<1> DEFINE T == {w.price} \cup {k.ceilings[w.id] : k \in QualifiedAt(p, s, CAP)}
<1>1. T \in SUBSET Nat /\ T # {}
  BY DEF PricedSoundly, QualifiedAt
<1>2. TimeOf(p, s, w) = Min(T)
  BY DEF TimeOf, AtCap
<1> HIDE DEF T
<1>3. \E m \in T : \A n \in T : m <= n
  BY <1>1, LeastNat
<1>4. Min(T) \in T
  BY <1>3 DEF Min
<1> QED
  BY <1>1, <1>2, <1>4

LEMMA ExtraIsNat ==
  ASSUME NEW p, SoundPlan(p), NEW s, NEW w, PricedSoundly(p, w), NEW t \in Nat
  PROVE  ExtraOf(p, s, t) \in Nat
<1> DEFINE S == QualifiedAt(p, s, SURCHARGE)
<1>1. IsFiniteSet(S)
  BY FS_Subset DEF SoundPlan, QualifiedAt, RulesAt
<1>2. ASSUME NEW r \in S
      PROVE  Surcharge(r, t) \in Nat
  <2>1. r.kind \in {"fixed", "percent"} /\ r.amount \in Nat
    BY DEF PricedSoundly, QualifiedAt
  <2> QED
    BY <2>1, PercentIsNat DEF Surcharge
<1> HIDE DEF S
<1>3. ExtraOver(t, S) \in Nat
  BY <1>1, <1>2, ExtrasAreNat
<1> QED
  BY <1>3 DEF ExtraOf, S

LEMMA FeeIsTheCall ==
  ASSUME NEW p, SoundPlan(p), NEW s, NEW w, PricedSoundly(p, w), ~Has("terminal", w)
  PROVE  LET t == TimeOf(p, s, w)
             x == ExtraOf(p, s, t)
         IN  /\ t \in Nat /\ x \in Nat
             /\ FeeBy(p, s, w) = AdjustedTotal(AdjustCall(p, s, w, t, x))
<1> DEFINE t == TimeOf(p, s, w)
           x == ExtraOf(p, s, t)
<1>1. t \in Nat
  BY TimeIsNat
<1>2. x \in Nat
  <2> HIDE DEF t
  <2> QED
    BY <1>1, ExtraIsNat
<1>3. AtSurcharge(p, s, t, t) = t + x
  BY DEF AtSurcharge, ExtraOf, ExtraOver
<1>4. FeeBy(p, s, w) = AtAdjust(p, s, w, t, AtSurcharge(p, s, t, t))
  BY DEF FeeBy, TimeOf
<1> HIDE DEF t, x
<1>5. (t + x) - t = x
  BY <1>1, <1>2
<1>6. FeeBy(p, s, w) = AdjustedTotal(AdjustCall(p, s, w, t, x))
  <2>1. FeeBy(p, s, w) = AtAdjust(p, s, w, t, t + x)
    BY <1>3, <1>4
  <2>2. AtAdjust(p, s, w, t, t + x) = AdjustedTotal(AdjustCall(p, s, w, t, (t + x) - t))
    BY DEF AtAdjust
  <2> QED
    BY <1>5, <2>1, <2>2
<1> QED
  BY <1>1, <1>2, <1>6 DEF t, x

LEMMA FeeIsNat ==
  ASSUME NEW p, SoundPlan(p), NEW s, OneFill(p, s), NEW w, PricedSoundly(p, w)
  PROVE  FeeBy(p, s, w) \in Nat
<1>1. CASE Has("terminal", w)
  BY <1>1 DEF FeeBy, PricedSoundly
<1>2. CASE ~Has("terminal", w)
  <2>1. PICK t \in Nat, x \in Nat : FeeBy(p, s, w) = AdjustedTotal(AdjustCall(p, s, w, t, x))
    BY <1>2, FeeIsTheCall
  <2> QED
    BY <2>1, CallIsSound, AdjustedIsNat
<1> QED
  BY <1>1, <1>2

(* With one plan in force, what is offered is what its ways come to, and     *)
(* what is found is what blocks it.                                         *)
LEMMA OnePlanInForce ==
  ASSUME Selected, pc \in Planned
  PROVE  /\ plan \in request.plans
         /\ Offers(request) = {Fee(w) : w \in Competing(plan, stay)}
         /\ Findings(request) = Blocking
         /\ Blocking = {} => \A w \in Competing(plan, stay) : Fee(w) \in Nat
<1>1. ~TooLong(stay) /\ InForce(request.plans, stay) = {plan}
  BY DEF Selected
<1>2. plan \in request.plans
  BY <1>1, PlanIsSupplied
<1>3. Offers(request) = {Fee(w) : w \in Competing(plan, stay)}
  BY <1>1 DEF Offers, Fee, stay
<1>4. Findings(request) = Blocking
  BY <1>1 DEF Findings, Blocking, stay
<1>5. ASSUME Blocking = {}, NEW w \in Competing(plan, stay)
      PROVE  Fee(w) \in Nat
  <2>1. SoundPlan(plan) /\ PricedSoundly(plan, w)
    BY <1>2, SuppliedIsSound, SuppliedPricesSoundly DEF Selected
  <2>2. OneFill(plan, stay)
    BY <1>5, OneFillRaises DEF Blocking
  <2> QED
    BY <2>1, <2>2, FeeIsNat DEF Fee
<1> QED
  BY <1>2, <1>3, <1>4, <1>5

(* A base's own charge is a natural number, and nothing if it is terminal.   *)
LEMMA BasePrice ==
  ASSUME Selected, pc \in Planned, NEW w \in Competing(plan, stay)
  PROVE  /\ w \in plan.rules /\ w.stage \in {QUALIFY, ACCUMULATE}
         /\ w.price \in Nat
         /\ Has("terminal", w) => w.stage = QUALIFY /\ w.price = 0
<1>1. w \in plan.rules /\ w.stage \in {QUALIFY, ACCUMULATE}
  BY CompetingIsABase
<1>2. request \in Request /\ plan \in request.plans
  BY OnePlanInForce DEF Selected
<1> QED
  BY <1>1, <1>2, RequestAssumption

(* A pass that begins with a base that competes keeps the invariant.         *)
LEMMA PassBegins ==
  ASSUME IInv, pc \in {"check", "compare"}, Blocking = {},
         NEW rule \in Competing(plan, stay), NEW why \in {"only", "trial", "final"},
         Begin(rule, why),
         why # "only" => Terminals(At(QUALIFY)) = {},
         why # "trial" => Promise!Charged(request, Fee(rule)),
         why = "final" => rule.id \in DOMAIN fees
  PROVE  IInv'
<1> USE PointsDiffer DEF Begin
<1>1. pc \in Planned /\ pc' \in PassPoints /\ pc' \in Planned /\ pc' = QUALIFY
  BY DEF Planned, PassPoints
<1>2. \A w : Fee(w)' = Fee(w)
  BY DEF Fee, stay
<1>3. /\ Blocking' = Blocking
      /\ At(QUALIFY)' = At(QUALIFY)
      /\ Competing(plan, stay)' = Competing(plan, stay)
  BY DEF Blocking, At, stay
<1>4. Selected'
  BY <1>1 DEF IInv, Selected, Planned, PassPoints, stay
<1>5. Unblocked'
  BY <1>1, <1>3 DEF IInv, Unblocked
<1>6. FeesAreFees'
  <2>1. \A w \in plan.rules : w.id \in DOMAIN fees => fees[w.id] = Fee(w)
    BY DEF IInv, FeesAreFees
  <2> QED
    BY <1>1, <1>2, <2>1 DEF FeesAreFees
<1>7. BaseCompetes'
  BY <1>2, <1>3 DEF BaseCompetes, Promise!Charged
<1>8. PassIsTheWay'
  BY <1>1 DEF PassIsTheWay
<1> QED
  BY <1>4, <1>5, <1>6, <1>7, <1>8 DEF IInv
-----------------------------------------------------------------------------
LEMMA InitHolds == Init => IInv
<1> SUFFICES ASSUME Init PROVE IInv
  OBVIOUS
<1>1. pc \notin Planned /\ pc # "answered" /\ pc \notin PassPoints \cup {"compare"}
  BY PointsDiffer DEF Init, Planned
<1> QED
  BY <1>1, PointsDiffer
  DEF Init, IInv, Selected, Unblocked, FeesAreFees, BaseCompetes, PassIsTheWay, Planned, PassPoints

(* A refusal ends the quote. *)
LEMMA RefusalHolds ==
  ASSUME IInv, NEW codes, Refuse(codes)
  PROVE  IInv'
<1>1. pc' = "answered" /\ pc' \notin Planned /\ pc' \notin PassPoints \cup {"compare"}
  BY PointsDiffer DEF Refuse, Planned, PassPoints
<1> QED
  BY <1>1, PointsDiffer
  DEF Refuse, IInv, Selected, Unblocked, FeesAreFees, BaseCompetes, PassIsTheWay, Planned, PassPoints

LEMMA SelectionHolds ==
  ASSUME IInv, SelectPlan
  PROVE  IInv'
<1> USE PointsDiffer DEF SelectPlan
<1>1. pc' = "check" /\ pc' \in Planned /\ pc' \notin PassPoints \cup {"compare"}
  BY DEF Planned, PassPoints
<1>2. Selected'
  BY <1>1 DEF IInv, Selected, stay
<1>3. Unblocked' /\ BaseCompetes' /\ PassIsTheWay'
  BY <1>1 DEF Unblocked, BaseCompetes, PassIsTheWay, PassPoints
<1>4. FeesAreFees'
  BY <1>1 DEF IInv, FeesAreFees
<1> QED
  BY <1>2, <1>3, <1>4 DEF IInv

(* The fee a tariff charges, said of the ways themselves.                    *)
LEMMA ChargedIsLeast ==
  ASSUME Selected, pc \in Planned, NEW rule \in Competing(plan, stay),
         \A w \in Competing(plan, stay) : Fee(w) # Fee(rule) => Fee(rule) <= Fee(w)
  PROVE  Promise!Charged(request, Fee(rule))
  BY OnePlanInForce DEF Promise!Charged

LEMMA PriceAloneHolds ==
  ASSUME IInv, PriceAlone
  PROVE  IInv'
<1>1. Selected /\ pc \in Planned /\ pc = "check" /\ Blocking = {}
  BY DEF IInv, PriceAlone, Planned
<1>2. CASE \E rule \in Terminals(At(QUALIFY)) : Begin(rule, "only")
  <2>1. PICK rule \in Terminals(At(QUALIFY)) : Begin(rule, "only")
    BY <1>2
  <2>2. Competing(plan, stay) = Terminals(At(QUALIFY))
    BY <2>1 DEF Competing, At
  <2>3. \A w \in Competing(plan, stay) : Fee(w) = 0
    <3>1. \A w \in Competing(plan, stay) : Has("terminal", w)
      BY <2>2 DEF Terminals
    <3>2. \A w \in Competing(plan, stay) : w.price = 0
      BY <3>1, <1>1, BasePrice
    <3> QED
      BY <3>1, <3>2 DEF Fee, FeeBy
  <2>4. Promise!Charged(request, Fee(rule))
    BY <1>1, <2>1, <2>2, <2>3, ChargedIsLeast
  <2> QED
    BY <1>1, <2>1, <2>2, <2>4, PassBegins
<1>3. CASE /\ Terminals(At(QUALIFY)) = {}
           /\ \E rule \in Ways(plan, stay) : Ways(plan, stay) = {rule} /\ Begin(rule, "only")
  <2>1. PICK rule \in Ways(plan, stay) : Ways(plan, stay) = {rule} /\ Begin(rule, "only")
    BY <1>3
  <2>2. Competing(plan, stay) = {rule}
    BY <1>3, <2>1 DEF Competing, At
  <2>3. Promise!Charged(request, Fee(rule))
    BY <1>1, <2>2, ChargedIsLeast
  <2> QED
    BY <1>1, <2>1, <2>2, <2>3, PassBegins
<1> QED
  BY <1>2, <1>3 DEF PriceAlone

LEMMA PriceWayHolds ==
  ASSUME IInv, PriceWay
  PROVE  IInv'
<1>1. pc \in {"check", "compare"} /\ Blocking = {} /\ Terminals(At(QUALIFY)) = {}
  BY DEF IInv, Unblocked, PriceWay
<1>2. PICK rule \in Ways(plan, stay) : Begin(rule, "trial")
  BY DEF PriceWay
<1>3. rule \in Competing(plan, stay)
  BY <1>1, <1>2 DEF Competing, At
<1> QED
  BY <1>1, <1>2, <1>3, PassBegins

(* The way charged comes to no more than any other, at its own stage or the  *)
(* other: the final pass is the fee the tariff charges.                     *)
LEMMA PriceCheapestHolds ==
  ASSUME IInv, PriceCheapest
  PROVE  IInv'
<1>1. pc = "compare" /\ Blocking = {} /\ Terminals(At(QUALIFY)) = {} /\ pc \in Planned
  BY DEF IInv, Unblocked, PriceCheapest, Planned
<1>2. Selected
  BY DEF IInv
<1>3. PICK rule \in Ways(plan, stay) : ChargedWay(rule) /\ Begin(rule, "final")
  BY DEF PriceCheapest
<1>4. Competing(plan, stay) = Ways(plan, stay)
  BY <1>1 DEF Competing, At
<1>5. \A w \in Ways(plan, stay) :
        /\ w.id \in DOMAIN fees /\ fees[w.id] = Fee(w)
        /\ w.stage \in {QUALIFY, ACCUMULATE}
  BY <1>1, <1>2, <1>4, CompetingIsABase DEF IInv, FeesAreFees, PriceCheapest
<1>6. ASSUME NEW w \in Ways(plan, stay), Fee(w) # Fee(rule)
      PROVE  Fee(rule) <= Fee(w)
  <2>1. CASE w.stage = rule.stage
    BY <1>3, <1>5, <2>1 DEF ChargedWay, First, NotAfter, WaysAt
  <2>2. CASE rule.stage = QUALIFY /\ w.stage = ACCUMULATE
    BY <1>3, <1>5, <2>2 DEF ChargedWay, WaysAt
  <2>3. CASE rule.stage = ACCUMULATE /\ w.stage = QUALIFY
    BY <1>3, <1>5, <2>3 DEF ChargedWay, WaysAt
  <2> QED
    BY <1>5, <2>1, <2>2, <2>3
<1>7. Promise!Charged(request, Fee(rule))
  BY <1>1, <1>2, <1>4, <1>6, ChargedIsLeast
<1> QED
  BY <1>1, <1>3, <1>4, <1>5, <1>7, PassBegins

LEMMA QualifyHolds ==
  ASSUME IInv, QualifyStage
  PROVE  IInv'
<1> USE PointsDiffer DEF QualifyStage
<1>1. pc = QUALIFY /\ pc \in PassPoints /\ pc \in Planned /\ total = 0
  BY DEF IInv, PassIsTheWay, Planned, PassPoints
<1>2. base \in Competing(plan, stay) /\ base.price \in Nat
  BY <1>1, BasePrice DEF IInv, BaseCompetes
<1>3. /\ pc' \in {"priced", ACCUMULATE} /\ pc' \in PassPoints /\ pc' \in Planned
      /\ pc' = "priced" <=> Has("terminal", base)
  BY DEF PassPoints, Planned
<1>4. Has("terminal", base) => base.stage = QUALIFY /\ base.price = Fee(base)
  BY <1>1, <1>2, BasePrice DEF IInv, Fee, FeeBy
<1>5. PassIsTheWay'
  BY <1>1, <1>2, <1>3, <1>4 DEF PassIsTheWay, Fee, stay
<1>6. Selected' /\ Unblocked' /\ FeesAreFees' /\ BaseCompetes'
  BY <1>1, <1>3
  DEF IInv, Selected, Unblocked, FeesAreFees, BaseCompetes, Fee, stay, Blocking, At, Promise!Charged
<1> QED
  BY <1>5, <1>6 DEF IInv

(* What the stages after QUALIFY share: a pass goes on with the same base.   *)
LEMMA PassGoesOn ==
  ASSUME IInv, pc \in PassPoints, pc' \in PassPoints \ {QUALIFY},
         UNCHANGED <<request, plan, pass, base, fees, answer>>
  PROVE  Selected' /\ Unblocked' /\ FeesAreFees' /\ BaseCompetes'
<1>1. pc \in Planned /\ pc' \in Planned
  BY PointsDiffer
<1> QED
  BY <1>1, PointsDiffer
  DEF IInv, Selected, Unblocked, FeesAreFees, BaseCompetes, Fee, stay, Blocking, At, Promise!Charged

LEMMA AccumulateHolds ==
  ASSUME IInv, AccumulateStage
  PROVE  IInv'
<1> USE PointsDiffer DEF AccumulateStage
<1>1. pc \in PassPoints /\ pc \in Planned /\ pc' \in PassPoints \ {QUALIFY} /\ pc' = CAP
  BY DEF PassPoints, Planned
<1>2. base.price \in Nat
  BY <1>1, BasePrice DEF IInv, BaseCompetes
<1>3. total' = base.price
  BY <1>1, <1>2 DEF IInv, PassIsTheWay
<1>4. PassIsTheWay'
  BY <1>1, <1>3 DEF IInv, PassIsTheWay
<1> QED
  BY <1>1, <1>4, PassGoesOn DEF IInv

LEMMA CapHolds ==
  ASSUME IInv, CapTheTime
  PROVE  IInv'
<1> USE PointsDiffer DEF CapTheTime
<1>1. pc = CAP /\ pc \in PassPoints /\ pc' \in PassPoints \ {QUALIFY} /\ pc' = SURCHARGE
  BY DEF PassPoints
<1>2. total' = Capped
  BY <1>1 DEF IInv, PassIsTheWay, Capped
<1>3. Capped' = Capped
  BY DEF Capped, stay
<1>4. PassIsTheWay'
  BY <1>1, <1>2, <1>3 DEF IInv, PassIsTheWay
<1> QED
  BY <1>1, <1>4, PassGoesOn DEF IInv

LEMMA SurchargeHolds ==
  ASSUME IInv, SurchargeStage
  PROVE  IInv'
<1> USE PointsDiffer DEF SurchargeStage
<1>1. pc = SURCHARGE /\ pc \in PassPoints /\ pc' \in PassPoints \ {QUALIFY} /\ pc' = ADJUST
  BY DEF PassPoints
<1>2. time_charge' = Capped /\ total' = AtSurcharge(plan, stay, Capped, Capped)
  BY <1>1 DEF IInv, PassIsTheWay
<1>3. /\ Capped' = Capped
      /\ AtSurcharge(plan, stay, Capped, Capped)' = AtSurcharge(plan, stay, Capped, Capped)
  BY DEF Capped, stay
<1>4. PassIsTheWay'
  BY <1>1, <1>2, <1>3 DEF IInv, PassIsTheWay
<1> QED
  BY <1>1, <1>4, PassGoesOn DEF IInv

LEMMA AdjustHolds ==
  ASSUME IInv, AdjustStage
  PROVE  IInv'
<1> USE PointsDiffer DEF AdjustStage
<1>1. pc = ADJUST /\ pc \in PassPoints /\ pc' \in PassPoints \ {QUALIFY} /\ pc' = "priced"
  BY DEF PassPoints
<1>2. total' = Fee(base)
  BY <1>1 DEF IInv, PassIsTheWay, Capped, Fee, FeeBy
<1>3. Fee(base)' = Fee(base)
  BY DEF Fee, stay
<1>4. PassIsTheWay'
  BY <1>1, <1>2, <1>3 DEF IInv, PassIsTheWay
<1> QED
  BY <1>1, <1>4, PassGoesOn DEF IInv

(* A trial's fee is kept for its base and for no other: an id names one rule. *)
LEMMA KeepFeeHolds ==
  ASSUME IInv, KeepFee
  PROVE  IInv'
<1> USE PointsDiffer DEF KeepFee
<1>1. /\ pc = "priced" /\ pc \in PassPoints /\ pc \in Planned
      /\ pc' = "compare" /\ pc' \notin PassPoints /\ pc' \in Planned
  BY DEF PassPoints, Planned
<1>2. base \in plan.rules /\ total = Fee(base)
  BY <1>1, BasePrice DEF IInv, BaseCompetes, PassIsTheWay
<1>3. \A a, b \in plan.rules : a.id = b.id => a = b
  BY <1>1, OnePlanInForce, RequestAssumption DEF IInv, Selected
<1>4. \A w \in plan.rules : w.id \in DOMAIN fees => fees[w.id] = Fee(w)
  BY <1>1 DEF IInv, FeesAreFees
<1>5. \A w \in plan.rules : w.id \in DOMAIN fees' => fees'[w.id] = Fee(w)
  BY <1>2, <1>3, <1>4
<1>6. \A w : Fee(w)' = Fee(w)
  BY DEF Fee, stay
<1>7. FeesAreFees'
  BY <1>1, <1>5, <1>6 DEF FeesAreFees
<1>8. Selected' /\ Unblocked'
  BY <1>1 DEF IInv, Selected, Unblocked, stay, Blocking, At
<1>9. BaseCompetes' /\ PassIsTheWay'
  BY <1>1 DEF BaseCompetes, PassIsTheWay
<1> QED
  BY <1>7, <1>8, <1>9 DEF IInv

LEMMA AnswerHolds ==
  ASSUME IInv, Answer
  PROVE  IInv'
<1> USE PointsDiffer DEF Answer
<1>1. pc' = "answered" /\ pc' \notin Planned /\ pc' \notin PassPoints \cup {"compare"}
  BY DEF Planned, PassPoints
<1> QED
  BY <1>1 DEF IInv, Selected, Unblocked, FeesAreFees, BaseCompetes, PassIsTheWay, PassPoints

LEMMA StepHolds ==
  ASSUME IInv, [Next]_vars
  PROVE  IInv'
<1>1. CASE RefuseTooLong \/ RefuseSelection \/ RefuseBlocked
  BY <1>1, RefusalHolds DEF RefuseTooLong, RefuseSelection, RefuseBlocked
<1>2. CASE SelectPlan
  BY <1>2, SelectionHolds
<1>3. CASE PriceAlone \/ PriceWay \/ PriceCheapest
  BY <1>3, PriceAloneHolds, PriceWayHolds, PriceCheapestHolds
<1>4. CASE QualifyStage \/ AccumulateStage \/ CapTheTime \/ SurchargeStage \/ AdjustStage
  BY <1>4, QualifyHolds, AccumulateHolds, CapHolds, SurchargeHolds, AdjustHolds
<1>5. CASE KeepFee \/ Answer
  BY <1>5, KeepFeeHolds, AnswerHolds
<1>6. CASE UNCHANGED vars
  BY <1>6 DEF vars, IInv, Selected, Unblocked, FeesAreFees, BaseCompetes, PassIsTheWay,
     Fee, Capped, stay, Blocking, At, Promise!Charged
<1> QED
  BY <1>1, <1>2, <1>3, <1>4, <1>5, <1>6 DEF Next, Step

LEMMA AlwaysIInv == Spec => []IInv
<1>1. IInv /\ [Next]_vars => IInv'
  BY StepHolds
<1> QED
  BY InitHolds, <1>1, PTL DEF Spec
-----------------------------------------------------------------------------
(* The final pass charges what the trial said it would: pricing the winner   *)
(* again, with the losers' lines, moves no fee (_priced).                   *)
THEOREM FinalPass == Spec => []FinalPassIsTheTrial
<1>1. IInv => FinalPassIsTheTrial
  <2> SUFFICES ASSUME IInv, pass = "final", pc = "priced" PROVE total = fees[base.id]
    BY DEF FinalPassIsTheTrial
  <2>1. pc \in PassPoints /\ pc \in Planned
    BY DEF PassPoints, Planned
  <2>2. base \in plan.rules
    BY <2>1, BasePrice DEF IInv, BaseCompetes
  <2> QED
    BY <2>1, <2>2 DEF IInv, BaseCompetes, FeesAreFees, PassIsTheWay
<1> QED
  BY AlwaysIInv, <1>1, PTL

(* The caps are told how the base's charge builds up, and the total they see *)
(* is that charge and nothing else: the assertion of _charged_by never fires *)
(* because of a stage that ran before.                                      *)
THEOREM BaseCapped == Spec => []BaseAloneIsCapped
<1>1. IInv => BaseAloneIsCapped
  BY DEF IInv, PassIsTheWay, BaseAloneIsCapped
<1> QED
  BY AlwaysIInv, <1>1, PTL

(* A refusal names exactly what the tariff finds. *)
LEMMA RefusalIsPromised ==
  ASSUME IInv, RefuseTooLong \/ RefuseSelection \/ RefuseBlocked
  PROVE  Promise!Refuse
<1>1. pc \in {"quote", "check"} /\ answer = Unanswered
  BY DEF IInv, Selected, RefuseTooLong, RefuseSelection, RefuseBlocked
<1>2. CASE RefuseTooLong
  <2>1. Findings(request) = {"GAP_STAY_LONGER_THAN_MAX_STAY"}
    BY <1>2 DEF RefuseTooLong, Findings, stay
  <2> QED
    BY <1>1, <1>2, <2>1
    DEF RefuseTooLong, Refuse, Refused, Unanswered, Promise!Refuse, Promise!Refused, Promise!Unanswered
<1>3. CASE RefuseSelection
  <2> DEFINE plans == InForce(request.plans, stay)
  <2>1. \/ plans = {} /\ Refuse({"GAP_NO_PLAN_IN_FORCE_AT_ENTRY"})
        \/ (\E p, q \in plans : p # q) /\ Refuse({"CONFLICT_AMBIGUOUS_PLAN_SELECTION"})
    BY <1>3 DEF RefuseSelection
  <2>2. PICK codes : Refuse(codes) /\ codes # {} /\ Findings(request) = codes
    BY <1>3, <2>1 DEF RefuseSelection, Findings, stay
  <2> QED
    BY <1>1, <2>2
    DEF Refuse, Refused, Unanswered, Promise!Refuse, Promise!Refused, Promise!Unanswered
<1>4. CASE RefuseBlocked
  <2>1. Findings(request) = Blocking
    BY <1>4, OnePlanInForce DEF IInv, RefuseBlocked, Planned
  <2> QED
    BY <1>1, <1>4, <2>1
    DEF RefuseBlocked, Refuse, Refused, Unanswered, Promise!Refuse, Promise!Refused, Promise!Unanswered
<1> QED
  BY <1>2, <1>3, <1>4

(* A price is the least of what the ways come to. *)
LEMMA PriceIsPromised ==
  ASSUME IInv, Answer
  PROVE  Promise!Price
<1>1. pc = "priced" /\ pc \in PassPoints /\ pc \in Planned /\ pass # "trial"
  BY DEF Answer, PassPoints, Planned
<1>2. answer = Unanswered
  BY <1>1 DEF IInv, Selected
<1>3. Findings(request) = {}
  BY <1>1, OnePlanInForce DEF IInv, Unblocked
<1>4. Promise!Charged(request, total)
  BY <1>1 DEF IInv, BaseCompetes, PassIsTheWay
<1>5. total \in Offers(request)
  BY <1>4 DEF Promise!Charged
<1> QED
  BY <1>2, <1>3, <1>4, <1>5
  DEF Answer, Unanswered, Refused, Priced, Promise!Price, Promise!Unanswered, Promise!Refused, Promise!Priced

(* quote implements the tariff: whatever order the ways are priced in, a      *)
(* request is refused with exactly what the tariff finds, or charged the      *)
(* least of what every way of pricing it comes to, once.                     *)
THEOREM Implements == Spec => KeepsThePromise
<1>1. Init => Promise!Init
  BY DEF Init, Promise!Init, Unanswered, Promise!Unanswered
<1>2. IInv /\ [Next]_vars => [Promise!Next]_<<request, answer>>
  <2> SUFFICES ASSUME IInv, [Next]_vars PROVE [Promise!Next]_<<request, answer>>
    OBVIOUS
  <2>1. CASE RefuseTooLong \/ RefuseSelection \/ RefuseBlocked
    BY <2>1, RefusalIsPromised DEF Promise!Next
  <2>2. CASE Answer
    BY <2>2, PriceIsPromised DEF Promise!Next
  <2>3. CASE SelectPlan \/ PriceAlone \/ PriceWay \/ PriceCheapest \/ KeepFee
    BY <2>3 DEF SelectPlan, PriceAlone, PriceWay, PriceCheapest, KeepFee, Begin
  <2>4. CASE QualifyStage \/ AccumulateStage \/ CapTheTime \/ SurchargeStage \/ AdjustStage
    BY <2>4 DEF QualifyStage, AccumulateStage, CapTheTime, SurchargeStage, AdjustStage
  <2>5. CASE UNCHANGED vars
    BY <2>5 DEF vars
  <2> QED
    BY <2>1, <2>2, <2>3, <2>4, <2>5 DEF Next, Step
<1> QED
  BY <1>1, <1>2, AlwaysIInv, PTL DEF Spec, KeepsThePromise, Promise!Spec
-----------------------------------------------------------------------------
LEMMA LeastOfMany ==
  ASSUME NEW n \in Nat \ {0}, NEW f \in [1 .. n -> Int]
  PROVE  \E i \in 1 .. n : \A j \in 1 .. n : f[i] <= f[j]
<1> DEFINE HasLeast(g, m) == \E i \in 1 .. m : \A j \in 1 .. m : g[i] <= g[j]
           Good == {m \in Nat : \A g \in [1 .. m + 1 -> Int] : HasLeast(g, m + 1)}
<1>1. 0 \in Good
  <2> SUFFICES ASSUME NEW g \in [1 .. 1 -> Int] PROVE HasLeast(g, 1)
    OBVIOUS
  <2>1. \A j \in 1 .. 1 : j = 1 /\ g[1] \in Int
    OBVIOUS
  <2> QED
    BY <2>1
<1>2. ASSUME NEW m \in Good
      PROVE  m + 1 \in Good
  <2> DEFINE k == m + 1
  <2>0. m \in Nat /\ \A h \in [1 .. k -> Int] : HasLeast(h, k)
    BY Zenon
  <2>1. k \in Nat
    BY <2>0
  <2> HIDE DEF k
  <2>2. ASSUME NEW g \in [1 .. k + 1 -> Int]
        PROVE  HasLeast(g, k + 1)
    <3> DEFINE h == [i \in 1 .. k |-> g[i]]
    <3>1. h \in [1 .. k -> Int]
      BY <2>1
    <3>2. HasLeast(h, k)
      BY <2>0, <3>1
    <3>3. PICK i \in 1 .. k : \A j \in 1 .. k : g[i] <= g[j]
      BY <3>2
    <3>4. i \in 1 .. k + 1 /\ k + 1 \in 1 .. k + 1 /\ \A j \in 1 .. k + 1 : g[j] \in Int
      BY <2>1
    <3>5. \A j \in 1 .. k + 1 : j \in 1 .. k \/ j = k + 1
      BY <2>1
    <3>6. CASE g[i] <= g[k + 1]
      <4>1. \A j \in 1 .. k + 1 : g[i] <= g[j]
        BY <3>3, <3>5, <3>6
      <4> QED
        BY <3>4, <4>1
    <3>7. CASE g[k + 1] <= g[i]
      <4>1. \A j \in 1 .. k : g[j] \in Int
        BY <3>4, <2>1
      <4>2. \A j \in 1 .. k : g[k + 1] <= g[j]
        BY <3>3, <3>4, <3>7, <4>1
      <4>3. g[k + 1] <= g[k + 1]
        BY <3>4
      <4>4. \A j \in 1 .. k + 1 : g[k + 1] <= g[j]
        BY <3>5, <4>2, <4>3
      <4> QED
        BY <3>4, <4>4
    <3> QED
      BY <3>4, <3>6, <3>7
  <2> QED
    BY <2>1, <2>2 DEF k
<1>3. Good = Nat
  <2> HIDE DEF Good
  <2>1. Good \in SUBSET Nat
    BY DEF Good
  <2> QED
    BY <1>1, <1>2, <2>1, Induction
<1>4. n - 1 \in Nat /\ (n - 1) + 1 = n
  OBVIOUS
<1>5. \A g \in [1 .. (n - 1) + 1 -> Int] : HasLeast(g, (n - 1) + 1)
  BY <1>3, <1>4
<1>6. HasLeast(f, n)
  BY <1>4, <1>5
<1> QED
  BY <1>6

LEMMA LeastOfFinite ==
  ASSUME NEW T, IsFiniteSet(T), T \subseteq Int, T # {}
  PROVE  \E m \in T : \A n \in T : m <= n
<1>1. PICK n \in Nat : \E f : f \in Surjection(1 .. n, T)
  BY FS_NatSurjection DEF ExistsSurjection
<1>2. PICK f : f \in Surjection(1 .. n, T)
  BY <1>1
<1>3. f \in [1 .. n -> Int] /\ \A t \in T : \E i \in 1 .. n : f[i] = t
  BY <1>2 DEF Surjection
<1>4. \A i \in 1 .. n : f[i] \in T
  BY <1>2 DEF Surjection
<1>5. n # 0
  <2>1. PICK t \in T : TRUE
    OBVIOUS
  <2>2. PICK i \in 1 .. n : f[i] = t
    BY <1>3, <2>1
  <2> QED
    BY <2>2
<1>6. PICK i \in 1 .. n : \A j \in 1 .. n : f[i] <= f[j]
  BY <1>3, <1>5, LeastOfMany
<1> QED
  BY <1>3, <1>4, <1>6
-----------------------------------------------------------------------------
(* What the fees kept are about, and what a pass writes on its receipt.      *)

(* Only a way's fee is kept. *)
FeesAreOfWays ==
  pc \in PassPoints \cup {"compare"} => DOMAIN fees \subseteq {w.id : w \in Ways(plan, stay)}

(* A stay priced once is priced by a terminal rule, or by its only way.      *)
OnlyWay ==
  pc \in PassPoints /\ pass = "only" =>
    base \in Terminals(At(QUALIFY)) \/ Ways(plan, stay) = {base}

(* The final pass is of the way charged, with every way's fee known.         *)
FinalIsCharged ==
  pc \in PassPoints /\ pass = "final" =>
    /\ base \in Ways(plan, stay) /\ ChargedWay(base)
    /\ \A w \in Ways(plan, stay) : w.id \in DOMAIN fees

BaseLines ==
  IF Has("terminal", base) \/ base.stage = QUALIFY THEN QualifyLines
  ELSE QualifyLines \cup AccumulateLines

(* The receipt has the lines of the stages behind, and no other.             *)
ReceiptSoFar ==
  /\ pc = QUALIFY => receipt = {}
  /\ pc = ACCUMULATE => receipt = QualifyLines
  /\ pc \in {CAP, SURCHARGE, ADJUST, "priced"} => receipt = BaseLines

LInv == FeesAreOfWays /\ OnlyWay /\ FinalIsCharged /\ ReceiptSoFar

(* What is said of a way depends on nothing that a stage changes.            *)
LEMMA SameWay ==
  ASSUME UNCHANGED <<request, plan, pass, base, fees>>
  PROVE  /\ QualifyLines' = QualifyLines /\ AccumulateLines' = AccumulateLines
         /\ ChargedWay(base)' = ChargedWay(base)
         /\ Ways(plan, stay)' = Ways(plan, stay)
         /\ Terminals(At(QUALIFY))' = Terminals(At(QUALIFY))
<1>1. stay' = stay
  BY DEF stay
<1>2. \A stage : At(stage)' = At(stage)
  BY <1>1 DEF At
<1>3. \A stage : WaysAt(stage)' = WaysAt(stage)
  BY <1>1 DEF WaysAt
<1>4. \A r : Named(r)' = Named(r)
  BY DEF Named
<1>5. \A a, b : NotAfter(a, b)' = NotAfter(a, b)
  BY <1>4 DEF NotAfter
<1>6. \A r, rules : First(r, rules)' = First(r, rules)
  BY <1>5 DEF First
<1>7. \A rules : Cheapest(rules)' = Cheapest(rules)
  BY <1>6 DEF Cheapest
<1>8. ChargedWay(base)' = ChargedWay(base)
  BY <1>3, <1>6 DEF ChargedWay
<1>9. QualifyLines' = QualifyLines
  BY <1>2, <1>7 DEF QualifyLines
<1>10. AccumulateLines' = AccumulateLines
  BY <1>2 DEF AccumulateLines
<1> QED
  BY <1>1, <1>2, <1>8, <1>9, <1>10

(* A pass begins with an empty receipt, for a way that may be charged. *)
LEMMA LinesBegin ==
  ASSUME IInv, LInv, pc \in {"check", "compare"},
         NEW rule, NEW why \in {"only", "trial", "final"}, Begin(rule, why),
         why = "only" => rule \in Terminals(At(QUALIFY)) \/ Ways(plan, stay) = {rule},
         why = "final" => rule \in Ways(plan, stay) /\ ChargedWay(rule)
                          /\ \A w \in Ways(plan, stay) : w.id \in DOMAIN fees
  PROVE  LInv'
<1>1. /\ pc' = QUALIFY /\ base' = rule /\ pass' = why /\ receipt' = {}
      /\ UNCHANGED <<request, plan, fees>>
  BY DEF Begin
<1>2. stay' = stay
  BY <1>1 DEF stay
<1>3. \A stage : At(stage)' = At(stage) /\ WaysAt(stage)' = WaysAt(stage)
  BY <1>1, <1>2 DEF At, WaysAt
<1>4. \A r : Named(r)' = Named(r)
  BY <1>1 DEF Named
<1>5. \A a, b : NotAfter(a, b)' = NotAfter(a, b)
  BY <1>1, <1>4 DEF NotAfter
<1>6. \A r, rules : First(r, rules)' = First(r, rules)
  BY <1>5 DEF First
<1>7. ChargedWay(base)' = ChargedWay(rule)
  BY <1>1, <1>3, <1>6 DEF ChargedWay
<1>8. DOMAIN fees \subseteq {w.id : w \in Ways(plan, stay)}
  <2>1. CASE pc = "check"
    <3>1. fees = << >>
      BY <2>1 DEF IInv, FeesAreFees
    <3> QED
      BY <3>1
  <2>2. CASE pc = "compare"
    BY <2>2 DEF LInv, FeesAreOfWays
  <2> QED
    BY <2>1, <2>2
<1>9. FeesAreOfWays'
  BY <1>1, <1>2, <1>8 DEF FeesAreOfWays
<1>10. OnlyWay'
  BY <1>1, <1>2, <1>3 DEF OnlyWay
<1>11. FinalIsCharged'
  BY <1>1, <1>2, <1>7 DEF FinalIsCharged
<1>12. ReceiptSoFar'
  BY <1>1, PointsDiffer DEF ReceiptSoFar
<1> QED
  BY <1>9, <1>10, <1>11, <1>12 DEF LInv

(* A stage goes on with the same way: only its own lines are written.        *)
LEMMA LinesGoOn ==
  ASSUME LInv, pc \in PassPoints, pc' \in PassPoints,
         UNCHANGED <<request, plan, pass, base, fees>>,
         ReceiptSoFar'
  PROVE  LInv'
<1>1. FeesAreOfWays'
  BY SameWay DEF LInv, FeesAreOfWays
<1>2. OnlyWay'
  BY SameWay DEF LInv, OnlyWay
<1>3. FinalIsCharged'
  BY SameWay DEF LInv, FinalIsCharged
<1> QED
  BY <1>1, <1>2, <1>3 DEF LInv

LEMMA LinesEnd ==
  ASSUME pc' \notin PassPoints \cup {"compare"}
  PROVE  LInv'
BY PointsDiffer DEF LInv, FeesAreOfWays, OnlyWay, FinalIsCharged, ReceiptSoFar, PassPoints

LEMMA LinesHold ==
  ASSUME IInv, LInv, [Next]_vars
  PROVE  LInv'
<1>1. CASE RefuseTooLong \/ RefuseSelection \/ RefuseBlocked \/ SelectPlan \/ Answer
  <2>1. pc' \notin PassPoints \cup {"compare"}
    BY <1>1, PointsDiffer
    DEF RefuseTooLong, RefuseSelection, RefuseBlocked, Refuse, SelectPlan, Answer, PassPoints
  <2> QED
    BY <2>1, LinesEnd
<1>2. CASE PriceAlone
  <2>1. PICK rule : /\ Begin(rule, "only")
                    /\ rule \in Terminals(At(QUALIFY)) \/ Ways(plan, stay) = {rule}
    BY <1>2 DEF PriceAlone
  <2> QED
    BY <1>2, <2>1, LinesBegin DEF PriceAlone
<1>3. CASE PriceWay
  <2>1. PICK rule : Begin(rule, "trial")
    BY <1>3 DEF PriceWay
  <2> QED
    BY <1>3, <2>1, LinesBegin DEF PriceWay
<1>4. CASE PriceCheapest
  <2>1. PICK rule \in Ways(plan, stay) : ChargedWay(rule) /\ Begin(rule, "final")
    BY <1>4 DEF PriceCheapest
  <2> QED
    BY <1>4, <2>1, LinesBegin DEF PriceCheapest
<1>5. CASE QualifyStage
  <2>1. /\ pc = QUALIFY /\ pc \in PassPoints /\ pc' \in {"priced", ACCUMULATE}
        /\ pc' \in PassPoints /\ receipt = {} /\ receipt' = QualifyLines
        /\ pc' = "priced" => Has("terminal", base)
        /\ UNCHANGED <<request, plan, pass, base, fees>>
    BY <1>5, PointsDiffer DEF QualifyStage, LInv, ReceiptSoFar, PassPoints
  <2>2. receipt' = QualifyLines' /\ base' = base
    BY <2>1, SameWay
  <2>3. ReceiptSoFar'
    BY <2>1, <2>2, PointsDiffer DEF ReceiptSoFar, BaseLines
  <2> QED
    BY <2>1, <2>3, LinesGoOn
<1>6. CASE AccumulateStage
  <2>1. /\ pc = ACCUMULATE /\ pc \in PassPoints /\ pc' = CAP /\ pc' \in PassPoints
        /\ receipt = QualifyLines
        /\ UNCHANGED <<request, plan, pass, base, fees>>
    BY <1>6, PointsDiffer DEF AccumulateStage, LInv, ReceiptSoFar, PassPoints
  <2>2. ~Has("terminal", base)
    BY <2>1 DEF IInv, PassIsTheWay
  <2>3. receipt' = BaseLines
    BY <1>6, <2>1, <2>2 DEF AccumulateStage, BaseLines
  <2>4. BaseLines' = BaseLines
    BY <2>1, SameWay DEF BaseLines
  <2>5. ReceiptSoFar'
    BY <2>1, <2>3, <2>4, PointsDiffer DEF ReceiptSoFar
  <2> QED
    BY <2>1, <2>5, LinesGoOn
<1>7. CASE CapTheTime \/ SurchargeStage \/ AdjustStage
  <2>1. /\ pc \in {CAP, SURCHARGE, ADJUST} /\ pc \in PassPoints
        /\ pc' \in {SURCHARGE, ADJUST, "priced"} /\ pc' \in PassPoints
        /\ UNCHANGED <<request, plan, pass, base, fees, receipt>>
    BY <1>7, PointsDiffer DEF CapTheTime, SurchargeStage, AdjustStage, PassPoints
  <2>2. receipt = BaseLines
    BY <2>1 DEF LInv, ReceiptSoFar
  <2>3. BaseLines' = BaseLines
    BY <2>1, SameWay DEF BaseLines
  <2>4. ReceiptSoFar'
    BY <2>1, <2>2, <2>3, PointsDiffer DEF ReceiptSoFar
  <2> QED
    BY <2>1, <2>4, LinesGoOn
<1>8. CASE KeepFee
  <2>1. /\ pc = "priced" /\ pc \in PassPoints /\ pc' = "compare" /\ pc' \notin PassPoints
        /\ pass = "trial" /\ DOMAIN fees' = DOMAIN fees \cup {base.id}
        /\ UNCHANGED <<request, plan>>
    BY <1>8, PointsDiffer DEF KeepFee, PassPoints
  <2>2. base \in Ways(plan, stay)
    BY <2>1 DEF IInv, Unblocked, BaseCompetes, Competing, At
  <2>3. DOMAIN fees' \subseteq {w.id : w \in Ways(plan, stay)}
    BY <2>1, <2>2 DEF LInv, FeesAreOfWays
  <2>4. FeesAreOfWays'
    BY <2>1, <2>3 DEF FeesAreOfWays, stay
  <2> QED
    BY <2>1, <2>4, PointsDiffer DEF LInv, OnlyWay, FinalIsCharged, ReceiptSoFar, PassPoints
<1>9. CASE UNCHANGED vars
  <2>1. UNCHANGED <<request, plan, pass, base, fees, pc, receipt>>
    BY <1>9 DEF vars
  <2>2. BaseLines' = BaseLines
    BY <2>1, SameWay DEF BaseLines
  <2>3. CASE pc \in PassPoints
    <3>1. ReceiptSoFar'
      BY <2>1, <2>2, SameWay DEF LInv, ReceiptSoFar
    <3> QED
      BY <2>1, <2>3, <3>1, LinesGoOn
  <2>4. CASE pc = "compare"
    BY <2>1, <2>4, SameWay, PointsDiffer
    DEF LInv, FeesAreOfWays, OnlyWay, FinalIsCharged, ReceiptSoFar, PassPoints
  <2>5. CASE pc \notin PassPoints \cup {"compare"}
    BY <2>1, <2>5, LinesEnd
  <2> QED
    BY <2>3, <2>4, <2>5
<1> QED
  BY <1>1, <1>2, <1>3, <1>4, <1>5, <1>6, <1>7, <1>8, <1>9 DEF Next, Step

LEMMA AlwaysLInv == Spec => [](IInv /\ LInv)
<1>1. Init => LInv
  BY PointsDiffer DEF Init, LInv, FeesAreOfWays, OnlyWay, FinalIsCharged, ReceiptSoFar, PassPoints
<1>2. IInv /\ LInv /\ [Next]_vars => LInv'
  BY LinesHold
<1> QED
  BY AlwaysIInv, <1>1, <1>2, PTL DEF Spec
-----------------------------------------------------------------------------
(* The specials among the ways are the specials that qualified. *)
LEMMA WaysByStage ==
  /\ WaysAt(QUALIFY) = At(QUALIFY)
  /\ \A w \in Ways(plan, stay) : w \in WaysAt(QUALIFY) \/ w \in WaysAt(ACCUMULATE)
<1>1. \A stage : QualifiedAt(plan, stay, stage) \subseteq {r \in plan.rules : r.stage = stage}
  BY DEF QualifiedAt, RulesAt
<1>2. QualifiedAt(plan, stay, QUALIFY) \subseteq Ways(plan, stay)
      /\ Ways(plan, stay) \subseteq
           QualifiedAt(plan, stay, QUALIFY) \cup QualifiedAt(plan, stay, ACCUMULATE)
  BY DEF Ways
<1> QED
  BY <1>1, <1>2, PointsDiffer DEF WaysAt, At

(* What the ways of a plan nothing blocks come to are whole numbers of minor *)
(* units, and so are their prices and the names they are ranked by.          *)
LEMMA WaysAreRanked ==
  ASSUME IInv, pc \in PassPoints \cup {"compare"}, Terminals(At(QUALIFY)) = {},
         NEW w \in Ways(plan, stay), w.id \in DOMAIN fees
  PROVE  fees[w.id] = Fee(w) /\ Fee(w) \in Int /\ w.price \in Nat /\ Named(w) \in Nat
<1>1. Selected /\ pc \in Planned /\ Blocking = {} /\ request \in Request
  BY PointsDiffer DEF IInv, Unblocked, Selected, Planned
<1>2. w \in Competing(plan, stay)
  BY DEF Competing, At
<1>3. /\ w \in plan.rules /\ w.stage \in {QUALIFY, ACCUMULATE} /\ w.price \in Nat
  BY <1>1, <1>2, BasePrice
<1>4. /\ plan \in request.plans /\ Findings(request) = {}
      /\ Offers(request) = {Fee(v) : v \in Competing(plan, stay)}
  BY <1>1, OnePlanInForce
<1>5. Fee(w) \in Int
  BY <1>1, <1>2, OnePlanInForce
<1>6. fees[w.id] = Fee(w)
  BY <1>3 DEF IInv, FeesAreFees
<1> DEFINE order == plan.resolution[w.stage]
<1>7. /\ w.id \in Nat /\ order \in Seq(Nat)
      /\ order # Unordered => \A r \in RulesAt(plan, w.stage) : r.id \in Range(order)
  BY <1>1, <1>3, <1>4, RequestAssumption
<1>8. w \in RulesAt(plan, w.stage)
  BY <1>3 DEF RulesAt
<1>9. Named(w) \in Nat
  <2>1. CASE order = Unordered
    BY <1>7, <2>1 DEF Named
  <2>2. CASE order # Unordered
    <3>1. \E i \in DOMAIN order : order[i] = w.id
      BY <1>7, <1>8, <2>2 DEF Range
    <3>2. Named(w) \in DOMAIN order
      BY <2>2, <3>1 DEF Named
    <3>3. DOMAIN order = 1 .. Len(order) /\ Len(order) \in Nat
      BY <1>7
    <3> QED
      BY <3>2, <3>3
  <2> QED
    BY <2>1, <2>2
<1> QED
  BY <1>3, <1>5, <1>6, <1>9

(* One rule of a finite set is ranked first: _cheapest always names a rule.  *)
LEMMA CheapestIsFirst ==
  ASSUME NEW rules, IsFiniteSet(rules), rules # {},
         \A r \in rules : fees[r.id] \in Int /\ r.price \in Nat /\ Named(r) \in Nat
  PROVE  First(Cheapest(rules), rules)
<1> DEFINE F == {fees[r.id] : r \in rules}
<1>1. PICK m \in F : \A n \in F : m <= n
  <2>1. IsFiniteSet(F)
    <3> DEFINE g == [r \in rules |-> fees[r.id]]
    <3>1. g \in Surjection(rules, F)
      BY DEF Surjection
    <3> HIDE DEF g, F
    <3> QED
      BY <3>1, FS_Surjection, Zenon
  <2> QED
    BY <2>1, LeastOfFinite
<1> DEFINE A == {r \in rules : fees[r.id] = m}
           P == {r.price : r \in A}
<1>2. PICK p \in P : \A n \in P : p <= n
  <2>1. P \in SUBSET Nat /\ P # {}
    BY <1>1
  <2> HIDE DEF P
  <2> QED
    BY <2>1, LeastNat
<1> DEFINE B == {r \in A : r.price = p}
           N == {Named(r) : r \in B}
<1>3. PICK k \in N : \A n \in N : k <= n
  <2>1. \E r \in A : r.price = p
    BY <1>2
  <2>2. N # {}
    BY <2>1
  <2>3. N \in SUBSET Nat
    OBVIOUS
  <2> HIDE DEF N
  <2> QED
    BY <2>2, <2>3, LeastNat
<1>4. PICK r \in B : Named(r) = k
  OBVIOUS
<1>5. ASSUME NEW q \in rules
      PROVE  NotAfter(r, q)
  <2>1. fees[r.id] = m /\ r.price = p /\ fees[r.id] <= fees[q.id]
    BY <1>1
  <2>2. fees[q.id] = m => r.price <= q.price
    BY <1>2
  <2>3. fees[q.id] = m /\ q.price = p => Named(r) <= Named(q)
    BY <1>3, <1>4
  <2> QED
    BY <2>1, <2>2, <2>3 DEF NotAfter
<1>6. First(r, rules)
  BY <1>5 DEF First
<1>7. r \in rules
  OBVIOUS
<1> QED
  BY <1>6, <1>7 DEF Cheapest

(* The rule a comparison line names is the cheapest special. *)
LEMMA CheapestSpecial ==
  ASSUME IInv, LInv, pc \in PassPoints, pass = "final", At(QUALIFY) # {}
  PROVE  First(Cheapest(At(QUALIFY)), At(QUALIFY))
<1>1. /\ Terminals(At(QUALIFY)) = {} /\ \A w \in Ways(plan, stay) : w.id \in DOMAIN fees
  BY DEF IInv, Unblocked, LInv, FinalIsCharged
<1>2. At(QUALIFY) \subseteq Ways(plan, stay)
  BY DEF At, Ways
<1>3. IsFiniteSet(At(QUALIFY))
  <2>1. IsFiniteSet(plan.rules)
    BY OnePlanInForce, RequestAssumption, PointsDiffer DEF IInv, Selected
  <2>2. At(QUALIFY) \subseteq plan.rules
    BY DEF At, QualifiedAt, RulesAt
  <2> QED
    BY <2>1, <2>2, FS_Subset
<1>4. \A r \in At(QUALIFY) : fees[r.id] \in Int /\ r.price \in Nat /\ Named(r) \in Nat
  BY <1>1, <1>2, WaysAreRanked
<1> QED
  BY <1>3, <1>4, CheapestIsFirst

(* Only the last step of a quote says a price. *)
LEMMA OnlyAnswerPrices ==
  ASSUME IInv, Next
  PROVE  Answer \/ answer'.kind # "priced" \/ UNCHANGED vars
<1>1. CASE RefuseTooLong \/ RefuseSelection \/ RefuseBlocked
  BY <1>1 DEF RefuseTooLong, RefuseSelection, RefuseBlocked, Refuse, Refused
<1>2. CASE SelectPlan \/ PriceAlone \/ PriceWay \/ PriceCheapest \/ KeepFee
  <2>1. answer' = answer /\ pc # "answered"
    BY <1>2, PointsDiffer DEF SelectPlan, PriceAlone, PriceWay, PriceCheapest, KeepFee, Begin
  <2> QED
    BY <2>1 DEF IInv, Selected, Unanswered
<1>3. CASE QualifyStage \/ AccumulateStage \/ CapTheTime \/ SurchargeStage \/ AdjustStage
  <2>1. answer' = answer /\ pc # "answered"
    BY <1>3, PointsDiffer
    DEF QualifyStage, AccumulateStage, CapTheTime, SurchargeStage, AdjustStage
  <2> QED
    BY <2>1 DEF IInv, Selected, Unanswered
<1> QED
  BY <1>1, <1>2, <1>3 DEF Next, Step

(* What the answer step of a final pass says. *)
LEMMA AnswerAtTheEnd ==
  ASSUME IInv, LInv, Answer
  PROVE  /\ pc = "priced" /\ pc \in PassPoints /\ pass \in {"only", "final"}
         /\ UNCHANGED <<request, plan, pass, base, fees>>
         /\ receipt' = BaseLines \cup ComparisonLines
         /\ total = Fee(base)
         /\ answer'.kind = "priced" => answer'.fee = total
<1>1. pc = "priced" /\ pc \in PassPoints /\ pass \in {"only", "final"}
  BY DEF Answer, IInv, Unblocked, PassPoints
<1>2. receipt = BaseLines /\ total = Fee(base)
  BY <1>1 DEF LInv, ReceiptSoFar, IInv, PassIsTheWay
<1> QED
  BY <1>1, <1>2 DEF Answer, Refused, Priced

(* What the way charged comes to is no more than any fee kept, and less than *)
(* any special's where it is a time-based rate.                             *)
LEMMA ChargedIsCheapest ==
  ASSUME IInv, LInv, pc \in PassPoints, pass = "final", NEW w \in Ways(plan, stay)
  PROVE  /\ fees[w.id] \in Int /\ fees[base.id] \in Int
         /\ fees[base.id] <= fees[w.id]
         /\ base.stage = ACCUMULATE /\ w.stage = QUALIFY => fees[base.id] < fees[w.id]
         /\ fees[base.id] = Fee(base) /\ base.stage \in {QUALIFY, ACCUMULATE}
<1>1. /\ Terminals(At(QUALIFY)) = {} /\ \A v \in Ways(plan, stay) : v.id \in DOMAIN fees
      /\ base \in Ways(plan, stay) /\ ChargedWay(base)
  BY DEF IInv, Unblocked, LInv, FinalIsCharged
<1>2. fees[w.id] \in Int /\ fees[base.id] \in Int /\ fees[base.id] = Fee(base)
  BY <1>1, WaysAreRanked
<1>3. \A v \in Ways(plan, stay) : v \in WaysAt(v.stage) /\ v.stage \in {QUALIFY, ACCUMULATE}
  BY WaysByStage DEF WaysAt
<1>4. First(base, WaysAt(base.stage))
  BY <1>1 DEF ChargedWay
<1>5. CASE w.stage = base.stage
  BY <1>2, <1>3, <1>4, <1>5, PointsDiffer DEF First, NotAfter
<1>6. CASE base.stage = QUALIFY /\ w.stage = ACCUMULATE
  <2>1. fees[base.id] <= fees[w.id]
    BY <1>1, <1>3, <1>6 DEF ChargedWay
  <2> QED
    BY <1>2, <1>6, <2>1, PointsDiffer
<1>7. CASE base.stage = ACCUMULATE /\ w.stage = QUALIFY
  <2>1. fees[base.id] <= fees[w.id] /\ fees[base.id] # fees[w.id]
    BY <1>1, <1>3, <1>7 DEF ChargedWay
  <2> QED
    BY <1>2, <1>7, <2>1, PointsDiffer
<1> QED
  BY <1>1, <1>3, <1>5, <1>6, <1>7

(* No line but the comparison's is about the other way. *)
LEMMA BaseLinesCompareNothing ==
  \A l \in BaseLines : l.code \notin {"special_used", "time_based_used"}
<1>1. \A r, c : Line(r, c).code = c
  BY DEF Line
<1>2. \A l \in QualifyLines : l.code \in {"not_applied", "superseded", "resolved", "charged"}
  BY <1>1 DEF QualifyLines
<1>3. \A l \in AccumulateLines : l.code \in {"charged", "resolved"}
  BY <1>1 DEF AccumulateLines
<1> QED
  BY <1>2, <1>3 DEF BaseLines

LEMMA HonestAnswer ==
  ASSUME IInv, LInv, Answer
  PROVE  ComparisonIsHonest'
<1>1. /\ pc \in PassPoints /\ pass \in {"only", "final"}
      /\ UNCHANGED <<request, plan, pass, base, fees>>
      /\ receipt' = BaseLines \cup ComparisonLines
      /\ total = Fee(base)
      /\ answer'.kind = "priced" => answer'.fee = total
  BY AnswerAtTheEnd
<1>2. stay' = stay /\ WaysAt(QUALIFY)' = WaysAt(QUALIFY)
  BY <1>1 DEF stay, WaysAt
<1> SUFFICES ASSUME answer'.kind = "priced", pass = "final"
             PROVE  /\ \A id \in DOMAIN fees : fees[id] >= total
                    /\ base.stage = ACCUMULATE => \A w \in WaysAt(QUALIFY) : fees[w.id] > total
                    /\ \A l \in receipt' : l.code \in {"special_used", "time_based_used"} =>
                         \A w \in WaysAt(QUALIFY) : fees[l.rule] <= fees[w.id]
  BY <1>1, <1>2 DEF ComparisonIsHonest
<1>3. DOMAIN fees \subseteq {w.id : w \in Ways(plan, stay)}
  BY <1>1 DEF LInv, FeesAreOfWays
<1>4. ASSUME NEW w \in Ways(plan, stay)
      PROVE  /\ fees[w.id] >= total
             /\ base.stage = ACCUMULATE /\ w.stage = QUALIFY => fees[w.id] > total
  BY <1>1, ChargedIsCheapest
<1>5. \A id \in DOMAIN fees : fees[id] >= total
  BY <1>3, <1>4
<1>6. base.stage = ACCUMULATE => \A w \in WaysAt(QUALIFY) : fees[w.id] > total
  BY <1>4 DEF WaysAt
<1>7. ASSUME NEW l \in receipt', l.code \in {"special_used", "time_based_used"},
             NEW w \in WaysAt(QUALIFY)
      PROVE  fees[l.rule] <= fees[w.id]
  <2>1. l \in ComparisonLines
    BY <1>1, <1>7, BaseLinesCompareNothing
  <2>2. ComparisonLines \subseteq
          {Line(Cheapest(At(QUALIFY)), "time_based_used"),
           Line(Cheapest(At(QUALIFY)), "special_used")}
    BY WaysByStage DEF ComparisonLines
  <2>3. l.rule = Cheapest(At(QUALIFY)).id
    BY <2>1, <2>2 DEF Line
  <2>4. First(Cheapest(At(QUALIFY)), At(QUALIFY))
    BY <1>1, <1>7, WaysByStage, CheapestSpecial
  <2> QED
    BY <2>3, <2>4, WaysByStage DEF First, NotAfter
<1> QED
  BY <1>5, <1>6, <1>7

(* The comparison a receipt prints is honest, whatever the plan: no way is   *)
(* cheaper than the one charged, a time-based rate is charged only where it  *)
(* comes to less than every special, and the special named is the cheapest.  *)
THEOREM HonestComparison == Spec => []ComparisonIsHonest
<1>1. Init => ComparisonIsHonest
  BY DEF Init, ComparisonIsHonest, Unanswered
<1>2. IInv /\ LInv /\ ComparisonIsHonest /\ [Next]_vars => ComparisonIsHonest'
  <2> SUFFICES ASSUME IInv, LInv, ComparisonIsHonest, [Next]_vars
               PROVE  ComparisonIsHonest'
    OBVIOUS
  <2>1. CASE Answer
    BY <2>1, HonestAnswer
  <2>2. CASE answer'.kind # "priced"
    BY <2>2 DEF ComparisonIsHonest
  <2>3. CASE UNCHANGED vars
    BY <2>3 DEF vars, ComparisonIsHonest, WaysAt, stay
  <2> QED
    BY <2>1, <2>2, <2>3, OnlyAnswerPrices
<1> QED
  BY <1>1, <1>2, AlwaysLInv, PTL DEF Spec
-----------------------------------------------------------------------------
(* The rules a receipt owes an answer: every special of the plan and, on the *)
(* time-based way, every time-based rate that qualified.                    *)
Owed == RulesAt(plan, QUALIFY) \cup (IF base.stage = ACCUMULATE THEN At(ACCUMULATE) ELSE {})

(* The one answer each of them gets. *)
Verdict(r) ==
  IF r = base THEN "charged"
  ELSE IF r.stage = ACCUMULATE THEN "resolved"
  ELSE IF r \notin At(QUALIFY) THEN "not_applied"
  ELSE IF Has("terminal", base) THEN "superseded"
  ELSE IF base.stage = ACCUMULATE /\ r = Cheapest(At(QUALIFY)) THEN "time_based_used"
  ELSE "resolved"

Verdicts == {Line(r, Verdict(r)) : r \in Owed}

LEMMA StagesApart ==
  /\ \A r \in RulesAt(plan, QUALIFY) : r.stage = QUALIFY /\ r.stage # ACCUMULATE
  /\ \A r \in At(ACCUMULATE) : r.stage = ACCUMULATE /\ r.stage # QUALIFY
  /\ At(QUALIFY) \subseteq RulesAt(plan, QUALIFY)
BY PointsDiffer DEF RulesAt, At, QualifiedAt

(* On every pass that can end a quote the receipt is those verdicts, and     *)
(* perhaps a line that says a special was used.                             *)
LEMMA ReceiptIsVerdicts ==
  ASSUME IInv, LInv, Answer
  PROVE  /\ receipt' \subseteq Verdicts \cup {Line(r, "special_used") : r \in plan.rules}
         /\ Verdicts \subseteq receipt'
         /\ base \in Owed /\ Owed \subseteq plan.rules
<1>1. /\ pc \in PassPoints /\ pass \in {"only", "final"}
      /\ receipt' = BaseLines \cup ComparisonLines
  BY AnswerAtTheEnd
<1>2. base \in plan.rules /\ base.stage \in {QUALIFY, ACCUMULATE}
      /\ (Has("terminal", base) => base.stage = QUALIFY)
  BY <1>1, BasePrice, PointsDiffer DEF IInv, BaseCompetes
<1>3. base \in At(base.stage)
  BY <1>1, <1>2, PointsDiffer DEF IInv, BaseCompetes, Competing, Ways, Terminals, At, QualifiedAt, RulesAt
<1>4. Owed \subseteq plan.rules
  BY DEF Owed, RulesAt, At, QualifiedAt
<1>5. base \in Owed
  BY <1>2, <1>3, StagesApart DEF Owed
<1>6. CASE Has("terminal", base)
  <2>1. base.stage = QUALIFY /\ ComparisonLines = {} /\ BaseLines = QualifyLines
    BY <1>2, <1>6 DEF ComparisonLines, BaseLines
  <2>2. QualifyLines = {Line(r, "not_applied") : r \in RulesAt(plan, QUALIFY) \ At(QUALIFY)}
          \cup {Line(r, "superseded") : r \in At(QUALIFY) \ {base}}
          \cup {Line(r, "charged") : r \in {base} \cap RulesAt(plan, QUALIFY)}
    BY <1>6 DEF QualifyLines
  <2>3. Owed = RulesAt(plan, QUALIFY)
    BY <2>1, PointsDiffer DEF Owed
  <2>4. QualifyLines = Verdicts
    BY <1>2, <1>3, <1>6, <2>1, <2>2, <2>3, StagesApart DEF Verdicts, Verdict
  <2> QED
    BY <1>1, <1>4, <1>5, <2>1, <2>4
<1>7. CASE ~Has("terminal", base) /\ pass = "only"
  <2>1. Ways(plan, stay) = {base}
    BY <1>1, <1>7 DEF LInv, OnlyWay, Terminals
  <2>2. ComparisonLines \subseteq {Line(r, "special_used") : r \in plan.rules}
    BY <1>2, <1>7 DEF ComparisonLines
  <2>3. At(QUALIFY) \subseteq {base}
    BY <2>1 DEF Ways, At
  <2>4. QualifyLines = {Line(r, "not_applied") : r \in RulesAt(plan, QUALIFY) \ At(QUALIFY)}
          \cup {Line(r, "charged") : r \in {base} \cap RulesAt(plan, QUALIFY)}
    BY <1>7 DEF QualifyLines
  <2>5. CASE base.stage = QUALIFY
    <3>1. BaseLines = QualifyLines /\ Owed = RulesAt(plan, QUALIFY)
      BY <2>5, PointsDiffer DEF BaseLines, Owed
    <3>2. QualifyLines = Verdicts
      BY <1>2, <1>3, <2>3, <2>4, <2>5, <3>1, StagesApart DEF Verdicts, Verdict
    <3> QED
      BY <1>1, <1>4, <1>5, <2>2, <3>1, <3>2
  <2>6. CASE base.stage = ACCUMULATE
    <3>1. At(ACCUMULATE) = {base} /\ At(QUALIFY) = {}
      <4>1. TimeBasedGaps(plan, stay) = {}
        BY <1>3, <2>1, <2>6, StagesApart DEF Ways, At, QualifiedAt, RulesAt
      <4> QED
        BY <1>3, <2>1, <2>3, <2>6, <4>1, StagesApart DEF Ways, At
    <3>2. Owed = RulesAt(plan, QUALIFY) \cup {base}
      BY <2>6, <3>1 DEF Owed
    <3>3. AccumulateLines = {Line(base, "charged")}
      BY <1>7 DEF AccumulateLines
    <3>4. BaseLines = QualifyLines \cup AccumulateLines
      BY <1>7, <2>6, PointsDiffer DEF BaseLines
    <3>5. BaseLines = Verdicts
      BY <2>4, <2>6, <3>1, <3>2, <3>3, <3>4, StagesApart DEF Verdicts, Verdict
    <3> QED
      BY <1>1, <1>4, <1>5, <2>2, <3>5
  <2> QED
    BY <1>2, <2>5, <2>6
<1>8. CASE ~Has("terminal", base) /\ pass = "final" /\ base.stage = QUALIFY
  <2>1. BaseLines = QualifyLines /\ Owed = RulesAt(plan, QUALIFY)
    BY <1>8, PointsDiffer DEF BaseLines, Owed
  <2>2. QualifyLines = {Line(r, "not_applied") : r \in RulesAt(plan, QUALIFY) \ At(QUALIFY)}
          \cup {Line(r, "resolved") : r \in At(QUALIFY) \ {base}}
          \cup {Line(r, "charged") : r \in {base} \cap RulesAt(plan, QUALIFY)}
    BY <1>8 DEF QualifyLines
  <2>3. QualifyLines = Verdicts
    BY <1>2, <1>3, <1>8, <2>1, <2>2, StagesApart, PointsDiffer DEF Verdicts, Verdict
  <2>4. ComparisonLines \subseteq {Line(r, "special_used") : r \in plan.rules}
    <3>1. At(QUALIFY) # {}
      BY <1>3, <1>8
    <3>2. Cheapest(At(QUALIFY)) \in plan.rules
      BY <1>1, <1>8, <3>1, CheapestSpecial, StagesApart DEF First, RulesAt
    <3> QED
      BY <1>8, <3>2, WaysByStage, PointsDiffer DEF ComparisonLines
  <2> QED
    BY <1>1, <1>4, <1>5, <2>1, <2>3, <2>4
<1>9. CASE ~Has("terminal", base) /\ pass = "final" /\ base.stage = ACCUMULATE
  <2>1. /\ BaseLines = QualifyLines \cup AccumulateLines
        /\ Owed = RulesAt(plan, QUALIFY) \cup At(ACCUMULATE)
        /\ base \in At(ACCUMULATE) /\ base \notin RulesAt(plan, QUALIFY)
    BY <1>3, <1>9, StagesApart, PointsDiffer DEF BaseLines, Owed
  <2>2. AccumulateLines = {Line(base, "charged")}
                            \cup {Line(r, "resolved") : r \in At(ACCUMULATE) \ {base}}
    BY <1>9 DEF AccumulateLines
  <2>3. CASE At(QUALIFY) = {}
    <3>1. ComparisonLines = {}
      BY <2>3, WaysByStage DEF ComparisonLines
    <3>2. QualifyLines = {Line(r, "not_applied") : r \in RulesAt(plan, QUALIFY)}
      BY <1>9, <2>1, <2>3, PointsDiffer DEF QualifyLines
    <3>3. BaseLines = Verdicts
      BY <1>9, <2>1, <2>2, <2>3, <3>2, StagesApart DEF Verdicts, Verdict
    <3> QED
      BY <1>1, <1>4, <1>5, <3>1, <3>3
  <2>4. CASE At(QUALIFY) # {}
    <3> DEFINE c == Cheapest(At(QUALIFY))
    <3>1. c \in At(QUALIFY)
      BY <1>1, <1>9, <2>4, CheapestSpecial DEF First
    <3>2. ComparisonLines = {Line(c, "time_based_used")}
      BY <1>9, <2>4, WaysByStage DEF ComparisonLines
    <3>3. QualifyLines = {Line(r, "not_applied") : r \in RulesAt(plan, QUALIFY) \ At(QUALIFY)}
            \cup {Line(r, "resolved") : r \in At(QUALIFY) \ {c}}
      BY <1>9, <2>1, <2>4, PointsDiffer DEF QualifyLines
    <3> HIDE DEF c
    <3>4. \A r : Verdict(r) = IF r = base THEN "charged"
                              ELSE IF r.stage = ACCUMULATE THEN "resolved"
                              ELSE IF r \notin At(QUALIFY) THEN "not_applied"
                              ELSE IF r = c THEN "time_based_used" ELSE "resolved"
      BY <1>9 DEF Verdict, c
    <3>5. BaseLines \cup ComparisonLines = Verdicts
      BY <2>1, <2>2, <3>1, <3>2, <3>3, <3>4, StagesApart DEF Verdicts
    <3> QED
      BY <1>1, <1>4, <1>5, <3>5
  <2> QED
    BY <2>3, <2>4
<1> QED
  BY <1>1, <1>2, <1>6, <1>7, <1>8, <1>9

LEMMA AnsweredInFull ==
  ASSUME IInv, LInv, Answer
  PROVE  ReceiptAnswersEveryRate'
<1>1. UNCHANGED <<request, plan, base>>
  BY AnswerAtTheEnd
<1>2. /\ stay' = stay /\ At(ACCUMULATE)' = At(ACCUMULATE)
      /\ RulesAt(plan, QUALIFY)' = RulesAt(plan, QUALIFY)
  BY <1>1 DEF stay, At
<1> DEFINE said(r) == {l \in receipt' : l.rule = r.id /\ l.code # "special_used"}
<1>3. \A a, b \in plan.rules : a.id = b.id => a = b
  BY OnePlanInForce, RequestAssumption, PointsDiffer DEF IInv, Selected, Answer, PassPoints
<1>4. /\ receipt' \subseteq Verdicts \cup {Line(r, "special_used") : r \in plan.rules}
      /\ Verdicts \subseteq receipt' /\ base \in Owed /\ Owed \subseteq plan.rules
  BY ReceiptIsVerdicts
<1>5. \A r, c : Line(r, c).rule = r.id /\ Line(r, c).code = c
  BY DEF Line
<1>6. \A r : Verdict(r) # "special_used"
  BY DEF Verdict
<1>7. ASSUME NEW r \in Owed
      PROVE  said(r) = {Line(r, Verdict(r))}
  BY <1>3, <1>4, <1>5, <1>6 DEF Verdicts
<1>8. ASSUME NEW r \in Owed
      PROVE  Cardinality(said(r)) = 1
  BY <1>7, FS_Singleton
<1>9. ASSUME NEW r \in Owed, Line(r, "charged") \in receipt'
      PROVE  r = base
  <2>1. Line(r, "charged") \in said(r)
    BY <1>5, <1>9
  <2>2. Verdict(r) = "charged"
    BY <1>5, <1>7, <2>1
  <2> QED
    BY <2>2 DEF Verdict
<1>10. Line(base, "charged") \in receipt'
  BY <1>4 DEF Verdicts, Verdict
<1> QED
  BY <1>1, <1>2, <1>8, <1>9, <1>10 DEF ReceiptAnswersEveryRate, Owed, Line

(* "Why not this rate?" has one answer for every special of any plan, and,   *)
(* where the time was priced by the hour, for every time-based rate that    *)
(* could have: one line each, and one rule charged.                         *)
THEOREM EveryRateAnswered == Spec => []ReceiptAnswersEveryRate
<1>1. Init => ReceiptAnswersEveryRate
  BY DEF Init, ReceiptAnswersEveryRate, Unanswered
<1>2. IInv /\ LInv /\ ReceiptAnswersEveryRate /\ [Next]_vars => ReceiptAnswersEveryRate'
  <2> SUFFICES ASSUME IInv, LInv, ReceiptAnswersEveryRate, [Next]_vars
               PROVE  ReceiptAnswersEveryRate'
    OBVIOUS
  <2>1. CASE Answer
    BY <2>1, AnsweredInFull
  <2>2. CASE answer'.kind # "priced"
    BY <2>2 DEF ReceiptAnswersEveryRate
  <2>3. CASE UNCHANGED vars
    <3>1. stay' = stay /\ plan' = plan /\ base' = base /\ receipt' = receipt /\ answer' = answer
      BY <2>3 DEF vars, stay
    <3>2. At(ACCUMULATE)' = At(ACCUMULATE) /\ RulesAt(plan, QUALIFY)' = RulesAt(plan, QUALIFY)
      BY <3>1 DEF At
    <3> QED
      BY <3>1, <3>2 DEF ReceiptAnswersEveryRate, Line
  <2> QED
    BY <2>1, <2>2, <2>3, OnlyAnswerPrices
<1> QED
  BY <1>1, <1>2, AlwaysLInv, PTL DEF Spec
-----------------------------------------------------------------------------
(* A plan without one of the rules that can price the time: what qualifies   *)
(* at every other stage is what it was.                                     *)
PlanWithout(r) == [plan EXCEPT !.rules = @ \ {r}]

LEMMA WithoutABase ==
  ASSUME Selected, pc \in Planned, NEW r \in Ways(plan, stay)
  PROVE  /\ PlanWithout(r).rules = plan.rules \ {r}
         /\ PlanWithout(r).adjust_order = plan.adjust_order
         /\ \A stage : RulesAt(PlanWithout(r), stage) = RulesAt(plan, stage) \ {r}
         /\ \A stage : QualifiedAt(PlanWithout(r), stay, stage) = QualifiedAt(plan, stay, stage) \ {r}
         /\ \A stage \in {CAP, SURCHARGE, ADJUST} : r \notin RulesAt(plan, stage)
<1>1. {"rules", "adjust_order"} \subseteq DOMAIN plan
  BY OnePlanInForce, RequestAssumption DEF Selected
<1>2. PlanWithout(r).rules = plan.rules \ {r}
  BY <1>1 DEF PlanWithout
<1>3. PlanWithout(r).adjust_order = plan.adjust_order
  BY <1>1 DEF PlanWithout
<1>4. \A stage : RulesAt(PlanWithout(r), stage) = RulesAt(plan, stage) \ {r}
  BY <1>2 DEF RulesAt
<1>5. \A stage : QualifiedAt(PlanWithout(r), stay, stage) = QualifiedAt(plan, stay, stage) \ {r}
  BY <1>4 DEF QualifiedAt
<1>6. r.stage \in {QUALIFY, ACCUMULATE}
  BY DEF Ways, QualifiedAt, RulesAt
<1> QED
  BY <1>2, <1>3, <1>4, <1>5, <1>6, PointsDiffer DEF RulesAt

LEMMA SameFeeWithout ==
  ASSUME Selected, pc \in Planned, NEW r \in Ways(plan, stay), NEW w
  PROVE  FeeBy(PlanWithout(r), stay, w) = Fee(w)
<1>1. \A stage \in {CAP, SURCHARGE, ADJUST} :
        /\ RulesAt(PlanWithout(r), stage) = RulesAt(plan, stage)
        /\ QualifiedAt(PlanWithout(r), stay, stage) = QualifiedAt(plan, stay, stage)
  <2>1. \A stage : QualifiedAt(plan, stay, stage) \subseteq RulesAt(plan, stage)
    BY DEF QualifiedAt
  <2>2. /\ \A stage : RulesAt(PlanWithout(r), stage) = RulesAt(plan, stage) \ {r}
        /\ \A stage :
             QualifiedAt(PlanWithout(r), stay, stage) = QualifiedAt(plan, stay, stage) \ {r}
        /\ \A stage \in {CAP, SURCHARGE, ADJUST} : r \notin RulesAt(plan, stage)
    BY WithoutABase
  <2> SUFFICES ASSUME NEW stage \in {CAP, SURCHARGE, ADJUST}
               PROVE  /\ RulesAt(PlanWithout(r), stage) = RulesAt(plan, stage)
                      /\ QualifiedAt(PlanWithout(r), stay, stage) = QualifiedAt(plan, stay, stage)
    OBVIOUS
  <2>3. r \notin RulesAt(plan, stage) /\ r \notin QualifiedAt(plan, stay, stage)
    BY <2>1, <2>2
  <2> QED
    BY <2>2, <2>3
<1>2. \A total_ : AtCap(PlanWithout(r), stay, w, total_) = AtCap(plan, stay, w, total_)
  BY <1>1 DEF AtCap
<1>3. \A t, total_ : AtSurcharge(PlanWithout(r), stay, t, total_) = AtSurcharge(plan, stay, t, total_)
  BY <1>1 DEF AtSurcharge
<1>4. \A t, x : AdjustCall(PlanWithout(r), stay, w, t, x) = AdjustCall(plan, stay, w, t, x)
  <2>1. PlanWithout(r).adjust_order = plan.adjust_order
    BY WithoutABase
  <2> QED
    BY <1>1, <2>1 DEF AdjustCall
<1>5. \A t, total_ : AtAdjust(PlanWithout(r), stay, w, t, total_) = AtAdjust(plan, stay, w, t, total_)
  BY <1>4 DEF AtAdjust
<1> QED
  BY <1>2, <1>3, <1>5 DEF FeeBy, Fee

(* Whatever competes without a rule competes with it too: a rule that is not *)
(* terminal takes no other's place.                                         *)
LEMMA StillCompetes ==
  ASSUME Selected, pc \in Planned, NEW r \in Ways(plan, stay), ~Has("terminal", r)
  PROVE  Competing(PlanWithout(r), stay) \subseteq Competing(plan, stay)
<1> DEFINE less == PlanWithout(r)
           Q(p, stage) == QualifiedAt(p, stay, stage)
<1>1. \A stage : Q(less, stage) = Q(plan, stage) \ {r}
  BY WithoutABase
<1>2. Terminals(Q(less, QUALIFY)) = Terminals(Q(plan, QUALIFY))
  BY <1>1 DEF Terminals
<1>3. TimeBasedGaps(less, stay) = {} => TimeBasedGaps(plan, stay) = {}
  <2>1. RulesAt(less, ACCUMULATE) \subseteq RulesAt(plan, ACCUMULATE)
    BY WithoutABase
  <2>2. Q(less, ACCUMULATE) \subseteq Q(plan, ACCUMULATE)
    BY <1>1
  <2> QED
    BY <2>1, <2>2 DEF TimeBasedGaps
<1>4. Ways(less, stay) \subseteq Ways(plan, stay)
  BY <1>1, <1>3 DEF Ways
<1> QED
  BY <1>2, <1>4 DEF Competing

LEMMA NeverDearerAnswer ==
  ASSUME IInv, LInv, Answer
  PROVE  MoreWaysNeverDearer'
<1>1. /\ pc \in PassPoints /\ pass # "trial" /\ UNCHANGED <<request, plan>>
      /\ total = Fee(base)
      /\ answer'.kind = "priced" => answer'.fee = total
  BY AnswerAtTheEnd
<1>2. stay' = stay /\ pc \in Planned /\ Selected /\ Blocking = {} /\ request \in Request
  BY <1>1, PointsDiffer DEF stay, IInv, Unblocked, Selected
<1>3. Promise!Charged(request, total)
  BY <1>1 DEF IInv, BaseCompetes
<1>4. /\ Offers(request) = {Fee(w) : w \in Competing(plan, stay)}
      /\ Findings(request) = {}
  BY <1>2, OnePlanInForce
<1>5. \A w \in Competing(plan, stay) : total <= Fee(w)
  <2>1. \A w \in Competing(plan, stay) : Fee(w) \in Nat
    BY <1>2, OnePlanInForce
  <2>2. Offers(request) \subseteq Nat /\ total \in Nat
    BY <1>3, <1>4, <2>1 DEF Promise!Charged
  <2> QED
    BY <1>3, <1>4, <2>2 DEF Promise!Charged
<1>6. ASSUME NEW r \in Ways(plan, stay), ~Has("terminal", r),
             NEW w \in Competing(PlanWithout(r), stay)
      PROVE  total <= FeeBy(PlanWithout(r), stay, w)
  BY <1>2, <1>5, <1>6, SameFeeWithout, StillCompetes
<1> QED
  BY <1>1, <1>2, <1>6 DEF MoreWaysNeverDearer, PlanWithout

(* Adding a special, or another time-based rate, to a plan never makes any   *)
(* stay dearer, whatever caps, surcharges and adjustments the plan has.      *)
THEOREM NeverDearer == Spec => []MoreWaysNeverDearer
<1>1. Init => MoreWaysNeverDearer
  BY DEF Init, MoreWaysNeverDearer, Unanswered
<1>2. IInv /\ LInv /\ MoreWaysNeverDearer /\ [Next]_vars => MoreWaysNeverDearer'
  <2> SUFFICES ASSUME IInv, LInv, MoreWaysNeverDearer, [Next]_vars
               PROVE  MoreWaysNeverDearer'
    OBVIOUS
  <2>1. CASE Answer
    BY <2>1, NeverDearerAnswer
  <2>2. CASE answer'.kind # "priced"
    BY <2>2 DEF MoreWaysNeverDearer
  <2>3. CASE UNCHANGED vars
    BY <2>3 DEF vars, stay, MoreWaysNeverDearer
  <2> QED
    BY <2>1, <2>2, <2>3, OnlyAnswerPrices
<1> QED
  BY <1>1, <1>2, AlwaysLInv, PTL DEF Spec
-----------------------------------------------------------------------------
(* A plan without its fill rules: what qualifies, and whose fee may be the   *)
(* one charged, is what it was, and ADJUST alone has fewer rules.            *)
Unfilled(p) == [p EXCEPT !.rules = {r \in @ : r.type # "fill_level"}]

FillsAdjust(p) == \A r \in p.rules : r.type = "fill_level" => r.stage = ADJUST

LEMMA UnfilledIs ==
  ASSUME NEW p, SoundPlan(p), FillsAdjust(p), NEW s
  PROVE  /\ SoundPlan(Unfilled(p))
         /\ Unfilled(p).adjust_order = p.adjust_order
         /\ \A stage \in {QUALIFY, ACCUMULATE, CAP, SURCHARGE} :
              /\ RulesAt(Unfilled(p), stage) = RulesAt(p, stage)
              /\ QualifiedAt(Unfilled(p), s, stage) = QualifiedAt(p, s, stage)
         /\ RulesAt(Unfilled(p), ADJUST) = {r \in RulesAt(p, ADJUST) : r.type # "fill_level"}
         /\ QualifiedAt(Unfilled(p), s, ADJUST)
              = {r \in QualifiedAt(p, s, ADJUST) : r.type # "fill_level"}
<1> DEFINE u == Unfilled(p)
<1>1. /\ u.rules = {r \in p.rules : r.type # "fill_level"}
      /\ u.adjust_order = p.adjust_order
      /\ DOMAIN u = DOMAIN p
  BY DEF Unfilled, SoundPlan
<1> HIDE DEF u
<1>2. /\ \A stage : RulesAt(u, stage) = {r \in RulesAt(p, stage) : r.type # "fill_level"}
      /\ \A stage : QualifiedAt(u, s, stage)
                      = {r \in QualifiedAt(p, s, stage) : r.type # "fill_level"}
  BY <1>1 DEF RulesAt, QualifiedAt
<1>3. ASSUME NEW stage \in {QUALIFY, ACCUMULATE, CAP, SURCHARGE}, NEW r \in RulesAt(p, stage)
      PROVE  r.type # "fill_level"
  <2>1. r \in p.rules /\ r.stage = stage /\ stage # ADJUST
    BY PointsDiffer DEF RulesAt
  <2> QED
    BY <2>1 DEF FillsAdjust
<1>4. \A stage \in {QUALIFY, ACCUMULATE, CAP, SURCHARGE} :
        /\ RulesAt(u, stage) = RulesAt(p, stage)
        /\ QualifiedAt(u, s, stage) = QualifiedAt(p, s, stage)
  <2>1. \A stage : QualifiedAt(p, s, stage) \in SUBSET RulesAt(p, stage)
    BY DEF QualifiedAt
  <2> QED
    BY <1>2, <1>3, <2>1
<1>5. SoundPlan(u)
  <2>1. u.rules \in SUBSET p.rules
    BY <1>1
  <2>2. IsFiniteSet(u.rules)
    BY <2>1, FS_Subset DEF SoundPlan
  <2>3. RulesAt(u, ADJUST) \in SUBSET RulesAt(p, ADJUST)
    BY <1>2
  <2> QED
    BY <1>1, <2>1, <2>2, <2>3 DEF SoundPlan
<1> QED
  BY <1>1, <1>2, <1>4, <1>5 DEF u

LEMMA UnfilledCompetes ==
  ASSUME NEW p, SoundPlan(p), FillsAdjust(p), NEW s
  PROVE  Competing(Unfilled(p), s) = Competing(p, s)
<1> DEFINE u == Unfilled(p)
<1>1. \A stage \in {QUALIFY, ACCUMULATE} :
        RulesAt(u, stage) = RulesAt(p, stage) /\ QualifiedAt(u, s, stage) = QualifiedAt(p, s, stage)
  BY UnfilledIs
<1> HIDE DEF u
<1>2. TimeBasedGaps(u, s) = TimeBasedGaps(p, s)
  BY <1>1 DEF TimeBasedGaps
<1>3. Ways(u, s) = Ways(p, s)
  BY <1>1, <1>2 DEF Ways
<1>4. Competing(u, s) = Competing(p, s)
  BY <1>1, <1>3 DEF Competing
<1> QED
  BY <1>4 DEF u

(* The ADJUST stage of the plan without its fill rules is handed the same    *)
(* call without them.                                                        *)
LEMMA UnfilledCall ==
  ASSUME NEW p, SoundPlan(p), FillsAdjust(p), NEW s, OneFill(p, s), NEW w,
         NEW t \in Nat, NEW x \in Nat
  PROVE  AdjustedTotal(AdjustCall(Unfilled(p), s, w, t, x))
           <= AdjustedTotal(AdjustCall(p, s, w, t, x))
<1> DEFINE u == Unfilled(p)
           c == AdjustCall(p, s, w, t, x)
           d == AdjustCall(u, s, w, t, x)
           e == Removed(c, FillRules(c))
<1>1. SoundCall(c) /\ CallOf(c, p, s, w, t, x) /\ CallOf(d, u, s, w, t, x)
  BY CallIsSound, CallIs
<1>2. /\ u.adjust_order = p.adjust_order
      /\ RulesAt(u, ADJUST) = {r \in RulesAt(p, ADJUST) : r.type # "fill_level"}
      /\ QualifiedAt(u, s, ADJUST) = {r \in QualifiedAt(p, s, ADJUST) : r.type # "fill_level"}
  BY UnfilledIs
<1> HIDE DEF u, c, d
<1>3. SoundCall(e) /\ AdjustedTotal(e) <= AdjustedTotal(c)
  BY <1>1, FillsCostNoLess
<1>4. IsCall(c)
  BY <1>1 DEF CallOf
<1> DEFINE F == FillRules(c)
<1>5. /\ e.rules = c.rules \ F /\ e.qualified = c.qualified \ F /\ e.rank = c.rank
      /\ e.time = c.time /\ e.extras = c.extras /\ e.by_special = c.by_special
  <2> HIDE DEF F
  <2>1. \A out : /\ Removed(c, out).rules = c.rules \ out
                 /\ Removed(c, out).qualified = c.qualified \ out
                 /\ Removed(c, out).rank = c.rank /\ Removed(c, out).time = c.time
                 /\ Removed(c, out).extras = c.extras
                 /\ Removed(c, out).by_special = c.by_special
    BY <1>4, RemovedIs
  <2> QED
    BY <2>1 DEF F
<1> HIDE DEF e
<1>6. c.qualified \in SUBSET c.rules
  BY <1>1 DEF CallOf, QualifiedAt
<1>7. d.rules = e.rules /\ d.qualified = e.qualified
  <2>1. d.rules = {r \in c.rules : r.type # "fill_level"}
        /\ d.qualified = {r \in c.qualified : r.type # "fill_level"}
    BY <1>1, <1>2 DEF CallOf
  <2>2. e.rules = {r \in c.rules : r.type # "fill_level"}
    BY <1>5 DEF FillRules
  <2>3. e.qualified = {r \in c.qualified : r.type # "fill_level"}
    BY <1>5, <1>6 DEF FillRules
  <2> QED
    BY <2>1, <2>2, <2>3
<1>8. d.time = e.time /\ d.extras = e.extras /\ d.by_special = e.by_special
  BY <1>1, <1>5 DEF CallOf
<1>9. \A r \in e.rules : d.rank[r] = e.rank[r]
  <2> SUFFICES ASSUME NEW r \in e.rules PROVE d.rank[r] = c.rank[r]
    BY <1>5
  <2>1. r \in RulesAt(u, ADJUST) /\ r \in RulesAt(p, ADJUST)
    BY <1>1, <1>2, <1>7 DEF CallOf
  <2> DEFINE turn == IF p.adjust_order = Unordered THEN r.id
                      ELSE CHOOSE i \in DOMAIN p.adjust_order : p.adjust_order[i] = r.id
  <2>2. c.rank[r] = turn
    BY <1>1, <2>1 DEF CallOf
  <2>3. d.rank[r] = turn
    BY <1>1, <1>2, <2>1 DEF CallOf
  <2> QED
    BY <2>2, <2>3
<1>10. Alike(e, d)
  BY <1>7, <1>8, <1>9 DEF Alike
<1>11. SoundCall(d)
  <2>1. IsCall(d)
    BY <1>1 DEF CallOf
  <2> QED
    BY <1>3, <1>10, <2>1, AlikeIsSound
<1>12. AdjustedTotal(d) = AdjustedTotal(e)
  BY <1>3, <1>10, <1>11, AlikeCosts
<1>13. AdjustedTotal(d) <= AdjustedTotal(c)
  BY <1>3, <1>12
<1> QED
  BY <1>13 DEF c, d, u

LEMMA UnfilledFee ==
  ASSUME NEW p, SoundPlan(p), FillsAdjust(p), NEW s, OneFill(p, s), NEW w, PricedSoundly(p, w)
  PROVE  FeeBy(Unfilled(p), s, w) <= FeeBy(p, s, w)
<1> DEFINE u == Unfilled(p)
<1>1. CASE Has("terminal", w)
  <2>1. FeeBy(u, s, w) = w.price /\ FeeBy(p, s, w) = w.price /\ w.price \in Nat
    BY <1>1 DEF FeeBy, PricedSoundly
  <2> QED
    BY <2>1
<1>2. CASE ~Has("terminal", w)
  <2> DEFINE t == TimeOf(p, s, w)
             x == ExtraOf(p, s, t)
  <2>1. t \in Nat /\ x \in Nat /\ FeeBy(p, s, w) = AdjustedTotal(AdjustCall(p, s, w, t, x))
    BY <1>2, FeeIsTheCall
  <2>2. /\ SoundPlan(u)
        /\ RulesAt(u, CAP) = RulesAt(p, CAP) /\ RulesAt(u, SURCHARGE) = RulesAt(p, SURCHARGE)
        /\ QualifiedAt(u, s, CAP) = QualifiedAt(p, s, CAP)
        /\ QualifiedAt(u, s, SURCHARGE) = QualifiedAt(p, s, SURCHARGE)
    BY UnfilledIs
  <2> HIDE DEF u
  <2>3. PricedSoundly(u, w)
    BY <2>2 DEF PricedSoundly
  <2>4. TimeOf(u, s, w) = t /\ ExtraOf(u, s, t) = x
    BY <2>2 DEF TimeOf, AtCap, ExtraOf
  <2>5. FeeBy(u, s, w) = AdjustedTotal(AdjustCall(u, s, w, TimeOf(u, s, w), ExtraOf(u, s, TimeOf(u, s, w))))
    BY <1>2, <2>2, <2>3, FeeIsTheCall
  <2> HIDE DEF t, x
  <2>6. FeeBy(u, s, w) = AdjustedTotal(AdjustCall(u, s, w, t, x))
    BY <2>4, <2>5
  <2>7. AdjustedTotal(AdjustCall(u, s, w, t, x)) <= AdjustedTotal(AdjustCall(p, s, w, t, x))
    BY <2>1, UnfilledCall DEF u
  <2> QED
    BY <2>1, <2>6, <2>7 DEF u
<1> QED
  BY <1>1, <1>2

LEMMA FullNeverCheaperAnswer ==
  ASSUME IInv, LInv, Answer
  PROVE  FullNeverCheaper'
<1>1. /\ pc \in PassPoints /\ pass # "trial" /\ UNCHANGED <<request, plan>>
      /\ total = Fee(base)
      /\ answer'.kind = "priced" => answer'.fee = total
  BY AnswerAtTheEnd
<1>2. stay' = stay /\ pc \in Planned /\ Selected /\ Blocking = {} /\ request \in Request
  BY <1>1, PointsDiffer DEF stay, IInv, Unblocked, Selected
<1>3. base \in Competing(plan, stay)
  BY <1>1 DEF IInv, BaseCompetes
<1>4. plan \in request.plans
  BY <1>2, OnePlanInForce
<1>5. SoundPlan(plan) /\ PricedSoundly(plan, base)
  BY <1>2, <1>3, <1>4, SuppliedIsSound, SuppliedPricesSoundly
<1>6. FillsAdjust(plan)
  BY <1>2, <1>4, RequestAssumption DEF FillsAdjust
<1>7. OneFill(plan, stay)
  BY <1>2, OneFillRaises DEF Blocking
<1>8. base \in Competing(Unfilled(plan), stay)
  BY <1>3, <1>5, <1>6, UnfilledCompetes
<1>9. FeeBy(Unfilled(plan), stay, base) <= total
  BY <1>1, <1>5, <1>6, <1>7, UnfilledFee DEF Fee
<1> QED
  BY <1>1, <1>2, <1>8, <1>9 DEF FullNeverCheaper, Unfilled

(* A full garage never makes a stay cheaper: with whatever caps, surcharges  *)
(* and adjustments beside it, and wherever its fill rule is tried, the stay  *)
(* costs at least what one of the ways of pricing it comes to on the same    *)
(* plan without its fill rules.                                              *)
THEOREM FullCostsMore == Spec => []FullNeverCheaper
<1>1. Init => FullNeverCheaper
  BY DEF Init, FullNeverCheaper, Unanswered
<1>2. IInv /\ LInv /\ FullNeverCheaper /\ [Next]_vars => FullNeverCheaper'
  <2> SUFFICES ASSUME IInv, LInv, FullNeverCheaper, [Next]_vars
               PROVE  FullNeverCheaper'
    OBVIOUS
  <2>1. CASE Answer
    BY <2>1, FullNeverCheaperAnswer
  <2>2. CASE answer'.kind # "priced"
    BY <2>2 DEF FullNeverCheaper
  <2>3. CASE UNCHANGED vars
    BY <2>3 DEF vars, stay, FullNeverCheaper
  <2> QED
    BY <2>1, <2>2, <2>3, OnlyAnswerPrices
<1> QED
  BY <1>1, <1>2, AlwaysLInv, PTL DEF Spec
=============================================================================
