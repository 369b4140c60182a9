--------------------------- MODULE Runners_proofs ---------------------------
(***************************************************************************)
(* A call, for any documents and requests: what a runner makes of it. The  *)
(* invariant of the loader keeps what each check that has passed found out,*)
(* and that no rule is built after the checks that look at the rules. The  *)
(* invariant of a tax says that the rules which have answered are, in the  *)
(* order of their lines, in the order of their sequences, and all before   *)
(* those still to answer.                                                  *)
(***************************************************************************)
EXTENDS Runners, FiniteSetTheorems, SequenceTheorems, TLAPS

RulesOf(d) == {BuiltRule(d.rules[i]) : i \in DOMAIN d.rules}

(* The rules built are the first of the document's, all of them sound.       *)
BuiltFrom(d, rules) ==
  /\ rules \in Seq(RulesOf(d)) /\ Len(rules) <= Len(d.rules)
  /\ \A i \in 1 .. Len(rules) :
       /\ rules[i] = BuiltRule(d.rules[i])
       /\ SoundRule(d.rules[i], ToSet(d.space_classes))

Passed ==
  \A k \in 1 .. at : Checks[k] # "build" => Passes(Checks[k], document, built)

LoadInv ==
  /\ document \in Document
  /\ at \in 0 .. Len(Checks)
  /\ BuiltFrom(document, built)
  /\ at > 10 => Len(built) = Len(document.rules)
  /\ Passed
  /\ verdict.kind = "loaded" => at = Len(Checks) /\ verdict.plan = PlanFrom(document, built)
-----------------------------------------------------------------------------
LEMMA AsChecked ==
  /\ Len(Checks) = 15 /\ Checks[11] = "build"
  /\ \A k \in 1 .. 10 : Checks[k] \notin {"build", "ids", "orders", "adjust_order"}
  /\ Checks[9] = "resolution" /\ Checks[13] = "orders" /\ Checks[14] = "adjust_order"
  /\ \A k \in 1 .. 15 : Checks[k] = "build" => k = 11
  /\ \A k \in 1 .. 15 : Checks[k] \in {"ids", "orders", "adjust_order"} => k > 11
BY DEF Checks

(* What a document was found to be. *)
LEMMA WhatPassed ==
  ASSUME LoadInv
  PROVE  /\ at >= 9 => SoundResolution(document.resolution)
         /\ at >= 13 => NamesEveryRule(document.resolution, built)
         /\ at >= 14 => SoundAdjustOrder(document.adjust_order, built)
<1>1. document.readable \subseteq {"plan_version", "effective_from", "timezone", "currency"}
  BY DocumentAssumption DEF LoadInv
<1>2. at >= 9 => Passes("resolution", document, built)
  <2>1. at >= 9 => Passes(Checks[9], document, built)
    BY AsChecked DEF LoadInv, Passed
  <2> QED
    BY <2>1, AsChecked
<1>3. at >= 13 => Passes("orders", document, built)
  <2>1. at >= 13 => Passes(Checks[13], document, built)
    BY AsChecked DEF LoadInv, Passed
  <2> QED
    BY <2>1, AsChecked
<1>4. at >= 14 => Passes("adjust_order", document, built)
  <2>1. at >= 14 => Passes(Checks[14], document, built)
    BY AsChecked DEF LoadInv, Passed
  <2> QED
    BY <2>1, AsChecked
<1> QED
  BY <1>1, <1>2, <1>3, <1>4 DEF Passes

(* Before the rules are built no check looks at them. *)
LEMMA RulesLater ==
  ASSUME NEW check, check \notin {"ids", "orders", "adjust_order"}, NEW d, NEW rules, NEW more,
         Passes(check, d, rules)
  PROVE  Passes(check, d, more)
BY DEF Passes

LEMMA RulesAreASequence ==
  ASSUME NEW d \in Document
  PROVE  Len(d.rules) \in Nat /\ DOMAIN d.rules = 1 .. Len(d.rules)
BY DocumentAssumption
-----------------------------------------------------------------------------
LEMMA LoadInitEstablishes == Init => LoadInv
<1> SUFFICES ASSUME Init
    PROVE  LoadInv
  OBVIOUS
<1>1. at = 0 /\ document \in Document /\ built = << >> /\ verdict.kind # "loaded"
  BY DEF Init, Unread
<1>2. BuiltFrom(document, built)
  BY <1>1, RulesAreASequence DEF BuiltFrom
<1> QED
  BY <1>1, <1>2, AsChecked DEF LoadInv, Passed

LEMMA LoadStepKeeps == LoadInv /\ [Next]_vars => LoadInv'
<1> SUFFICES ASSUME LoadInv, [Next]_vars
    PROVE  LoadInv'
  OBVIOUS
<1> USE DEF LoadInv
<1>1. ASSUME NEW check \in ToSet(Checks) \ {"build"}, Check(check)
      PROVE  LoadInv'
  <2>1. Reading(check) /\ document' = document /\ built' = built
    BY <1>1 DEF Check
  <2>2. CASE ~Passes(check, document, built)
    <3>1. at' = at /\ verdict'.kind # "loaded"
      BY <1>1, <2>2 DEF Check, Refused
    <3> QED
      BY <2>1, <3>1 DEF Passed
  <2>3. CASE Passes(check, document, built)
    <3>1. at' = at + 1 /\ verdict' = verdict /\ verdict.kind # "loaded"
      BY <1>1, <2>3 DEF Check, Reading, Unread
    <3>2. at + 1 \in 0 .. Len(Checks) /\ check = Checks[at + 1]
      BY <2>1, AsChecked DEF Reading
    <3>3. \A k \in 1 .. at + 1 : k \in 1 .. at \/ k = at + 1
      OBVIOUS
    <3>4. Passed'
      BY <2>1, <2>3, <3>1, <3>2, <3>3 DEF Passed
    <3>5. at' > 10 => Len(built') = Len(document'.rules)
      <4>1. at = 10 => FALSE
        BY <2>1, AsChecked DEF Reading
      <4> QED
        BY <2>1, <3>1, <4>1
    <3> QED
      BY <2>1, <3>1, <3>2, <3>4, <3>5
  <2> QED
    BY <2>2, <2>3
<1>2. CASE BuildRule
  <2>1. /\ at = 10 /\ UNCHANGED <<at, document, verdict>> /\ verdict.kind # "loaded"
    BY <1>2, AsChecked, SMTT(30) DEF BuildRule, Reading, Unread
  <2>2. BuiltFrom(document, built')
    <3>1. Len(built) + 1 \in DOMAIN document.rules /\ Len(built) \in Nat
      BY <1>2, RulesAreASequence, LenProperties DEF BuildRule, BuiltFrom
    <3>2. BuiltRule(NextRule) \in RulesOf(document)
      BY <3>1 DEF RulesOf, NextRule
    <3>3. /\ built' \in Seq(RulesOf(document)) /\ Len(built') = Len(built) + 1
          /\ built'[Len(built) + 1] = BuiltRule(NextRule)
          /\ \A i \in 1 .. Len(built) : built'[i] = built[i]
      BY <1>2, <3>2, AppendProperties DEF BuildRule, BuiltFrom
    <3>4. SoundRule(NextRule, ToSet(document.space_classes)) /\ Len(built) < Len(document.rules)
      BY <1>2 DEF BuildRule
    <3>5. Len(built) + 1 <= Len(document.rules)
      BY <3>1, RulesAreASequence
    <3>6. \A i \in 1 .. Len(built) + 1 : i \in 1 .. Len(built) \/ i = Len(built) + 1
      BY <3>1
    <3> QED
      BY <3>3, <3>4, <3>5, <3>6 DEF BuiltFrom, NextRule
  <2>3. \A k \in 1 .. 10 : Passes(Checks[k], document, built')
    BY <2>1, AsChecked, RulesLater DEF Passed
  <2> QED
    BY <2>1, <2>2, <2>3 DEF Passed
<1>3. CASE RefuseRule \/ FallOnRule
  <2>1. verdict'.kind # "loaded" /\ UNCHANGED <<document, at, built>>
    BY <1>3 DEF RefuseRule, FallOnRule, Refused, Fallen
  <2> QED
    BY <2>1 DEF Passed
<1>4. CASE RulesBuilt
  <2>1. /\ at = 10 /\ at' = 11 /\ UNCHANGED <<document, built, verdict>>
        /\ verdict.kind # "loaded" /\ Len(built) = Len(document.rules)
    BY <1>4, AsChecked DEF RulesBuilt, Reading, Unread
  <2>2. \A k \in 1 .. 11 : k \in 1 .. 10 \/ k = 11
    OBVIOUS
  <2> QED
    BY <2>1, <2>2, AsChecked DEF Passed
<1>5. CASE Return
  <2>1. /\ verdict'.plan = PlanFrom(document, built) /\ at = Len(Checks)
        /\ UNCHANGED <<document, at, built>>
    BY <1>5 DEF Return, Loaded
  <2> QED
    BY <2>1 DEF Passed
<1>6. CASE UNCHANGED vars
  BY <1>6 DEF vars, Passed
<1> QED
  BY <1>1, <1>2, <1>3, <1>4, <1>5, <1>6 DEF Next, Done
-----------------------------------------------------------------------------
(* An order without a repeat puts one of any two of its names first. *)
LEMMA InOrder ==
  ASSUME NEW order \in Seq(STRING), IsInjective(order),
         NEW a \in ToSet(order), NEW b \in ToSet(order), a # b
  PROVE  Before(order, a, b) # Before(order, b, a)
<1>1. PICK k \in DOMAIN order : order[k] = a
  BY DEF ToSet
<1>2. PICK l \in DOMAIN order : order[l] = b
  BY DEF ToSet
<1>3. k \in Nat /\ l \in Nat /\ k # l
  BY <1>1, <1>2
<1>4. \A m \in DOMAIN order : (order[m] = a => m = k) /\ (order[m] = b => m = l)
  BY <1>1, <1>2 DEF IsInjective
<1>5. Before(order, a, b) <=> k < l
  BY <1>1, <1>2, <1>4 DEF Before
<1>6. Before(order, b, a) <=> l < k
  BY <1>1, <1>2, <1>4 DEF Before
<1>7. k < l <=> ~(l < k)
  BY <1>3
<1>8. Before(order, a, b) <=> ~Before(order, b, a)
  BY <1>5, <1>6, <1>7
<1>9. Before(order, a, b) \in BOOLEAN /\ Before(order, b, a) \in BOOLEAN
  BY DEF Before
<1> QED
  BY <1>8, <1>9

(* Names of a list are never more than its places. *)
LEMMA NamesInAList ==
  ASSUME NEW order \in Seq(STRING), NEW names \in SUBSET ToSet(order)
  PROVE  Cardinality(names) \in 0 .. Len(order)
<1>1. Len(order) \in Nat /\ DOMAIN order = 1 .. Len(order)
  BY LenProperties
<1>2. IsFiniteSet(1 .. Len(order)) /\ Cardinality(1 .. Len(order)) = Len(order)
  BY <1>1, FS_Interval
<1>3. order \in Surjection(1 .. Len(order), ToSet(order))
  <2>1. order \in [1 .. Len(order) -> ToSet(order)]
    BY <1>1 DEF ToSet
  <2>2. \A t \in ToSet(order) : \E s \in 1 .. Len(order) : order[s] = t
    BY <1>1 DEF ToSet
  <2> QED
    BY <2>1, <2>2 DEF Surjection
<1>4. IsFiniteSet(ToSet(order)) /\ Cardinality(ToSet(order)) <= Len(order)
  BY <1>2, <1>3, FS_Surjection
<1>5. /\ IsFiniteSet(names) /\ Cardinality(names) <= Cardinality(ToSet(order))
  BY <1>4, FS_Subset
<1> QED
  BY <1>1, <1>4, <1>5, FS_CardinalityType

(* What comes after a name at the end of a list is at its end. *)
LEMMA EndStaysAtTheEnd ==
  ASSUME NEW order \in Seq(STRING), IsInjective(order), NEW n \in 0 .. Len(order),
         NEW a \in ToSet(EndOf(order, n)), NEW b, Before(order, a, b)
  PROVE  b \in ToSet(EndOf(order, n))
<1> DEFINE size == Len(order)
           from == size - n + 1
           end == EndOf(order, n)
<1>1. size \in Nat /\ DOMAIN order = 1 .. size
  BY LenProperties
<1>2. from \in 1 .. size + 1
  BY <1>1
<1>3. end = [i \in 1 .. n |-> order[i + from - 1]]
  <2>1. from - 1 \in Int /\ size - from + 1 = n
    BY <1>1
  <2> QED
    BY <1>1, <1>2, <2>1 DEF EndOf
<1> HIDE DEF end
<1>4. PICK i \in 1 .. n : a = order[i + from - 1]
  BY <1>3 DEF ToSet, end
<1>5. PICK k, l \in DOMAIN order : k < l /\ order[k] = a /\ order[l] = b
  BY DEF Before
<1>6. k = i + from - 1
  BY <1>1, <1>2, <1>4, <1>5 DEF IsInjective
<1>7. l - from + 1 \in 1 .. n /\ (l - from + 1) + from - 1 = l
  BY <1>1, <1>2, <1>5, <1>6
<1>8. end[l - from + 1] = b /\ l - from + 1 \in DOMAIN end
  BY <1>3, <1>5, <1>7
<1> QED
  BY <1>8 DEF ToSet, end

(* A fill rule runs where the adjustments do. *)
LEMMA FillsAdjust ==
  ASSUME NEW d, NEW rules \in Seq(RulesOf(d))
  PROVE  FillIds(rules) \subseteq IdsAt(rules, "ADJUST")
<1> SUFFICES ASSUME NEW i \in DOMAIN rules, rules[i].type = "fill_level"
    PROVE  rules[i].stage = "ADJUST"
  BY DEF FillIds, IdsAt
<1>1. rules[i] \in RulesOf(d)
  BY LenProperties
<1>2. PICK raw : rules[i] = BuiltRule(raw)
  BY <1>1 DEF RulesOf
<1>3. raw.type = "fill_level" /\ rules[i].stage = StageOf(raw)
  BY <1>2 DEF BuiltRule
<1> QED
  BY <1>3 DEF StageOf, RunsAt
(* A list repeats nothing where it has as many members as places. *)
LEMMA OnceEach ==
  ASSUME NEW list \in Seq(STRING)
  PROVE  IsInjective(list) <=> Cardinality(ToSet(list)) = Len(list)
<1>1. Len(list) \in Nat /\ DOMAIN list = 1 .. Len(list)
  BY LenProperties
<1>2. IsFiniteSet(1 .. Len(list)) /\ Cardinality(1 .. Len(list)) = Len(list)
  BY <1>1, FS_Interval
<1>3. list \in [1 .. Len(list) -> ToSet(list)]
  BY <1>1 DEF ToSet
<1>4. list \in Surjection(1 .. Len(list), ToSet(list))
  <2>1. \A t \in ToSet(list) : \E s \in 1 .. Len(list) : list[s] = t
    BY <1>1 DEF ToSet
  <2> QED
    BY <1>3, <2>1 DEF Surjection
<1>5. list \in Injection(1 .. Len(list), ToSet(list)) <=> IsInjective(list)
  BY <1>3 DEF Injection
<1> QED
  BY <1>2, <1>4, <1>5, FS_Surjection

(* The document's rules, once every one of them is built. *)
AllBuilt(d, rules) == BuiltFrom(d, rules) /\ Len(rules) = Len(d.rules)

LEMMA BuiltAsWritten ==
  ASSUME NEW d \in Document, NEW rules, AllBuilt(d, rules)
  PROVE  /\ DOMAIN rules = DOMAIN d.rules
         /\ \A i \in DOMAIN d.rules :
              /\ rules[i].id = d.rules[i].id /\ rules[i].type = d.rules[i].type
              /\ rules[i].stage = d.rules[i].stage
         /\ \A stage, id : id \in IdsAt(rules, stage) <=>
              \E i \in DOMAIN d.rules : d.rules[i].stage = stage /\ d.rules[i].id = id
         /\ \A id : id \in FillIds(rules) <=> IsAFill(id, d)
<1>1. DOMAIN rules = DOMAIN d.rules /\ DOMAIN d.rules = 1 .. Len(rules)
  BY RulesAreASequence, LenProperties DEF AllBuilt, BuiltFrom
<1>2. ASSUME NEW i \in DOMAIN d.rules
      PROVE  /\ rules[i].id = d.rules[i].id /\ rules[i].type = d.rules[i].type
             /\ rules[i].stage = d.rules[i].stage
  <2>1. /\ rules[i] = BuiltRule(d.rules[i])
        /\ SoundRule(d.rules[i], ToSet(d.space_classes))
    BY <1>1 DEF AllBuilt, BuiltFrom
  <2>2. d.rules[i].stage = StageOf(d.rules[i])
    BY <2>1 DEF SoundRule, SoundCommon
  <2> QED
    BY <2>1, <2>2 DEF BuiltRule
<1>3. ASSUME NEW stage, NEW id
      PROVE  id \in IdsAt(rules, stage) <=>
               \E i \in DOMAIN d.rules : d.rules[i].stage = stage /\ d.rules[i].id = id
  BY <1>1, <1>2 DEF IdsAt
<1>4. ASSUME NEW id
      PROVE  id \in FillIds(rules) <=> IsAFill(id, d)
  BY <1>1, <1>2 DEF FillIds, IsAFill
<1> QED
  BY <1>1, <1>2, <1>3, <1>4

(* To name each rule of a stage once is to repeat no name and name them all. *)
LEMMA NamedOnce ==
  ASSUME NEW d \in Document, NEW rules, AllBuilt(d, rules), NEW stage, NEW order
  PROVE  NamesOnce(order, d, stage) <=> IsInjective(order) /\ ToSet(order) = IdsAt(rules, stage)
<1>1. \A id : id \in IdsAt(rules, stage) <=>
        \E i \in DOMAIN d.rules : d.rules[i].stage = stage /\ d.rules[i].id = id
  BY BuiltAsWritten
<1>2. ASSUME NamesOnce(order, d, stage)
      PROVE  IsInjective(order) /\ ToSet(order) = IdsAt(rules, stage)
  <2>1. \A k \in DOMAIN order : \E i \in DOMAIN d.rules :
          d.rules[i].stage = stage /\ d.rules[i].id = order[k]
    BY <1>2 DEF NamesOnce
  <2>2. \A i \in DOMAIN d.rules : d.rules[i].stage = stage =>
          \E k \in DOMAIN order : \A l \in DOMAIN order : order[l] = d.rules[i].id <=> l = k
    BY <1>2 DEF NamesOnce
  <2>3. IsInjective(order)
    <3> SUFFICES ASSUME NEW k \in DOMAIN order, NEW l \in DOMAIN order, order[k] = order[l]
        PROVE  k = l
      BY DEF IsInjective
    <3>1. PICK i \in DOMAIN d.rules : d.rules[i].stage = stage /\ d.rules[i].id = order[k]
      BY <2>1
    <3>2. PICK m \in DOMAIN order : \A n \in DOMAIN order : order[n] = d.rules[i].id <=> n = m
      BY <2>2, <3>1
    <3> QED
      BY <3>1, <3>2
  <2>4. ToSet(order) \subseteq IdsAt(rules, stage)
    BY <1>1, <2>1 DEF ToSet
  <2>5. IdsAt(rules, stage) \subseteq ToSet(order)
    <3> SUFFICES ASSUME NEW i \in DOMAIN d.rules, d.rules[i].stage = stage
        PROVE  d.rules[i].id \in ToSet(order)
      BY <1>1
    <3>1. PICK k \in DOMAIN order : \A l \in DOMAIN order : order[l] = d.rules[i].id <=> l = k
      BY <2>2
    <3> QED
      BY <3>1 DEF ToSet
  <2> QED
    BY <2>3, <2>4, <2>5
<1>3. ASSUME IsInjective(order), ToSet(order) = IdsAt(rules, stage)
      PROVE  NamesOnce(order, d, stage)
  <2>1. ASSUME NEW i \in DOMAIN d.rules, d.rules[i].stage = stage
        PROVE  \E k \in DOMAIN order : \A l \in DOMAIN order : order[l] = d.rules[i].id <=> l = k
    <3>1. d.rules[i].id \in ToSet(order)
      BY <1>1, <1>3, <2>1
    <3>2. PICK k \in DOMAIN order : order[k] = d.rules[i].id
      BY <3>1 DEF ToSet
    <3> QED
      BY <1>3, <3>2 DEF IsInjective
  <2>2. ASSUME NEW k \in DOMAIN order
        PROVE  \E i \in DOMAIN d.rules : d.rules[i].stage = stage /\ d.rules[i].id = order[k]
    <3>1. order[k] \in IdsAt(rules, stage)
      BY <1>3 DEF ToSet
    <3> QED
      BY <1>1, <3>1
  <2> QED
    BY <2>1, <2>2 DEF NamesOnce
<1> QED
  BY <1>2, <1>3

(* Where what comes after one of some names is one of them, they are the end *)
(* of the list: there are no more places than names after the first of them. *)
LEMMA LastOfAll ==
  ASSUME NEW order \in Seq(STRING), IsInjective(order), NEW names \in SUBSET ToSet(order)
  PROVE  ToSet(EndOf(order, Cardinality(names))) = names
           <=> \A k, l \in DOMAIN order : k < l /\ order[k] \in names => order[l] \in names
<1> DEFINE size == Len(order)
           n == Cardinality(names)
           from == size - n + 1
           end == EndOf(order, n)
           places == {k \in 1 .. size : order[k] \in names}
<1>1. size \in Nat /\ DOMAIN order = 1 .. size
  BY LenProperties
<1>2. n \in 0 .. size
  BY NamesInAList
<1>3. from \in 1 .. size + 1 /\ size - from + 1 = n
  BY <1>1, <1>2
<1>4. end = [i \in 1 .. n |-> order[i + from - 1]]
  BY <1>1, <1>2, <1>3 DEF EndOf
<1> HIDE DEF end
<1>5. \A x : x \in ToSet(end) <=> \E k \in from .. size : order[k] = x
  <2>1. ASSUME NEW x, x \in ToSet(end)
        PROVE  \E k \in from .. size : order[k] = x
    <3>1. PICK i \in 1 .. n : x = order[i + from - 1]
      BY <1>4, <2>1 DEF ToSet
    <3>2. i + from - 1 \in from .. size
      BY <1>1, <1>2
    <3> QED
      BY <3>1, <3>2
  <2>2. ASSUME NEW k \in from .. size
        PROVE  order[k] \in ToSet(end)
    <3>1. k - from + 1 \in 1 .. n /\ (k - from + 1) + from - 1 = k
      BY <1>1, <1>2
    <3>2. end[k - from + 1] = order[k] /\ k - from + 1 \in DOMAIN end
      BY <1>4, <3>1
    <3> QED
      BY <3>2 DEF ToSet
  <2> QED
    BY <2>1, <2>2
<1>6. from .. size \subseteq 1 .. size
  BY <1>1, <1>3
<1>7. ToSet(end) = names <=> places = from .. size
  <2>1. ASSUME ToSet(end) = names
        PROVE  places = from .. size
    <3>1. ASSUME NEW k \in places
          PROVE  k \in from .. size
      <4>1. PICK l \in from .. size : order[l] = order[k]
        BY <1>5, <2>1, <3>1
      <4>2. k = l
        BY <1>1, <1>6, <3>1, <4>1 DEF IsInjective
      <4> QED
        BY <4>2
    <3>2. \A k \in from .. size : k \in places
      BY <1>5, <1>6, <2>1
    <3> QED
      BY <3>1, <3>2
  <2>2. ASSUME places = from .. size
        PROVE  ToSet(end) = names
    <3>1. ToSet(end) \subseteq names
      BY <1>5, <2>2
    <3>2. ASSUME NEW x \in names
          PROVE  x \in ToSet(end)
      <4>1. PICK k \in 1 .. size : order[k] = x
        BY <1>1 DEF ToSet
      <4> QED
        BY <1>5, <2>2, <3>2, <4>1
    <3> QED
      BY <3>1, <3>2
  <2> QED
    BY <2>1, <2>2
<1>8. IsFiniteSet(places) /\ Cardinality(places) = n
  <2> DEFINE named == [k \in places |-> order[k]]
  <2>1. named \in [places -> names]
    OBVIOUS
  <2>2. \A x \in names : \E k \in places : named[k] = x
    BY <1>1 DEF ToSet
  <2>3. \A k, l \in places : named[k] = named[l] => k = l
    BY <1>1 DEF IsInjective
  <2>0. places \in SUBSET (1 .. size)
    OBVIOUS
  <2> HIDE DEF named, places
  <2>4. named \in Bijection(places, names)
    BY <2>1, <2>2, <2>3 DEF Bijection, Injection, Surjection, IsInjective
  <2>5. IsFiniteSet(places)
    <3>1. IsFiniteSet(1 .. size)
      BY <1>1, FS_Interval
    <3> QED
      BY <2>0, <3>1, FS_Subset
  <2>6. ExistsBijection(places, names)
    BY <2>4, Zenon DEF ExistsBijection
  <2> QED
    BY <2>5, <2>6, FS_Bijection
<1>9. IsFiniteSet(from .. size) /\ Cardinality(from .. size) = n
  <2>1. from \in Int /\ size \in Int /\ (from > size => n = 0)
    BY <1>1, <1>2, <1>3
  <2> HIDE DEF from, size, n
  <2> QED
    BY <1>3, <2>1, FS_Interval
<1>10. places \subseteq 1 .. size /\ \A k \in 1 .. size : k \in places <=> order[k] \in names
  OBVIOUS
<1> HIDE DEF places
<1>11. ASSUME places = from .. size
       PROVE  \A k, l \in DOMAIN order : k < l /\ order[k] \in names => order[l] \in names
  BY <1>1, <1>2, <1>10, <1>11
<1>12. ASSUME \A k, l \in DOMAIN order : k < l /\ order[k] \in names => order[l] \in names
       PROVE  places = from .. size
  <2>1. ASSUME NEW k \in places
        PROVE  k \in from .. size
    <3>1. k \in 1 .. size
      BY <1>10, <2>1
    <3>2. k .. size \subseteq places
      BY <1>1, <1>10, <1>12, <2>1, <3>1
    <3>3. IsFiniteSet(k .. size) /\ Cardinality(k .. size) = size - k + 1
      BY <1>1, <3>1, FS_Interval
    <3>4. Cardinality(k .. size) <= n
      BY <1>8, <3>2, FS_Subset
    <3> QED
      BY <1>1, <1>2, <3>1, <3>3, <3>4
  <2>2. places \in SUBSET (from .. size)
    BY <2>1
  <2> QED
    BY <1>8, <1>9, <2>2, FS_Subset
<1> QED
  BY <1>7, <1>11, <1>12 DEF end
-----------------------------------------------------------------------------
(* A discount that would pay the driver is never sound. *)
LEMMA UnsoundIsNotSound ==
  ASSUME NEW d \in Document, NEW i \in DOMAIN d.rules
  PROVE  /\ i \in Unsound(d) <=> ~SoundRule(d.rules[i], ToSet(d.space_classes))
         /\ Owed(d.rules[i]) = CodeOf(d.rules[i])
<1> DEFINE raw == d.rules[i]
           e == raw.params.effect
<1>1. PaysTheDriver(raw) <=> raw.type = "time_window" /\ OverTheWholeFee(e)
  BY DEF PaysTheDriver, OverTheWholeFee
<1>2. ASSUME PaysTheDriver(raw)
      PROVE  /\ ~SoundRule(raw, ToSet(d.space_classes))
             /\ SoundEffect(e) <=> e.rounding \in ROUNDINGS
  <2>1. raw.type = "time_window" /\ OverTheWholeFee(e)
    BY <1>1, <1>2
  <2>2. ~SoundParams(raw)
    BY <2>1 DEF SoundParams, SoundWindow
  <2>3. /\ e.kind = "adjust" /\ e.direction = "discount" /\ e.unit = "percent"
        /\ e.amount > WHOLE_FEE_BP /\ e.amount \in Int
    BY <1>2, DocumentAssumption DEF PaysTheDriver
  <2>4. e.amount > 0
    BY <2>3 DEF WHOLE_FEE_BP
  <2>5. SoundEffect(e) <=> e.rounding \in ROUNDINGS
    BY <2>3, <2>4 DEF SoundEffect, DIRECTIONS
  <2> QED
    BY <2>2, <2>5 DEF SoundRule
<1> HIDE DEF raw, e
<1>3. Owed(raw) = CodeOf(raw)
  BY <1>1, <1>2 DEF Owed, CodeOf, e
<1> QED
  BY <1>2, <1>3 DEF Unsound, raw

(* A check is passed where what it looks for is not wrong. *)
LEMMA PassedIsNotWrong ==
  ASSUME NEW d \in Document, NEW rules, NEW check \in ToSet(Checks) \ {"build"},
         check \in {"ids", "orders", "adjust_order"} =>
           AllBuilt(d, rules) /\ SoundResolution(d.resolution)
  PROVE  Passes(check, d, rules) <=> ~Wrong(check, d)
<1>0. d.readable \subseteq {"plan_version", "effective_from", "timezone", "currency"}
  BY DocumentAssumption
<1>1. check \in {"document", "money", "keys", "plan_version", "effective_from", "timezone",
                 "currency", "space_classes", "resolution", "rules", "ids", "orders",
                 "adjust_order", "decisions"}
  BY DEF ToSet, Checks
<1>2. CASE check \in {"document", "money", "keys", "resolution", "rules"}
  BY <1>0, <1>2 DEF Passes, Wrong
<1>3. CASE check \in {"plan_version", "effective_from", "timezone", "currency"}
  BY <1>0, <1>3 DEF Passes, Wrong
<1>4. CASE check = "decisions"
  BY <1>0, <1>4 DEF Passes, Wrong
<1>5. CASE check = "space_classes"
  <2>1. IsInjective(d.space_classes)
          <=> Cardinality(ToSet(d.space_classes)) = Len(d.space_classes)
    BY DocumentAssumption, OnceEach
  <2> QED
    BY <1>0, <1>5, <2>1 DEF Passes, Wrong
<1>6. CASE check = "ids"
  <2>1. /\ DOMAIN rules = DOMAIN d.rules
        /\ \A i \in DOMAIN d.rules : rules[i].id = d.rules[i].id
    BY <1>6, BuiltAsWritten
  <2> DEFINE ids == [i \in DOMAIN rules |-> rules[i].id]
  <2>2. DOMAIN ids = DOMAIN d.rules /\ \A i \in DOMAIN d.rules : ids[i] = d.rules[i].id
    BY <2>1
  <2> HIDE DEF ids
  <2>3. IsInjective(ids) <=> ~\E i, j \in DOMAIN d.rules : i # j /\ d.rules[i].id = d.rules[j].id
    BY <2>2 DEF IsInjective
  <2> QED
    BY <1>0, <1>6, <2>3 DEF Passes, Wrong, ids
<1>7. CASE check = "orders"
  <2>1. DOMAIN d.resolution = RESOLVING /\ AllBuilt(d, rules)
    BY <1>7 DEF SoundResolution
  <2>2. ASSUME NEW s \in RESOLVING, d.resolution[s].mode = "stated_order"
        PROVE  ToSet(d.resolution[s].order.ids) = IdsAt(rules, s)
                 <=> NamesOnce(d.resolution[s].order.ids, d, s)
    <3>1. IsInjective(d.resolution[s].order.ids)
      BY <1>7, <2>2 DEF SoundResolution, SoundSettings
    <3> QED
      BY <2>1, <3>1, NamedOnce
  <2>3. NamesEveryRule(d.resolution, rules) <=>
          \A s \in RESOLVING : d.resolution[s].mode = "stated_order"
                                 => NamesOnce(d.resolution[s].order.ids, d, s)
    BY <2>2 DEF NamesEveryRule
  <2> QED
    BY <1>0, <1>7, <2>1, <2>3 DEF Passes, Wrong
<1>8. CASE check = "adjust_order"
  <2> DEFINE order == d.adjust_order.ids
  <2>1. AllBuilt(d, rules) /\ order \in Seq(STRING)
    BY <1>8, DocumentAssumption DEF OrderType
  <2>2. NamesOnce(order, d, "ADJUST") <=>
          IsInjective(order) /\ ToSet(order) = IdsAt(rules, "ADJUST")
    BY <2>1, NamedOnce
  <2>3. \A id : id \in FillIds(rules) <=> IsAFill(id, d)
    BY <2>1, BuiltAsWritten
  <2>4. FillIds(rules) \subseteq IdsAt(rules, "ADJUST")
    BY <2>1, FillsAdjust DEF AllBuilt, BuiltFrom
  <2>5. ASSUME IsInjective(order), ToSet(order) = IdsAt(rules, "ADJUST")
        PROVE  FillsLast(order, rules) <=> RaisedLast(order, d)
    <3>1. ToSet(EndOf(order, Cardinality(FillIds(rules)))) = FillIds(rules)
            <=> \A k, l \in DOMAIN order :
                  k < l /\ order[k] \in FillIds(rules) => order[l] \in FillIds(rules)
      BY <2>1, <2>4, <2>5, LastOfAll
    <3>2. RaisedLast(order, d) <=>
            \A k, l \in DOMAIN order :
              k < l /\ order[k] \in FillIds(rules) => order[l] \in FillIds(rules)
      BY <2>3 DEF RaisedLast
    <3> QED
      BY <3>1, <3>2 DEF FillsLast
  <2>6. SoundAdjustOrder(d.adjust_order, rules) <=>
          (d.adjust_order.stated => NamesOnce(order, d, "ADJUST") /\ RaisedLast(order, d))
    BY <2>2, <2>5 DEF SoundAdjustOrder
  <2> QED
    BY <1>0, <1>8, <2>6 DEF Passes, Wrong
<1> QED
  BY <1>1, <1>2, <1>3, <1>4, <1>5, <1>6, <1>7, <1>8
-----------------------------------------------------------------------------
LEMMA LoadStepIsPromised == LoadInv /\ [Next]_vars => [Promise!Next]_<<document, verdict>>
<1> SUFFICES ASSUME LoadInv, [Next]_vars
    PROVE  [Promise!Next]_<<document, verdict>>
  OBVIOUS
<1>0. document \in Document /\ BuiltFrom(document, built)
  BY DEF LoadInv
<1> USE DEF Promise!Next, Promise!Unread, Unread
<1>1. ASSUME NEW check \in ToSet(Checks) \ {"build"}, Check(check)
      PROVE  [Promise!Next]_<<document, verdict>>
  <2>1. CASE Passes(check, document, built)
    BY <1>1, <2>1 DEF Check
  <2>2. CASE ~Passes(check, document, built)
    <3>1. verdict = Unread /\ verdict' = Refused(Fault(check, NoCode)) /\ document' = document
      BY <1>1, <2>2 DEF Check, Reading
    <3>2. check \in {"ids", "orders", "adjust_order"} =>
            AllBuilt(document, built) /\ SoundResolution(document.resolution)
      <4>1. Checks[at + 1] = check /\ at < Len(Checks)
        BY <1>1 DEF Check, Reading
      <4>2. at \in 0 .. 14 /\ at + 1 \in 1 .. 15
        BY <4>1, AsChecked DEF LoadInv
      <4>3. check \in {"ids", "orders", "adjust_order"} => at > 10
        BY <4>1, <4>2, AsChecked
      <4> QED
        BY <4>3, WhatPassed, <1>0 DEF AllBuilt, LoadInv
    <3>3. Wrong(check, document)
      BY <1>0, <2>2, <3>2, PassedIsNotWrong
    <3>4. Fault(check, NoCode) \in WrongWith(document)
      BY <3>3 DEF WrongWith
    <3>5. Promise!Refuse
      BY <3>1, <3>4 DEF Promise!Refuse, Promise!Refused, Refused
    <3> QED
      BY <3>1, <3>5
  <2> QED
    BY <2>1, <2>2
<1>2. CASE BuildRule \/ RulesBuilt \/ Done \/ UNCHANGED vars
  BY <1>2 DEF BuildRule, RulesBuilt, Done, vars
<1>3. ASSUME RefuseRule \/ FallOnRule
      PROVE  Len(built) + 1 \in DOMAIN document.rules
  BY <1>0, <1>3, RulesAreASequence, LenProperties DEF RefuseRule, FallOnRule, BuiltFrom
<1>4. CASE RefuseRule
  <2>1. /\ verdict = Unread /\ document' = document
        /\ verdict' = Refused(Fault("build", CodeOf(NextRule)))
        /\ ~SoundRule(NextRule, ToSet(document.space_classes))
    BY <1>4 DEF RefuseRule, Reading
  <2>2. /\ Len(built) + 1 \in Unsound(document)
        /\ Owed(document.rules[Len(built) + 1]) = CodeOf(NextRule)
    BY <1>0, <1>3, <1>4, <2>1, UnsoundIsNotSound DEF NextRule
  <2>3. Fault("build", CodeOf(NextRule)) \in WrongWith(document)
    BY <2>2 DEF WrongWith
  <2>4. Promise!Refuse
    BY <2>1, <2>3 DEF Promise!Refuse, Promise!Refused, Refused
  <2> QED
    BY <2>1, <2>4
<1>5. CASE FallOnRule
  <2>1. verdict = Unread /\ document' = document /\ verdict' = Fallen /\ ~Hashable(NextRule)
    BY <1>5 DEF FallOnRule, Reading
  <2>2. Unanswerable(document)
    BY <1>3, <1>5, <2>1 DEF Unanswerable, NextRule
  <2>3. Promise!Fall
    BY <2>1, <2>2 DEF Promise!Fall, Promise!Fallen, Fallen
  <2> QED
    BY <2>1, <2>3
<1>6. CASE Return
  <2>1. /\ verdict = Unread /\ document' = document /\ at = Len(Checks)
        /\ verdict' = Loaded(PlanFrom(document, built))
    BY <1>6 DEF Return
  <2>2. AllBuilt(document, built) /\ SoundResolution(document.resolution)
    BY <1>0, <2>1, AsChecked, WhatPassed DEF AllBuilt, LoadInv
  <2>3. ASSUME NEW check \in ToSet(Checks)
        PROVE  ~Wrong(check, document)
    <3>1. PICK k \in 1 .. 15 : check = Checks[k]
      BY AsChecked DEF ToSet, Checks
    <3>2. CASE check = "build"
      <4>1. document.readable \subseteq {"plan_version", "effective_from", "timezone", "currency"}
        BY <1>0, DocumentAssumption
      <4> QED
        BY <3>2 DEF Wrong
    <3>3. CASE check # "build"
      <4>1. Passes(check, document, built)
        BY <2>1, <3>1, <3>3, AsChecked DEF LoadInv, Passed
      <4> QED
        BY <1>0, <2>2, <3>3, <4>1, PassedIsNotWrong
    <3> QED
      BY <3>2, <3>3
  <2>4. DOMAIN document.rules = 1 .. Len(built) /\ DOMAIN built = 1 .. Len(built)
    BY <1>0, <2>2, RulesAreASequence, LenProperties DEF AllBuilt, BuiltFrom
  <2>5. Unsound(document) = {}
    <3> SUFFICES ASSUME NEW i \in DOMAIN document.rules
        PROVE  i \notin Unsound(document)
      BY DEF Unsound
    <3>1. SoundRule(document.rules[i], ToSet(document.space_classes))
      BY <2>4, <1>0 DEF BuiltFrom
    <3> QED
      BY <1>0, <3>1, UnsoundIsNotSound
  <2>6. WrongWith(document) = {}
    BY <2>3, <2>5 DEF WrongWith
  <2>7. built = [i \in DOMAIN document.rules |-> BuiltRule(document.rules[i])]
    BY <1>0, <2>4 DEF BuiltFrom
  <2>8. Promise!Load
    BY <2>1, <2>6, <2>7 DEF Promise!Load, Promise!Loaded, Loaded, Promised
  <2> QED
    BY <2>1, <2>8
<1> QED
  BY <1>1, <1>2, <1>4, <1>5, <1>6 DEF Next
-----------------------------------------------------------------------------
-----------------------------------------------------------------------------
(* A step of a call is one of its runner's and leaves the other alone. *)
LEMMA CallKeepsLoading == CallSpec => []LoadInv
<1>1. CallInit => Init
  BY DEF CallInit
<1>2. [CallNext]_callVars => [Next]_vars
  BY DEF CallNext, RunValidate, RunTax, callVars
<1> QED
  BY <1>1, <1>2, LoadInitEstablishes, LoadStepKeeps, PTL DEF CallSpec

LEMMA CallIsOfTax == CallSpec => TaxCall!Init /\ [][TaxCall!Next]_taxVars
<1>1. CallInit => TaxCall!Init
  BY DEF CallInit
<1>2. [CallNext]_callVars => [TaxCall!Next]_taxVars
  BY DEF CallNext, RunValidate, RunTax, callVars, taxVars
<1> QED
  BY <1>1, <1>2, PTL DEF CallSpec

(* A plan that loads leaves no choice between its rules to the order of its  *)
(* list: of any two rules at a stage that is in a stated order exactly one   *)
(* comes first, and no discount is taken after the garage is found full      *)
(* (F35, F37, F55).                                                         *)
THEOREM NoChoiceLeft == CallSpec => []EveryChoiceIsStated
<1>1. LoadInv => EveryChoiceIsStated
  <2> SUFFICES ASSUME LoadInv, verdict.kind = "loaded"
      PROVE  EveryChoiceIsStated
    BY DEF EveryChoiceIsStated
  <2> DEFINE resolution == document.resolution
             adjust == document.adjust_order
             stated(stage) == IF stage = "ADJUST" THEN adjust ELSE resolution[stage].order
  <2>1. /\ SoundResolution(resolution) /\ NamesEveryRule(resolution, built)
        /\ SoundAdjustOrder(adjust, built)
        /\ document \in Document /\ built \in Seq(RulesOf(document))
    BY WhatPassed, AsChecked DEF LoadInv, BuiltFrom
  <2>2. /\ verdict.plan.adjust_order = adjust /\ verdict.plan.resolution = resolution
        /\ verdict.plan.rules = built
    BY DEF LoadInv, PlanFrom
  <2>3. /\ adjust.ids \in Seq(STRING)
        /\ \A s \in RESOLVING : resolution[s].order.ids \in Seq(STRING)
    BY <2>1, DocumentAssumption DEF SoundResolution, OrderType
  <2>4. ASSUME NEW stage \in RESOLVING \cup {"ADJUST"}, stated(stage).stated
        PROVE  /\ stated(stage).ids \in Seq(STRING) /\ IsInjective(stated(stage).ids)
               /\ ToSet(stated(stage).ids) = IdsAt(built, stage)
    <3>1. CASE stage = "ADJUST"
      BY <2>1, <2>3, <2>4, <3>1 DEF SoundAdjustOrder
    <3>2. CASE stage # "ADJUST"
      <4>1. stage \in RESOLVING /\ stated(stage) = resolution[stage].order
        BY <3>2
      <4>2. resolution[stage].mode = "stated_order" /\ IsInjective(resolution[stage].order.ids)
        BY <2>1, <2>4, <4>1 DEF SoundResolution, SoundSettings
      <4> QED
        BY <2>1, <2>3, <4>1, <4>2 DEF NamesEveryRule
    <3> QED
      BY <3>1, <3>2
  <2>5. ASSUME NEW stage \in RESOLVING \cup {"ADJUST"}, stated(stage).stated,
               NEW a \in IdsAt(built, stage), NEW b \in IdsAt(built, stage), a # b
        PROVE  Before(stated(stage).ids, a, b) # Before(stated(stage).ids, b, a)
    <3> HIDE DEF stated
    <3> QED
      BY <2>4, <2>5, InOrder
  <2>6. ASSUME adjust.stated, NEW a \in FillIds(built), NEW b \in IdsAt(built, "ADJUST"),
               Before(adjust.ids, a, b)
        PROVE  b \in FillIds(built)
    <3> DEFINE n == Cardinality(FillIds(built))
    <3>1. IsInjective(adjust.ids) /\ ToSet(adjust.ids) = IdsAt(built, "ADJUST")
      BY <2>1, <2>6 DEF SoundAdjustOrder
    <3>2. ToSet(EndOf(adjust.ids, n)) = FillIds(built)
      BY <2>1, <2>6 DEF SoundAdjustOrder, FillsLast
    <3>3. n \in 0 .. Len(adjust.ids)
      BY <2>1, <2>3, <3>1, FillsAdjust, NamesInAList
    <3> HIDE DEF n
    <3> QED
      BY <2>3, <2>6, <3>1, <3>2, <3>3, EndStaysAtTheEnd
  <2> HIDE DEF stated
  <2>7. \A stage \in RESOLVING \cup {"ADJUST"} : stated(stage).stated =>
          \A a, b \in IdsAt(built, stage) :
            a # b => Before(stated(stage).ids, a, b) # Before(stated(stage).ids, b, a)
    BY <2>5
  <2>8. adjust.stated =>
          \A a \in FillIds(built), b \in IdsAt(built, "ADJUST") :
            Before(adjust.ids, a, b) => b \in FillIds(built)
    BY <2>6
  <2> QED
    BY <2>2, <2>7, <2>8, Zenon DEF EveryChoiceIsStated, stated
<1> QED
  BY <1>1, CallKeepsLoading, PTL

(* A document is refused for a fault it has, and loads, as it stands,        *)
(* exactly when it has none; a percent discount above the whole fee says so  *)
(* in a code, whatever else is wrong with its rule (F16, F35, F37, F60).     *)
THEOREM LoadIsPromised == CallSpec => KeepsTheLoadPromise
<1>1. Init => Promise!Init
  BY DEF Init, Promise!Init, Unread, Promise!Unread
<1>2. CallInit => Init
  BY DEF CallInit
<1>3. [CallNext]_callVars => [Next]_vars
  BY DEF CallNext, RunValidate, RunTax, callVars
<1> QED
  BY <1>1, <1>2, <1>3, LoadInitEstablishes, LoadStepKeeps, LoadStepIsPromised, PTL
     DEF CallSpec, KeepsTheLoadPromise, Promise!Spec
-----------------------------------------------------------------------------

(* Of a set's rules, those of the indexes not in `remaining` have their      *)
(* lines: place[k] is the index of the rule of line k.                      *)
PlacedBy(place, stated, remaining, ls, subtotal) ==
  /\ place \in [1 .. Len(ls) -> DOMAIN stated \ remaining]
  /\ \A i \in DOMAIN stated \ remaining : \E k \in 1 .. Len(ls) : place[k] = i
  /\ \A k \in 1 .. Len(ls) : ls[k] = TaxCall!LineOf(stated[place[k]], subtotal)
  /\ \A k, l \in 1 .. Len(ls) : k < l => stated[place[k]].sequence < stated[place[l]].sequence
  /\ \A k \in 1 .. Len(ls) : \A j \in remaining : stated[place[k]].sequence < stated[j].sequence

AnyLine == [rule : STRING, delta : Int]

TaxedSoFar ==
  /\ chosen \in DOMAIN request.sets
  /\ TaxCall!Chosen(request.sets, request.at, chosen)
  /\ left \subseteq DOMAIN TaxCall!rules
  /\ lines \in Seq(AnyLine)
  /\ request.subtotal = 0 => left = {} /\ lines = << >>
  /\ request.subtotal # 0 =>
       \E place : PlacedBy(place, TaxCall!rules, left, lines, request.subtotal)

(* The lines of an answer are those of rules of the set in force. *)
LinesAreRules ==
  lines # << >> =>
    /\ chosen \in DOMAIN request.sets
    /\ \A k \in DOMAIN lines : \E i \in DOMAIN TaxCall!rules :
            lines[k] = TaxCall!LineOf(TaxCall!rules[i], request.subtotal)

TaxInv ==
  /\ request \in TaxRequest
  /\ pc \in {"load", "select", "tax", "answered"}
  /\ pc \in {"load", "select"} => lines = << >>
  /\ pc = "answered" => answer # TaxCall!Unanswered
  /\ pc # "answered" => answer = TaxCall!Unanswered
  /\ pc \in {"select", "tax"} => TaxCall!Readable(request)
  /\ pc = "tax" => TaxedSoFar
  /\ pc = "answered" => (lines # << >> => TaxCall!Readable(request)) /\ LinesAreRules
-----------------------------------------------------------------------------
LEMMA LineIsALine ==
  ASSUME NEW r \in TaxCall!TaxRule, NEW subtotal \in Int
  PROVE  TaxCall!LineOf(r, subtotal) \in AnyLine
<1>1. subtotal * r.percent_bp \in Int
  BY DEF TaxCall!TaxRule
<1>2. TaxCall!CentFor((subtotal * r.percent_bp) % TaxCall!BASIS_POINTS_PER_WHOLE, r.rounding)
        \in Int
  BY DEF TaxCall!CentFor
<1>3. (subtotal * r.percent_bp) \div TaxCall!BASIS_POINTS_PER_WHOLE \in Int
  BY <1>1 DEF TaxCall!BASIS_POINTS_PER_WHOLE
<1>4. TaxCall!PercentOf(subtotal, r.percent_bp, r.rounding) \in Int
  BY <1>2, <1>3 DEF TaxCall!PercentOf
<1> QED
  BY <1>4 DEF TaxCall!LineOf, AnyLine, TaxCall!TaxRule

LEMMA PlaceOneMore ==
  ASSUME NEW stated \in Seq(TaxCall!TaxRule), NEW remaining \in SUBSET DOMAIN stated,
         NEW ls \in Seq(AnyLine), NEW subtotal \in Int, NEW i \in remaining,
         \A j \in remaining : stated[i].sequence <= stated[j].sequence,
         \A j, k \in DOMAIN stated : j # k => stated[j].sequence # stated[k].sequence,
         NEW place, PlacedBy(place, stated, remaining, ls, subtotal)
  PROVE  \E wider : PlacedBy(wider, stated, remaining \ {i},
                             Append(ls, TaxCall!LineOf(stated[i], subtotal)), subtotal)
<1> DEFINE line == TaxCall!LineOf(stated[i], subtotal)
           more == Append(ls, line)
           n == Len(ls)
           wider == [k \in 1 .. n + 1 |-> IF k = n + 1 THEN i ELSE place[k]]
<1>1. line \in AnyLine
  BY LineIsALine
<1>2. /\ n \in Nat /\ Len(more) = n + 1 /\ more[n + 1] = line
      /\ \A k \in 1 .. n : more[k] = ls[k]
  BY <1>1, AppendProperties, LenProperties
<1> HIDE DEF line, more
<1>3. /\ place \in [1 .. n -> DOMAIN stated \ remaining]
      /\ \A k \in 1 .. n : ls[k] = TaxCall!LineOf(stated[place[k]], subtotal)
      /\ \A k, l \in 1 .. n : k < l => stated[place[k]].sequence < stated[place[l]].sequence
      /\ \A k \in 1 .. n : \A j \in remaining : stated[place[k]].sequence < stated[j].sequence
      /\ \A j \in DOMAIN stated \ remaining : \E k \in 1 .. n : place[k] = j
  BY DEF PlacedBy
<1>4. /\ wider[n + 1] = i
      /\ \A k \in 1 .. n : wider[k] = place[k]
      /\ wider \in [1 .. n + 1 -> DOMAIN stated \ (remaining \ {i})]
  BY <1>2, <1>3
<1> HIDE DEF wider, n
<1>5. ASSUME NEW j \in DOMAIN stated
      PROVE  stated[j].sequence \in Int
  <2>1. stated[j] \in TaxCall!TaxRule
    OBVIOUS
  <2> QED
    BY <2>1 DEF TaxCall!TaxRule
<1>6. \A j \in remaining \ {i} : stated[i].sequence < stated[j].sequence
  BY <1>5
<1>7. \A k \in 1 .. n + 1 : more[k] = TaxCall!LineOf(stated[wider[k]], subtotal)
  BY <1>2, <1>3, <1>4 DEF line
<1>8. ASSUME NEW k \in 1 .. n + 1, NEW l \in 1 .. n + 1, k < l
      PROVE  stated[wider[k]].sequence < stated[wider[l]].sequence
  <2>1. k \in 1 .. n
    BY <1>2, <1>8
  <2>2. CASE l = n + 1
    BY <1>3, <1>4, <2>1, <2>2
  <2>3. CASE l # n + 1
    <3>1. l \in 1 .. n
      BY <1>2, <2>3
    <3> QED
      BY <1>3, <1>4, <1>8, <2>1, <3>1
  <2> QED
    BY <2>2, <2>3
<1>9. ASSUME NEW k \in 1 .. n + 1, NEW j \in remaining \ {i}
      PROVE  stated[wider[k]].sequence < stated[j].sequence
  BY <1>2, <1>3, <1>4, <1>6, <1>9
<1>10. ASSUME NEW j \in DOMAIN stated \ (remaining \ {i})
       PROVE  \E k \in 1 .. n + 1 : wider[k] = j
  BY <1>2, <1>3, <1>4, <1>10
<1>11. PlacedBy(wider, stated, remaining \ {i}, more, subtotal)
  BY <1>2, <1>4, <1>7, <1>8, <1>9, <1>10 DEF PlacedBy
<1> QED
  BY <1>11 DEF more, line
-----------------------------------------------------------------------------
(* What a request that can be read says of the set a tax is taken by. *)
LEMMA SetInHand ==
  ASSUME request \in TaxRequest, TaxCall!Readable(request), NEW s \in DOMAIN request.sets
  PROVE  /\ request.sets[s].rules \in Seq(TaxCall!TaxRule)
         /\ TaxCall!SoundSet(request.sets[s])
         /\ TaxCall!Instant(request.sets[s].effective_from) \in Int
         /\ request.subtotal \in Nat /\ request.at \in Int
<1>1. request.sets \in Seq(TaxCall!TaxSet) /\ request.subtotal \in Int /\ request.at \in Int
  BY TaxRequestAssumption DEF TaxCall!IsRequest
<1>2. request.sets[s] \in TaxCall!TaxSet
  BY <1>1
<1>3. TaxCall!SoundSet(request.sets[s]) /\ request.subtotal >= 0
  BY DEF TaxCall!Readable, TaxCall!Loads
<1> QED
  BY <1>1, <1>2, <1>3 DEF TaxCall!TaxSet, TaxCall!Instant

LEMMA AnswersDiffer ==
  /\ \A reasons : TaxCall!Named(reasons) # TaxCall!Unanswered
  /\ \A ls : TaxCall!Taxed(ls) # TaxCall!Unanswered /\ TaxCall!Taxed(ls).kind
          = "taxed" /\ TaxCall!Taxed(ls).lines = ls
  BY DEF TaxCall!Named, TaxCall!Taxed, TaxCall!Unanswered

LEMMA TaxInitEstablishes == TaxCall!Init => TaxInv
  BY DEF TaxCall!Init, TaxInv

LEMMA SelectKeeps ==
  ASSUME TaxInv, TaxCall!Select
  PROVE  TaxInv'
<1>1. request \in TaxRequest /\ TaxCall!Readable(request) /\ lines = << >> /\ answer
        = TaxCall!Unanswered
  BY DEF TaxInv, TaxCall!Select
<1>2. /\ pc' = "tax" /\ UNCHANGED <<request, lines, answer>>
      /\ chosen' \in DOMAIN request.sets /\ TaxCall!Chosen(request.sets, request.at, chosen')
      /\ left' = IF request.subtotal = 0 THEN {} ELSE DOMAIN request.sets[chosen'].rules
  BY DEF TaxCall!Select
<1>3. request.subtotal # 0 => PlacedBy(<< >>, TaxCall!rules', left', << >>, request.subtotal)
  <2>1. TaxCall!rules' = request.sets[chosen'].rules
    BY <1>2 DEF TaxCall!rules
  <2>2. << >> \in [{} -> DOMAIN TaxCall!rules' \ left']
    OBVIOUS
  <2>3. Len(<< >>) = 0 /\ 1 .. 0 = {}
    OBVIOUS
  <2> QED
    BY <1>2, <2>1, <2>2, <2>3 DEF PlacedBy
<1>4. << >> \in Seq(AnyLine)
  OBVIOUS
<1>5. TaxedSoFar'
  BY <1>1, <1>2, <1>3, <1>4 DEF TaxedSoFar, TaxCall!rules
<1> QED
  BY <1>1, <1>2, <1>5 DEF TaxInv

LEMMA TaxOneKeeps ==
  ASSUME TaxInv, TaxCall!TaxOne
  PROVE  TaxInv'
<1>1. request \in TaxRequest /\ TaxCall!Readable(request) /\ TaxedSoFar /\ pc
        = "tax" /\ answer = TaxCall!Unanswered
  BY DEF TaxInv, TaxCall!TaxOne
<1>2. PICK i \in left :
        /\ TaxCall!IsNext(i)
        /\ lines' = Append(lines, TaxCall!LineOf(TaxCall!rules[i], request.subtotal))
        /\ left' = left \ {i}
        /\ UNCHANGED <<request, pc, chosen, answer>>
  BY DEF TaxCall!TaxOne, TaxCall!Base
<1>3. TaxCall!rules' = TaxCall!rules
  BY <1>2 DEF TaxCall!rules
<1>4. /\ TaxCall!rules \in Seq(TaxCall!TaxRule) /\ request.subtotal \in Int
        /\ request.subtotal # 0
      /\ \A j, k \in DOMAIN TaxCall!rules : j # k
              => TaxCall!rules[j].sequence # TaxCall!rules[k].sequence
      /\ left \in SUBSET DOMAIN TaxCall!rules /\ lines \in Seq(AnyLine)
  <2>1. chosen \in DOMAIN request.sets
    BY <1>1 DEF TaxedSoFar
  <2>2. TaxCall!rules \in Seq(TaxCall!TaxRule) /\ TaxCall!SoundSet(request.sets[chosen])
          /\ request.subtotal \in Nat
    BY <1>1, <2>1, SetInHand DEF TaxCall!rules
  <2> QED
    BY <1>1, <1>2, <2>2 DEF TaxCall!SoundSet, TaxCall!rules, TaxedSoFar
<1>5. \E place : PlacedBy(place, TaxCall!rules, left', lines', request.subtotal)
  <2>1. PICK place : PlacedBy(place, TaxCall!rules, left, lines, request.subtotal)
    BY <1>1, <1>4 DEF TaxedSoFar
  <2>2. \A j \in left : TaxCall!rules[i].sequence <= TaxCall!rules[j].sequence
    BY <1>2 DEF TaxCall!IsNext
  <2> QED
    BY <1>2, <1>4, <2>1, <2>2, PlaceOneMore
<1>6. lines' \in Seq(AnyLine)
  BY <1>2, <1>4, LineIsALine
<1>7. TaxedSoFar'
  BY <1>1, <1>2, <1>3, <1>4, <1>5, <1>6 DEF TaxedSoFar
<1> QED
  BY <1>1, <1>2, <1>7 DEF TaxInv

LEMMA ReturnKeeps ==
  ASSUME TaxInv, TaxCall!Return
  PROVE  TaxInv'
<1>1. request \in TaxRequest /\ TaxCall!Readable(request) /\ TaxedSoFar
  BY DEF TaxInv, TaxCall!Return
<1>2. pc' = "answered" /\ answer' = TaxCall!Taxed(lines)
        /\ UNCHANGED <<request, lines, chosen, left>>
  BY DEF TaxCall!Return, TaxCall!Answer
<1>3. LinesAreRules
  <2> SUFFICES ASSUME lines # << >>, NEW k \in DOMAIN lines
      PROVE  \E i \in DOMAIN TaxCall!rules :
              lines[k] = TaxCall!LineOf(TaxCall!rules[i], request.subtotal)
    BY <1>1 DEF LinesAreRules, TaxedSoFar
  <2>1. PICK place : PlacedBy(place, TaxCall!rules, left, lines, request.subtotal)
    BY <1>1 DEF TaxedSoFar
  <2>2. k \in 1 .. Len(lines)
    BY <1>1, LenProperties DEF TaxedSoFar
  <2> QED
    BY <2>1, <2>2 DEF PlacedBy
<1>4. LinesAreRules'
  BY <1>2, <1>3 DEF LinesAreRules, TaxCall!rules
<1> QED
  BY <1>1, <1>2, <1>4, AnswersDiffer DEF TaxInv

LEMMA TaxStepKeeps == TaxInv /\ [TaxCall!Next]_taxVars => TaxInv'
<1> SUFFICES ASSUME TaxInv, [TaxCall!Next]_taxVars
    PROVE  TaxInv'
  OBVIOUS
<1>1. CASE TaxCall!RefuseUnreadable \/ TaxCall!RefuseUnstated
  BY <1>1, AnswersDiffer
     DEF TaxCall!RefuseUnreadable, TaxCall!RefuseUnstated, TaxCall!Answer, TaxInv, LinesAreRules
<1>2. CASE TaxCall!Load
  BY <1>2 DEF TaxCall!Load, TaxInv
<1>3. CASE UNCHANGED taxVars
  BY <1>3 DEF taxVars, TaxInv, TaxedSoFar, LinesAreRules, TaxCall!rules
<1> QED
  BY <1>1, <1>2, <1>3, SelectKeeps, TaxOneKeeps, ReturnKeeps
     DEF TaxCall!Next, TaxCall!Step, TaxCall!Done, TaxCall!vars, taxVars
-----------------------------------------------------------------------------
LEMMA RefusalIsPromised ==
  ASSUME TaxInv, TaxCall!RefuseUnreadable \/ TaxCall!RefuseUnstated
  PROVE  TaxCall!Promise!Name
<1>1. request \in TaxRequest /\ answer = TaxCall!Unanswered
  BY DEF TaxInv, TaxCall!RefuseUnreadable, TaxCall!RefuseUnstated
<1>2. CASE TaxCall!RefuseUnreadable
  <2>1. TaxCall!Stopped(request) = {"invalid"} /\ answer'
          = TaxCall!Named({"invalid"}) /\ request' = request
    BY <1>2 DEF TaxCall!RefuseUnreadable, TaxCall!Answer, TaxCall!Stopped
  <2> QED
    BY <1>1, <2>1
       DEF TaxCall!Promise!Name, TaxCall!Promise!Named, TaxCall!Named, TaxCall!Promise!Unanswered,
           TaxCall!Unanswered
<1>3. CASE TaxCall!RefuseUnstated
  <2>1. TaxCall!Readable(request) /\ TaxCall!InForce(request.sets, request.at) = {}
    BY <1>3 DEF TaxInv, TaxCall!RefuseUnstated
  <2>2. ASSUME NEW i \in DOMAIN request.sets
        PROVE  request.at < TaxCall!Instant(request.sets[i].effective_from)
    <3>1. TaxCall!Instant(request.sets[i].effective_from) \in Int /\ request.at \in Int
      BY <1>1, <2>1, SetInHand
    <3> QED
      BY <2>1, <3>1 DEF TaxCall!InForce
  <2>3. TaxCall!Stopped(request) = {"GAP_NO_TAX_SET_IN_FORCE"}
    BY <2>1, <2>2 DEF TaxCall!Stopped
  <2>4. answer' = TaxCall!Named({"GAP_NO_TAX_SET_IN_FORCE"}) /\ request' = request
    BY <1>3 DEF TaxCall!RefuseUnstated, TaxCall!Answer
  <2> QED
    BY <1>1, <2>3, <2>4
       DEF TaxCall!Promise!Name, TaxCall!Promise!Named, TaxCall!Named, TaxCall!Promise!Unanswered,
           TaxCall!Unanswered
<1> QED
  BY <1>2, <1>3

(* What is returned is owed: the place of each line among the rules of the   *)
(* set in force is the one the invariant keeps.                             *)
LEMMA ReturnIsOwed ==
  ASSUME TaxInv, TaxCall!Return
  PROVE  TaxCall!Owed(request, lines) /\ TaxCall!Stopped(request) = {}
<1>1. request \in TaxRequest /\ TaxCall!Readable(request) /\ TaxedSoFar /\ left = {}
  BY DEF TaxInv, TaxCall!Return
<1>2. /\ chosen \in DOMAIN request.sets
      /\ TaxCall!Instant(request.sets[chosen].effective_from) <= request.at
      /\ \A t \in DOMAIN request.sets :
           TaxCall!Instant(request.sets[t].effective_from) <= request.at
             => TaxCall!Instant(request.sets[t].effective_from)
                  <= TaxCall!Instant(request.sets[chosen].effective_from)
  BY <1>1 DEF TaxedSoFar, TaxCall!Chosen, TaxCall!InForce
<1>3. TaxCall!Stopped(request) = {}
  <2>1. TaxCall!Instant(request.sets[chosen].effective_from) \in Int /\ request.at \in Int
    BY <1>1, <1>2, SetInHand
  <2>2. ~(request.at < TaxCall!Instant(request.sets[chosen].effective_from))
    BY <1>2, <2>1
  <2> QED
    BY <1>1, <1>2, <2>2 DEF TaxCall!Stopped
<1>4. DOMAIN lines = 1 .. Len(lines)
  BY <1>1, LenProperties DEF TaxedSoFar
<1>5. ASSUME request.subtotal # 0
      PROVE  \E place \in [DOMAIN lines -> DOMAIN TaxCall!rules] :
               /\ \A i \in DOMAIN TaxCall!rules : \E k \in DOMAIN lines : place[k] = i
               /\ \A k \in DOMAIN lines :
                       lines[k] = TaxCall!LineOf(TaxCall!rules[place[k]], request.subtotal)
               /\ \A k, l \in DOMAIN lines :
                    k < l => TaxCall!rules[place[k]].sequence < TaxCall!rules[place[l]].sequence
  <2>1. PICK place : PlacedBy(place, TaxCall!rules, {}, lines, request.subtotal)
    BY <1>1, <1>5 DEF TaxedSoFar
  <2> QED
    BY <1>4, <2>1 DEF PlacedBy
<1>6. request.subtotal = 0 => lines = << >>
  BY <1>1 DEF TaxedSoFar
<1> QED
  BY <1>2, <1>3, <1>5, <1>6 DEF TaxCall!Owed, TaxCall!rules

LEMMA TaxStepIsPromised ==
  TaxInv /\ [TaxCall!Next]_taxVars => [TaxCall!Promise!Next]_<<request, answer>>
<1> SUFFICES ASSUME TaxInv, [TaxCall!Next]_taxVars
    PROVE  [TaxCall!Promise!Next]_<<request, answer>>
  OBVIOUS
<1>1. CASE TaxCall!RefuseUnreadable \/ TaxCall!RefuseUnstated
  BY <1>1, RefusalIsPromised DEF TaxCall!Promise!Next
<1>2. CASE TaxCall!Return
  <2>1. answer = TaxCall!Unanswered /\ answer' = TaxCall!Taxed(lines) /\ request' = request
    BY <1>2 DEF TaxInv, TaxCall!Return, TaxCall!Answer
  <2>2. TaxCall!Owed(request, lines) /\ TaxCall!Stopped(request) = {}
    BY <1>2, ReturnIsOwed
  <2>3. answer'.kind = "taxed" /\ answer'.lines = lines
    BY <2>1, AnswersDiffer
  <2>4. TaxCall!Promise!Tax
    BY <2>1, <2>2, <2>3
       DEF TaxCall!Promise!Tax, TaxCall!Promise!Taxed, TaxCall!Taxed, TaxCall!Promise!Unanswered,
           TaxCall!Unanswered
  <2> QED
    BY <2>4 DEF TaxCall!Promise!Next
<1>3. CASE TaxCall!Load \/ TaxCall!Select \/ TaxCall!TaxOne \/ TaxCall!Done \/ UNCHANGED taxVars
  BY <1>3 DEF TaxCall!Load, TaxCall!Select, TaxCall!TaxOne, TaxCall!Done, TaxCall!vars, taxVars
<1> QED
  BY <1>1, <1>2, <1>3 DEF TaxCall!Next, TaxCall!Step

-----------------------------------------------------------------------------
(* A share of an amount, and the whole part it is rounded from. *)
LEMMA RoundedShare ==
  ASSUME NEW amount \in Int, NEW bp \in Int, NEW rounding
  PROVE  LET over == TaxCall!PercentOf(amount, bp, rounding) * TaxCall!BASIS_POINTS_PER_WHOLE
                       - amount * bp
         IN  /\ rounding = "up" => over >= 0 /\ over < TaxCall!BASIS_POINTS_PER_WHOLE
             /\ rounding = "down" => over <= 0 /\ -over < TaxCall!BASIS_POINTS_PER_WHOLE
             /\ rounding = "nearest" =>
                  2 * over <= TaxCall!BASIS_POINTS_PER_WHOLE
                          /\ -2 * over < TaxCall!BASIS_POINTS_PER_WHOLE
<1> DEFINE exact == amount * bp
           whole == exact \div 10000
           rest == exact % 10000
<1>1. exact \in Int
  OBVIOUS
<1> HIDE DEF exact
<1>2. whole \in Int /\ rest \in 0 .. 9999 /\ exact = 10000 * whole + rest
  BY <1>1
<1> HIDE DEF whole, rest
<1>3. TaxCall!PercentOf(amount, bp, rounding) = whole + TaxCall!CentFor(rest, rounding)
  BY DEF TaxCall!PercentOf, TaxCall!BASIS_POINTS_PER_WHOLE, exact, whole, rest
<1>4. TaxCall!CentFor(rest, rounding) \in {0, 1}
  BY DEF TaxCall!CentFor
<1>5. TaxCall!PercentOf(amount, bp, rounding) * TaxCall!BASIS_POINTS_PER_WHOLE - amount * bp
        = 10000 * TaxCall!CentFor(rest, rounding) - rest
  BY <1>2, <1>3, <1>4 DEF TaxCall!BASIS_POINTS_PER_WHOLE, exact
<1> DEFINE over == TaxCall!PercentOf(amount, bp, rounding) * TaxCall!BASIS_POINTS_PER_WHOLE
                     - amount * bp
           cent == TaxCall!CentFor(rest, rounding)
<1>6. over = 10000 * cent - rest /\ cent \in {0, 1} /\ rest \in 0 .. 9999
  BY <1>2, <1>4, <1>5
<1>7. /\ rounding = "up" => (cent = 1 <=> rest > 0)
      /\ rounding = "down" => cent = 0
      /\ rounding = "nearest" => (cent = 1 <=> 2 * rest >= 10000)
  BY <1>2 DEF TaxCall!CentFor, TaxCall!BASIS_POINTS_PER_WHOLE
<1> HIDE DEF over, cent
<1>8. rounding = "up" => over >= 0 /\ over < 10000
  BY <1>6, <1>7
<1>9. rounding = "down" => over <= 0 /\ -over < 10000
  BY <1>6, <1>7
<1>10. rounding = "nearest" => 2 * over <= 10000 /\ -2 * over < 10000
  BY <1>6, <1>7
<1> QED
  BY <1>8, <1>9, <1>10 DEF over, TaxCall!BASIS_POINTS_PER_WHOLE
-----------------------------------------------------------------------------
(* A tax request is answered once: refused for what stops it, or taxed with  *)
(* each rule of the set in force on the money paid, in the stated sequence,  *)
(* whatever order the lists came in (F42 to F45).                           *)
THEOREM TaxIsPromised == CallSpec => KeepsTheTaxPromise
<1>1. TaxCall!Init => TaxCall!Promise!Init
  BY DEF TaxCall!Init, TaxCall!Promise!Init, TaxCall!Unanswered, TaxCall!Promise!Unanswered
<1>2. TaxInv /\ [TaxCall!Next]_taxVars => TaxInv'
  BY TaxStepKeeps
<1>3. TaxInv /\ [TaxCall!Next]_taxVars => [TaxCall!Promise!Next]_<<request, answer>>
  BY TaxStepIsPromised
<1> QED
  BY <1>1, <1>2, <1>3, TaxInitEstablishes, CallIsOfTax, PTL
     DEF KeepsTheTaxPromise, TaxCall!Promise!Spec

(* A line is never further from the exact tax than its rounding allows, and  *)
(* the fraction goes the way the rule states, an exact half up (F41).        *)
THEOREM RoundsExactly == CallSpec => []RoundsAsStated
<1>1. TaxInv => RoundsAsStated
  <2> SUFFICES ASSUME TaxInv, pc = "answered", NEW k \in DOMAIN lines
      PROVE  \E i \in DOMAIN TaxCall!rules :
        LET exact == request.subtotal * TaxCall!rules[i].percent_bp
            over == lines[k].delta * TaxCall!BASIS_POINTS_PER_WHOLE - exact
        IN  /\ lines[k].rule = TaxCall!rules[i].id
            /\ TaxCall!rules[i].rounding = "up"
                    => over >= 0 /\ over < TaxCall!BASIS_POINTS_PER_WHOLE
            /\ TaxCall!rules[i].rounding = "down"
                    => over <= 0 /\ -over < TaxCall!BASIS_POINTS_PER_WHOLE
            /\ TaxCall!rules[i].rounding = "nearest" =>
                 2 * over <= TaxCall!BASIS_POINTS_PER_WHOLE
                         /\ -2 * over < TaxCall!BASIS_POINTS_PER_WHOLE
    BY DEF RoundsAsStated, TaxCall!RoundsAsStated
  <2>1. lines # << >>
    OBVIOUS
  <2>2. PICK i \in DOMAIN TaxCall!rules :
          lines[k] = TaxCall!LineOf(TaxCall!rules[i], request.subtotal)
    BY <2>1 DEF TaxInv, LinesAreRules
  <2>3. TaxCall!rules[i] \in TaxCall!TaxRule /\ request.subtotal \in Int
    <3>1. request \in TaxRequest /\ TaxCall!Readable(request) /\ chosen \in DOMAIN request.sets
      BY <2>1 DEF TaxInv, LinesAreRules
    <3>2. TaxCall!rules \in Seq(TaxCall!TaxRule) /\ request.subtotal \in Int
      BY <3>1, SetInHand DEF TaxCall!rules
    <3> QED
      BY <3>2
  <2>4. /\ lines[k].rule = TaxCall!rules[i].id
        /\ lines[k].delta = TaxCall!PercentOf(request.subtotal, TaxCall!rules[i].percent_bp,
                                              TaxCall!rules[i].rounding)
    BY <2>2 DEF TaxCall!LineOf
  <2>5. TaxCall!rules[i].percent_bp \in Int
    BY <2>3 DEF TaxCall!TaxRule
  <2> QED
    BY <2>3, <2>4, <2>5, RoundedShare
<1> QED
  BY <1>1, TaxStepKeeps, TaxInitEstablishes, CallIsOfTax, PTL
=============================================================================
