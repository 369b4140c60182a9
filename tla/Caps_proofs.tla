---------------------------- MODULE Caps_proofs ----------------------------
(***************************************************************************)
(* Proofs about the caps, for every stay, zone, cap and rate. The day walk: *)
(* in a zone whose dates follow one another, the days of a stay are its     *)
(* local dates and follow one another, the day found for a part of it is    *)
(* the day it starts in, and the pieces handed out are the part, cut, with  *)
(* nothing lost or repeated. In any zone, the pieces of a rate's charge add *)
(* up to the charge, the receipt line tells the days that were tallied, and *)
(* the loops come to the days, pieces and fee the operators of Caps define. *)
(* The CAP stage: where the dates follow one another, whichever order the   *)
(* caps answer in the lowest ceiling stands, a longer stay never costs less, *)
(* and a weekly max allows no more than a daily one whose days nest in it.  *)
(***************************************************************************)
EXTENDS DayWalk, CapStage, FiniteSetTheorems, WellFoundedInduction, TLAPS

(* The library's well-founded order on the natural numbers, as a fact about *)
(* a relation, so that induction can be said of sets.                       *)
LEMMA LessThanIsWellFounded ==
  \E R : IsWellFoundedOn(R, Nat) /\ \A a, b \in Nat : a < b => <<a, b>> \in R
<1> DEFINE R == OpToRel(<, Nat)
<1>1. IsWellFoundedOn(R, Nat)
  BY NatLessThanWellFounded
<1>2. \A a, b \in Nat : a < b => <<a, b>> \in R
  BY DEF OpToRel
<1> QED
  BY <1>1, <1>2

LEMMA LeastUnder ==
  ASSUME NEW R, IsWellFoundedOn(R, Nat), NEW T, T \subseteq Nat, T # {}
  PROVE  \E m \in T : \A y \in T : ~(<<y, m>> \in R)
BY WFMin

LEMMA LeastNat ==
  ASSUME NEW T \in SUBSET Nat, T # {}
  PROVE  \E m \in T : \A n \in T : m <= n
<1>1. ASSUME NEW R, IsWellFoundedOn(R, Nat), \A a, b \in Nat : a < b => <<a, b>> \in R
      PROVE  \E m \in T : \A n \in T : m <= n
  <2>1. T \subseteq Nat /\ IsWellFoundedOn(R, Nat)
    BY <1>1
  <2>2. PICK m \in T : \A y \in T : ~(<<y, m>> \in R)
    BY <2>1, LeastUnder, Zenon
  <2>3. \A n \in T : n \in Nat /\ ~(n < m)
    BY <1>1, <2>1, <2>2
  <2> QED
    BY <2>1, <2>3
<1> QED
  BY <1>1, LessThanIsWellFounded

(* Induction over the natural numbers, said of a set of them.                *)
LEMMA Induction ==
  ASSUME NEW S \in SUBSET Nat, 0 \in S, \A n \in S : n + 1 \in S
  PROVE  S = Nat
<1> DEFINE T == Nat \ S
<1> SUFFICES ASSUME T # {} PROVE FALSE
  OBVIOUS
<1>1. PICK m \in T : \A n \in T : m <= n
  BY LeastNat
<1>2. m # 0 /\ m - 1 \in Nat /\ m - 1 \notin T
  BY <1>1
<1> QED
  BY <1>1, <1>2

(* Induction over the subsets of a finite set, said of a set of them. *)
LEMMA SubsetInduction ==
  ASSUME NEW S, IsFiniteSet(S), NEW G, {} \in G,
         \A T \in SUBSET S : T # {} /\ (\A x \in T : T \ {x} \in G) => T \in G
  PROVE  \A T \in SUBSET S : T \in G
<1> DEFINE N == {n \in Nat : \A T \in SUBSET S : Cardinality(T) = n => T \in G}
<1>0. \A T \in SUBSET S : IsFiniteSet(T) /\ Cardinality(T) \in Nat
  BY FS_Subset, FS_CardinalityType
<1>1. 0 \in N
  <2>1. \A T \in SUBSET S : Cardinality(T) = 0 => T = {}
    BY <1>0, FS_EmptySet
  <2> QED
    BY <2>1
<1>2. ASSUME NEW n \in N
      PROVE  n + 1 \in N
  <2> SUFFICES ASSUME NEW T \in SUBSET S, Cardinality(T) = n + 1
               PROVE  T \in G
    OBVIOUS
  <2>1. T # {}
    BY FS_EmptySet
  <2>2. ASSUME NEW x \in T
        PROVE  T \ {x} \in G
    <3>1. Cardinality(T \ {x}) = n
      BY <1>0, FS_RemoveElement
    <3> QED
      BY <3>1
  <2> QED
    BY <2>1, <2>2
<1>3. N = Nat
  <2> HIDE DEF N
  <2>1. N \in SUBSET Nat
    BY DEF N
  <2> QED
    BY <1>1, <1>2, <2>1, Induction
<1> QED
  BY <1>0, <1>3

(* How the library's sum over a set is worked out: one term, then the rest.  *)
SumStep(g, it, s) ==
  IF s = {} THEN 0 ELSE LET x == CHOOSE y \in s : TRUE IN g[x] + it[s \ {x}]

Summed(g, S, it) == it = [s \in SUBSET S |-> SumStep(g, it, s)]

LEMMA SumIs ==
  ASSUME NEW g, NEW S
  PROVE  SumFunctionOnSet(g, S) = (CHOOSE it : Summed(g, S, it))[S]
BY DEF SumFunctionOnSet, FoldFunctionOnSet, MapThenFoldSet, Summed, SumStep

LEMMA SumExists ==
  ASSUME NEW g, NEW S, IsFiniteSet(S)
  PROVE  \E it : Summed(g, S, it)
<1> DEFINE Right(h, s) == h[s] = SumStep(g, h, s)
           UpTo(h, n) == /\ h = [s \in SUBSET S |-> h[s]]
                         /\ \A s \in SUBSET S : Cardinality(s) <= n => Right(h, s)
           N == {n \in Nat : \E h : UpTo(h, n)}
<1>0. \A s \in SUBSET S : IsFiniteSet(s) /\ Cardinality(s) \in Nat
  BY FS_Subset, FS_CardinalityType
<1>1. 0 \in N
  <2> DEFINE h == [s \in SUBSET S |-> 0]
  <2>1. ASSUME NEW s \in SUBSET S, Cardinality(s) <= 0
        PROVE  Right(h, s)
    <3>1. s = {}
      BY <1>0, <2>1, FS_EmptySet
    <3> QED
      BY <3>1 DEF SumStep
  <2>2. h = [s \in SUBSET S |-> h[s]]
    OBVIOUS
  <2>3. UpTo(h, 0)
    BY <2>1, <2>2
  <2> QED
    BY <2>3
<1>2. ASSUME NEW n \in N
      PROVE  n + 1 \in N
  <2>1. PICK h : UpTo(h, n)
    OBVIOUS
  <2> DEFINE k == [s \in SUBSET S |-> SumStep(g, h, s)]
  <2>2. ASSUME NEW s \in SUBSET S, Cardinality(s) <= n + 1
        PROVE  Right(k, s)
    <3>1. CASE s = {}
      BY <3>1 DEF SumStep
    <3>2. CASE s # {}
      <4> DEFINE x == CHOOSE y \in s : TRUE
      <4>1. x \in s
        BY <3>2
      <4> HIDE DEF x
      <4>2. s \ {x} \in SUBSET S /\ Cardinality(s \ {x}) <= n
        BY <1>0, <2>2, <4>1, FS_RemoveElement
      <4>3. h[s \ {x}] = SumStep(g, h, s \ {x})
        BY <2>1, <4>2
      <4>4. k[s \ {x}] = h[s \ {x}]
        BY <4>2, <4>3
      <4>5. k[s] = g[x] + h[s \ {x}]
        BY <3>2 DEF SumStep, x
      <4>6. SumStep(g, k, s) = g[x] + k[s \ {x}]
        BY <3>2 DEF SumStep, x
      <4> QED
        BY <4>4, <4>5, <4>6
    <3> QED
      BY <3>1, <3>2
  <2>3. k = [s \in SUBSET S |-> k[s]]
    OBVIOUS
  <2>4. \E h1 : UpTo(h1, n + 1)
    <3> HIDE DEF k
    <3> QED
      BY <2>2, <2>3
  <2>5. n + 1 \in Nat
    OBVIOUS
  <2> HIDE DEF UpTo
  <2> QED
    BY <2>4, <2>5
<1>3. N = Nat
  <2> HIDE DEF N
  <2>1. N \in SUBSET Nat
    BY DEF N
  <2> QED
    BY <1>1, <1>2, <2>1, Induction
<1>4. PICK h : UpTo(h, Cardinality(S))
  BY <1>0, <1>3
<1>5. \A s \in SUBSET S : Cardinality(s) <= Cardinality(S)
  BY FS_Subset
<1>6. h = [s \in SUBSET S |-> SumStep(g, h, s)]
  BY <1>4, <1>5
<1> QED
  BY <1>6 DEF Summed

LEMMA SumsAgree ==
  ASSUME NEW g, NEW S, NEW T, NEW it, NEW jt, Summed(g, S, it), Summed(g, T, jt),
         NEW U \in SUBSET (S \cap T), IsFiniteSet(U)
  PROVE  it[U] = jt[U]
<1> DEFINE G == {V \in SUBSET U : it[V] = jt[V]}
<1>1. \A V \in SUBSET U : it[V] = SumStep(g, it, V) /\ jt[V] = SumStep(g, jt, V)
  BY DEF Summed
<1>2. {} \in G
  BY <1>1 DEF SumStep
<1>3. ASSUME NEW V \in SUBSET U, V # {}, \A x \in V : V \ {x} \in G
      PROVE  V \in G
  <2> DEFINE x == CHOOSE y \in V : TRUE
  <2>1. x \in V
    BY <1>3
  <2> HIDE DEF x
  <2>2. it[V \ {x}] = jt[V \ {x}]
    BY <1>3, <2>1
  <2>3. it[V] = g[x] + it[V \ {x}] /\ jt[V] = g[x] + jt[V \ {x}]
    BY <1>1, <1>3 DEF SumStep, x
  <2> QED
    BY <2>2, <2>3
<1>4. \A V \in SUBSET U : V \in G
  <2> HIDE DEF G
  <2> QED
    BY <1>2, <1>3, SubsetInduction
<1> QED
  BY <1>4

(* A sum is a term and the sum of the rest. *)
LEMMA SumUnfolds ==
  ASSUME NEW g, NEW S, IsFiniteSet(S)
  PROVE  /\ S = {} => SumFunctionOnSet(g, S) = 0
         /\ S # {} => \E x \in S : SumFunctionOnSet(g, S) = g[x] + SumFunctionOnSet(g, S \ {x})
<1> DEFINE it(T) == CHOOSE h : Summed(g, T, h)
<1>1. \A T \in SUBSET S : Summed(g, T, it(T)) /\ IsFiniteSet(T)
  BY SumExists, FS_Subset
<1>2. \A T \in SUBSET S : SumFunctionOnSet(g, T) = it(T)[T]
  BY SumIs
<1>3. \A T \in SUBSET S : it(T)[T] = it(S)[T]
  <2> HIDE DEF it
  <2> QED
    BY <1>1, SumsAgree
<1> HIDE DEF it
<1>4. it(S)[S] = SumStep(g, it(S), S)
  BY <1>1 DEF Summed
<1>5. CASE S = {}
  BY <1>2, <1>4, <1>5 DEF SumStep
<1>6. CASE S # {}
  <2> DEFINE x == CHOOSE y \in S : TRUE
  <2>1. x \in S
    BY <1>6
  <2>2. it(S)[S] = g[x] + it(S)[S \ {x}]
    BY <1>4, <1>6 DEF SumStep
  <2> HIDE DEF x
  <2> QED
    BY <1>2, <1>3, <1>6, <2>1, <2>2
<1> QED
  BY <1>5, <1>6

(* The terms of a sum may be taken in any order. *)
LEMMA SumRemove ==
  ASSUME NEW g, NEW S, IsFiniteSet(S), \A x \in S : g[x] \in Int
  PROVE  /\ SumFunctionOnSet(g, S) \in Int
         /\ \A x \in S : SumFunctionOnSet(g, S) = g[x] + SumFunctionOnSet(g, S \ {x})
<1> DEFINE sum(T) == SumFunctionOnSet(g, T)
           G == {T \in SUBSET S : /\ \A U \in SUBSET T : sum(U) \in Int
                                  /\ \A x \in T : sum(T) = g[x] + sum(T \ {x})}
<1>1. \A T \in SUBSET S : IsFiniteSet(T)
  BY FS_Subset
<1>2. sum({}) = 0 /\ \A T \in SUBSET S : T # {} => \E x \in T : sum(T) = g[x] + sum(T \ {x})
  BY <1>1, SumUnfolds
<1> HIDE DEF sum
<1>3. {} \in G
  <2>1. \A U \in SUBSET {} : U = {}
    OBVIOUS
  <2>5. sum({}) \in Int
    BY <1>2
  <2>2. \A U \in SUBSET {} : sum(U) \in Int
    BY <2>1, <2>5, Zenon
  <2>3. {} \in SUBSET S
    OBVIOUS
  <2>4. \A x \in {} : sum({}) = g[x] + sum({} \ {x})
    OBVIOUS
  <2> QED
    BY <2>2, <2>3, <2>4, Zenon
<1>4. ASSUME NEW T \in SUBSET S, T # {}, \A x \in T : T \ {x} \in G
      PROVE  T \in G
  <2>1. PICK x \in T : sum(T) = g[x] + sum(T \ {x})
    BY <1>2, <1>4
  <2>2. \A y \in T : g[y] \in Int /\ sum(T \ {y}) \in Int
    BY <1>4
  <2>3. ASSUME NEW y \in T, y # x
        PROVE  sum(T) = g[y] + sum(T \ {y})
    <3>1. sum(T \ {x}) = g[y] + sum((T \ {x}) \ {y})
      BY <1>4, <2>3
    <3>2. sum(T \ {y}) = g[x] + sum((T \ {y}) \ {x})
      BY <1>4, <2>3
    <3>3. (T \ {x}) \ {y} = (T \ {y}) \ {x}
      OBVIOUS
    <3>4. sum((T \ {x}) \ {y}) = sum((T \ {y}) \ {x})
      BY <3>3
    <3>5. sum((T \ {x}) \ {y}) \in Int
      <4>1. (T \ {x}) \ {y} \in SUBSET (T \ {x})
        OBVIOUS
      <4> QED
        BY <1>4, <4>1
    <3> QED
      BY <2>1, <2>2, <3>1, <3>2, <3>4, <3>5
  <2>4. ASSUME NEW U \in SUBSET T
        PROVE  sum(U) \in Int
    <3>1. CASE U = T
      BY <2>1, <2>2, <3>1
    <3>2. CASE U # T
      <4>1. PICK y \in T : U \in SUBSET (T \ {y})
        BY <3>2
      <4> QED
        BY <1>4, <4>1
    <3> QED
      BY <3>1, <3>2
  <2> QED
    BY <2>1, <2>3, <2>4
<1>5. \A T \in SUBSET S : T \in G
  <2> HIDE DEF G
  <2> QED
    BY <1>3, <1>4, SubsetInduction
<1> QED
  BY <1>5 DEF sum
(* Terms that are equal come to equal sums. *)
LEMMA SumCongruent ==
  ASSUME NEW g, NEW h, NEW S, IsFiniteSet(S), \A x \in S : g[x] \in Int /\ g[x] = h[x]
  PROVE  SumFunctionOnSet(g, S) = SumFunctionOnSet(h, S)
<1> DEFINE s(T) == SumFunctionOnSet(g, T)
           t(T) == SumFunctionOnSet(h, T)
           G == {T \in SUBSET S : s(T) = t(T)}
<1>1. ASSUME NEW T \in SUBSET S, T # {}
      PROVE  \E x \in T : /\ g[x] = h[x]
                          /\ s(T) = g[x] + s(T \ {x})
                          /\ t(T) = h[x] + t(T \ {x})
  <2>1. IsFiniteSet(T)
    BY FS_Subset
  <2>2. /\ \A x \in T : s(T) = g[x] + s(T \ {x})
        /\ \A x \in T : t(T) = h[x] + t(T \ {x})
    BY <2>1, SumRemove
  <2> HIDE DEF s, t
  <2> QED
    BY <1>1, <2>2
<1>2. s({}) = t({})
  BY SumUnfolds, FS_EmptySet
<1> HIDE DEF s, t
<1>3. \A T \in SUBSET S : T \in G
  <2>1. {} \in G
    BY <1>2
  <2>2. ASSUME NEW T \in SUBSET S, T # {}, \A x \in T : T \ {x} \in G
        PROVE  T \in G
    BY <1>1, <2>2
  <2> HIDE DEF G
  <2> QED
    BY <2>1, <2>2, SubsetInduction
<1> QED
  BY <1>3 DEF s, t

(* One more term at the end of a range. *)
LEMMA SumNext ==
  ASSUME NEW g, NEW a \in Int, NEW b \in Int, a <= b, \A i \in a .. b : g[i] \in Int
  PROVE  /\ SumFunctionOnSet(g, a .. b - 1) \in Int
         /\ SumFunctionOnSet(g, a .. b) = SumFunctionOnSet(g, a .. b - 1) + g[b]
<1>1. IsFiniteSet(a .. b) /\ IsFiniteSet(a .. b - 1)
  BY FS_Interval
<1>2. (a .. b) \ {b} = a .. b - 1 /\ b \in a .. b
  OBVIOUS
<1>3. \A i \in a .. b - 1 : g[i] \in Int
  OBVIOUS
<1>4. SumFunctionOnSet(g, a .. b - 1) \in Int
  BY <1>1, <1>3, SumRemove
<1>5. \A x \in a .. b : SumFunctionOnSet(g, a .. b) = g[x] + SumFunctionOnSet(g, (a .. b) \ {x})
  BY <1>1, SumRemove
<1>6. SumFunctionOnSet(g, a .. b) = g[b] + SumFunctionOnSet(g, a .. b - 1)
  BY <1>2, <1>5
<1> QED
  BY <1>4, <1>6

(* One list of whole numbers is another with a term more at the end.         *)
Extends(g, h, a, b) ==
  /\ a \in Int /\ b \in Int /\ a <= b
  /\ \A i \in a .. b - 1 : g[i] = h[i]
  /\ \A i \in a .. b : h[i] \in Int

LEMMA SumExtends ==
  ASSUME NEW g, NEW h, NEW a, NEW b, Extends(g, h, a, b)
  PROVE  /\ SumFunctionOnSet(g, a .. b - 1) \in Int
         /\ SumFunctionOnSet(h, a .. b) = SumFunctionOnSet(g, a .. b - 1) + h[b]
<1> DEFINE S == a .. b - 1
<1>1. a \in Int /\ b \in Int /\ IsFiniteSet(S)
  BY FS_Interval DEF Extends
<1>2. \A i \in S : h[i] \in Int /\ h[i] = g[i]
  BY DEF Extends
<1>3. /\ SumFunctionOnSet(h, S) \in Int
      /\ SumFunctionOnSet(h, a .. b) = SumFunctionOnSet(h, S) + h[b]
  BY SumNext DEF Extends
<1> HIDE DEF S
<1>4. SumFunctionOnSet(h, S) = SumFunctionOnSet(g, S)
  BY <1>1, <1>2, SumCongruent, Zenon
<1> QED
  BY <1>3, <1>4 DEF S

LEMMA SumOfNothing ==
  ASSUME NEW g
  PROVE  SumFunctionOnSet(g, {}) = 0
BY SumUnfolds, FS_EmptySet
-----------------------------------------------------------------------------

(* A day of wall clock is at least one tick. *)
LEMMA DayTicksPositive == DayTicks \in Nat \ {0}
<1>1. \A a, b \in Nat \ {0} : a * b \in Nat \ {0}
  BY SMT
<1> QED BY <1>1, ClockAssumption DEF DayTicks

(* Floor division by the length of a day, as the two bounds it is.          *)
LEMMA DayDivision ==
  ASSUME NEW t \in Int
  PROVE  /\ t \div DayTicks \in Int
         /\ (t \div DayTicks) * DayTicks <= t
         /\ t < (t \div DayTicks) * DayTicks + DayTicks
<1>1. \A d \in Nat \ {0} : /\ t \div d \in Int
                           /\ (t \div d) * d <= t
                           /\ t < (t \div d) * d + d
  BY SMT
<1> QED BY <1>1, DayTicksPositive

LEMMA NextMultiple ==
  ASSUME NEW i \in Int
  PROVE  /\ i * DayTicks \in Int
         /\ (i + 1) * DayTicks = i * DayTicks + DayTicks
<1>1. \A d \in Int : i * d \in Int /\ (i + 1) * d = i * d + d
  BY SMT
<1> QED BY <1>1, DayTicksPositive

(* No multiple of a day lies strictly above one instant and at or below      *)
(* another of the same day.                                                 *)
LEMMA SameDay ==
  ASSUME NEW a \in Int, NEW b \in Int, NEW k \in Int,
         a \div DayTicks = b \div DayTicks, a < k * DayTicks, k * DayTicks <= b
  PROVE  FALSE
<1> DEFINE q == a \div DayTicks
<1>1. /\ q \in Int
      /\ q * DayTicks <= a /\ b < q * DayTicks + DayTicks
  BY DayDivision
<1> HIDE DEF q
<1>2. \A d \in Nat \ {0}, i, j \in Int : i <= j => i * d <= j * d
  BY SMT
<1>3. CASE k <= q
  BY <1>1, <1>2, <1>3, NextMultiple, DayTicksPositive
<1>4. CASE q + 1 <= k
  <2>1. (q + 1) * DayTicks <= k * DayTicks
    BY <1>1, <1>2, <1>4, DayTicksPositive
  <2> QED BY <2>1, <1>1, NextMultiple, DayTicksPositive
<1> QED BY <1>1, <1>3, <1>4

LEMMA ZoneFields ==
  ASSUME NEW zone \in ZoneType
  PROVE  zone.at \in Int /\ zone.before \in Int /\ zone.after \in Int
BY DEF ZoneType

(* Each local date of an ordinary zone starts after the one before it.      *)
LEMMA MidnightsIncrease ==
  ASSUME NEW zone \in ZoneType, OrdinaryZone(zone), NEW date \in Int
  PROVE  /\ Midnight(zone, date) \in Int
         /\ Midnight(zone, date) < Midnight(zone, date + 1)
BY DayTicksPositive, NextMultiple, ZoneFields DEF Midnight, OrdinaryZone, AtLeast

(* Every instant is before the midnight that ends its local date.           *)
LEMMA NextMidnightIsAhead ==
  ASSUME NEW zone \in ZoneType, OrdinaryZone(zone), NEW t \in Int
  PROVE  /\ LocalDate(zone, t) \in Int
         /\ t < Midnight(zone, LocalDate(zone, t) + 1)
<1> DEFINE date == LocalDate(zone, t)
           wall == (date + 1) * DayTicks
<1>1. WallClock(zone, t) \in Int
  BY ZoneFields DEF WallClock
<1>2. /\ date \in Int /\ wall \in Int
      /\ WallClock(zone, t) < wall
  BY <1>1, DayDivision, NextMultiple DEF LocalDate
<1>3. Midnight(zone, date + 1)
        = wall - (IF wall < zone.at + AtLeast(zone.before, zone.after)
                  THEN zone.before ELSE zone.after)
  BY DEF Midnight
<1> HIDE DEF date, wall
<1>4. CASE zone.before <= zone.after
  BY <1>1, <1>2, <1>3, <1>4, ZoneFields DEF WallClock, AtLeast, date
<1>5. CASE zone.after < zone.before /\ ~(t >= zone.at /\ wall < zone.at + zone.before)
  BY <1>1, <1>2, <1>3, <1>5, ZoneFields DEF WallClock, AtLeast, date
<1>6. CASE zone.after < zone.before /\ t >= zone.at /\ wall < zone.at + zone.before
  <2>1. zone.at + zone.after < wall
    BY <1>1, <1>2, <1>6, ZoneFields DEF WallClock
  <2>2. (zone.at + zone.before - 1) \div DayTicks = (zone.at + zone.after) \div DayTicks
    BY <1>6 DEF OrdinaryZone
  <2>3. wall <= zone.at + zone.before - 1
    BY <1>2, <1>6, ZoneFields
  <2>4. wall = (date + 1) * DayTicks
    BY DEF wall
  <2> QED BY <2>1, <2>2, <2>3, <2>4, <1>2, SameDay, ZoneFields
<1> QED BY <1>4, <1>5, <1>6, <1>2, ZoneFields DEF date
-----------------------------------------------------------------------------
LEMMA WalkFields ==
  ASSUME NEW w \in WalkType
  PROVE  /\ w.zone \in ZoneType
         /\ w.stay.entry \in Int /\ w.stay.exit \in Int
         /\ w.start \in Int /\ w.end \in Int
         /\ w.cap.boundary \in {"calendar_day", "rolling_24h"}
BY DEF WalkType, StayType, DayCapType

(* Each day of a stay starts after the one before it, the entry's day first. *)
LEMMA StartsIncrease ==
  ASSUME NEW w \in WalkType, OrdinaryZone(w.zone), NEW i \in Nat
  PROVE  /\ StartOf(w, i) \in Int
         /\ StartOf(w, i) < StartOf(w, i + 1)
<1> DEFINE entry == w.stay.entry
           date == LocalDate(w.zone, entry)
<1>1. CASE w.cap.boundary = "rolling_24h"
  BY <1>1, WalkFields, NextMultiple, DayTicksPositive DEF StartOf, DayStart
<1>2. CASE w.cap.boundary = "calendar_day" /\ i = 0
  <2>1. entry < Midnight(w.zone, date + 1) /\ date \in Int
    BY WalkFields, NextMidnightIsAhead
  <2>2. StartOf(w, 0) = entry /\ StartOf(w, 1) = Midnight(w.zone, date + 1)
    BY <1>2 DEF StartOf, DayStart
  <2> QED BY <1>2, <2>1, <2>2, WalkFields
<1>3. CASE w.cap.boundary = "calendar_day" /\ i # 0
  <2>1. date \in Int /\ date + i \in Int
    BY WalkFields, NextMidnightIsAhead
  <2>2. /\ StartOf(w, i) = Midnight(w.zone, date + i)
        /\ StartOf(w, i + 1) = Midnight(w.zone, (date + i) + 1)
    BY <1>3, <2>1 DEF StartOf, DayStart
  <2> QED BY <2>1, <2>2, WalkFields, MidnightsIncrease
<1> QED BY <1>1, <1>2, <1>3, WalkFields

LEMMA PlainStart ==
  ASSUME NEW w \in WalkType, NEW i \in Nat
  PROVE  StartOf(w, i) \in Int
<1>1. \A t \in Int : LocalDate(w.zone, t) \in Int
  <2>1. \A t \in Int : WallClock(w.zone, t) \in Int
    BY WalkFields, ZoneFields DEF WallClock
  <2> QED
    BY <2>1, DayDivision DEF LocalDate
<1>2. \A d \in Int : Midnight(w.zone, d) \in Int
  BY WalkFields, ZoneFields, NextMultiple DEF Midnight
<1>3. LocalDate(w.zone, w.stay.entry) + i \in Int
  BY <1>1, WalkFields
<1> QED
  BY <1>2, <1>3, WalkFields, NextMultiple DEF StartOf, DayStart

(* _day_holding's guess is a day of the stay, however the date misleads it.  *)
LEMMA PlainGuess ==
  ASSUME NEW w \in WalkType, w.start > w.stay.entry
  PROVE  GuessedDay(w.cap, w.stay, w.zone, w.start) \in Nat
<1>1. CASE w.cap.boundary = "rolling_24h"
  <2>1. \A n \in Nat, d \in Nat \ {0} : n \div d \in Nat
    BY SMT
  <2> QED
    BY <1>1, <2>1, WalkFields, DayTicksPositive DEF GuessedDay
<1>2. CASE w.cap.boundary = "calendar_day"
  <2>1. \A t \in Int : LocalDate(w.zone, t) \in Int
    <3>1. \A t \in Int : WallClock(w.zone, t) \in Int
      BY WalkFields, ZoneFields DEF WallClock
    <3> QED
      BY <3>1, DayDivision DEF LocalDate
  <2>2. LocalDate(w.zone, w.start) \in Int /\ LocalDate(w.zone, w.stay.entry) \in Int
    BY <2>1, WalkFields
  <2> QED
    BY <1>2, <2>2 DEF GuessedDay, AtLeast
<1> QED
  BY <1>1, <1>2, WalkFields
-----------------------------------------------------------------------------
(* Where the walk is, between one turn of its loops and the next. *)
Finding ==
  /\ pc = "count" => walk.asked = "apply"
  /\ pc \in {"count", "pieces", "back", "forward"} => handed = << >>
  /\ pc \in {"back", "forward", "cut"} => walk.start < walk.end
  /\ pc = "back" => walk.start > walk.stay.entry
  /\ pc = "forward" => StartOf(walk, day) <= walk.start

Cutting ==
  pc = "cut" =>
    IF handed = << >>
    THEN StartOf(walk, day) <= walk.start /\ walk.start < StartOf(walk, day + 1)
    ELSE StartOf(walk, day) > walk.start /\ Reached = AtMost(StartOf(walk, day), walk.end)

WalkInv ==
  /\ day \in Nat
  /\ handed \in Seq(Int \X Int)
  /\ InOrder
  /\ Reached <= walk.end
  /\ Finding
  /\ Cutting
  /\ Answered => Reached = walk.end

IInv == walk \in Walk /\ (OrdinaryZone(walk.zone) => WalkInv)

(* A piece that starts where the last one ended keeps the pieces in order.   *)
LEMMA OneMorePiece ==
  ASSUME handed \in Seq(Int \X Int), InOrder, NEW p \in Int \X Int,
         p[1] = Reached, walk.start < walk.end => p[1] < p[2],
         handed' = Append(handed, p), walk' = walk
  PROVE  /\ handed' \in Seq(Int \X Int)
         /\ handed' # << >>
         /\ InOrder'
         /\ Reached' = p[2]
<1>1. /\ handed' \in Seq(Int \X Int)
      /\ Len(handed') = Len(handed) + 1
      /\ Len(handed) \in Nat
      /\ handed'[Len(handed) + 1] = p
      /\ \A i \in 1 .. Len(handed) : handed'[i] = handed[i]
  OBVIOUS
<1>2. handed' # << >>
  BY <1>1, SMTT(30)
<1>3. Reached' = p[2]
  BY <1>1, <1>2 DEF Reached
<1>4. p[1] = IF Len(handed) = 0 THEN walk.start ELSE handed[Len(handed)][2]
  BY <1>1 DEF Reached
<1>5. ASSUME NEW i \in 1 .. Len(handed')
      PROVE  /\ handed'[i][1] = IF i = 1 THEN walk.start ELSE handed'[i - 1][2]
             /\ walk.start < walk.end => handed'[i][1] < handed'[i][2]
  <2>1. CASE i = Len(handed) + 1
    <3>1. CASE Len(handed) = 0
      BY <1>1, <1>4, <2>1, <3>1
    <3>2. CASE Len(handed) # 0
      <4>1. Len(handed) \in 1 .. Len(handed) /\ i - 1 = Len(handed) /\ i # 1
        BY <1>1, <2>1, <3>2
      <4> QED BY <1>1, <1>4, <2>1, <3>2, <4>1
    <3> QED BY <3>1, <3>2
  <2>2. CASE i # Len(handed) + 1
    <3>1. i \in 1 .. Len(handed) /\ (i # 1 => i - 1 \in 1 .. Len(handed))
      BY <1>1, <2>2
    <3> QED BY <1>1, <3>1 DEF InOrder
  <2> QED BY <2>1, <2>2
<1> QED BY <1>1, <1>2, <1>3, <1>5 DEF InOrder

LEMMA WalkIsTyped ==
  ASSUME walk \in Walk
  PROVE  /\ walk \in WalkType
         /\ walk.stay.entry \in Int /\ walk.stay.exit \in Int
         /\ walk.start \in Int /\ walk.end \in Int
         /\ walk.stay.entry <= walk.start
         /\ walk.start <= walk.end
         /\ walk.end <= walk.stay.exit
BY WalkAssumption, WalkFields

LEMMA InitHolds == Init => IInv
<1> SUFFICES ASSUME Init PROVE IInv
  OBVIOUS
<1>1. /\ walk \in Walk /\ handed = << >> /\ day = 0 /\ pc \in {"count", "pieces"}
      /\ pc = "count" => walk.asked = "apply"
  BY DEF Init
<1>2. handed \in Seq(Int \X Int) /\ Len(handed) = 0
  BY <1>1
<1>3. InOrder
  BY <1>2 DEF InOrder
<1>4. Reached <= walk.end
  BY <1>1, WalkIsTyped DEF Reached
<1> QED BY <1>1, <1>2, <1>3, <1>4 DEF IInv, WalkInv, Finding, Cutting, Answered

(* The pieces handed out stay as they were when a step hands none out. *)
LEMMA SamePieces ==
  ASSUME UNCHANGED <<walk, handed>>
  PROVE  (InOrder <=> InOrder') /\ Reached' = Reached
BY DEF InOrder, Reached

(* A day of the part is cut from it: where it starts and where it ends.      *)
LEMMA CutKeepsOrder ==
  ASSUME walk \in Walk, OrdinaryZone(walk.zone), WalkInv, CutDay
  PROVE  WalkInv'
<1> DEFINE here == StartOf(walk, day)
           next == StartOf(walk, day + 1)
           p == <<AtLeast(DayInHand[1], walk.start), AtMost(DayInHand[2], walk.end)>>
<1>1. /\ pc = "cut" /\ day \in Nat /\ walk' = walk
      /\ walk.start < walk.end
  BY DEF CutDay, WalkInv, Finding
<1>2. /\ here \in Int /\ next \in Int /\ here < next
      /\ StartOf(walk, day + 2) \in Int
  BY <1>1, WalkIsTyped, StartsIncrease
<1>3. DayInHand = <<here, IF Another THEN next ELSE walk.stay.exit>>
  BY DEF DayInHand
<1>4. Another <=> walk.stay.exit > walk.stay.entry /\ next < walk.stay.exit
  BY DEF Another
<1>5. InsidePart <=> here < walk.end /\ DayInHand[2] > walk.start
  BY <1>3 DEF InsidePart
<1>6. DayInHand[2] \in Int /\ DayInHand[2] > walk.start
  <2>1. next > walk.start
    BY <1>1, <1>2, WalkIsTyped DEF WalkInv, Cutting
  <2> QED BY <1>1, <1>2, <1>3, <2>1, WalkIsTyped
<1>7. handed = << >> => here <= walk.start
  BY <1>1 DEF WalkInv, Cutting
<1>8. handed # << >> => here > walk.start /\ Reached = AtMost(here, walk.end)
  BY <1>1 DEF WalkInv, Cutting
<1>9. handed = << >> => Reached = walk.start
  BY DEF Reached
<1> HIDE DEF here, next
<1>10. CASE InsidePart
  <2>1. p \in Int \X Int /\ p[1] = Reached /\ p[1] < p[2]
    BY <1>1, <1>2, <1>3, <1>5, <1>6, <1>7, <1>8, <1>9, <1>10, WalkIsTyped
       DEF AtLeast, AtMost
  <2>2. handed' = Append(handed, p)
    BY <1>1, <1>10 DEF CutDay, HandOut
  <2>3. /\ handed' \in Seq(Int \X Int) /\ handed' # << >>
        /\ InOrder' /\ Reached' = p[2]
    BY <1>1, <2>1, <2>2, OneMorePiece DEF WalkInv
  <2>4. Reached' <= walk'.end
    BY <1>1, <1>6, <2>3, WalkIsTyped DEF AtMost
  <2>5. CASE Another
    <3>1. day' = day + 1 /\ pc' = "cut"
      BY <1>1, <1>10, <2>5 DEF CutDay
    <3>2. StartOf(walk, day)' = next
      BY <1>1, <3>1 DEF next, StartOf
    <3>3. next > walk.start /\ Reached' = AtMost(next, walk.end)
      BY <1>3, <1>6, <2>3, <2>5
    <3>4. Cutting'
      BY <1>1, <2>3, <3>2, <3>3 DEF Cutting
    <3>5. Finding' /\ ~Answered'
      BY <1>1, <3>1 DEF Finding, Answered
    <3> QED BY <1>1, <2>3, <2>4, <3>1, <3>4, <3>5 DEF WalkInv
  <2>6. CASE ~Another
    <3>1. day' = day /\ pc' = "answer"
      BY <1>1, <1>10, <2>6 DEF CutDay
    <3>2. Reached' = walk'.end
      BY <1>1, <1>2, <1>3, <1>4, <2>3, <2>6, WalkIsTyped DEF AtMost
    <3>3. Finding' /\ Cutting'
      BY <3>1 DEF Finding, Cutting
    <3> QED BY <1>1, <2>3, <2>4, <3>1, <3>2, <3>3 DEF WalkInv
  <2> QED BY <2>5, <2>6
<1>11. CASE ~InsidePart
  <2>1. pc' = "answer" /\ UNCHANGED <<walk, day, handed>>
    BY <1>1, <1>11 DEF CutDay
  <2>2. here >= walk.end
    BY <1>2, <1>5, <1>6, <1>11, WalkIsTyped
  <2>3. Reached = walk.end
    BY <1>1, <1>2, <1>7, <1>8, <2>2, WalkIsTyped DEF AtMost
  <2>4. InOrder' /\ Reached' = walk'.end
    BY <2>1, <2>3, SamePieces DEF WalkInv
  <2> QED BY <1>1, <2>1, <2>4, WalkIsTyped DEF WalkInv, Finding, Cutting
<1> QED BY <1>10, <1>11

(* Every step keeps the walk's place: each action in turn. *)
LEMMA StepHolds == IInv /\ [Next]_vars => IInv'
<1> SUFFICES ASSUME IInv, [Next]_vars PROVE IInv'
  OBVIOUS
<1>1. walk \in Walk /\ walk' = walk
  BY DEF IInv, Next, Step, Finished, CountDay, ZeroLength, Guess, Back, Forward,
         CutDay, Answer, vars
<1> SUFFICES ASSUME OrdinaryZone(walk.zone) PROVE WalkInv'
  BY <1>1 DEF IInv
<1>2. WalkInv
  BY DEF IInv
<1>3. CASE CountDay
  <2>1. /\ handed' = handed /\ handed = << >> /\ day' \in Nat
        /\ pc' \in {"count", "answer", "pieces"}
        /\ pc' = "answer" => walk.rate = Flat
        /\ walk.asked = "apply"
    BY <1>2, <1>3 DEF CountDay, WalkInv, Finding
  <2> QED BY <1>1, <1>2, <2>1, SamePieces DEF WalkInv, Finding, Cutting, Answered
<1>4. CASE ZeroLength
  <2> DEFINE p == <<walk.start, walk.end>>
  <2>1. /\ handed = << >> /\ handed' = Append(handed, p)
        /\ day' = day /\ pc' = "answer" /\ walk.end = walk.start
    BY <1>1, <1>2, <1>4, WalkIsTyped DEF ZeroLength, HandOut, WalkInv, Finding
  <2>2. p \in Int \X Int /\ p[1] = Reached /\ ~(walk.start < walk.end)
    BY <1>1, <2>1, WalkIsTyped DEF Reached
  <2>3. handed' \in Seq(Int \X Int) /\ InOrder' /\ Reached' = walk.end
    BY <1>1, <1>2, <2>1, <2>2, OneMorePiece DEF WalkInv
  <2> QED BY <1>1, <1>2, <2>1, <2>3, WalkIsTyped DEF WalkInv, Finding, Cutting, Answered
<1>5. CASE Guess
  <2>1. /\ UNCHANGED <<walk, handed>> /\ handed = << >>
        /\ walk.end > walk.start
    BY <1>2, <1>5 DEF Guess, WalkInv, Finding
  <2>2. CASE walk.start <= walk.stay.entry
    <3>1. day' = 0 /\ pc' = "cut"
      BY <1>5, <2>2 DEF Guess
    <3>2. StartOf(walk, 0) = walk.start /\ StartOf(walk, 0) < StartOf(walk, 1)
      <4>1. walk \in WalkType /\ OrdinaryZone(walk.zone) /\ 0 \in Nat /\ 0 + 1 = 1
        BY <1>1, WalkIsTyped
      <4>2. StartOf(walk, 0) < StartOf(walk, 1)
        BY <4>1, StartsIncrease, Zenon
      <4>3. StartOf(walk, 0) = walk.stay.entry
        BY DEF StartOf, DayStart
      <4>4. walk.start = walk.stay.entry
        BY <1>1, <2>2, WalkIsTyped
      <4> QED
        BY <4>2, <4>3, <4>4
    <3> QED BY <1>1, <1>2, <2>1, <3>1, <3>2, SamePieces, WalkIsTyped
            DEF WalkInv, Finding, Cutting, Answered, StartOf
  <2>3. CASE ~(walk.start <= walk.stay.entry)
    <3>1. day' \in Nat /\ pc' = "back"
      BY <1>1, <1>5, <2>3, PlainGuess, WalkIsTyped DEF Guess
    <3> QED BY <1>1, <1>2, <2>1, <2>3, <3>1, SamePieces, WalkIsTyped
            DEF WalkInv, Finding, Cutting, Answered
  <2> QED BY <2>2, <2>3
<1>6. CASE Back
  <2>1. /\ UNCHANGED <<walk, handed>> /\ handed = << >> /\ day \in Nat
        /\ walk.end > walk.start /\ walk.start > walk.stay.entry
    BY <1>1, <1>2, <1>6, WalkIsTyped DEF Back, WalkInv, Finding
  <2>2. CASE day > 0 /\ StartOf(walk, day) > walk.start
    BY <1>1, <1>2, <1>6, <2>1, <2>2, SamePieces, WalkIsTyped
       DEF Back, WalkInv, Finding, Cutting, Answered
  <2>3. CASE ~(day > 0 /\ StartOf(walk, day) > walk.start)
    <3>1. day' = day /\ pc' = "forward"
      BY <1>6, <2>3 DEF Back
    <3>2. StartOf(walk, day) <= walk.start
      BY <1>1, <2>1, <2>3, WalkIsTyped, StartsIncrease, SMTT(30) DEF StartOf, DayStart
    <3> QED BY <1>1, <1>2, <2>1, <3>1, <3>2, SamePieces, WalkIsTyped
            DEF WalkInv, Finding, Cutting, Answered, StartOf
  <2> QED BY <2>2, <2>3
<1>7. CASE Forward
  <2>1. /\ UNCHANGED <<walk, handed>> /\ handed = << >> /\ day \in Nat
        /\ walk.end > walk.start
        /\ StartOf(walk, day) <= walk.start
    BY <1>1, <1>2, <1>7, WalkIsTyped DEF Forward, WalkInv, Finding
  <2>2. CASE StartOf(walk, day + 1) <= walk.start
    BY <1>1, <1>2, <1>7, <2>1, <2>2, SamePieces, WalkIsTyped
       DEF Forward, WalkInv, Finding, Cutting, Answered, StartOf
  <2>3. CASE ~(StartOf(walk, day + 1) <= walk.start)
    <3>1. walk.start < StartOf(walk, day + 1)
      <4>1. day + 1 \in Nat
        BY <2>1
      <4> QED BY <1>1, <2>3, <4>1, WalkIsTyped, StartsIncrease
    <3>2. day' = day /\ pc' = "cut"
      BY <1>7, <2>3 DEF Forward
    <3> QED BY <1>1, <1>2, <2>1, <3>1, <3>2, SamePieces, WalkIsTyped
            DEF WalkInv, Finding, Cutting, Answered, StartOf
  <2> QED BY <2>2, <2>3
<1>8. CASE CutDay
  BY <1>1, <1>2, <1>8, CutKeepsOrder
<1>9. CASE Answer
  <2>1. /\ UNCHANGED <<walk, day, handed>>
        /\ pc = "answer" /\ pc' \in {"done", "failed"}
    BY <1>9 DEF Answer
  <2> QED BY <1>1, <1>2, <2>1, SamePieces DEF WalkInv, Finding, Cutting, Answered
<1>10. CASE UNCHANGED vars
  <2>1. UNCHANGED <<walk, day, handed, pc>>
    BY <1>10 DEF vars
  <2> QED BY <1>1, <1>2, <2>1, SamePieces
          DEF WalkInv, Finding, Cutting, Answered, StartOf
<1> QED BY <1>3, <1>4, <1>5, <1>6, <1>7, <1>8, <1>9, <1>10 DEF Next, Step, Finished

(* In every stay, zone and cap, where the zone's dates follow one another:  *)
(* the pieces daily_max.pieces hands out are the part it was asked for, cut *)
(* into days, with nothing lost, repeated or left over.                     *)
THEOREM NothingLost == Spec => []PartIsCut
<1>1. IInv => PartIsCut
  BY DEF IInv, WalkInv, PartIsCut
<1> QED BY <1>1, InitHolds, StepHolds, PTL DEF Spec

(* And the day _day_holding finds is the day the part starts in.            *)
THEOREM RightDay == Spec => []DayHoldsStart
<1>1. IInv => DayHoldsStart
  BY DEF IInv, WalkInv, Cutting, DayHoldsStart
<1> QED BY <1>1, InitHolds, StepHolds, PTL DEF Spec
-----------------------------------------------------------------------------
(* Rounding up is a whole number, and never goes down as its argument grows. *)
LEMMA RoundingUp ==
  ASSUME NEW d \in Nat \ {0}
  PROVE  /\ \A n \in Int : CeilDiv(n, d) \in Int
         /\ \A n \in Nat : CeilDiv(n, d) \in Nat
         /\ \A m, n \in Int : m <= n => CeilDiv(m, d) <= CeilDiv(n, d)
<1>1. \A n \in Int : (-n) \div d \in Int
  BY SMT
<1>2. \A n \in Nat : (-n) \div d <= 0
  BY SMT
<1>3. ASSUME NEW m \in Int, NEW n \in Int, m <= n
      PROVE  (-n) \div d <= (-m) \div d
  BY <1>3, SMT
<1> QED
  BY <1>1, <1>2, <1>3 DEF CeilDiv

LEMMA ProductGrows ==
  ASSUME NEW a \in Nat, NEW b \in Nat, NEW c \in Nat, a <= b
  PROVE  a * c \in Nat /\ b * c \in Nat /\ a * c <= b * c
BY SMT

(* What is charged never goes down as the stay goes on. *)
LEMMA ChargeGrows ==
  ASSUME NEW rate \in RateType, NEW m \in Int, NEW n \in Int, m <= n
  PROVE  /\ ChargedBy(rate, m) \in Nat
         /\ ChargedBy(rate, n) \in Nat
         /\ ChargedBy(rate, m) <= ChargedBy(rate, n)
<1>1. /\ rate.first_len \in Nat /\ rate.first \in Nat
      /\ rate.repeat_len \in Nat \ {0} /\ rate.repeat \in Nat
  BY DEF RateType
<1> DEFINE up(x) == CeilDiv(x, rate.repeat_len)
<1>5. /\ \A x \in Nat : up(x) \in Nat
      /\ \A x, y \in Int : x <= y => up(x) <= up(y)
  BY <1>1, RoundingUp
<1>6. \A x : Repeats(rate, x) = IF x <= rate.first_len THEN 0 ELSE up(x - rate.first_len)
  BY DEF Repeats
<1> HIDE DEF up
<1>2. /\ Repeats(rate, m) \in Nat /\ Repeats(rate, n) \in Nat
      /\ Repeats(rate, m) <= Repeats(rate, n)
  <2>1. CASE n <= rate.first_len
    BY <1>1, <1>6, <2>1
  <2>2. CASE m <= rate.first_len /\ ~(n <= rate.first_len)
    <3>1. n - rate.first_len \in Nat
      BY <1>1, <2>2
    <3>2. up(n - rate.first_len) \in Nat
      BY <1>5, <3>1
    <3> QED
      BY <1>1, <1>6, <2>2, <3>2
  <2>3. CASE ~(m <= rate.first_len)
    <3>1. /\ m - rate.first_len \in Nat /\ n - rate.first_len \in Nat
          /\ m - rate.first_len <= n - rate.first_len /\ ~(n <= rate.first_len)
      BY <1>1, <2>3
    <3> QED
      BY <1>1, <1>5, <1>6, <2>3, <3>1
  <2> QED
    BY <2>1, <2>2, <2>3
<1> DEFINE p == Repeats(rate, m) * rate.repeat
           q == Repeats(rate, n) * rate.repeat
<1>3. p \in Nat /\ q \in Nat /\ p <= q
  BY <1>1, <1>2, ProductGrows
<1>4. ChargedBy(rate, m) = rate.first + p /\ ChargedBy(rate, n) = rate.first + q
  BY DEF ChargedBy
<1> HIDE DEF p, q
<1> QED
  BY <1>1, <1>3, <1>4

LEMMA ChargesByInstant ==
  ASSUME NEW stay \in StayType, NEW rate \in RateType, NEW t \in Int, NEW u \in Int, t <= u
  PROVE  /\ ChargedBy(rate, MinutesUntil(stay.entry, t)) \in Nat
         /\ ChargedBy(rate, MinutesUntil(stay.entry, u)) \in Nat
         /\ ChargedBy(rate, MinutesUntil(stay.entry, t))
              <= ChargedBy(rate, MinutesUntil(stay.entry, u))
<1>1. /\ stay.entry \in Int /\ t - stay.entry \in Int /\ u - stay.entry \in Int
      /\ t - stay.entry <= u - stay.entry
  BY DEF StayType
<1>2. /\ MinutesUntil(stay.entry, t) \in Int /\ MinutesUntil(stay.entry, u) \in Int
      /\ MinutesUntil(stay.entry, t) <= MinutesUntil(stay.entry, u)
  BY <1>1, ClockAssumption, RoundingUp DEF MinutesUntil
<1> QED
  BY <1>2, ChargeGrows

(* A part of a stay is charged what is owed at its end less what was owed at *)
(* its start, so parts end to end are charged what the whole is.            *)
LEMMA PartsEndToEnd ==
  ASSUME NEW stay \in StayType, NEW rate \in RateType,
         NEW t \in Int, NEW u \in Int, t <= u
  PROVE  /\ ChargeIn(stay, rate, t, u) \in Nat
         /\ \A v \in Int : (u <= v /\ u # stay.entry) =>
              ChargeIn(stay, rate, t, v)
                = ChargeIn(stay, rate, t, u) + ChargeIn(stay, rate, u, v)
<1> DEFINE owed(x) == ChargedBy(rate, MinutesUntil(stay.entry, x))
<1>1. \A x, y \in Int : x <= y => owed(x) \in Nat /\ owed(y) \in Nat /\ owed(x) <= owed(y)
  BY ChargesByInstant
<1>2. \A x, y \in Int : ChargeIn(stay, rate, x, y) = owed(y) - (IF x = stay.entry THEN 0 ELSE owed(x))
  BY DEF ChargeIn
<1>3. stay.entry \in Int
  BY DEF StayType
<1> HIDE DEF owed
<1>4. /\ t <= t /\ u <= u /\ owed(t) \in Nat /\ owed(u) \in Nat /\ owed(t) <= owed(u)
  BY <1>1
<1>5. ChargeIn(stay, rate, t, u) \in Nat
  BY <1>2, <1>4
<1>6. ASSUME NEW v \in Int, u <= v, u # stay.entry
      PROVE  ChargeIn(stay, rate, t, v) = ChargeIn(stay, rate, t, u) + ChargeIn(stay, rate, u, v)
  <2>1. owed(v) \in Nat
    BY <1>1, <1>6
  <2> QED
    BY <1>2, <1>4, <1>6, <2>1
<1> QED
  BY <1>5, <1>6

LEMMA PartsAreCharged ==
  ASSUME NEW stay \in StayType, NEW rate \in RateType, NEW t \in Int, NEW u \in Int
  PROVE  ChargeIn(stay, rate, t, u) \in Int
<1>1. t <= t /\ u <= u
  OBVIOUS
<1>2. /\ ChargedBy(rate, MinutesUntil(stay.entry, t)) \in Nat
      /\ ChargedBy(rate, MinutesUntil(stay.entry, u)) \in Nat
  BY <1>1, ChargesByInstant
<1> QED
  BY <1>2 DEF ChargeIn
-----------------------------------------------------------------------------
AmountsType ==
  [total : Int, smallest : Int, runs : Seq(Int \X Nat), more : Nat, more_total : Int]

(* The three things Amounts.add does with an amount: it is one more of the   *)
(* run in hand, or the first of a run of its own, or one of the rest.       *)
OneMoreOfTheRun(a, t, x) ==
  /\ a.more = 0 /\ Len(a.runs) > 0 /\ a.runs[Len(a.runs)][1] = x
  /\ t.runs = [a.runs EXCEPT ![Len(a.runs)] = <<x, a.runs[Len(a.runs)][2] + 1>>]
  /\ t.more = 0 /\ t.more_total = a.more_total

ARunOfItsOwn(a, t, x) ==
  /\ a.more = 0 /\ (Len(a.runs) > 0 => a.runs[Len(a.runs)][1] # x)
  /\ Len(a.runs) < RUNS_SPELLED_OUT
  /\ t.runs = Append(a.runs, <<x, 1>>)
  /\ t.more = 0 /\ t.more_total = a.more_total

OneOfTheRest(a, t, x) ==
  /\ a.more = 0 => /\ Len(a.runs) > 0 => a.runs[Len(a.runs)][1] # x
                   /\ Len(a.runs) >= RUNS_SPELLED_OUT
  /\ t.runs = a.runs
  /\ t.more = a.more + 1 /\ t.more_total = a.more_total + x

LEMMA TallyStep ==
  ASSUME NEW a \in AmountsType, NEW x \in Int
  PROVE  /\ Tallied(a, x) \in AmountsType
         /\ Tallied(a, x).total = a.total + x
         /\ \/ OneMoreOfTheRun(a, Tallied(a, x), x)
            \/ ARunOfItsOwn(a, Tallied(a, x), x)
            \/ OneOfTheRest(a, Tallied(a, x), x)
<1> DEFINE t == Tallied(a, x)
           k == Len(a.runs)
           more == a.total + x
           least == IF a.smallest = NOTHING THEN x ELSE AtMost(a.smallest, x)
           sum == [a EXCEPT !.total = more, !.smallest = least]
           same == a.more = 0 /\ k > 0 /\ a.runs[k][1] = x
           own == a.more = 0 /\ k < RUNS_SPELLED_OUT
<1>1. /\ a.runs \in Seq(Int \X Nat) /\ a.more \in Nat /\ a.more_total \in Int
      /\ a.total \in Int /\ a.smallest \in Int /\ k \in Nat
      /\ RUNS_SPELLED_OUT \in Nat
  BY WalkAssumption DEF AmountsType
<1>2. /\ sum \in AmountsType /\ sum.total = a.total + x
      /\ sum.runs = a.runs /\ sum.more = a.more /\ sum.more_total = a.more_total
  <2>1. more \in Int /\ least \in Int
    BY <1>1 DEF AtMost
  <2> HIDE DEF more, least
  <2>2. sum = [total |-> more, smallest |-> least, runs |-> a.runs, more |-> a.more,
               more_total |-> a.more_total]
    <3> DEFINE b == [a EXCEPT !.total = more]
    <3>1. b = [total |-> more, smallest |-> a.smallest, runs |-> a.runs, more |-> a.more,
               more_total |-> a.more_total]
      BY DEF AmountsType
    <3>2. sum = [b EXCEPT !.smallest = least]
      BY Zenon
    <3> HIDE DEF b
    <3> QED
      BY <3>1, <3>2
  <2> HIDE DEF sum
  <2>3. sum.total = a.total + x
    BY <2>2 DEF more
  <2> QED
    BY <1>1, <2>1, <2>2, <2>3 DEF AmountsType
<1>3. t = IF same THEN [sum EXCEPT !.runs[k] = <<x, @[2] + 1>>]
          ELSE IF own THEN [sum EXCEPT !.runs = Append(@, <<x, 1>>)]
          ELSE [sum EXCEPT !.more = @ + 1, !.more_total = @ + x]
  BY DEF Tallied
<1> HIDE DEF t, sum
<1>4. CASE same
  <2> DEFINE longer == [a.runs EXCEPT ![k] = <<x, a.runs[k][2] + 1>>]
  <2>1. t = [sum EXCEPT !.runs = longer]
    BY <1>2, <1>3, <1>4 DEF AmountsType
  <2>2. k \in 1 .. Len(a.runs) /\ a.runs[k][2] + 1 \in Nat
    BY <1>1, <1>4
  <2>3. longer \in Seq(Int \X Nat)
    BY <1>1, <2>2
  <2> HIDE DEF longer
  <2>4. t \in AmountsType /\ t.total = sum.total /\ t.runs = longer
        /\ t.more = sum.more /\ t.more_total = sum.more_total
    BY <1>2, <2>1, <2>3 DEF AmountsType
  <2> QED
    BY <1>2, <1>4, <2>4 DEF OneMoreOfTheRun, longer, t
<1>5. CASE ~same /\ own
  <2> DEFINE longer == Append(a.runs, <<x, 1>>)
  <2>1. t = [sum EXCEPT !.runs = longer]
    BY <1>2, <1>3, <1>5
  <2>2. longer \in Seq(Int \X Nat)
    BY <1>1
  <2> HIDE DEF longer
  <2>3. t \in AmountsType /\ t.total = sum.total /\ t.runs = longer
        /\ t.more = sum.more /\ t.more_total = sum.more_total
    BY <1>2, <2>1, <2>2 DEF AmountsType
  <2> QED
    BY <1>2, <1>5, <2>3 DEF ARunOfItsOwn, longer, t
<1>6. CASE ~same /\ ~own
  <2>1. t \in AmountsType /\ t.total = sum.total /\ t.runs = sum.runs
        /\ t.more = sum.more + 1 /\ t.more_total = sum.more_total + x
    <3> DEFINE m == sum.more + 1
               n == sum.more_total + x
    <3>1. m \in Nat /\ n \in Int
      BY <1>1, <1>2
    <3>2. t = [sum EXCEPT !.more = m, !.more_total = n]
      BY <1>3, <1>6
    <3> HIDE DEF m, n
    <3>3. t = [total |-> sum.total, smallest |-> sum.smallest, runs |-> sum.runs,
               more |-> m, more_total |-> n]
      BY <1>2, <3>2 DEF AmountsType
    <3>4. t.more = sum.more + 1 /\ t.more_total = sum.more_total + x
      BY <3>3 DEF m, n
    <3> QED
      BY <1>2, <3>1, <3>3, <3>4 DEF AmountsType
  <2> QED
    BY <1>1, <1>2, <1>6, <2>1 DEF OneOfTheRest, t
<1> QED
  BY <1>4, <1>5, <1>6
-----------------------------------------------------------------------------
(* A piece that lies in one day of the stay, or is no time at all. *)
InADay(p) ==
  \/ p[2] <= p[1]
  \/ \E k \in Nat : StartOf(walk, k) <= p[1] /\ p[2] <= StartOf(walk, k + 1)

(* A piece that goes on from the last, and starts at the entry only if it is *)
(* the first.                                                               *)
GoesOn(p) ==
  /\ p \in Int \X Int /\ InADay(p)
  /\ p[1] = Reached /\ p[1] <= p[2]
  /\ handed # << >> => walk.start < p[1]

LEMMA CutGoesOn ==
  ASSUME walk \in Walk, OrdinaryZone(walk.zone), WalkInv, CutDay, InsidePart
  PROVE  GoesOn(<<AtLeast(DayInHand[1], walk.start), AtMost(DayInHand[2], walk.end)>>)
<1> DEFINE here == StartOf(walk, day)
           next == StartOf(walk, day + 1)
<1>1. /\ pc = "cut" /\ day \in Nat /\ walk.start < walk.end
  BY DEF CutDay, WalkInv, Finding
<1>2. /\ here \in Int /\ next \in Int /\ here < next
  BY <1>1, WalkIsTyped, StartsIncrease
<1>3. DayInHand = <<here, IF Another THEN next ELSE walk.stay.exit>>
  BY DEF DayInHand
<1>4. here < walk.end /\ DayInHand[2] > walk.start
  BY <1>3 DEF InsidePart
<1>5. handed = << >> => here <= walk.start /\ Reached = walk.start
  BY <1>1 DEF WalkInv, Cutting, Reached
<1>6. handed # << >> => here > walk.start /\ Reached = AtMost(here, walk.end)
  BY <1>1 DEF WalkInv, Cutting
<1>7. next > walk.start
  BY <1>1, <1>2, WalkIsTyped DEF WalkInv, Cutting
<1>8. DayInHand[1] = here /\ DayInHand[2] \in {next, walk.stay.exit}
  BY <1>3
<1>10. DayInHand[2] <= next
  <2>1. ~Another => next >= walk.stay.exit
    BY <1>1, <1>2, WalkIsTyped DEF Another
  <2> QED
    BY <1>2, <1>3, <2>1
<1>9. DayInHand[2] \in Int /\ (DayInHand[2] > here)
  BY <1>1, <1>2, <1>4, <1>8, WalkIsTyped
<1> DEFINE p == <<AtLeast(DayInHand[1], walk.start), AtMost(DayInHand[2], walk.end)>>
<1>11. InADay(p)
  <2>1. /\ AtLeast(DayInHand[1], walk.start) \in Int
        /\ here <= AtLeast(DayInHand[1], walk.start)
        /\ AtMost(DayInHand[2], walk.end) <= next
    BY <1>2, <1>8, <1>9, <1>10, WalkIsTyped DEF AtLeast, AtMost
  <2> QED
    BY <1>1, <2>1 DEF InADay
<1>12. p[1] = AtLeast(DayInHand[1], walk.start) /\ p[2] = AtMost(DayInHand[2], walk.end)
  OBVIOUS
<1> HIDE DEF here, next
<1>13. /\ AtLeast(DayInHand[1], walk.start) \in Int /\ AtMost(DayInHand[2], walk.end) \in Int
       /\ AtLeast(DayInHand[1], walk.start) = Reached
       /\ Reached <= AtMost(DayInHand[2], walk.end)
       /\ handed # << >> => walk.start < Reached
  BY <1>1, <1>2, <1>4, <1>5, <1>6, <1>8, <1>9, WalkIsTyped DEF AtLeast, AtMost
<1>14. p \in Int \X Int
  BY <1>13
<1> HIDE DEF p
<1>15. GoesOn(p)
  BY <1>11, <1>12, <1>13, <1>14 DEF GoesOn
<1> QED
  BY <1>15 DEF p

(* A step hands out nothing, or one piece that goes on from the last.        *)
LEMMA EachStepHandsOut ==
  ASSUME IInv, OrdinaryZone(walk.zone), [Next]_vars
  PROVE  /\ walk' = walk /\ walk \in Walk
         /\ \/ UNCHANGED <<handed, amounts>>
            \/ \E p \in Int \X Int : GoesOn(p) /\ HandOut(p)
<1>1. walk \in Walk /\ WalkInv
  BY DEF IInv
<1>2. CASE CutDay
  <2>1. CASE InsidePart
    BY <1>1, <1>2, <2>1, CutGoesOn DEF CutDay, GoesOn
  <2>2. CASE ~InsidePart
    BY <1>1, <1>2, <2>2 DEF CutDay
  <2> QED
    BY <2>1, <2>2
<1>3. CASE ZeroLength
  <2>1. /\ handed = << >> /\ walk.end = walk.start /\ HandOut(<<walk.start, walk.end>>)
        /\ walk' = walk
    BY <1>1, <1>3, WalkIsTyped DEF ZeroLength, WalkInv, Finding
  <2>2. GoesOn(<<walk.start, walk.end>>)
    BY <1>1, <2>1, WalkIsTyped DEF GoesOn, Reached, InADay
  <2> QED
    BY <1>1, <2>1, <2>2 DEF GoesOn
<1> QED
  BY <1>1, <1>2, <1>3
     DEF Next, Step, Finished, vars, CountDay, Guess, Back, Forward, Answer

(* What each of some pieces was charged, and what they come to. *)
Charges(stay, rate, parts) ==
  [i \in 1 .. Len(parts) |-> ChargeIn(stay, rate, parts[i][1], parts[i][2])]
Charged(stay, rate, parts) ==
  SumFunctionOnSet(Charges(stay, rate, parts), 1 .. Len(parts))

LEMMA ChargesExtend ==
  ASSUME NEW stay \in StayType, NEW rate \in RateType,
         NEW parts \in Seq(Int \X Int), NEW p \in Int \X Int
  PROVE  /\ Charged(stay, rate, parts) \in Int
         /\ Charged(stay, rate, Append(parts, p))
              = Charged(stay, rate, parts) + ChargeIn(stay, rate, p[1], p[2])
<1> DEFINE more == Append(parts, p)
           n == Len(more)
           g == Charges(stay, rate, parts)
           h == Charges(stay, rate, more)
<1>1. /\ n \in Int /\ 1 \in Int /\ 1 <= n /\ n - 1 = Len(parts) /\ more[n] = p
      /\ \A i \in 1 .. n - 1 : more[i] = parts[i]
      /\ \A i \in 1 .. n : more[i] \in Int \X Int
  OBVIOUS
<1>2. \A q \in Int \X Int : ChargeIn(stay, rate, q[1], q[2]) \in Int
  BY PartsAreCharged
<1>3. \A i \in 1 .. n - 1 : g[i] = ChargeIn(stay, rate, parts[i][1], parts[i][2])
  BY <1>1 DEF Charges
<1>4. \A i \in 1 .. n : h[i] = ChargeIn(stay, rate, more[i][1], more[i][2])
  BY DEF Charges
<1> HIDE DEF more, n, g, h
<1>5. \A i \in 1 .. n - 1 : g[i] = h[i]
  <2> TAKE i \in 1 .. n - 1
  <2>1. i \in 1 .. n /\ more[i] = parts[i]
    BY <1>1
  <2> QED
    BY <1>3, <1>4, <2>1
<1>6. \A i \in 1 .. n : h[i] \in Int
  <2> TAKE i \in 1 .. n
  <2>1. more[i] \in Int \X Int
    BY <1>1
  <2>2. ChargeIn(stay, rate, more[i][1], more[i][2]) \in Int
    BY <1>2, <2>1
  <2> QED
    BY <1>4, <2>2
<1>7. h[n] = ChargeIn(stay, rate, p[1], p[2])
  BY <1>1, <1>4
<1>8. /\ SumFunctionOnSet(g, 1 .. n - 1) \in Int
      /\ SumFunctionOnSet(h, 1 .. n) = SumFunctionOnSet(g, 1 .. n - 1) + h[n]
  <2>1. Extends(g, h, 1, n)
    BY <1>1, <1>5, <1>6 DEF Extends
  <2> QED
    BY <2>1, SumExtends
<1> QED
  BY <1>1, <1>7, <1>8 DEF Charged, g, h, n, more

HandedCharge == Charged(walk.stay, walk.rate, handed)

AddsUp ==
  /\ HandedCharge = IF handed = << >> THEN 0
                    ELSE ChargeIn(walk.stay, walk.rate, walk.start, Reached)
  /\ amounts.total >= 0
  /\ amounts.total <= HandedCharge
  /\ amounts.total <= walk.cap.most * Len(handed)

MoneyInv ==
  /\ IInv
  /\ amounts \in AmountsType
  /\ (OrdinaryZone(walk.zone) /\ walk.rate # Flat) => AddsUp

LEMMA WalkMoney ==
  ASSUME walk \in Walk, walk.rate # Flat
  PROVE  walk.stay \in StayType /\ walk.rate \in RateType /\ walk.cap.most \in Nat
BY WalkAssumption DEF WalkType, DayCapType

(* What a piece pays is some of what it was charged, and never over the max.  *)
LEMMA PaidIsLess ==
  ASSUME walk \in Walk, walk.rate # Flat, NEW p \in Int \X Int
  PROVE  /\ Paid(walk, p) \in Int
         /\ p[1] <= p[2] =>
              /\ 0 <= Paid(walk, p)
              /\ Paid(walk, p) <= ChargeIn(walk.stay, walk.rate, p[1], p[2])
              /\ Paid(walk, p) <= walk.cap.most
<1> DEFINE charge == ChargeIn(walk.stay, walk.rate, p[1], p[2])
<1>1. charge \in Int /\ (p[1] <= p[2] => charge \in Nat)
  BY WalkMoney, PartsAreCharged, PartsEndToEnd
<1>2. Paid(walk, p) = AtMost(walk.cap.most, charge)
  BY DEF Paid
<1> HIDE DEF charge
<1>3. walk.cap.most \in Nat
  BY WalkMoney
<1>4. /\ AtMost(walk.cap.most, charge) \in Int
      /\ p[1] <= p[2] => /\ 0 <= AtMost(walk.cap.most, charge)
                         /\ AtMost(walk.cap.most, charge) <= charge
                         /\ AtMost(walk.cap.most, charge) <= walk.cap.most
  BY <1>1, <1>3 DEF AtMost
<1> QED
  BY <1>2, <1>4 DEF charge

(* A piece more is charged what the part it completes was charged more.      *)
LEMMA HandingOutAddsUp ==
  ASSUME walk \in Walk, walk.rate # Flat, walk' = walk, WalkInv, AddsUp,
         amounts \in AmountsType, NEW p \in Int \X Int, GoesOn(p), HandOut(p)
  PROVE  AddsUp'
<1> DEFINE n == Len(handed)
           charge == ChargeIn(walk.stay, walk.rate, p[1], p[2])
           paid == Paid(walk, p)
<1>1. /\ handed \in Seq(Int \X Int) /\ InOrder
      /\ handed' = Append(handed, p) /\ amounts' = Tallied(amounts, paid)
  BY DEF HandOut, WalkInv
<1>2. /\ n \in Nat /\ Len(handed') = n + 1 /\ handed' # << >>
  BY <1>1
<1>3. Reached' = p[2]
  BY <1>1, SMTT(30) DEF Reached
<1>4. /\ p[1] \in Int /\ p[2] \in Int /\ p[1] = Reached /\ p[1] <= p[2]
      /\ handed # << >> => walk.start < p[1]
      /\ handed = << >> => p[1] = walk.start
  BY DEF GoesOn, Reached
<1>5. paid \in Int /\ 0 <= paid /\ paid <= charge /\ paid <= walk.cap.most
  BY <1>4, PaidIsLess
<1>6. /\ walk.stay \in StayType /\ walk.rate \in RateType /\ walk.cap.most \in Nat
      /\ charge \in Int
  BY WalkMoney, PartsAreCharged, <1>4
<1>7. /\ HandedCharge \in Int
      /\ HandedCharge' = HandedCharge + charge
  BY <1>1, <1>6, ChargesExtend DEF HandedCharge
<1>8. amounts'.total = amounts.total + paid /\ amounts.total \in Int
  BY <1>1, <1>5, TallyStep DEF AmountsType
<1>9. HandedCharge' = ChargeIn(walk.stay, walk.rate, walk.start, p[2])
  <2>1. CASE handed = << >>
    BY <1>4, <1>6, <1>7, <2>1 DEF AddsUp
  <2>2. CASE handed # << >>
    <3>1. walk.start \in Int /\ walk.start <= p[1] /\ p[1] # walk.stay.entry
      BY <1>4, <2>2, WalkIsTyped
    <3>2. ChargeIn(walk.stay, walk.rate, walk.start, p[2])
            = ChargeIn(walk.stay, walk.rate, walk.start, p[1]) + charge
      BY <1>4, <1>6, <3>1, PartsEndToEnd
    <3>3. HandedCharge = ChargeIn(walk.stay, walk.rate, walk.start, p[1])
      BY <1>4, <2>2 DEF AddsUp
    <3> QED
      BY <1>7, <3>2, <3>3
  <2> QED
    BY <2>1, <2>2
<1> HIDE DEF n, charge, paid
<1>10. amounts.total >= 0 /\ amounts.total <= HandedCharge /\ amounts.total <= walk.cap.most * n
  BY DEF AddsUp, n
<1>11. walk.cap.most * n \in Int /\ walk.cap.most * (n + 1) = walk.cap.most * n + walk.cap.most
  <2>1. \A a, b \in Nat : a * b \in Int /\ a * (b + 1) = a * b + a
    BY SMT
  <2> QED
    BY <1>2, <1>6, <2>1
<1>12. /\ amounts'.total >= 0 /\ amounts'.total <= HandedCharge'
       /\ amounts'.total <= walk.cap.most * (n + 1)
  <2> DEFINE y == walk.cap.most * n
             z == walk.cap.most * (n + 1)
  <2>1. y \in Int /\ z = y + walk.cap.most /\ amounts.total <= y
    BY <1>10, <1>11
  <2> HIDE DEF y, z
  <2>2. amounts'.total <= z
    BY <1>5, <1>6, <1>8, <2>1
  <2>3. amounts'.total >= 0 /\ amounts'.total <= HandedCharge'
    BY <1>5, <1>6, <1>7, <1>8, <1>10
  <2> QED
    BY <2>2, <2>3 DEF z
<1>13. HandedCharge' = (IF handed = << >> THEN 0
                        ELSE ChargeIn(walk.stay, walk.rate, walk.start, Reached))'
  BY <1>2, <1>3, <1>9
<1> QED
  BY <1>2, <1>12, <1>13 DEF AddsUp

LEMMA MoneyInit == Init => MoneyInv
<1> SUFFICES ASSUME Init PROVE MoneyInv
  OBVIOUS
<1>1. IInv
  BY InitHolds
<1>2. handed = << >> /\ amounts = NoAmounts /\ walk \in Walk
  BY DEF Init
<1>3. amounts \in AmountsType
  <2>1. << >> \in Seq(Int \X Nat)
    OBVIOUS
  <2> QED
    BY <1>2, <2>1 DEF NoAmounts, AmountsType, NOTHING
<1>4. Len(handed) = 0 /\ amounts.total = 0
  BY <1>2 DEF NoAmounts
<1>5. HandedCharge = 0
  <2>1. 1 .. 0 = {}
    OBVIOUS
  <2>2. HandedCharge = SumFunctionOnSet(Charges(walk.stay, walk.rate, handed), {})
    BY <1>4, <2>1 DEF HandedCharge, Charged
  <2> QED
    BY <2>2, SumOfNothing
<1>6. ASSUME walk.rate # Flat PROVE AddsUp
  <2>1. walk.cap.most \in Nat
    BY <1>2, <1>6, WalkMoney
  <2> QED
    BY <1>2, <1>4, <1>5, <2>1 DEF AddsUp
<1> QED
  BY <1>1, <1>3, <1>6 DEF MoneyInv
-----------------------------------------------------------------------------
(* What holds in any zone, whether or not its dates follow one another.      *)
PlainInv ==
  /\ walk \in Walk
  /\ day \in Nat
  /\ handed \in Seq(Int \X Int)
  /\ amounts \in AmountsType

LEMMA PlainHandOut ==
  ASSUME PlainInv, NEW p \in Int \X Int, HandOut(p), walk' = walk
  PROVE  handed' \in Seq(Int \X Int) /\ amounts' \in AmountsType
<1>1. CASE walk.rate = Flat
  BY <1>1 DEF PlainInv, HandOut
<1>2. CASE walk.rate # Flat
  BY <1>2, PaidIsLess, TallyStep DEF PlainInv, HandOut
<1> QED
  BY <1>1, <1>2

(* In any zone a step hands out nothing, or one piece. *)
LEMMA PlainStep ==
  ASSUME PlainInv, [Next]_vars
  PROVE  /\ PlainInv' /\ walk' = walk
         /\ UNCHANGED <<handed, amounts>> \/ \E p \in Int \X Int : HandOut(p)
<1>1. walk' = walk /\ walk \in WalkType
  BY WalkAssumption
     DEF PlainInv, Next, Step, Finished, CountDay, ZeroLength, Guess, Back, Forward,
         CutDay, Answer, vars
<1>2. /\ UNCHANGED <<handed, amounts>> \/ \E p \in Int \X Int : HandOut(p)
      /\ day' \in Nat
  <2>1. CASE CountDay
    BY <2>1 DEF CountDay, PlainInv
  <2>2. CASE ZeroLength
    <3>1. <<walk.start, walk.end>> \in Int \X Int
      BY <1>1, WalkFields
    <3> QED
      BY <2>2, <3>1 DEF ZeroLength, PlainInv
  <2>3. CASE Guess
    BY <1>1, <2>3, PlainGuess, WalkFields DEF Guess, PlainInv
  <2>4. CASE Back
    BY <2>4 DEF Back, PlainInv
  <2>5. CASE Forward
    BY <2>5 DEF Forward, PlainInv
  <2>6. CASE CutDay
    <3> DEFINE p == <<AtLeast(DayInHand[1], walk.start), AtMost(DayInHand[2], walk.end)>>
    <3>1. StartOf(walk, day) \in Int /\ StartOf(walk, day + 1) \in Int
      BY <1>1, PlainStart DEF PlainInv
    <3>2. DayInHand[1] \in Int /\ DayInHand[2] \in Int
      BY <1>1, <3>1, WalkFields DEF DayInHand
    <3>3. p \in Int \X Int
      BY <1>1, <3>2, WalkFields DEF AtLeast, AtMost
    <3>4. UNCHANGED <<handed, amounts>> \/ HandOut(p)
      BY <2>6 DEF CutDay
    <3>5. day' \in Nat
      BY <2>6 DEF CutDay, PlainInv
    <3> HIDE DEF p
    <3> QED
      BY <3>3, <3>4, <3>5
  <2>7. CASE Answer \/ Finished \/ UNCHANGED vars
    BY <2>7 DEF Answer, Finished, vars, PlainInv
  <2> QED
    BY <2>1, <2>2, <2>3, <2>4, <2>5, <2>6, <2>7 DEF Next, Step
<1>3. CASE UNCHANGED <<handed, amounts>>
  BY <1>1, <1>2, <1>3 DEF PlainInv
<1>4. CASE \E p \in Int \X Int : HandOut(p)
  BY <1>1, <1>2, <1>4, PlainHandOut DEF PlainInv
<1> QED
  BY <1>1, <1>2, <1>3, <1>4

LEMMA MoneyStep == MoneyInv /\ PlainInv /\ [Next]_vars => MoneyInv'
<1> SUFFICES ASSUME MoneyInv, PlainInv, [Next]_vars PROVE MoneyInv'
  OBVIOUS
<1>1. IInv' /\ PlainInv' /\ walk' = walk
  BY StepHolds, PlainStep DEF MoneyInv
<1>2. ASSUME OrdinaryZone(walk.zone), walk.rate # Flat
      PROVE  AddsUp'
  <2>1. IInv /\ AddsUp /\ WalkInv /\ walk \in Walk /\ amounts \in AmountsType
    BY <1>2 DEF MoneyInv, IInv
  <2>2. CASE UNCHANGED <<handed, amounts>>
    BY <1>1, <2>1, <2>2 DEF AddsUp, HandedCharge, Reached
  <2>3. CASE \E p \in Int \X Int : GoesOn(p) /\ HandOut(p)
    BY <1>1, <1>2, <2>1, <2>3, HandingOutAddsUp
  <2> QED
    BY <1>2, <2>1, <2>2, <2>3, EachStepHandsOut
<1> QED
  BY <1>1, <1>2 DEF MoneyInv, PlainInv

LEMMA PlainInit == Init => PlainInv
BY MoneyInit DEF Init, PlainInv, MoneyInv

(* In an ordinary zone the parts a cap splits a charge into are charged what *)
(* the whole of them is, each pays some of that and never over the max.     *)
THEOREM ChargeIsSplit == Spec => []SplitAddsUp
<1>1. MoneyInv => SplitAddsUp
  <2> SUFFICES ASSUME MoneyInv, OrdinaryZone(walk.zone), walk.rate # Flat
               PROVE  SplitAddsUp
    BY DEF SplitAddsUp
  <2> DEFINE each == [i \in 1 .. Len(handed) |->
                        ChargeIn(walk.stay, walk.rate, handed[i][1], handed[i][2])]
  <2>1. HandedCharge = SumFunction(each)
    <3>1. DOMAIN each = 1 .. Len(handed)
      OBVIOUS
    <3> QED
      BY <3>1 DEF HandedCharge, Charged, Charges, SumFunction
  <2>2. AddsUp
    BY DEF MoneyInv
  <2> QED
    BY <2>1, <2>2 DEF AddsUp, SplitAddsUp
<1>2. Init => MoneyInv /\ PlainInv
  BY MoneyInit, PlainInit
<1>3. MoneyInv /\ PlainInv /\ [Next]_vars => MoneyInv' /\ PlainInv'
  BY MoneyStep, PlainStep
<1> QED
  BY <1>1, <1>2, <1>3, PTL DEF Spec
-----------------------------------------------------------------------------
(* How many amounts the first k runs spell out. *)
Long(runs) == [k \in DOMAIN runs |-> runs[k][2]]
UpTo(runs, k) == SumFunctionOnSet(Long(runs), 1 .. k)

LEMMA UpToUnfolds ==
  ASSUME NEW runs \in Seq(Int \X Nat)
  PROVE  /\ UpTo(runs, 0) = 0
         /\ \A k \in 1 .. Len(runs) : /\ UpTo(runs, k - 1) \in Int
                                      /\ UpTo(runs, k) = UpTo(runs, k - 1) + runs[k][2]
         /\ UpTo(runs, Len(runs)) \in Int
<1> DEFINE g == Long(runs)
<1>1. Len(runs) \in Nat /\ \A k \in 1 .. Len(runs) : g[k] \in Int /\ g[k] = runs[k][2]
  <2>1. DOMAIN runs = 1 .. Len(runs) /\ \A k \in 1 .. Len(runs) : runs[k] \in Int \X Nat
    OBVIOUS
  <2>2. \A k \in 1 .. Len(runs) : runs[k][2] \in Int
    BY <2>1
  <2> QED
    BY <2>1, <2>2 DEF Long
<1> HIDE DEF g
<1>2. SumFunctionOnSet(g, 1 .. 0) = 0
  <2>1. 1 .. 0 = {}
    OBVIOUS
  <2> QED
    BY <2>1, SumOfNothing
<1>3. ASSUME NEW k \in 1 .. Len(runs)
      PROVE  /\ SumFunctionOnSet(g, 1 .. k - 1) \in Int
             /\ SumFunctionOnSet(g, 1 .. k) = SumFunctionOnSet(g, 1 .. k - 1) + g[k]
  <2>1. 1 \in Int /\ k \in Int /\ 1 <= k /\ \A i \in 1 .. k : g[i] \in Int
    BY <1>1
  <2> QED
    BY <2>1, SumNext
<1>4. SumFunctionOnSet(g, 1 .. Len(runs)) \in Int
  <2>1. CASE Len(runs) = 0
    BY <1>2, <2>1
  <2>2. CASE Len(runs) # 0
    <3> DEFINE k == Len(runs)
    <3>1. k \in 1 .. Len(runs)
      BY <1>1, <2>2
    <3>2. g[k] \in Int
      BY <1>1, <3>1
    <3> HIDE DEF k
    <3>3. SumFunctionOnSet(g, 1 .. k) \in Int
      BY <1>3, <3>1, <3>2
    <3> QED
      BY <3>3 DEF k
  <2> QED
    BY <2>1, <2>2
<1> QED
  BY <1>1, <1>2, <1>3, <1>4 DEF UpTo, g

LEMMA LastTwo ==
  ASSUME NEW n \in Nat, NEW k \in 1 .. n
  PROVE  k \in 1 .. k /\ (k > 1 => k - 1 \in 1 .. k)
  OBVIOUS

LEMMA FirstFew ==
  ASSUME NEW T, NEW runs \in Seq(T), NEW k \in Nat, k <= Len(runs)
  PROVE  \A i \in 1 .. k : i \in DOMAIN runs /\ runs[i] \in T
  OBVIOUS

(* Runs that begin alike spell out as many amounts so far. *)
LEMMA UpToAgrees ==
  ASSUME NEW runs \in Seq(Int \X Nat), NEW more \in Seq(Int \X Nat), NEW k \in Nat,
         k <= Len(runs), k <= Len(more), \A i \in 1 .. k : runs[i] = more[i]
  PROVE  UpTo(runs, k) = UpTo(more, k)
<1> DEFINE g == Long(runs)
           h == Long(more)
           S == 1 .. k
<1>1. \A i \in S : runs[i] \in Int \X Nat /\ i \in DOMAIN runs /\ i \in DOMAIN more
  BY FirstFew, Zenon
<1>2. \A i \in S : g[i] = runs[i][2] /\ h[i] = more[i][2] /\ runs[i][2] \in Int
  BY <1>1 DEF Long
<1>3. \A i \in S : g[i] \in Int /\ g[i] = h[i]
  BY <1>2
<1>4. IsFiniteSet(S)
  BY FS_Interval
<1> HIDE DEF g, h, S
<1>5. SumFunctionOnSet(g, S) = SumFunctionOnSet(h, S)
  BY <1>3, <1>4, SumCongruent, Zenon
<1> QED
  BY <1>5 DEF UpTo, g, h, S

(* The tally tells the list: run by run, then how many more and their sum.   *)
RunTold(runs, paid, k) ==
  /\ runs[k][2] >= 1
  /\ 0 <= UpTo(runs, k - 1) /\ UpTo(runs, k) <= Len(paid)
  /\ \A i \in UpTo(runs, k - 1) + 1 .. UpTo(runs, k) : paid[i] = runs[k][1]
  /\ k > 1 => runs[k][1] # runs[k - 1][1]

Told(a, paid) ==
  LET spelled == UpTo(a.runs, Len(a.runs))
  IN  /\ \A k \in 1 .. Len(a.runs) : RunTold(a.runs, paid, k)
      /\ spelled + a.more = Len(paid)
      /\ a.more_total = SumFunctionOnSet(paid, spelled + 1 .. Len(paid))
      /\ a.total = SumFunctionOnSet(paid, 1 .. Len(paid))
      /\ Len(a.runs) <= RUNS_SPELLED_OUT
      /\ a.more > 0 => spelled > 0 /\ paid[spelled + 1] # paid[spelled]

(* What a run tells of a list it tells of a longer one. *)
LEMMA RunStaysTold ==
  ASSUME NEW runs \in Seq(Int \X Nat), NEW more \in Seq(Int \X Nat),
         NEW paid \in Seq(Int), NEW x \in Int,
         NEW k \in 1 .. Len(runs), k <= Len(more), \A i \in 1 .. k : runs[i] = more[i],
         RunTold(runs, paid, k)
  PROVE  RunTold(more, Append(paid, x), k)
<1> DEFINE longer == Append(paid, x)
<1>1. /\ Len(longer) = Len(paid) + 1 /\ Len(paid) \in Nat
      /\ \A i \in 1 .. Len(paid) : longer[i] = paid[i]
  OBVIOUS
<1> HIDE DEF longer
<1>2. UpTo(more, k) = UpTo(runs, k)
  <2>1. k \in Nat /\ k <= Len(runs)
    OBVIOUS
  <2> QED
    BY <2>1, UpToAgrees
<1>3. UpTo(more, k - 1) = UpTo(runs, k - 1)
  <2>1. k - 1 \in Nat /\ k - 1 <= Len(runs) /\ k - 1 <= Len(more)
    OBVIOUS
  <2>2. \A i \in 1 .. k - 1 : runs[i] = more[i]
    OBVIOUS
  <2> QED
    BY <2>1, <2>2, UpToAgrees
<1>4. /\ UpTo(runs, k - 1) \in Int /\ UpTo(runs, k) \in Int
  <2>1. runs[k] \in Int \X Nat
    OBVIOUS
  <2>2. runs[k][2] \in Nat
    BY <2>1
  <2>3. /\ UpTo(runs, k - 1) \in Int
        /\ UpTo(runs, k) = UpTo(runs, k - 1) + runs[k][2]
    BY UpToUnfolds
  <2> QED
    BY <2>2, <2>3, SMTT(30)
<1>8. 0 <= UpTo(runs, k - 1) /\ UpTo(runs, k) <= Len(paid)
  BY DEF RunTold
<1>5. more[k] = runs[k] /\ (k > 1 => more[k - 1] = runs[k - 1])
  <2>1. k \in 1 .. k /\ (k > 1 => k - 1 \in 1 .. k)
    <3>1. Len(runs) \in Nat
      OBVIOUS
    <3> QED
      BY <3>1, LastTwo, Zenon
  <2>2. \A i \in 1 .. k : runs[i] = more[i]
    OBVIOUS
  <2> QED
    BY <2>1, <2>2, Zenon
<1>6. ASSUME NEW i \in UpTo(runs, k - 1) + 1 .. UpTo(runs, k)
      PROVE  longer[i] = runs[k][1]
  <2> DEFINE low == UpTo(runs, k - 1)
             high == UpTo(runs, k)
             n == Len(paid)
  <2>3. /\ low \in Int /\ high \in Int /\ n \in Nat /\ 0 <= low /\ high <= n
        /\ i \in low + 1 .. high
    BY <1>1, <1>4, <1>8
  <2> HIDE DEF low, high, n
  <2>4. i \in 1 .. n
    BY <2>3
  <2>1. i \in 1 .. Len(paid)
    BY <2>4 DEF n
  <2> QED
    BY <1>1, <2>1 DEF RunTold
<1>7. UpTo(runs, k) <= Len(longer)
  BY <1>1, <1>4, <1>8
<1> QED
  BY <1>2, <1>3, <1>5, <1>6, <1>7 DEF RunTold, longer

(* A sum over a longer list. *)
LEMMA SumOfLonger ==
  ASSUME NEW paid \in Seq(Int), NEW x \in Int, NEW a \in Int, 1 <= a, a <= Len(paid) + 1
  PROVE  SumFunctionOnSet(Append(paid, x), a .. Len(paid) + 1)
           = SumFunctionOnSet(paid, a .. Len(paid)) + x
<1> DEFINE longer == Append(paid, x)
           b == Len(paid) + 1
<1>1. /\ b \in Int /\ b - 1 = Len(paid) /\ longer[b] = x
      /\ \A i \in 1 .. b - 1 : longer[i] = paid[i]
      /\ \A i \in 1 .. b : longer[i] \in Int
  OBVIOUS
<1> HIDE DEF longer, b
<1>2. a <= b
  BY DEF b
<1>3. /\ \A i \in a .. b - 1 : i \in 1 .. b - 1
      /\ \A i \in a .. b : i \in 1 .. b
  BY <1>1
<1>4. Extends(paid, longer, a, b)
  BY <1>1, <1>2, <1>3 DEF Extends
<1>5. SumFunctionOnSet(longer, a .. b) = SumFunctionOnSet(paid, a .. b - 1) + longer[b]
  BY <1>4, SumExtends
<1> QED
  BY <1>1, <1>5 DEF longer, b

(* The parts of what is told that do not turn on which of the three it is.   *)
LEMMA ToldParts ==
  ASSUME NEW a \in AmountsType, NEW paid \in Seq(Int), Told(a, paid)
  PROVE  /\ a.runs \in Seq(Int \X Nat) /\ a.more \in Nat /\ Len(paid) \in Nat
         /\ Len(a.runs) \in Nat
         /\ UpTo(a.runs, Len(a.runs)) \in Int
         /\ UpTo(a.runs, Len(a.runs)) + a.more = Len(paid)
         /\ 0 <= UpTo(a.runs, Len(a.runs))
         /\ Len(a.runs) > 0 =>
              /\ UpTo(a.runs, Len(a.runs)) > 0
              /\ paid[UpTo(a.runs, Len(a.runs))] = a.runs[Len(a.runs)][1]
<1> DEFINE K == Len(a.runs)
           m == UpTo(a.runs, K)
           low == UpTo(a.runs, K - 1)
<1>1. a.runs \in Seq(Int \X Nat) /\ a.more \in Nat /\ Len(paid) \in Nat /\ K \in Nat
  BY DEF AmountsType
<1>2. m \in Int /\ m + a.more = Len(paid)
  BY <1>1, UpToUnfolds DEF Told
<1>3. CASE K = 0
  <2>1. m = 0
    BY <1>1, <1>3, UpToUnfolds
  <2> QED
    BY <1>1, <1>2, <1>3, <2>1
<1>4. CASE K > 0
  <2>1. K \in 1 .. K
    BY <1>1, <1>4
  <2>2. RunTold(a.runs, paid, K)
    BY <2>1 DEF Told
  <2>3. low \in Int /\ m = low + a.runs[K][2]
    BY <1>1, <2>1, UpToUnfolds
  <2>4. /\ a.runs[K][2] >= 1 /\ 0 <= low
        /\ \A i \in low + 1 .. m : paid[i] = a.runs[K][1]
    BY <2>2 DEF RunTold
  <2>5. a.runs[K][2] \in Int
    <3>1. a.runs[K] \in Int \X Nat
      BY <1>1, <2>1
    <3> QED
      BY <3>1
  <2> HIDE DEF K, m, low
  <2>6. m \in low + 1 .. m /\ m > 0
    BY <1>2, <2>3, <2>4, <2>5
  <2> QED
    BY <1>1, <1>2, <2>4, <2>6 DEF K, m
<1> QED
  BY <1>1, <1>3, <1>4

LEMMA ToldWhole ==
  ASSUME NEW a, NEW paid, NEW K, NEW m, NEW n,
         K = Len(a.runs), m = UpTo(a.runs, K), n = Len(paid),
         \A k \in 1 .. K : RunTold(a.runs, paid, k),
         m + a.more = n,
         a.more_total = SumFunctionOnSet(paid, m + 1 .. n),
         a.total = SumFunctionOnSet(paid, 1 .. n),
         K <= RUNS_SPELLED_OUT,
         a.more > 0 => m > 0 /\ paid[m + 1] # paid[m]
  PROVE  Told(a, paid)
BY DEF Told

LEMMA ToldExtends ==
  ASSUME NEW a \in AmountsType, NEW paid \in Seq(Int), NEW x \in Int, Told(a, paid)
  PROVE  Told(Tallied(a, x), Append(paid, x))
<1> DEFINE t == Tallied(a, x)
           longer == Append(paid, x)
           n == Len(paid)
           K == Len(a.runs)
           m == UpTo(a.runs, K)
<1>1. /\ a.runs \in Seq(Int \X Nat) /\ a.more \in Nat /\ n \in Nat /\ K \in Nat
      /\ m \in Int /\ m + a.more = n /\ 0 <= m
      /\ K > 0 => m > 0 /\ paid[m] = a.runs[K][1]
  BY ToldParts
<1>2. /\ Len(longer) = n + 1 /\ longer[n + 1] = x
      /\ \A i \in 1 .. n : longer[i] = paid[i]
      /\ longer \in Seq(Int)
  OBVIOUS
<1>3. /\ t \in AmountsType /\ t.total = a.total + x
      /\ OneMoreOfTheRun(a, t, x) \/ ARunOfItsOwn(a, t, x) \/ OneOfTheRest(a, t, x)
  BY TallyStep
<1>4. /\ t.runs \in Seq(Int \X Nat) /\ Len(t.runs) \in Nat
      /\ RUNS_SPELLED_OUT \in Nat /\ RUNS_SPELLED_OUT > 0
  BY <1>3, WalkAssumption DEF AmountsType
<1>5. t.total = SumFunctionOnSet(longer, 1 .. n + 1)
  <2>1. a.total = SumFunctionOnSet(paid, 1 .. n)
    BY DEF Told
  <2>2. 1 \in Int /\ 1 <= 1 /\ 1 <= n + 1
    BY <1>1
  <2> QED
    BY <1>3, <2>1, <2>2, SumOfLonger
<1>6. /\ \A k \in 1 .. K : RunTold(a.runs, paid, k)
      /\ a.more_total = SumFunctionOnSet(paid, m + 1 .. n)
      /\ K <= RUNS_SPELLED_OUT
      /\ a.more > 0 => m > 0 /\ paid[m + 1] # paid[m]
  BY DEF Told
<1> HIDE DEF t, n, K, m
<1>7. a.more = 0 => a.more_total = 0
  <2> SUFFICES ASSUME a.more = 0 PROVE a.more_total = 0
    OBVIOUS
  <2>1. m + 1 .. n = {}
    BY <1>1
  <2> QED
    BY <1>6, <2>1, SumOfNothing
<1>8. n + 1 + 1 .. n + 1 = {}
  BY <1>1
<1>9. CASE OneMoreOfTheRun(a, t, x)
  <2>1. /\ a.more = 0 /\ K > 0 /\ a.runs[K][1] = x /\ m = n
        /\ t.runs = [a.runs EXCEPT ![K] = <<x, a.runs[K][2] + 1>>]
        /\ t.more = 0 /\ t.more_total = 0
    BY <1>1, <1>7, <1>9 DEF OneMoreOfTheRun, K
  <2>2. /\ Len(t.runs) = K /\ t.runs[K] = <<x, a.runs[K][2] + 1>> /\ K \in 1 .. K
        /\ \A i \in 1 .. K : i # K => t.runs[i] = a.runs[i]
    BY <1>1, <2>1, SMTT(30) DEF K
  <2> DEFINE low == UpTo(a.runs, K - 1)
  <2>3. low \in Int /\ m = low + a.runs[K][2] /\ a.runs[K][2] \in Nat /\ 0 <= low
    <3>1. a.runs[K] \in Int \X Nat
      BY <1>1, <2>2 DEF K
    <3>2. low \in Int /\ m = low + a.runs[K][2]
      BY <1>1, <2>2, UpToUnfolds DEF K, m
    <3>3. 0 <= low
      BY <1>6, <2>2 DEF RunTold
    <3> QED
      BY <3>1, <3>2, <3>3
  <2>8. /\ a.runs[K][2] >= 1
        /\ \A i \in low + 1 .. m : paid[i] = x
        /\ K > 1 => a.runs[K][1] # a.runs[K - 1][1]
    <3>1. RunTold(a.runs, paid, K)
      BY <1>6, <2>2
    <3> QED
      BY <2>1, <3>1 DEF RunTold, m
  <2>4. UpTo(t.runs, K - 1) = low
    <3>1. K - 1 \in Nat /\ K - 1 <= Len(a.runs) /\ K - 1 <= Len(t.runs)
      BY <1>1, <2>1, <2>2 DEF K
    <3>2. \A i \in 1 .. K - 1 : a.runs[i] = t.runs[i]
      <4>1. \A i \in 1 .. K - 1 : i \in 1 .. K /\ i # K
        <5>1. K \in Nat
          BY <1>1 DEF K
        <5> HIDE DEF K
        <5> QED
          BY <5>1
      <4> HIDE DEF K
      <4> QED
        BY <2>2, <4>1, Zenon
    <3> QED
      BY <1>1, <1>4, <3>1, <3>2, UpToAgrees
  <2>5. UpTo(t.runs, K) = n + 1
    <3>1. UpTo(t.runs, K) = UpTo(t.runs, K - 1) + t.runs[K][2]
      BY <1>4, <2>2, UpToUnfolds
    <3> QED
      BY <1>1, <2>1, <2>2, <2>3, <2>4, <3>1
  <2> HIDE DEF low, longer
  <2>6. ASSUME NEW k \in 1 .. K
        PROVE  RunTold(t.runs, longer, k)
    <3>1. CASE k = K
      <4>2. ASSUME NEW i \in low + 1 .. n + 1
            PROVE  longer[i] = x
        <5>1. CASE i = n + 1
          BY <1>2, <5>1
        <5>2. CASE i # n + 1
          <6>1. i \in low + 1 .. m /\ i \in 1 .. n
            <7>1. m = n /\ m \in Int /\ n \in Nat /\ low \in Int /\ 0 <= low
              BY <1>1, <2>1, <2>3
            <7> QED
              BY <5>2, <7>1
          <6> QED
            BY <1>2, <2>8, <6>1
        <5> QED
          BY <5>1, <5>2
      <4>3. K > 1 => t.runs[K][1] # t.runs[K - 1][1]
        <5>1. K > 1 => K - 1 \in 1 .. K /\ K - 1 # K
          BY <1>1
        <5> QED
          BY <2>1, <2>2, <2>8, <5>1
      <4>4. t.runs[K][2] >= 1 /\ t.runs[K][1] = x
        BY <2>2, <2>3
      <4>5. 0 <= low /\ n + 1 <= Len(longer)
        BY <1>1, <1>2, <2>3
      <4>6. RunTold(t.runs, longer, K)
        BY <2>4, <2>5, <4>2, <4>3, <4>4, <4>5 DEF RunTold
      <4> QED
        BY <3>1, <4>6
    <3>2. CASE k # K
      <4>1. k \in 1 .. Len(a.runs) /\ k <= Len(t.runs)
        BY <2>2 DEF K
      <4>2. \A i \in 1 .. k : i \in 1 .. K /\ i # K
        BY <1>1, <3>2, SMTT(30)
      <4>3. \A i \in 1 .. k : a.runs[i] = t.runs[i]
        BY <2>2, <4>2
      <4>4. RunTold(a.runs, paid, k)
        BY <1>6
      <4> QED
        BY <1>1, <1>4, <4>1, <4>3, <4>4, RunStaysTold DEF longer
    <3> QED
      BY <3>1, <3>2
  <2>7. SumFunctionOnSet(longer, n + 1 + 1 .. n + 1) = 0
    BY <1>8, SumOfNothing
  <2>9. UpTo(t.runs, Len(t.runs)) = n + 1 /\ Len(t.runs) = K
    BY <2>2, <2>5
  <2>11. /\ n + 1 + t.more = n + 1 /\ ~(t.more > 0)
         /\ t.more_total = SumFunctionOnSet(longer, n + 1 + 1 .. n + 1)
    BY <1>1, <2>1, <2>7
  <2>10. Told(t, longer)
    BY <1>2, <1>5, <1>6, <2>6, <2>9, <2>11, ToldWhole
  <2> QED
    BY <2>10 DEF t, longer
<1>10. CASE ARunOfItsOwn(a, t, x)
  <2>1. /\ a.more = 0 /\ (K > 0 => a.runs[K][1] # x) /\ m = n
        /\ K < RUNS_SPELLED_OUT
        /\ t.runs = Append(a.runs, <<x, 1>>)
        /\ t.more = 0 /\ t.more_total = 0
    BY <1>1, <1>7, <1>10 DEF ARunOfItsOwn, K
  <2>2. /\ Len(t.runs) = K + 1 /\ t.runs[K + 1] = <<x, 1>> /\ K + 1 \in 1 .. K + 1
        /\ \A i \in 1 .. K : t.runs[i] = a.runs[i]
    BY <1>1, <2>1 DEF K
  <2>4. UpTo(t.runs, K) = n
    <3>1. K \in Nat /\ K <= Len(a.runs) /\ K <= Len(t.runs)
      BY <1>1, <2>1, <2>2 DEF K
    <3>2. \A i \in 1 .. K : a.runs[i] = t.runs[i]
      BY <1>1, <2>2
    <3> QED
      BY <1>1, <1>4, <2>1, <3>1, <3>2, UpToAgrees DEF m
  <2>5. UpTo(t.runs, K + 1) = n + 1
    <3> DEFINE k == K + 1
    <3>1. k \in 1 .. Len(t.runs) /\ k - 1 = K /\ t.runs[k][2] = 1
      BY <1>1, <2>2
    <3> HIDE DEF k
    <3>2. UpTo(t.runs, k) = UpTo(t.runs, k - 1) + t.runs[k][2]
      BY <1>4, <3>1, UpToUnfolds
    <3> QED
      BY <2>4, <3>1, <3>2 DEF k
  <2>6. ASSUME NEW k \in 1 .. K + 1
        PROVE  RunTold(t.runs, longer, k)
    <3>1. CASE k = K + 1
      <4>1. k - 1 = K /\ t.runs[k][1] = x /\ t.runs[k][2] = 1
        BY <1>1, <2>2, <3>1
      <4>2. ASSUME NEW i \in n + 1 .. n + 1
            PROVE  longer[i] = x
        BY <1>1, <1>2
      <4>3. k > 1 => t.runs[k][1] # t.runs[k - 1][1]
        <5>1. k > 1 => K > 0 /\ K \in 1 .. K
          BY <1>1, <3>1
        <5> QED
          BY <2>1, <2>2, <4>1, <5>1
      <4> QED
        BY <1>1, <1>2, <2>4, <2>5, <3>1, <4>1, <4>2, <4>3 DEF RunTold
    <3>2. CASE k # K + 1
      <4>1. k \in 1 .. Len(a.runs) /\ k <= Len(t.runs)
        BY <1>1, <2>2, <3>2 DEF K
      <4>2. \A i \in 1 .. k : a.runs[i] = t.runs[i]
        BY <1>1, <2>2, <4>1 DEF K
      <4>3. RunTold(a.runs, paid, k)
        BY <1>6, <4>1 DEF K
      <4> QED
        BY <1>1, <1>4, <4>1, <4>2, <4>3, RunStaysTold
    <3> QED
      BY <3>1, <3>2
  <2>7. SumFunctionOnSet(longer, n + 1 + 1 .. n + 1) = 0
    BY <1>8, SumOfNothing
  <2>8. K + 1 <= RUNS_SPELLED_OUT
    BY <1>1, <1>4, <2>1
  <2>9. UpTo(t.runs, Len(t.runs)) = n + 1 /\ Len(t.runs) = K + 1
    BY <2>2, <2>5
  <2> HIDE DEF longer
  <2>11. /\ n + 1 + t.more = n + 1 /\ ~(t.more > 0)
         /\ t.more_total = SumFunctionOnSet(longer, n + 1 + 1 .. n + 1)
    BY <1>1, <2>1, <2>7
  <2>10. Told(t, longer)
    BY <1>2, <1>5, <2>6, <2>8, <2>9, <2>11, ToldWhole
  <2> QED
    BY <2>10 DEF t, longer
<1>11. CASE OneOfTheRest(a, t, x)
  <2>1. /\ a.more = 0 => (K > 0 => a.runs[K][1] # x) /\ K >= RUNS_SPELLED_OUT
        /\ t.runs = a.runs
        /\ t.more = a.more + 1 /\ t.more_total = a.more_total + x
    BY <1>11 DEF OneOfTheRest, K
  <2>2. ASSUME NEW k \in 1 .. K
        PROVE  RunTold(t.runs, longer, k)
    <3>1. k \in 1 .. Len(a.runs) /\ k <= Len(t.runs) /\ \A i \in 1 .. k : a.runs[i] = t.runs[i]
      BY <2>1 DEF K
    <3> QED
      BY <1>1, <1>4, <1>6, <3>1, RunStaysTold
  <2>3. t.more_total = SumFunctionOnSet(longer, m + 1 .. n + 1)
    <3> DEFINE low == m + 1
    <3>1. low \in Int /\ 1 <= low /\ low <= n + 1
      BY <1>1
    <3> HIDE DEF low
    <3>2. SumFunctionOnSet(longer, low .. n + 1) = SumFunctionOnSet(paid, low .. n) + x
      BY <3>1, SumOfLonger DEF n
    <3> QED
      BY <1>6, <2>1, <3>2 DEF low
  <2>4. m > 0 /\ longer[m + 1] # longer[m]
    <3>1. CASE a.more = 0
      <4>1. K > 0 /\ m = n
        BY <1>1, <1>4, <2>1, <3>1
      <4>2. m \in 1 .. n
        BY <1>1, <4>1
      <4> QED
        BY <1>1, <1>2, <2>1, <3>1, <4>1, <4>2
    <3>2. CASE a.more # 0
      <4>1. m > 0 /\ m \in 1 .. n /\ m + 1 \in 1 .. n
        BY <1>1, <1>6, <3>2
      <4> QED
        BY <1>1, <1>2, <1>6, <3>2, <4>1
    <3> QED
      BY <3>1, <3>2
  <2>5. Len(t.runs) = K /\ UpTo(t.runs, K) = m /\ m + t.more = n + 1
    BY <1>1, <2>1, SMTT(30) DEF K, m
  <2> QED
    BY <1>2, <1>5, <1>6, <2>2, <2>3, <2>4, <2>5 DEF Told, t
<1> QED
  BY <1>3, <1>9, <1>10, <1>11

(* What each of some pieces pays, in order. *)
PaidList(w, parts) == [i \in 1 .. Len(parts) |-> Paid(w, parts[i])]

ToldInv == walk.rate # Flat => Told(amounts, PaidList(walk, handed))

LEMMA PaidListGrows ==
  ASSUME walk \in Walk, walk.rate # Flat,
         NEW parts \in Seq(Int \X Int), NEW p \in Int \X Int
  PROVE  /\ PaidList(walk, parts) \in Seq(Int)
         /\ PaidList(walk, Append(parts, p)) = Append(PaidList(walk, parts), Paid(walk, p))
<1> DEFINE n == Len(parts)
           pays(q) == Paid(walk, q)
<1>1. \A q \in Int \X Int : pays(q) \in Int
  BY PaidIsLess
<1> HIDE DEF pays
<1>2. /\ n \in Nat /\ Len(Append(parts, p)) = n + 1
      /\ \A i \in 1 .. n : parts[i] \in Int \X Int /\ Append(parts, p)[i] = parts[i]
      /\ Append(parts, p)[n + 1] = p
  OBVIOUS
<1>3. PaidList(walk, parts) = [i \in 1 .. n |-> pays(parts[i])]
  BY DEF PaidList, pays
<1>4. PaidList(walk, Append(parts, p)) = [i \in 1 .. n + 1 |-> pays(Append(parts, p)[i])]
  BY <1>2 DEF PaidList, pays
<1>5. PaidList(walk, parts) \in Seq(Int)
  BY <1>1, <1>2, <1>3
<1>6. Append(PaidList(walk, parts), pays(p))
        = [i \in 1 .. n + 1 |-> IF i = n + 1 THEN pays(p) ELSE pays(parts[i])]
  BY <1>1, <1>2, <1>3, <1>5
<1>7. ASSUME NEW i \in 1 .. n + 1
      PROVE  pays(Append(parts, p)[i]) = IF i = n + 1 THEN pays(p) ELSE pays(parts[i])
  BY <1>2
<1> HIDE DEF n
<1> QED
  BY <1>4, <1>5, <1>6, <1>7 DEF pays

LEMMA ToldInit == Init => ToldInv
<1> SUFFICES ASSUME Init, walk.rate # Flat PROVE Told(amounts, PaidList(walk, handed))
  BY DEF ToldInv
<1>1. handed = << >> /\ amounts = NoAmounts
  BY DEF Init
<1> DEFINE paid == PaidList(walk, handed)
<1>2. Len(paid) = 0
  BY <1>1 DEF PaidList
<1>3. /\ amounts.runs = << >> /\ amounts.more = 0
      /\ amounts.more_total = 0 /\ amounts.total = 0
  BY <1>1 DEF NoAmounts
<1>4. Len(amounts.runs) = 0 /\ UpTo(amounts.runs, 0) = 0
  <2>1. << >> \in Seq(Int \X Nat)
    OBVIOUS
  <2> QED
    BY <1>3, <2>1, UpToUnfolds
<1>5. SumFunctionOnSet(paid, 0 + 1 .. 0) = 0 /\ SumFunctionOnSet(paid, 1 .. 0) = 0
  <2>1. 0 + 1 .. 0 = {} /\ 1 .. 0 = {}
    OBVIOUS
  <2> QED
    BY <2>1, SumOfNothing
<1>6. 0 <= RUNS_SPELLED_OUT
  BY WalkAssumption
<1> HIDE DEF paid
<1>7. Told(amounts, paid)
  BY <1>2, <1>3, <1>4, <1>5, <1>6, ToldWhole
<1> QED
  BY <1>7 DEF paid

LEMMA ToldStep == PlainInv /\ ToldInv /\ [Next]_vars => ToldInv'
<1> SUFFICES ASSUME PlainInv, ToldInv, [Next]_vars, walk'.rate # Flat
             PROVE  Told(amounts, PaidList(walk, handed))'
  BY DEF ToldInv
<1>1. /\ walk' = walk
      /\ UNCHANGED <<handed, amounts>> \/ \E p \in Int \X Int : HandOut(p)
  BY PlainStep
<1>2. /\ walk.rate # Flat /\ walk \in Walk /\ Told(amounts, PaidList(walk, handed))
      /\ handed \in Seq(Int \X Int) /\ amounts \in AmountsType
  BY <1>1 DEF ToldInv, PlainInv
<1>3. Told(amounts, PaidList(walk, handed))' <=> Told(amounts', PaidList(walk, handed'))
  BY <1>1 DEF PaidList, Paid
<1>4. CASE UNCHANGED <<handed, amounts>>
  BY <1>2, <1>3, <1>4
<1>5. CASE \E p \in Int \X Int : HandOut(p)
  <2>1. PICK p \in Int \X Int : HandOut(p)
    BY <1>5
  <2>2. handed' = Append(handed, p) /\ amounts' = Tallied(amounts, Paid(walk, p))
    BY <1>2, <2>1 DEF HandOut
  <2>3. Paid(walk, p) \in Int
    BY <1>2, PaidIsLess
  <2>4. /\ PaidList(walk, handed) \in Seq(Int)
        /\ PaidList(walk, Append(handed, p)) = Append(PaidList(walk, handed), Paid(walk, p))
    BY <1>2, PaidListGrows
  <2>5. Told(Tallied(amounts, Paid(walk, p)), Append(PaidList(walk, handed), Paid(walk, p)))
    BY <1>2, <2>3, <2>4, ToldExtends
  <2> QED
    BY <1>3, <2>2, <2>4, <2>5
<1> QED
  BY <1>1, <1>4, <1>5

(* The runs spelled out, how many more there were and what they came to are  *)
(* what the days paid, in order, whatever they paid; and the total is theirs. *)
THEOREM TallyIsTold == Spec => []LineTellsAmounts
<1>1. PlainInv /\ ToldInv => LineTellsAmounts
  <2> SUFFICES ASSUME PlainInv, ToldInv, walk.rate # Flat PROVE LineTellsAmounts
    BY DEF LineTellsAmounts
  <2> DEFINE paid == PaidList(walk, handed)
             runs == amounts.runs
             n == Len(handed)
  <2>1. Told(amounts, paid)
    BY DEF ToldInv
  <2>2. Len(paid) = n /\ DOMAIN paid = 1 .. n
    BY DEF PaidList, PlainInv
  <2>3. DOMAIN runs = 1 .. Len(runs)
    BY DEF PlainInv, AmountsType
  <2>4. SumFunction(paid) = SumFunctionOnSet(paid, 1 .. n)
    BY <2>2 DEF SumFunction
  <2>5. \A k \in DOMAIN runs :
          /\ \A i \in UpTo(runs, k - 1) + 1 .. UpTo(runs, k) : paid[i] = runs[k][1]
          /\ k > 1 => runs[k][1] # runs[k - 1][1]
    BY <2>1, <2>3 DEF Told, RunTold
  <2>6. /\ UpTo(runs, Len(runs)) + amounts.more = n
        /\ amounts.more_total = SumFunctionOnSet(paid, UpTo(runs, Len(runs)) + 1 .. n)
        /\ amounts.total = SumFunctionOnSet(paid, 1 .. n)
        /\ Len(runs) <= RUNS_SPELLED_OUT
        /\ amounts.more > 0 => /\ UpTo(runs, Len(runs)) > 0
                               /\ paid[UpTo(runs, Len(runs)) + 1] # paid[UpTo(runs, Len(runs))]
    BY <2>1, <2>2 DEF Told
  <2> QED
    BY <2>4, <2>5, <2>6 DEF LineTellsAmounts, UpTo, Long, PaidList
<1>2. Init => PlainInv /\ ToldInv
  BY PlainInit, ToldInit
<1>3. PlainInv /\ ToldInv /\ [Next]_vars => PlainInv' /\ ToldInv'
  BY PlainStep, ToldStep
<1> QED
  BY <1>1, <1>2, <1>3, PTL DEF Spec
-----------------------------------------------------------------------------
(* Midnights are in the order of their dates. *)
LEMMA MidnightsInOrder ==
  ASSUME NEW zone \in ZoneType, OrdinaryZone(zone), NEW i \in Int, NEW j \in Int, i < j
  PROVE  Midnight(zone, i) < Midnight(zone, j)
<1>1. /\ i * DayTicks \in Int /\ j * DayTicks \in Int
      /\ i * DayTicks + DayTicks <= j * DayTicks
  <2>1. \A d \in Nat \ {0} : i * d \in Int /\ j * d \in Int /\ i * d + d <= j * d
    <3> TAKE d \in Nat \ {0}
    <3>1. (i + 1) * d <= j * d
      BY SMT
    <3>2. (i + 1) * d = i * d + d /\ i * d \in Int /\ j * d \in Int
      BY SMT
    <3> QED
      BY <3>1, <3>2
  <2> QED
    BY <2>1, DayTicksPositive
<1> QED
  BY <1>1, DayTicksPositive, ZoneFields DEF Midnight, OrdinaryZone, AtLeast

(* Where the clocks skip no midnight, a date's midnight is at or before it.   *)
LEMMA MidnightIsBehind ==
  ASSUME NEW zone \in ZoneType, OrdinaryZone(zone), NoMidnightSkipped(zone), NEW t \in Int
  PROVE  /\ LocalDate(zone, t) \in Int
         /\ Midnight(zone, LocalDate(zone, t)) <= t
<1> DEFINE date == LocalDate(zone, t)
           wall == date * DayTicks
<1>1. WallClock(zone, t) \in Int
  BY ZoneFields DEF WallClock
<1>2. date \in Int /\ wall \in Int /\ wall <= WallClock(zone, t)
  BY <1>1, DayDivision, NextMultiple DEF LocalDate
<1>3. Midnight(zone, date)
        = wall - (IF wall < zone.at + AtLeast(zone.before, zone.after)
                  THEN zone.before ELSE zone.after)
  BY DEF Midnight
<1>4. wall = date * DayTicks
  OBVIOUS
<1> HIDE DEF date, wall
<1>5. CASE zone.before < zone.after /\ t >= zone.at
           /\ zone.at + zone.before < wall /\ wall < zone.at + zone.after
  <2>1. (zone.at + zone.before) \div DayTicks = (zone.at + zone.after - 1) \div DayTicks
    BY <1>5 DEF NoMidnightSkipped
  <2>2. zone.at + zone.before < date * DayTicks /\ date * DayTicks <= zone.at + zone.after - 1
    BY <1>2, <1>4, <1>5, ZoneFields
  <2>3. zone.at + zone.before \in Int /\ zone.at + zone.after - 1 \in Int
    BY ZoneFields
  <2> QED
    BY <1>2, <2>1, <2>2, <2>3, SameDay
<1>6. CASE ~(zone.before < zone.after /\ t >= zone.at
             /\ zone.at + zone.before < wall /\ wall < zone.at + zone.after)
  BY <1>1, <1>2, <1>3, <1>6, ZoneFields DEF WallClock, AtLeast, date
<1> QED
  BY <1>2, <1>5, <1>6 DEF date

(* And every instant from one midnight to the next is of the one date.       *)
LEMMA BetweenMidnights ==
  ASSUME NEW zone \in ZoneType, OrdinaryZone(zone), NoMidnightSkipped(zone),
         NEW d \in Int, NEW t \in Int
  PROVE  /\ Midnight(zone, d) <= t => d <= LocalDate(zone, t)
         /\ t < Midnight(zone, d + 1) => LocalDate(zone, t) <= d
<1> DEFINE e == LocalDate(zone, t)
           m(i) == Midnight(zone, i)
<1>1. e \in Int /\ m(e) <= t /\ t < m(e + 1)
  BY MidnightIsBehind, NextMidnightIsAhead
<1>2. \A i \in Int : m(i) \in Int
  BY MidnightsIncrease
<1>3. \A i, j \in Int : i < j => m(i) < m(j)
  BY MidnightsInOrder
<1> HIDE DEF e, m
<1>6. \A i, j \in Int : i <= j => m(i) <= m(j)
  <2> TAKE i, j \in Int
  <2>1. i < j \/ i = j \/ j < i
    OBVIOUS
  <2>2. CASE i = j
    BY <1>2, <2>2
  <2>3. CASE i < j
    BY <1>2, <1>3, <2>3
  <2> QED
    BY <2>1, <2>2, <2>3
<1>4. ASSUME m(d) <= t PROVE d <= e
  <2> DEFINE f == e + 1
  <2>1. f \in Int /\ (f <= d \/ d <= e) /\ t < m(f)
    BY <1>1
  <2> HIDE DEF f
  <2>2. f <= d => m(f) <= m(d)
    BY <1>6, <2>1
  <2> QED
    BY <1>2, <1>4, <2>1, <2>2
<1>5. ASSUME t < m(d + 1) PROVE e <= d
  <2> DEFINE f == d + 1
  <2>1. f \in Int /\ (f <= e \/ e <= d) /\ t < m(f)
    BY <1>1, <1>5
  <2> HIDE DEF f
  <2>2. f <= e => m(f) <= m(e)
    BY <1>1, <1>6, <2>1
  <2> QED
    BY <1>1, <1>2, <2>1, <2>2
<1> QED
  BY <1>4, <1>5 DEF e, m

(* A day of the stay is a date, counted from the entry's. *)
LEMMA DayIsADate ==
  ASSUME NEW w \in WalkType, OrdinaryZone(w.zone), NoMidnightSkipped(w.zone),
         w.cap.boundary = "calendar_day", NEW k \in Nat, NEW t \in Int
  PROVE  LET first == LocalDate(w.zone, w.stay.entry)
         IN  /\ first \in Int /\ LocalDate(w.zone, t) \in Int
             /\ StartOf(w, k) <= t => first + k <= LocalDate(w.zone, t)
             /\ t < StartOf(w, k + 1) => LocalDate(w.zone, t) <= first + k
             /\ k > 0 => LocalDate(w.zone, StartOf(w, k)) = first + k
             /\ k > 0 => w.stay.entry < StartOf(w, k)
<1> DEFINE first == LocalDate(w.zone, w.stay.entry)
           m(i) == Midnight(w.zone, i)
<1>1. /\ w.zone \in ZoneType /\ w.stay.entry \in Int
      /\ first \in Int /\ LocalDate(w.zone, t) \in Int
      /\ m(first) <= w.stay.entry /\ w.stay.entry < m(first + 1)
  BY WalkFields, MidnightIsBehind, NextMidnightIsAhead
<1>2. /\ StartOf(w, 0) = w.stay.entry
      /\ \A i \in Nat : i # 0 => StartOf(w, i) = m(first + i)
  BY DEF StartOf, DayStart
<1>3. /\ \A i \in Int : m(i) \in Int
      /\ \A i, j \in Int : i < j => m(i) < m(j)
  BY <1>1, MidnightsIncrease, MidnightsInOrder
<1>4. \A d, u \in Int : /\ m(d) <= u => d <= LocalDate(w.zone, u)
                        /\ u < m(d + 1) => LocalDate(w.zone, u) <= d
                        /\ LocalDate(w.zone, u) \in Int
  BY <1>1, BetweenMidnights, MidnightIsBehind
<1> HIDE DEF first, m
<1>5. StartOf(w, k) <= t => first + k <= LocalDate(w.zone, t)
  <2>1. CASE k = 0
    BY <1>1, <1>2, <1>3, <1>4, <2>1
  <2>2. CASE k # 0
    <3>1. first + k \in Int /\ StartOf(w, k) = m(first + k)
      BY <1>1, <1>2, <2>2
    <3> QED
      BY <1>4, <3>1
  <2> QED
    BY <2>1, <2>2
<1>6. t < StartOf(w, k + 1) => LocalDate(w.zone, t) <= first + k
  <2>1. first + k \in Int /\ StartOf(w, k + 1) = m((first + k) + 1)
    <3>1. k + 1 \in Nat /\ k + 1 # 0
      OBVIOUS
    <3>2. StartOf(w, k + 1) = m(first + (k + 1))
      BY <1>2, <3>1
    <3>3. first + (k + 1) = (first + k) + 1 /\ first + k \in Int
      BY <1>1
    <3> QED
      BY <3>2, <3>3
  <2> QED
    BY <1>4, <2>1
<1>7. ASSUME k > 0
      PROVE  /\ LocalDate(w.zone, StartOf(w, k)) = first + k
             /\ w.stay.entry < StartOf(w, k)
  <2> DEFINE d == first + k
  <2>1. d \in Int /\ StartOf(w, k) = m(d) /\ d + 1 \in Int /\ d < d + 1
        /\ first + 1 \in Int /\ first + 1 <= d
    BY <1>1, <1>2, <1>7
  <2> HIDE DEF d
  <2>2. m(d) \in Int /\ m(d) < m(d + 1) /\ m(first + 1) <= m(d)
        /\ m(first + 1) \in Int
    BY <1>3, <2>1
  <2>3. d <= LocalDate(w.zone, m(d)) /\ LocalDate(w.zone, m(d)) <= d
    BY <1>4, <2>1, <2>2
  <2>4. LocalDate(w.zone, m(d)) \in Int
    BY <1>4, <2>2
  <2> QED
    BY <1>1, <2>1, <2>2, <2>3, <2>4 DEF d
<1> QED
  BY <1>1, <1>5, <1>6, <1>7 DEF first
-----------------------------------------------------------------------------
(* How far days_covered has counted: a day for each turn, each of which       *)
(* starts before the exit, and once it stops the next does not.             *)
Counted ==
  IF pc = "count"
  THEN /\ caps = day
       /\ day > 0 => walk.stay.entry < walk.stay.exit /\ StartOf(walk, day) < walk.stay.exit
  ELSE /\ caps \in Nat /\ caps >= 1
       /\ caps > 1 => StartOf(walk, caps - 1) < walk.stay.exit
       /\ IF walk.stay.entry < walk.stay.exit
          THEN StartOf(walk, caps) >= walk.stay.exit ELSE caps = 1

DatedInv ==
  OrdinaryZone(walk.zone) =>
    /\ \A i \in 1 .. Len(handed) : InADay(handed[i])
    /\ walk.asked = "apply" => Counted

LEMMA DatedInit == Init => DatedInv
<1> SUFFICES ASSUME Init PROVE DatedInv
  OBVIOUS
<1>1. /\ handed = << >> /\ day = 0 /\ caps = 0
      /\ walk.asked = "apply" => pc = "count"
  BY DEF Init
<1>2. Len(handed) = 0
  BY <1>1
<1> QED
  BY <1>1, <1>2 DEF DatedInv, Counted

LEMMA DatedStep == IInv /\ PlainInv /\ DatedInv /\ [Next]_vars => DatedInv'
<1> SUFFICES ASSUME IInv, PlainInv, DatedInv, [Next]_vars, OrdinaryZone(walk.zone)'
             PROVE  /\ (\A i \in 1 .. Len(handed) : InADay(handed[i]))'
                    /\ walk.asked' = "apply" => Counted'
  BY DEF DatedInv
<1>1. /\ walk' = walk /\ OrdinaryZone(walk.zone) /\ walk \in Walk /\ day \in Nat
      /\ handed \in Seq(Int \X Int)
  BY PlainStep DEF PlainInv
<1>2. (\A i \in 1 .. Len(handed) : InADay(handed[i]))'
  <2>1. \A i \in 1 .. Len(handed) : InADay(handed[i])
    BY <1>1 DEF DatedInv
  <2>2. CASE UNCHANGED handed
    BY <1>1, <2>1, <2>2 DEF InADay, StartOf
  <2>3. CASE \E p \in Int \X Int : GoesOn(p) /\ HandOut(p)
    <3>1. PICK p \in Int \X Int : InADay(p) /\ handed' = Append(handed, p)
      BY <2>3 DEF GoesOn, HandOut
    <3>2. ASSUME NEW i \in 1 .. Len(handed')
          PROVE  InADay(handed'[i])
      <4>1. handed'[i] = p \/ (i \in 1 .. Len(handed) /\ handed'[i] = handed[i])
        BY <1>1, <3>1
      <4> QED
        BY <2>1, <3>1, <4>1
    <3> QED
      BY <1>1, <3>2 DEF InADay, StartOf
  <2> QED
    BY <1>1, <2>2, <2>3, EachStepHandsOut
<1>3. ASSUME walk.asked = "apply"
      PROVE  Counted'
  <2>1. Counted
    BY <1>1, <1>3 DEF DatedInv
  <2>2. CASE CountDay
    <3>1. /\ pc = "count" /\ caps' = caps + 1 /\ caps = day
          /\ day > 0 => walk.stay.entry < walk.stay.exit /\ StartOf(walk, day) < walk.stay.exit
      BY <2>1, <2>2 DEF CountDay, Counted
    <3>2. StartOf(walk, day + 1) \in Int
      BY <1>1, WalkIsTyped, PlainStart
    <3>3. CASE Another
      <4>1. /\ day' = day + 1 /\ pc' = "count" /\ walk.stay.entry < walk.stay.exit
            /\ StartOf(walk, day + 1) < walk.stay.exit
        BY <1>1, <2>2, <3>1, <3>3, WalkIsTyped DEF CountDay, Another
      <4>2. StartOf(walk, day)' = StartOf(walk, day + 1)
        BY <1>1, <4>1 DEF StartOf
      <4> QED
        BY <1>1, <3>1, <4>1, <4>2 DEF Counted
    <3>4. CASE ~Another
      <4>1. pc' # "count" /\ caps' = day + 1
        BY <2>2, <3>1, <3>4 DEF CountDay
      <4>2. walk.stay.entry < walk.stay.exit => StartOf(walk, day + 1) >= walk.stay.exit
        BY <1>1, <3>2, <3>4, WalkIsTyped DEF Another
      <4>3. caps' - 1 = day
        BY <1>1, <4>1
      <4>4. /\ (StartOf(walk, caps))' = StartOf(walk, day + 1)
            /\ (StartOf(walk, caps - 1))' = StartOf(walk, day)
        BY <1>1, <4>1, <4>3 DEF StartOf
      <4>5. ~(walk.stay.entry < walk.stay.exit) => caps' = 1
        BY <1>1, <3>1, <4>1
      <4>6. caps' \in Nat /\ caps' >= 1 /\ (caps' > 1 => day > 0)
        BY <1>1, <4>1
      <4> QED
        BY <1>1, <3>1, <4>1, <4>2, <4>4, <4>5, <4>6 DEF Counted
    <3> QED
      BY <3>3, <3>4
  <2>3. CASE UNCHANGED vars
    BY <2>1, <2>3 DEF Counted, vars, StartOf
  <2>4. CASE ZeroLength \/ Guess \/ Back \/ Forward \/ CutDay \/ Answer \/ Finished
    <3>1. pc # "count" /\ pc' # "count" /\ caps' = caps
      BY <2>4 DEF ZeroLength, Guess, Back, Forward, CutDay, Answer, Finished, vars
    <3> QED
      BY <1>1, <2>1, <3>1 DEF Counted, StartOf
  <2> QED
    BY <2>2, <2>3, <2>4 DEF Next, Step
<1> QED
  BY <1>1, <1>2, <1>3

(* A stay counted to its last day is there on as many dates. *)
LEMMA DatesCounted ==
  ASSUME NEW w \in WalkType, OrdinaryZone(w.zone), NoMidnightSkipped(w.zone),
         w.cap.boundary = "calendar_day", w.stay.entry < w.stay.exit,
         NEW n \in Nat, n >= 1, n > 1 => StartOf(w, n - 1) < w.stay.exit,
         StartOf(w, n) >= w.stay.exit
  PROVE  Cardinality({LocalDate(w.zone, t) : t \in w.stay.entry .. w.stay.exit - 1}) = n
<1> DEFINE entry == w.stay.entry
           exit == w.stay.exit
           date(t) == LocalDate(w.zone, t)
           first == date(entry)
           dates == {date(t) : t \in entry .. exit - 1}
<1>1. /\ entry \in Int /\ exit \in Int /\ first \in Int
      /\ \A k \in Nat : StartOf(w, k) \in Int
      /\ StartOf(w, 0) = entry
  BY WalkFields, PlainStart, DayIsADate DEF StartOf, DayStart
<1>2. ASSUME NEW t \in entry .. exit - 1
      PROVE  date(t) \in first .. first + n - 1
  <2>1. /\ t \in Int /\ 0 \in Nat /\ n - 1 \in Nat /\ (n - 1) + 1 = n
        /\ StartOf(w, 0) <= t /\ t < StartOf(w, n)
    BY <1>1
  <2> DEFINE m == n - 1
  <2>2. m \in Nat /\ m + 1 = n
    BY <2>1
  <2> HIDE DEF m
  <2>3. t < StartOf(w, m + 1)
    BY <2>1, <2>2
  <2>4. date(t) <= first + m /\ date(t) \in Int
    BY <2>1, <2>2, <2>3, DayIsADate
  <2>5. first + 0 <= date(t)
    BY <2>1, DayIsADate
  <2> HIDE DEF date, first
  <2> QED
    BY <1>1, <2>2, <2>4, <2>5
<1>3. ASSUME NEW d \in first .. first + n - 1
      PROVE  d \in dates
  <2>1. CASE d = first
    <3>1. entry \in entry .. exit - 1
      BY <1>1
    <3> QED
      BY <2>1, <3>1
  <2>2. CASE d # first
    <3> DEFINE k == d - first
    <3>1. k \in Nat /\ k > 0 /\ k <= n - 1 /\ d = first + k
      BY <1>1, <2>2
    <3> HIDE DEF k
    <3>2. date(StartOf(w, k)) = first + k /\ entry < StartOf(w, k)
      BY <1>1, <3>1, DayIsADate
    <3>3. StartOf(w, k) < exit
      <4>1. CASE k = n - 1
        BY <3>1, <4>1
      <4>2. CASE k # n - 1
        <5> DEFINE j == n - 1
                   e(i) == LocalDate(w.zone, w.stay.entry) + i
        <5>1. j \in Nat /\ j > 0 /\ k < j /\ StartOf(w, j) < exit
          BY <3>1, <4>2
        <5> HIDE DEF j
        <5>2. /\ StartOf(w, k) = Midnight(w.zone, e(k))
              /\ StartOf(w, j) = Midnight(w.zone, e(j))
          BY <3>1, <5>1 DEF StartOf, DayStart
        <5>3. e(k) \in Int /\ e(j) \in Int /\ e(k) < e(j)
          BY <1>1, <3>1, <5>1
        <5> HIDE DEF e
        <5>4. Midnight(w.zone, e(k)) < Midnight(w.zone, e(j))
          BY <5>3, MidnightsInOrder, WalkFields
        <5>5. StartOf(w, k) \in Int /\ StartOf(w, j) \in Int
          BY <1>1, <3>1, <5>1
        <5> QED
          BY <1>1, <5>1, <5>2, <5>4, <5>5
      <4> QED
        BY <4>1, <4>2
    <3>4. StartOf(w, k) \in entry .. exit - 1
      BY <1>1, <3>1, <3>2, <3>3
    <3> QED
      BY <3>1, <3>2, <3>4
  <2> QED
    BY <2>1, <2>2
<1>4. dates = first .. first + n - 1
  <2>1. \A x \in dates : \E t \in entry .. exit - 1 : x = date(t)
    OBVIOUS
  <2>2. \A x \in dates : x \in first .. first + n - 1
    BY <1>2, <2>1
  <2> HIDE DEF dates, first
  <2> QED
    BY <1>3, <2>2
<1>5. Cardinality(first .. first + n - 1) = n
  <2> HIDE DEF first
  <2>1. first \in Int /\ first + n - 1 \in Int /\ ~(first > first + n - 1)
    BY <1>1
  <2>2. Cardinality(first .. first + n - 1) = (first + n - 1) - first + 1
    BY <2>1, FS_Interval
  <2> QED
    BY <1>1, <2>2
<1> QED
  BY <1>4, <1>5

(* In a zone where dates follow one another and no midnight is skipped, a    *)
(* calendar day's piece lies in one local date and a rolling one is at most *)
(* a day long; and the days a stay is counted are the dates it is there on. *)
THEOREM DaysAreTheDates == Spec => []DaysAreDates
<1>1. IInv /\ PlainInv /\ DatedInv => DaysAreDates
  <2> SUFFICES ASSUME IInv, PlainInv, DatedInv, OrdinaryZone(walk.zone),
                      NoMidnightSkipped(walk.zone)
               PROVE  DaysAreDates
    BY DEF DaysAreDates
  <2> DEFINE dates == {LocalDate(walk.zone, t) : t \in walk.stay.entry .. walk.stay.exit - 1}
             calendar == walk.cap.boundary = "calendar_day"
  <2>1. /\ walk \in WalkType /\ walk \in Walk /\ handed \in Seq(Int \X Int)
        /\ walk.stay.entry \in Int /\ walk.stay.exit \in Int
        /\ walk.stay.entry <= walk.stay.exit
        /\ walk.cap.boundary \in {"calendar_day", "rolling_24h"}
    BY WalkIsTyped, WalkFields DEF PlainInv
  <2>2. ASSUME NEW i \in 1 .. Len(handed)
        PROVE  LET p == handed[i]
               IN  IF calendar
                   THEN \A t \in p[1] .. p[2] - 1 :
                          LocalDate(walk.zone, t) = LocalDate(walk.zone, p[1])
                   ELSE p[2] - p[1] <= DayTicks
    <3> DEFINE p == handed[i]
    <3>1. p[1] \in Int /\ p[2] \in Int /\ InADay(p)
      BY <2>1 DEF DatedInv
    <3> HIDE DEF p
    <3>2. CASE p[2] <= p[1]
      BY <3>1, <3>2, DayTicksPositive DEF p
    <3>3. CASE ~(p[2] <= p[1])
      <4>1. PICK k \in Nat : StartOf(walk, k) <= p[1] /\ p[2] <= StartOf(walk, k + 1)
        BY <3>1, <3>3 DEF InADay
      <4>2. StartOf(walk, k) \in Int /\ StartOf(walk, k + 1) \in Int
        BY <2>1, PlainStart
      <4>3. CASE calendar
        <5> DEFINE d == LocalDate(walk.zone, walk.stay.entry) + k
        <5>1. ASSUME NEW t \in p[1] .. p[2] - 1
              PROVE  LocalDate(walk.zone, t) = d
          <6>1. t \in Int /\ StartOf(walk, k) <= t /\ t < StartOf(walk, k + 1)
            BY <3>1, <4>1, <4>2
          <6>2. /\ LocalDate(walk.zone, walk.stay.entry) \in Int
                /\ LocalDate(walk.zone, t) \in Int
                /\ d <= LocalDate(walk.zone, t) /\ LocalDate(walk.zone, t) <= d
            BY <2>1, <4>3, <6>1, DayIsADate
          <6> QED
            BY <6>2
        <5>2. p[1] \in p[1] .. p[2] - 1
          BY <3>1, <3>3
        <5> HIDE DEF d
        <5> QED
          BY <4>3, <5>1, <5>2 DEF p
      <4>4. CASE ~calendar
        <5>1. StartOf(walk, k + 1) = StartOf(walk, k) + DayTicks
          BY <2>1, <4>4, NextMultiple, DayTicksPositive, SMTT(30) DEF StartOf, DayStart
        <5>2. p[2] - p[1] <= DayTicks
          BY <3>1, <4>1, <4>2, <5>1, DayTicksPositive
        <5> QED
          BY <4>4, <5>2 DEF p
      <4> QED
        BY <4>3, <4>4
    <3> QED
      BY <3>2, <3>3
  <2>3. ASSUME pc = "done", walk.asked = "apply", calendar
        PROVE  caps = AtLeast(1, Cardinality(dates))
    <3>1. Counted
      BY <2>3 DEF DatedInv
    <3>2. /\ caps \in Nat /\ caps >= 1
          /\ caps > 1 => StartOf(walk, caps - 1) < walk.stay.exit
          /\ IF walk.stay.entry < walk.stay.exit
             THEN StartOf(walk, caps) >= walk.stay.exit ELSE caps = 1
      BY <2>3, <3>1 DEF Counted
    <3>3. CASE walk.stay.entry < walk.stay.exit
      <4>1. Cardinality(dates) = caps
        BY <2>1, <2>3, <3>2, <3>3, DatesCounted
      <4> QED
        BY <3>2, <4>1 DEF AtLeast
    <3>4. CASE ~(walk.stay.entry < walk.stay.exit)
      <4>1. walk.stay.entry .. walk.stay.exit - 1 = {}
        BY <2>1, <3>4
      <4>2. dates = {}
        BY <4>1
      <4> HIDE DEF dates
      <4>3. Cardinality(dates) = 0
        BY <4>2, FS_EmptySet
      <4> QED
        BY <3>2, <3>4, <4>3 DEF AtLeast
    <3> QED
      BY <3>3, <3>4
  <2> QED
    BY <2>2, <2>3 DEF DaysAreDates
<1>2. Init => IInv /\ PlainInv /\ DatedInv
  BY InitHolds, PlainInit, DatedInit
<1>3. IInv /\ PlainInv /\ DatedInv /\ [Next]_vars => IInv' /\ PlainInv' /\ DatedInv'
  BY StepHolds, PlainStep, DatedStep
<1> QED
  BY <1>1, <1>2, <1>3, PTL DEF Spec

(* Whatever is worked out term by term as the library's sum is, is that sum. *)
LEMMA SumIsWorkedOut ==
  ASSUME NEW g, NEW S, IsFiniteSet(S), NEW it, Summed(g, S, it)
  PROVE  SumFunctionOnSet(g, S) = it[S]
<1> DEFINE jt == CHOOSE kt : Summed(g, S, kt)
<1>1. Summed(g, S, jt)
  OBVIOUS
<1>2. S \in SUBSET (S \cap S)
  OBVIOUS
<1>3. SumFunctionOnSet(g, S) = jt[S]
  BY SumIs
<1> HIDE DEF jt
<1>4. jt[S] = it[S]
  BY <1>1, <1>2, SumsAgree
<1> QED
  BY <1>3, <1>4

(* Terms that are an operator's are summed as a function's. *)
LEMMA SumOfPayments ==
  ASSUME NEW cap, NEW stay, NEW zone, NEW rate, NEW start, NEW end,
         NEW parts, parts = PiecesOf(cap, stay, zone, start, end), IsFiniteSet(DOMAIN parts),
         NEW g, \A i \in DOMAIN parts :
                  g[i] = AtMost(cap.most, ChargeIn(stay, rate, parts[i][1], parts[i][2]))
  PROVE  DaysPay(cap, stay, zone, rate, start, end) = SumFunctionOnSet(g, DOMAIN parts)
<1> DEFINE f(i) == AtMost(cap.most, ChargeIn(stay, rate, parts[i][1], parts[i][2]))
           S == DOMAIN parts
           C(it) == it = [s \in SUBSET S |-> IF s = {} THEN 0
                            ELSE LET x == CHOOSE y \in s : TRUE IN f(x) + it[s \ {x}]]
<1>1. DaysPay(cap, stay, zone, rate, start, end) = (CHOOSE it : C(it))[S]
  BY DEF DaysPay, MapThenSumSet, MapThenFoldSet
<1>2. ASSUME NEW it PROVE C(it) <=> Summed(g, S, it)
  <2>1. \A s \in SUBSET S : s # {} => (CHOOSE y \in s : TRUE) \in S
    OBVIOUS
  <2>2. \A x \in S : f(x) = g[x]
    OBVIOUS
  <2> HIDE DEF f, S
  <2> QED
    BY <2>1, <2>2 DEF Summed, SumStep
<1> HIDE DEF C, f
<1>3. \E it : Summed(g, S, it)
  BY SumExists
<1>4. C(CHOOSE jt : C(jt))
  BY <1>2, <1>3, Zenon
<1>5. Summed(g, S, CHOOSE jt : C(jt))
  BY <1>2, <1>4, Zenon
<1> QED
  BY <1>1, <1>5, SumIsWorkedOut

LEMMA MinIs ==
  ASSUME NEW S, S \subseteq Int, NEW m \in S, \A n \in S : m <= n
  PROVE  Min(S) = m
<1> DEFINE c == Min(S)
<1>1. c \in S /\ \A n \in S : c <= n
  BY DEF Min
<1> HIDE DEF c
<1>2. c <= m /\ m <= c /\ c \in Int /\ m \in Int
  BY <1>1
<1> QED
  BY <1>2 DEF c

LEMMA MaxIs ==
  ASSUME NEW S, S \subseteq Int, NEW m \in S, \A n \in S : n <= m
  PROVE  Max(S) = m
<1> DEFINE c == Max(S)
<1>1. c \in S /\ \A n \in S : c >= n
  <2>1. \E d \in S : \A n \in S : d >= n
    OBVIOUS
  <2> QED
    BY <2>1 DEF Max
<1> HIDE DEF c
<1>2. c <= m /\ m <= c /\ c \in Int /\ m \in Int
  BY <1>1
<1> QED
  BY <1>2 DEF c

DayBoundaries == {"calendar_day", "rolling_24h"}

(* An instant has a date, and a date a midnight, on any clock. *)
LEMMA PlainClock ==
  ASSUME NEW zone \in ZoneType
  PROVE  /\ \A t \in Int : WallClock(zone, t) \in Int /\ LocalDate(zone, t) \in Int
         /\ \A d \in Int : Midnight(zone, d) \in Int
<1>1. \A t \in Int : WallClock(zone, t) \in Int
  BY ZoneFields DEF WallClock
<1>2. \A t \in Int : LocalDate(zone, t) \in Int
  BY <1>1, DayDivision DEF LocalDate
<1>3. \A d \in Int : Midnight(zone, d) \in Int
  BY ZoneFields, NextMultiple DEF Midnight
<1> QED
  BY <1>1, <1>2, <1>3

LEMMA PlainDayStart ==
  ASSUME NEW cap, cap.boundary \in DayBoundaries, NEW stay \in StayType,
         NEW zone \in ZoneType, NEW i \in Nat
  PROVE  DayStart(cap, stay, zone, i) \in Int
<1>1. stay.entry \in Int
  BY DEF StayType
<1>2. LocalDate(zone, stay.entry) + i \in Int
  BY <1>1, PlainClock
<1> QED
  BY <1>1, <1>2, PlainClock, NextMultiple DEF DayStart, DayBoundaries

(* Each day of a stay starts after the one before it, the entry's day first. *)
LEMMA DayStartsIncrease ==
  ASSUME NEW cap, cap.boundary \in DayBoundaries, NEW stay \in StayType,
         NEW zone \in ZoneType, OrdinaryZone(zone), NEW i \in Nat
  PROVE  /\ DayStart(cap, stay, zone, i) \in Int
         /\ DayStart(cap, stay, zone, i) < DayStart(cap, stay, zone, i + 1)
<1> DEFINE entry == stay.entry
           date == LocalDate(zone, entry)
<1>0. entry \in Int
  BY DEF StayType
<1>1. CASE cap.boundary = "rolling_24h"
  BY <1>0, <1>1, NextMultiple, DayTicksPositive DEF DayStart
<1>2. CASE cap.boundary = "calendar_day" /\ i = 0
  <2>1. entry < Midnight(zone, date + 1) /\ date \in Int
    BY <1>0, NextMidnightIsAhead
  <2>2. DayStart(cap, stay, zone, 0) = entry /\ DayStart(cap, stay, zone, 1) = Midnight(zone, date + 1)
    BY <1>2 DEF DayStart
  <2> QED BY <1>0, <1>2, <2>1, <2>2
<1>3. CASE cap.boundary = "calendar_day" /\ i # 0
  <2>1. date \in Int /\ date + i \in Int
    BY <1>0, NextMidnightIsAhead
  <2>2. /\ DayStart(cap, stay, zone, i) = Midnight(zone, date + i)
        /\ DayStart(cap, stay, zone, i + 1) = Midnight(zone, (date + i) + 1)
    BY <1>3, <2>1 DEF DayStart
  <2> QED BY <2>1, <2>2, MidnightsIncrease
<1> QED BY <1>1, <1>2, <1>3 DEF DayBoundaries

(* Where the offset moves by less than k days, the day numbered n starts    *)
(* more than n - 1 - k days after the entry.                                *)
LEMMA FarDays ==
  ASSUME NEW cap, cap.boundary \in DayBoundaries, NEW stay \in StayType,
         NEW zone \in ZoneType, NEW k \in {1, 2},
         zone.after - zone.before < k * DayTicks, zone.before - zone.after < k * DayTicks,
         NEW n \in Nat, n >= 1
  PROVE  DayStart(cap, stay, zone, n) > stay.entry + (n - 1 - k) * DayTicks
<1> DEFINE D == DayTicks
           entry == stay.entry
           d == LocalDate(zone, entry)
<1>1. entry \in Int /\ d \in Int /\ D \in Nat \ {0}
  BY PlainClock, DayTicksPositive DEF StayType
<1>2. /\ n * D \in Int /\ d * D \in Int /\ k * D \in Int
      /\ (n - 1 - k) * D = n * D - D - k * D
      /\ (d + n) * D = d * D + n * D
  <2>1. \A a, b, c, e \in Int : /\ a * e \in Int /\ b * e \in Int /\ c * e \in Int
                                /\ (a - 1 - b) * e = a * e - e - b * e
                                /\ (c + a) * e = c * e + a * e
    BY SMT
  <2> QED
    BY <1>1, <2>1
<1>3. CASE cap.boundary = "rolling_24h"
  <2>1. DayStart(cap, stay, zone, n) = entry + n * D
    BY <1>3 DEF DayStart
  <2>2. k * D >= 0
    BY <1>1
  <2> HIDE DEF D
  <2> QED
    BY <1>1, <1>2, <2>1, <2>2 DEF D
<1>4. CASE cap.boundary = "calendar_day"
  <2>1. DayStart(cap, stay, zone, n) = Midnight(zone, d + n)
    BY <1>4 DEF DayStart
  <2>2. PICK o \in {zone.before, zone.after} : WallClock(zone, entry) = entry + o
    BY DEF WallClock
  <2>3. PICK p \in {zone.before, zone.after} : Midnight(zone, d + n) = (d + n) * D - p
    BY DEF Midnight
  <2>4. /\ o \in Int /\ p \in Int /\ o - p > -(k * D)
    BY <1>1, <1>2, <2>2, <2>3, ZoneFields
  <2>5. entry + o < d * D + D
    <3>1. d = (entry + o) \div DayTicks /\ entry + o \in Int
      BY <1>1, <2>2, <2>4 DEF LocalDate
    <3> HIDE DEF d, entry
    <3> QED
      BY <3>1, DayDivision
  <2> HIDE DEF D, d
  <2> QED
    BY <1>1, <1>2, <2>1, <2>3, <2>4, <2>5 DEF D
<1> QED
  BY <1>3, <1>4 DEF DayBoundaries

(* A whole number of minutes is no shorter than what it is rounded up from.  *)
LEMMA MinutesCover ==
  ASSUME NEW a \in Int, NEW b \in Int, NEW m \in Int, MinutesUntil(a, b) <= m * MinutesInADay
  PROVE  b - a <= m * DayTicks
<1>1. \A d \in Nat \ {0}, n, c \in Int : CeilDiv(n, d) <= c => n <= c * d
  <2> TAKE d \in Nat \ {0}, n, c \in Int
  <2> HAVE CeilDiv(n, d) <= c
  <2>1. ((-n) \div d) \in Int /\ ((-n) \div d) * d <= -n
    BY SMT
  <2>2. ((-n) \div d) >= -c
    BY <2>1 DEF CeilDiv
  <2>3. ((-n) \div d) * d >= (-c) * d /\ (-c) * d = -(c * d) /\ c * d \in Int
    <3>1. \A x, y \in Int : x >= y => x * d >= y * d
      BY SMT
    <3>2. (-c) * d = -(c * d) /\ c * d \in Int
      BY SMT
    <3> QED
      BY <2>1, <2>2, <3>1, <3>2
  <2> QED
    BY <2>1, <2>3
<1>2. m * MinutesInADay \in Int /\ (m * MinutesInADay) * MinuteTicks = m * DayTicks
  <2>1. \A x, y \in Nat : m * y \in Int /\ (m * y) * x = m * (x * y)
    BY SMT
  <2> QED
    BY <2>1, ClockAssumption DEF DayTicks
<1> QED
  BY <1>1, <1>2, ClockAssumption DEF MinutesUntil

(* The days a walk may still find: past them the stay is over. *)
Enough(cap, stay, zone) ==
  \A n \in Nat : n >= MaxStayDays + 3 => DayStart(cap, stay, zone, n) > stay.exit

LEMMA EnoughDays ==
  ASSUME NEW cap, cap.boundary \in DayBoundaries, NEW stay \in StayType,
         NEW zone \in ZoneType, NEW k \in {1, 2},
         zone.after - zone.before < k * DayTicks, zone.before - zone.after < k * DayTicks,
         stay.exit - stay.entry <= (MaxStayDays + 2 - k) * DayTicks
  PROVE  Enough(cap, stay, zone)
<1> SUFFICES ASSUME NEW n \in Nat, n >= MaxStayDays + 3
             PROVE  DayStart(cap, stay, zone, n) > stay.exit
  BY DEF Enough
<1>1. DayStart(cap, stay, zone, n) > stay.entry + (n - 1 - k) * DayTicks
  BY FarDays, CapsAssumption
<1>2. (MaxStayDays + 2 - k) * DayTicks <= (n - 1 - k) * DayTicks
  <2>1. \A x, y \in Int, d \in Nat : x <= y => x * d <= y * d /\ x * d \in Int /\ y * d \in Int
    BY SMT
  <2>2. MaxStayDays + 2 - k \in Int /\ n - 1 - k \in Int /\ MaxStayDays + 2 - k <= n - 1 - k
    BY CapsAssumption
  <2> QED
    BY <2>1, <2>2, DayTicksPositive
<1>3. /\ (MaxStayDays + 2 - k) * DayTicks \in Int /\ (n - 1 - k) * DayTicks \in Int
      /\ stay.entry \in Int /\ stay.exit \in Int
      /\ DayStart(cap, stay, zone, n) \in Int
  BY CapsAssumption, DayTicksPositive, NextMultiple, PlainDayStart DEF StayType
<1> QED
  BY <1>1, <1>2, <1>3

-----------------------------------------------------------------------------
(* The loops and the operators, in any zone: where each loop stands said by  *)
(* the starts it has looked at, and what it comes to.                       *)

(* Day i of a walk, and what of it lies in the part, as the loops see them.  *)
AnotherAfter(w, i) == w.stay.exit > w.stay.entry /\ StartOf(w, i + 1) < w.stay.exit
DayAt(w, i) == <<StartOf(w, i), IF AnotherAfter(w, i) THEN StartOf(w, i + 1) ELSE w.stay.exit>>
Inside(w, i) == DayAt(w, i)[1] < w.end /\ DayAt(w, i)[2] > w.start
PieceAt(w, i) == <<AtLeast(DayAt(w, i)[1], w.start), AtMost(DayAt(w, i)[2], w.end)>>

(* What Back stops at, from the guess, and Forward from there. *)
BackFrom(w) == GuessedDay(w.cap, w.stay, w.zone, w.start)
IsBack(w, b) ==
  /\ b \in 0 .. BackFrom(w)
  /\ b = 0 \/ StartOf(w, b) <= w.start
  /\ \A i \in b + 1 .. BackFrom(w) : StartOf(w, i) > w.start

Passed(w, f) ==
  IF w.start <= w.stay.entry THEN f = 0
  ELSE \E b \in 0 .. f : IsBack(w, b) /\ \A i \in b .. f - 1 : StartOf(w, i + 1) <= w.start

IsHolding(w, f) ==
  Passed(w, f) /\ (w.start > w.stay.entry => StartOf(w, f + 1) > w.start)

(* The days from f on, up to day d, are each inside the part and not the     *)
(* last, and each was handed out.                                           *)
HandedFrom(w, f, parts) ==
  \A i \in 1 .. Len(parts) : parts[i] = PieceAt(w, f + i - 1) /\ Inside(w, f + i - 1)

CutFrom(w, f, d, parts) ==
  /\ f \in Nat /\ d = f + Len(parts)
  /\ IsHolding(w, f)
  /\ HandedFrom(w, f, parts)
  /\ \A i \in f .. d - 1 : AnotherAfter(w, i)

(* All are handed out: the last day of the stay is, or the next is outside.  *)
AllCut(w, f, parts) ==
  /\ f \in Nat
  /\ IsHolding(w, f)
  /\ HandedFrom(w, f, parts)
  /\ \A i \in f .. f + Len(parts) - 2 : AnotherAfter(w, i)
  /\ \/ Len(parts) > 0 /\ ~AnotherAfter(w, f + Len(parts) - 1)
     \/ /\ Len(parts) > 0 => AnotherAfter(w, f + Len(parts) - 1)
        /\ ~Inside(w, f + Len(parts))

CountedTo(w, n) == n \in Nat /\ \A i \in 0 .. n - 1 : AnotherAfter(w, i)
CountedAll(w, n) == n \in Nat \ {0} /\ CountedTo(w, n - 1) /\ ~AnotherAfter(w, n - 1)

Walked ==
  IF walk.end <= walk.start THEN handed = <<<<walk.start, walk.end>>>>
  ELSE \E f \in Nat : AllCut(walk, f, handed)

LoopInv ==
  /\ pc \in {"count", "pieces", "back", "forward", "cut", "answer", "done", "failed"}
  /\ pc = "count" => walk.asked = "apply" /\ day = caps /\ CountedTo(walk, caps)
  /\ pc # "count" /\ walk.asked = "apply" => CountedAll(walk, caps)
  /\ pc \in {"count", "pieces", "back", "forward"} => handed = << >>
  /\ pc \in {"back", "forward", "cut"} => walk.start < walk.end
  /\ pc \in {"pieces", "back", "forward", "cut"} => walk.rate # Flat \/ walk.asked = "pieces"
  /\ pc = "back" => /\ walk.start > walk.stay.entry /\ day \in 0 .. BackFrom(walk)
                    /\ \A i \in day + 1 .. BackFrom(walk) : StartOf(walk, i) > walk.start
  /\ pc = "forward" => walk.start > walk.stay.entry /\ Passed(walk, day)
  /\ pc = "cut" => \E f \in Nat : CutFrom(walk, f, day, handed)
  /\ Answered => Walked
  /\ pc \notin {"done", "failed"} => fee = walk.running
  /\ pc = "done" /\ walk.asked = "apply" => fee = AtMost(walk.running, Ceiling)

LEMMA LoopInit == Init => LoopInv
<1> SUFFICES ASSUME Init PROVE LoopInv
  OBVIOUS
<1>1. /\ pc \in {"count", "pieces"} /\ (pc = "count" <=> walk.asked = "apply")
      /\ day = 0 /\ caps = 0 /\ handed = << >> /\ fee = walk.running
      /\ walk.asked \in {"apply", "pieces"}
  BY WalkAssumption DEF Init, WalkType
<1>2. CountedTo(walk, 0)
  BY DEF CountedTo
<1> QED
  BY <1>1, <1>2 DEF LoopInv, Answered

(* What StartOf says of a walk as typed. *)
LEMMA WalkStarts ==
  ASSUME walk \in Walk
  PROVE  /\ \A i \in Nat : StartOf(walk, i) \in Int
         /\ walk.start > walk.stay.entry => BackFrom(walk) \in Nat
         /\ walk.asked \in {"apply", "pieces"}
         /\ walk.running \in Nat
BY WalkIsTyped, PlainStart, PlainGuess, WalkFields DEF BackFrom, WalkType

LEMMA LoopStep == PlainInv /\ LoopInv /\ [Next]_vars => LoopInv'
<1> SUFFICES ASSUME PlainInv, LoopInv, [Next]_vars PROVE LoopInv'
  OBVIOUS
<1>1. walk' = walk /\ walk \in Walk /\ PlainInv' /\ day \in Nat
  BY PlainStep DEF PlainInv
<1>2. /\ \A i \in Nat : StartOf(walk, i) \in Int
      /\ walk.start > walk.stay.entry => BackFrom(walk) \in Nat
      /\ walk.asked \in {"apply", "pieces"}
      /\ walk.start \in Int /\ walk.stay.entry \in Int
  BY <1>1, WalkStarts, WalkIsTyped
<1>3. CASE CountDay
  <2>1. /\ pc = "count" /\ caps' = caps + 1 /\ UNCHANGED <<handed, amounts, fee>>
        /\ walk.asked = "apply" /\ day = caps /\ CountedTo(walk, caps) /\ handed = << >>
        /\ fee = walk.running
    BY <1>3 DEF CountDay, LoopInv
  <2>2. Another <=> AnotherAfter(walk, caps)
    BY <2>1 DEF Another, AnotherAfter
  <2>3. CASE Another
    <3>1. day' = day + 1 /\ pc' = "count"
      BY <1>3, <2>1, <2>3 DEF CountDay
    <3>2. CountedTo(walk, caps + 1)
      BY <2>1, <2>2, <2>3 DEF CountedTo
    <3> QED
      BY <1>1, <2>1, <3>1, <3>2 DEF LoopInv, Answered
  <2>4. CASE ~Another
    <3>1. pc' = IF walk.rate = Flat THEN "answer" ELSE "pieces"
      BY <1>3, <2>1, <2>4 DEF CountDay
    <3>2. CountedAll(walk, caps + 1)
      BY <2>1, <2>2, <2>4 DEF CountedAll, CountedTo
    <3> QED
      BY <1>1, <2>1, <3>1, <3>2 DEF LoopInv, Answered
  <2> QED
    BY <2>3, <2>4
<1>4. CASE ZeroLength
  <2>1. /\ pc = "pieces" /\ walk.end <= walk.start /\ pc' = "answer"
        /\ handed' = Append(handed, <<walk.start, walk.end>>) /\ handed = << >>
        /\ UNCHANGED <<walk, day, caps, fee>>
    BY <1>4 DEF ZeroLength, HandOut, LoopInv
  <2>2. handed' = <<<<walk.start, walk.end>>>>
    BY <2>1
  <2> QED
    BY <1>1, <2>1, <2>2 DEF LoopInv, Walked
<1>5. CASE Guess
  <2>1. /\ pc = "pieces" /\ walk.start < walk.end /\ handed = << >>
        /\ UNCHANGED <<walk, caps, handed, amounts, fee>>
    BY <1>1, <1>5, WalkIsTyped DEF Guess, LoopInv
  <2>2. CASE walk.start <= walk.stay.entry
    <3>1. day' = 0 /\ pc' = "cut"
      BY <1>5, <2>2 DEF Guess
    <3>2. CutFrom(walk, 0, 0, << >>)
      BY <1>2, <2>2 DEF CutFrom, IsHolding, Passed, HandedFrom
    <3> QED
      BY <1>1, <2>1, <3>1, <3>2 DEF LoopInv, Answered
  <2>3. CASE ~(walk.start <= walk.stay.entry)
    <3>1. day' = BackFrom(walk) /\ pc' = "back"
      BY <1>5, <2>3 DEF Guess, BackFrom
    <3>2. day' \in 0 .. BackFrom(walk) /\ walk.start > walk.stay.entry
          /\ \A i \in day' + 1 .. BackFrom(walk) : FALSE
      BY <1>2, <2>3, <3>1
    <3> QED
      BY <1>1, <2>1, <3>1, <3>2 DEF LoopInv, Answered
  <2> QED
    BY <2>2, <2>3
<1>6. CASE Back
  <2>1. /\ pc = "back" /\ UNCHANGED <<walk, caps, handed, amounts, fee>> /\ handed = << >>
        /\ walk.start > walk.stay.entry /\ day \in 0 .. BackFrom(walk)
        /\ \A i \in day + 1 .. BackFrom(walk) : StartOf(walk, i) > walk.start
        /\ walk.start < walk.end
    BY <1>6 DEF Back, LoopInv
  <2>2. CASE day > 0 /\ StartOf(walk, day) > walk.start
    <3>1. day' = day - 1 /\ pc' = "back"
      BY <1>6, <2>1, <2>2 DEF Back
    <3>2. /\ day' \in 0 .. BackFrom(walk)
          /\ \A i \in day' + 1 .. BackFrom(walk) : StartOf(walk, i) > walk.start
      <4>1. \A i \in day .. BackFrom(walk) : i = day \/ i \in day + 1 .. BackFrom(walk)
        BY <1>1, <1>2, <2>1
      <4> QED
        BY <1>1, <1>2, <2>1, <2>2, <3>1, <4>1
    <3> QED
      BY <1>1, <2>1, <3>1, <3>2 DEF LoopInv, Answered
  <2>3. CASE ~(day > 0 /\ StartOf(walk, day) > walk.start)
    <3>1. day' = day /\ pc' = "forward"
      BY <1>6, <2>1, <2>3 DEF Back
    <3>2. IsBack(walk, day)
      BY <1>1, <1>2, <2>1, <2>3 DEF IsBack
    <3>3. Passed(walk, day)
      <4>1. day \in 0 .. day /\ \A i \in day .. day - 1 : FALSE
        BY <1>1
      <4> QED
        BY <1>2, <2>1, <3>2, <4>1 DEF Passed
    <3> QED
      BY <1>1, <2>1, <3>1, <3>3 DEF LoopInv, Answered
  <2> QED
    BY <2>2, <2>3
<1>7. CASE Forward
  <2>1. /\ pc = "forward" /\ UNCHANGED <<walk, caps, handed, amounts, fee>> /\ handed = << >>
        /\ walk.start > walk.stay.entry /\ Passed(walk, day) /\ walk.start < walk.end
    BY <1>7 DEF Forward, LoopInv
  <2>2. CASE StartOf(walk, day + 1) <= walk.start
    <3>1. day' = day + 1 /\ pc' = "forward"
      BY <1>7, <2>1, <2>2 DEF Forward
    <3>2. Passed(walk, day + 1)
      <4>1. PICK b \in 0 .. day : IsBack(walk, b) /\ \A i \in b .. day - 1 : StartOf(walk, i + 1) <= walk.start
        BY <1>2, <2>1 DEF Passed
      <4>2. /\ b \in 0 .. day + 1
            /\ \A i \in b .. (day + 1) - 1 : i = day \/ i \in b .. day - 1
        BY <1>1
      <4>3. \A i \in b .. (day + 1) - 1 : StartOf(walk, i + 1) <= walk.start
        BY <2>2, <4>1, <4>2
      <4> QED
        BY <1>2, <2>1, <4>1, <4>2, <4>3 DEF Passed
    <3> QED
      BY <1>1, <2>1, <3>1, <3>2 DEF LoopInv, Answered
  <2>3. CASE ~(StartOf(walk, day + 1) <= walk.start)
    <3>1. day' = day /\ pc' = "cut"
      BY <1>7, <2>1, <2>3 DEF Forward
    <3>2. IsHolding(walk, day)
      BY <1>1, <1>2, <2>1, <2>3 DEF IsHolding
    <3>3. CutFrom(walk, day, day, << >>)
      BY <1>1, <3>2 DEF CutFrom, HandedFrom
    <3> QED
      BY <1>1, <2>1, <3>1, <3>3 DEF LoopInv, Answered
  <2> QED
    BY <2>2, <2>3
<1>8. CASE CutDay
  <2>1. /\ pc = "cut" /\ UNCHANGED <<walk, caps, fee>> /\ walk.start < walk.end
        /\ fee = walk.running /\ (walk.asked = "apply" => CountedAll(walk, caps))
        /\ walk.rate # Flat \/ walk.asked = "pieces"
    BY <1>8 DEF CutDay, LoopInv
  <2>2. PICK f \in Nat : CutFrom(walk, f, day, handed)
    BY <2>1 DEF LoopInv
  <2>3. /\ Another <=> AnotherAfter(walk, day)
        /\ InsidePart <=> Inside(walk, day)
        /\ PieceAt(walk, day) = <<AtLeast(DayInHand[1], walk.start), AtMost(DayInHand[2], walk.end)>>
    BY DEF Another, AnotherAfter, InsidePart, Inside, PieceAt, DayInHand, DayAt
  <2>4. handed \in Seq(Int \X Int) /\ Len(handed) \in Nat
    BY DEF PlainInv
  <2>5. CASE Inside(walk, day)
    <3>1. handed' = Append(handed, PieceAt(walk, day))
      BY <1>8, <2>3, <2>5 DEF CutDay, HandOut
    <3>2. /\ Len(handed') = Len(handed) + 1
          /\ handed'[Len(handed) + 1] = PieceAt(walk, day)
          /\ \A i \in 1 .. Len(handed) : handed'[i] = handed[i]
      BY <2>4, <3>1
    <3>3. day = f + Len(handed) /\ IsHolding(walk, f) /\ HandedFrom(walk, f, handed)
          /\ \A i \in f .. day - 1 : AnotherAfter(walk, i)
      BY <2>2 DEF CutFrom
    <3>4. HandedFrom(walk, f, handed')
      <4> SUFFICES ASSUME NEW i \in 1 .. Len(handed')
                   PROVE  handed'[i] = PieceAt(walk, f + i - 1) /\ Inside(walk, f + i - 1)
        BY DEF HandedFrom
      <4>1. CASE i = Len(handed) + 1
        <5>1. f + i - 1 = day
          BY <2>4, <3>3, <4>1
        <5> QED
          BY <2>5, <3>2, <4>1, <5>1
      <4>2. CASE i # Len(handed) + 1
        <5>1. i \in 1 .. Len(handed)
          BY <2>4, <3>2, <4>2
        <5> QED
          BY <3>2, <3>3, <5>1 DEF HandedFrom
      <4> QED
        BY <4>1, <4>2
    <3>5. CASE Another
      <4>1. day' = day + 1 /\ pc' = "cut"
        BY <1>8, <2>1, <2>3, <2>5, <3>5 DEF CutDay
      <4>2. day' = f + Len(handed') /\ \A i \in f .. day' - 1 : i = day \/ i \in f .. day - 1
        <5>1. /\ f \in Nat /\ day \in Nat /\ day' = day + 1
              /\ day = f + Len(handed) /\ Len(handed') = Len(handed) + 1 /\ Len(handed) \in Nat
          BY <1>1, <2>2, <2>4, <3>2, <3>3, <4>1, Zenon
        <5> DEFINE n == Len(handed)
                   m == Len(handed')
        <5>2. f \in Nat /\ day \in Nat /\ day' = day + 1 /\ day = f + n /\ m = n + 1 /\ n \in Nat
          BY <5>1
        <5> HIDE DEF n, m
        <5>3. day' = f + m
          BY <5>2
        <5>4. \A i \in f .. day' - 1 : i = day \/ i \in f .. day - 1
          BY <5>2
        <5> QED
          BY <5>3, <5>4 DEF m
      <4>3. CutFrom(walk, f, day', handed')
        BY <2>3, <3>3, <3>4, <3>5, <4>2 DEF CutFrom
      <4>4. \E g \in Nat : CutFrom(walk', g, day', handed')
        BY <1>1, <4>3
      <4> QED
        BY <1>1, <2>1, <4>1, <4>4 DEF LoopInv, Answered
    <3>6. CASE ~Another
      <4>1. pc' = "answer" /\ day' = day
        BY <1>8, <2>3, <2>5, <3>6 DEF CutDay
      <4>2. /\ f + Len(handed') - 1 = day /\ Len(handed') > 0
            /\ f .. f + Len(handed') - 2 = f .. day - 1
        BY <1>1, <2>4, <3>2, <3>3
      <4>3. AllCut(walk, f, handed')
        BY <2>3, <3>3, <3>4, <3>6, <4>2 DEF AllCut
      <4>4. ~(walk.end <= walk.start)
        BY <1>1, <2>1, WalkIsTyped
      <4> QED
        BY <1>1, <2>1, <4>1, <4>3, <4>4 DEF LoopInv, Walked
    <3> QED
      BY <3>5, <3>6
  <2>6. CASE ~Inside(walk, day)
    <3>1. pc' = "answer" /\ UNCHANGED <<day, handed, amounts>>
      BY <1>8, <2>3, <2>6 DEF CutDay
    <3>2. day = f + Len(handed) /\ IsHolding(walk, f) /\ HandedFrom(walk, f, handed)
          /\ \A i \in f .. day - 1 : AnotherAfter(walk, i)
      BY <2>2 DEF CutFrom
    <3>3. /\ Len(handed) > 0 => f + Len(handed) - 1 \in f .. day - 1
          /\ \A i \in f .. f + Len(handed) - 2 : i \in f .. day - 1
      BY <1>1, <2>4, <3>2
    <3>4. AllCut(walk, f, handed)
      BY <2>6, <3>2, <3>3 DEF AllCut
    <3>5. ~(walk.end <= walk.start)
      BY <1>1, <2>1, WalkIsTyped
    <3> QED
      BY <1>1, <2>1, <3>1, <3>4, <3>5 DEF LoopInv, Walked
  <2> QED
    BY <2>5, <2>6
<1>9. CASE Answer
  <2>1. /\ pc = "answer" /\ UNCHANGED <<walk, day, caps, handed, amounts>>
        /\ pc' \in {"done", "failed"} /\ fee = walk.running
        /\ Ceiling' = Ceiling
    BY <1>9 DEF Answer, LoopInv, Ceiling
  <2>2. pc' = "done" /\ walk.asked = "apply" => fee' = AtMost(walk.running, Ceiling)
    <3>1. walk.asked = "apply" => Ceiling \in Int
      <4>1. walk.cap.most \in Nat /\ amounts.total \in Int
        BY <1>1, WalkAssumption DEF WalkType, DayCapType, PlainInv, AmountsType
      <4>2. walk.asked = "apply" => caps \in Nat
        BY <2>1 DEF LoopInv, CountedAll
      <4>3. \A x, y \in Nat : x * y \in Nat
        OBVIOUS
      <4> QED
        BY <4>1, <4>2, <4>3 DEF Ceiling
    <3>2. walk.running \in Nat
      BY <1>1, WalkStarts
    <3>3. CASE walk.running <= Ceiling
      BY <1>9, <2>1, <3>3 DEF Answer, AtMost
    <3>4. CASE ~(walk.running <= Ceiling)
      BY <1>9, <2>1, <3>1, <3>2, <3>4 DEF Answer, AtMost
    <3> QED
      BY <3>3, <3>4
  <2>3. Answered' => Answered
    BY <2>1 DEF Answered
  <2>4. Walked' <=> Walked
    BY <2>1 DEF Walked
  <2>5. /\ walk.asked = "apply" => CountedAll(walk, caps)
        /\ Answered => Walked
    BY <2>1 DEF LoopInv
  <2>6. /\ walk'.asked = "apply" => CountedAll(walk', caps')
        /\ Answered' => Walked'
    BY <2>1, <2>3, <2>4, <2>5
  <2> QED
    BY <2>1, <2>2, <2>6 DEF LoopInv
<1>10. CASE UNCHANGED vars
  BY <1>10 DEF vars, LoopInv, Answered, Walked, Ceiling
<1> QED
  BY <1>3, <1>4, <1>5, <1>6, <1>7, <1>8, <1>9, <1>10 DEF Next, Step, Finished

-----------------------------------------------------------------------------
LEMMA WalkHasEnough ==
  ASSUME NEW w \in Walk
  PROVE  /\ Enough(w.cap, w.stay, w.zone)
         /\ w.cap.boundary \in DayBoundaries /\ w.stay \in StayType /\ w.zone \in ZoneType
         /\ \A n \in Nat : n >= MaxStayDays + 3 => StartOf(w, n) > w.stay.exit
<1>1. /\ w.cap.boundary \in DayBoundaries /\ w.stay \in StayType /\ w.zone \in ZoneType
      /\ w.stay.entry \in Int /\ w.stay.exit \in Int
      /\ MinutesUntil(w.stay.entry, w.stay.exit) <= MaxStayDays * MinutesInADay
  BY WalkAssumption, WalkFields DEF WalkType, DayBoundaries
<1>2. /\ -DayTicks < w.zone.before /\ w.zone.before < DayTicks
      /\ -DayTicks < w.zone.after /\ w.zone.after < DayTicks
  BY WalkAssumption
<1>3. /\ w.zone.after - w.zone.before < 2 * DayTicks
      /\ w.zone.before - w.zone.after < 2 * DayTicks
  BY <1>1, <1>2, ZoneFields, DayTicksPositive
<1>4. w.stay.exit - w.stay.entry <= MaxStayDays * DayTicks
  BY <1>1, MinutesCover, CapsAssumption
<1>5. MaxStayDays + 2 - 2 = MaxStayDays
  BY CapsAssumption
<1>6. Enough(w.cap, w.stay, w.zone)
  BY <1>1, <1>3, <1>4, <1>5, EnoughDays
<1> QED
  BY <1>1, <1>6 DEF Enough, StartOf

(* The day a walk's loops find is the day the operator names. *)
LEMMA HoldingIs ==
  ASSUME NEW w \in Walk, NEW f \in Nat, IsHolding(w, f)
  PROVE  DayHolding(w.cap, w.stay, w.zone, w.start) = f
<1> DEFINE s(i) == StartOf(w, i)
           guess == BackFrom(w)
           S == {0} \cup {i \in 1 .. guess : s(i) <= w.start}
<1>1. /\ \A i \in Nat : s(i) \in Int
      /\ w.start \in Int /\ w.stay.entry \in Int /\ w.stay.exit \in Int
      /\ w.start <= w.stay.exit
      /\ w.start > w.stay.entry => guess \in Nat
      /\ \A n \in Nat : n >= MaxStayDays + 3 => s(n) > w.stay.exit
  BY WalkAssumption, WalkFields, PlainStart, PlainGuess, WalkHasEnough DEF BackFrom
<1>2. CASE w.start <= w.stay.entry
  BY <1>2 DEF IsHolding, Passed, DayHolding
<1>3. CASE ~(w.start <= w.stay.entry)
  <2>1. PICK b \in 0 .. f : IsBack(w, b) /\ \A i \in b .. f - 1 : s(i + 1) <= w.start
    BY <1>3 DEF IsHolding, Passed
  <2>2. s(f + 1) > w.start
    BY <1>1, <1>3 DEF IsHolding
  <2>3. guess \in Nat
    BY <1>1, <1>3
  <2>4. /\ b \in 0 .. guess /\ (b = 0 \/ s(b) <= w.start)
        /\ \A i \in b + 1 .. guess : s(i) > w.start
    BY <2>1 DEF IsBack
  <2>5. Max(S) = b
    <3>1. b \in S /\ S \subseteq Int
      BY <2>3, <2>4
    <3>2. ASSUME NEW n \in S PROVE n <= b
      <4>1. n \in 1 .. guess /\ n > b => n \in b + 1 .. guess
        BY <2>3, <2>4
      <4>2. n \in Int /\ (n \in 1 .. guess => s(n) \in Int)
        BY <1>1, <2>3
      <4> QED
        BY <1>1, <2>4, <4>1, <4>2
    <3> HIDE DEF S
    <3> QED
      BY <3>1, <3>2, MaxIs
  <2> DEFINE T == {i \in b .. b + MaxStayDays + 2 : ~(s(i + 1) <= w.start)}
  <2>6. Min(T) = f
    <3>1. f <= b + MaxStayDays + 2
      <4>1. CASE f = b
        BY <4>1, CapsAssumption
      <4>2. CASE f # b
        <5>1. f - 1 \in b .. f - 1 /\ (f - 1) + 1 = f
          BY <2>1, <4>2
        <5>2. s(f) <= w.start
          BY <2>1, <5>1
        <5>3. ~(f >= MaxStayDays + 3)
          BY <1>1, <5>2
        <5> QED
          BY <2>1, <5>3, CapsAssumption
      <4> QED
        BY <4>1, <4>2
    <3>2. f \in T /\ T \subseteq Int
      BY <1>1, <2>1, <2>2, <3>1, CapsAssumption
    <3>3. ASSUME NEW n \in T PROVE f <= n
      <4>1. n \in b .. b + MaxStayDays + 2 /\ ~(s(n + 1) <= w.start)
        OBVIOUS
      <4>2. ~(n \in b .. f - 1)
        BY <2>1, <4>1
      <4> QED
        BY <2>1, <4>1, <4>2, CapsAssumption
    <3> HIDE DEF T
    <3> QED
      BY <3>2, <3>3, MinIs
  <2>7. DayHolding(w.cap, w.stay, w.zone, w.start)
          = Min({i \in Max(S) .. Max(S) + MaxStayDays + 2 : ~(s(i + 1) <= w.start)})
    BY <1>3 DEF DayHolding, BackFrom, StartOf
  <2> QED
    BY <2>5, <2>6, <2>7
<1> QED
  BY <1>2, <1>3

IsLast(w, f, l) ==
  l \in Nat /\ f <= l /\ ~AnotherAfter(w, l) /\ \A i \in f .. l - 1 : AnotherAfter(w, i)

LEMMA LastExists ==
  ASSUME NEW w \in Walk, NEW f \in Nat
  PROVE  \E l \in Nat : IsLast(w, f, l)
<1> DEFINE T == {l \in Nat : f <= l /\ ~AnotherAfter(w, l)}
<1>1. f + MaxStayDays + 3 \in T
  <2>1. f + MaxStayDays + 3 \in Nat /\ f + MaxStayDays + 4 \in Nat
        /\ (f + MaxStayDays + 3) + 1 = f + MaxStayDays + 4
        /\ f + MaxStayDays + 4 >= MaxStayDays + 3 /\ f <= f + MaxStayDays + 3
    BY CapsAssumption
  <2>2. StartOf(w, f + MaxStayDays + 4) > w.stay.exit
    BY <2>1, WalkHasEnough
  <2>3. StartOf(w, f + MaxStayDays + 4) \in Int /\ w.stay.exit \in Int
    BY <2>1, WalkAssumption, PlainStart, WalkFields
  <2> QED
    BY <2>1, <2>2, <2>3 DEF AnotherAfter
<1>2. PICK l \in T : \A n \in T : l <= n
  <2>1. T \in SUBSET Nat /\ T # {}
    BY <1>1
  <2> HIDE DEF T
  <2> QED
    BY <2>1, LeastNat
<1>3. ASSUME NEW i \in f .. l - 1 PROVE AnotherAfter(w, i)
  <2>1. i \in Nat /\ f <= i /\ ~(l <= i)
    BY <1>2
  <2> QED
    BY <1>2, <2>1
<1>4. l \in Nat /\ f <= l /\ ~AnotherAfter(w, l)
  BY <1>2
<1> QED
  BY <1>3, <1>4 DEF IsLast

LEMMA DaysOfIs ==
  ASSUME NEW w \in Walk, NEW f \in Nat, NEW l \in Nat, IsLast(w, f, l)
  PROVE  DaysOf(w.cap, w.stay, w.zone, f) = [i \in f .. l |-> DayAt(w, i)]
<1> DEFINE s(i) == StartOf(w, i)
           last == IF w.stay.exit <= w.stay.entry THEN f
                   ELSE Min({i \in f .. f + MaxStayDays + 2 : s(i + 1) >= w.stay.exit})
<1>1. /\ \A i \in Nat : s(i) \in Int
      /\ w.stay.entry \in Int /\ w.stay.exit \in Int
      /\ \A n \in Nat : n >= MaxStayDays + 3 => s(n) > w.stay.exit
  BY WalkAssumption, WalkFields, PlainStart, WalkHasEnough
<1>2. /\ f <= l /\ \A i \in f .. l - 1 : AnotherAfter(w, i)
      /\ ~AnotherAfter(w, l)
  BY DEF IsLast
<1>3. last = l
  <2>1. CASE w.stay.exit <= w.stay.entry
    <3>1. \A i \in f .. l - 1 : FALSE
      BY <1>1, <1>2, <2>1 DEF AnotherAfter
    <3>2. l = f
      <4>1. f # l => f \in f .. l - 1
        BY <1>2
      <4> QED
        BY <3>1, <4>1
    <3> QED
      BY <2>1, <3>2
  <2>2. CASE ~(w.stay.exit <= w.stay.entry)
    <3> DEFINE T == {i \in f .. f + MaxStayDays + 2 : s(i + 1) >= w.stay.exit}
    <3>1. l <= f + MaxStayDays + 2
      <4>1. CASE f = l
        BY <4>1, CapsAssumption
      <4>2. CASE f # l
        <5>1. l - 1 \in f .. l - 1 /\ (l - 1) + 1 = l
          BY <1>2, <4>2
        <5>2. s(l) < w.stay.exit
          BY <1>2, <5>1 DEF AnotherAfter
        <5>3. ~(l >= MaxStayDays + 3)
          BY <1>1, <5>2
        <5> QED
          BY <5>3, CapsAssumption
      <4> QED
        BY <4>1, <4>2
    <3>2. s(l + 1) >= w.stay.exit
      BY <1>1, <1>2, <2>2 DEF AnotherAfter
    <3>3. l \in T /\ T \subseteq Int
      BY <1>2, <3>1, <3>2, CapsAssumption
    <3>4. ASSUME NEW n \in T PROVE l <= n
      <4>1. n \in Nat /\ f <= n /\ s(n + 1) >= w.stay.exit /\ s(n + 1) \in Int
        BY <1>1, CapsAssumption
      <4>2. ~(n \in f .. l - 1)
        BY <1>1, <1>2, <4>1 DEF AnotherAfter
      <4> QED
        BY <4>1, <4>2
    <3>5. Min(T) = l
      <4> HIDE DEF T
      <4> QED
        BY <3>3, <3>4, MinIs
    <3> QED
      BY <2>2, <3>5
  <2> QED
    BY <2>1, <2>2
<1>4. ASSUME NEW i \in f .. l
      PROVE  <<s(i), IF i = l THEN w.stay.exit ELSE s(i + 1)>> = DayAt(w, i)
  <2>1. i # l => i \in f .. l - 1
    OBVIOUS
  <2> QED
    BY <1>2, <2>1 DEF DayAt
<1>5. DaysOf(w.cap, w.stay, w.zone, f)
        = [i \in f .. last |-> <<s(i), IF i = last THEN w.stay.exit ELSE s(i + 1)>>]
  BY DEF DaysOf, StartOf
<1> HIDE DEF last, s
<1> QED
  BY <1>3, <1>4, <1>5

(* The pieces the loops hand out are the operator's, one for each day found. *)
LEMMA PiecesAre ==
  ASSUME NEW w \in Walk, w.start < w.end, NEW f \in Nat,
         NEW parts \in Seq(Int \X Int), AllCut(w, f, parts)
  PROVE  PiecesOf(w.cap, w.stay, w.zone, w.start, w.end)
           = [i \in f .. f + Len(parts) - 1 |-> PieceAt(w, i)]
<1> DEFINE n == Len(parts)
<1>1. n \in Nat /\ w.start \in Int /\ w.end \in Int
  BY WalkAssumption, WalkFields
<1>2. PICK l \in Nat : IsLast(w, f, l)
  BY LastExists
<1> DEFINE days == DaysOf(w.cap, w.stay, w.zone, f)
           kept == {i \in DOMAIN days : \A j \in DOMAIN days :
                      j <= i => days[j][1] < w.end /\ days[j][2] > w.start}
<1>3. DOMAIN days = f .. l /\ \A i \in f .. l : days[i] = DayAt(w, i)
  <2>1. days = [i \in f .. l |-> DayAt(w, i)]
    BY <1>2, DaysOfIs
  <2> HIDE DEF days
  <2> QED
    BY <2>1
<1>4. DayHolding(w.cap, w.stay, w.zone, w.start) = f
  BY HoldingIs DEF AllCut
<1>5. f <= l /\ ~AnotherAfter(w, l) /\ \A i \in f .. l - 1 : AnotherAfter(w, i)
  BY <1>2 DEF IsLast
<1>6. \A i \in f .. f + n - 1 : Inside(w, i)
  <2> SUFFICES ASSUME NEW i \in f .. f + n - 1 PROVE Inside(w, i)
    OBVIOUS
  <2>1. i - f + 1 \in 1 .. n /\ f + (i - f + 1) - 1 = i
    BY <1>1
  <2> QED
    BY <2>1 DEF AllCut, HandedFrom
<1>7. kept = f .. f + n - 1
  <2>1. kept = {i \in f .. l : \A j \in f .. l : j <= i => Inside(w, j)}
    BY <1>3 DEF Inside
  <2>2. CASE n > 0 /\ ~AnotherAfter(w, f + n - 1)
    <3>1. l = f + n - 1
      <4>1. ~(f + n - 1 < l)
        BY <1>1, <1>5, <2>2
      <4>2. l < f + n - 1 => l \in f .. f + n - 2
        BY <1>1, <1>5
      <4>3. \A i \in f .. f + n - 2 : AnotherAfter(w, i)
        BY DEF AllCut
      <4> QED
        BY <1>1, <1>5, <4>1, <4>2, <4>3
    <3> QED
      BY <1>6, <2>1, <3>1
  <2>3. CASE ~(n > 0 /\ ~AnotherAfter(w, f + n - 1))
    <3>1. /\ n > 0 => AnotherAfter(w, f + n - 1)
          /\ ~Inside(w, f + n)
          /\ \A i \in f .. f + n - 2 : AnotherAfter(w, i)
      BY <2>3 DEF AllCut
    <3>2. \A i \in f .. f + n - 1 : AnotherAfter(w, i)
      <4> SUFFICES ASSUME NEW i \in f .. f + n - 1 PROVE AnotherAfter(w, i)
        OBVIOUS
      <4>1. (i = f + n - 1 /\ n > 0) \/ i \in f .. f + n - 2
        BY <1>1
      <4> QED
        BY <3>1, <4>1
    <3>3. f + n <= l
      <4>1. l < f + n => l \in f .. f + n - 1
        BY <1>1, <1>5
      <4> QED
        BY <1>1, <1>5, <3>2, <4>1
    <3>4. ASSUME NEW i \in f .. l, \A j \in f .. l : j <= i => Inside(w, j)
          PROVE  i \in f .. f + n - 1
      <4>1. f + n \in f .. l
        BY <1>1, <3>3
      <4>2. ~(f + n <= i)
        BY <3>1, <3>4, <4>1
      <4> QED
        BY <1>1, <4>2
    <3>5. ASSUME NEW i \in f .. f + n - 1
          PROVE  i \in f .. l /\ \A j \in f .. l : j <= i => Inside(w, j)
      <4>1. i \in f .. l
        BY <1>1, <3>3
      <4>2. \A j \in f .. l : j <= i => j \in f .. f + n - 1
        BY <1>1
      <4> QED
        BY <1>6, <4>1, <4>2
    <3> QED
      BY <2>1, <3>4, <3>5
  <2> QED
    BY <2>2, <2>3
<1>8. kept \subseteq f .. l
  BY <1>3
<1>9. PiecesOf(w.cap, w.stay, w.zone, w.start, w.end)
        = [i \in kept |-> <<AtLeast(days[i][1], w.start), AtMost(days[i][2], w.end)>>]
  BY <1>1, <1>4 DEF PiecesOf
<1>10. \A i \in kept : <<AtLeast(days[i][1], w.start), AtMost(days[i][2], w.end)>> = PieceAt(w, i)
  BY <1>3, <1>8 DEF PieceAt
<1> HIDE DEF days, kept
<1> QED
  BY <1>7, <1>9, <1>10

(* The days days_covered counts are the operator's. *)
LEMMA CountIsCovered ==
  ASSUME NEW w \in Walk, NEW n \in Nat, CountedAll(w, n)
  PROVE  DaysCovered(w.cap, w.stay, w.zone) = n
<1>1. n \in Nat \ {0} /\ ~AnotherAfter(w, n - 1) /\ \A i \in 0 .. (n - 1) - 1 : AnotherAfter(w, i)
  BY DEF CountedAll, CountedTo
<1>2. n - 1 \in Nat /\ IsLast(w, 0, n - 1)
  BY <1>1 DEF IsLast
<1> DEFINE l == n - 1
           days == DaysOf(w.cap, w.stay, w.zone, 0)
<1>3. DOMAIN days = 0 .. n - 1
  <2>1. l \in Nat /\ 0 \in Nat /\ IsLast(w, 0, l)
    BY <1>2
  <2> HIDE DEF l, days
  <2>2. days = [i \in 0 .. l |-> DayAt(w, i)]
    BY <2>1, DaysOfIs DEF days
  <2> QED
    BY <2>2 DEF l
<1>4. Cardinality(0 .. n - 1) = n
  BY <1>1, FS_Interval
<1> QED
  BY <1>3, <1>4 DEF DaysCovered

(* Two lists that differ by where their indexes begin have one sum. *)
Moved(g, h, a, b, c, d) ==
  /\ a \in Int /\ b \in Int /\ c \in Int /\ d \in Int
  /\ a <= b + 1 /\ d - c = b - a
  /\ \A i \in a .. b : g[i] \in Int /\ h[i + (c - a)] = g[i]

LEMMA SumMoved ==
  ASSUME NEW g, NEW h, NEW a, NEW b, NEW c, NEW d, Moved(g, h, a, b, c, d)
  PROVE  SumFunctionOnSet(g, a .. b) = SumFunctionOnSet(h, c .. d)
<1> DEFINE n == b - a + 1
           k == c - a
<1>a. /\ n \in Nat /\ k \in Int /\ b = a + n - 1 /\ c = a + k /\ d = a + k + n - 1
      /\ \A i \in a .. a + n - 1 : g[i] \in Int /\ h[i + k] = g[i]
      /\ a \in Int /\ b \in Int /\ c \in Int /\ d \in Int
  BY DEF Moved
<1> HIDE DEF n, k
<1> DEFINE G(m) == SumFunctionOnSet(g, a .. a + m - 1)
           H(m) == SumFunctionOnSet(h, a + k .. a + k + m - 1)
           S == {m \in Nat : m <= n => G(m) = H(m)}
<1>1. 0 \in S
  <2>1. a .. a + 0 - 1 = {} /\ a + k .. a + k + 0 - 1 = {}
    BY <1>a
  <2>2. G(0) = 0 /\ H(0) = 0
    BY <2>1, SumOfNothing
  <2> QED
    BY <2>2
<1>2. ASSUME NEW m \in S PROVE m + 1 \in S
  <2>1. CASE m + 1 <= n
    <3>1. G(m) = H(m) /\ m \in Nat
      BY <1>a, <2>1
    <3> DEFINE x == a + m
               y == a + k + m
    <3>2. /\ x \in Int /\ y \in Int /\ a <= x /\ a + k <= y /\ a + k \in Int
          /\ a + (m + 1) - 1 = x /\ a + k + (m + 1) - 1 = y
          /\ x - 1 = a + m - 1 /\ y - 1 = a + k + m - 1
          /\ x \in a .. a + n - 1 /\ x + k = y
      BY <1>a, <2>1, <3>1
    <3>3. \A i \in a .. x : g[i] \in Int
      BY <1>a, <2>1, <3>1
    <3>4. \A i \in a + k .. y : h[i] \in Int
      <4> SUFFICES ASSUME NEW i \in a + k .. y PROVE h[i] \in Int
        OBVIOUS
      <4>1. i - k \in a .. a + n - 1 /\ (i - k) + k = i
        BY <1>a, <2>1, <3>1
      <4> QED
        BY <1>a, <4>1
    <3>5. g[x] = h[y]
      BY <1>a, <3>2
    <3> HIDE DEF x, y
    <3>6. /\ SumFunctionOnSet(g, a .. x) = SumFunctionOnSet(g, a .. x - 1) + g[x]
          /\ SumFunctionOnSet(h, a + k .. y) = SumFunctionOnSet(h, a + k .. y - 1) + h[y]
      BY <1>a, <3>2, <3>3, <3>4, SumNext
    <3>7. G(m + 1) = G(m) + g[x] /\ H(m + 1) = H(m) + h[y]
      BY <3>2, <3>6
    <3> HIDE DEF G, H
    <3> QED
      BY <3>1, <3>5, <3>7
  <2>2. CASE ~(m + 1 <= n)
    BY <2>2
  <2> QED
    BY <2>1, <2>2
<1>3. S \in SUBSET Nat
  OBVIOUS
<1>4. S = Nat
  <2> HIDE DEF S
  <2> QED
    BY <1>1, <1>2, <1>3, Induction
<1>5. n \in S
  BY <1>a, <1>4
<1> QED
  BY <1>a, <1>5

(* A part of no length is one piece, whatever day it lies in. *)
LEMMA NothingToCut ==
  ASSUME NEW w \in Walk, w.end <= w.start
  PROVE  PiecesOf(w.cap, w.stay, w.zone, w.start, w.end) = [i \in {0} |-> <<w.start, w.end>>]
BY DEF PiecesOf

(* What a list's days pay, added up, is what the operator adds up, when both *)
(* have the same pieces.                                                    *)
LEMMA PaidAlike ==
  ASSUME NEW w \in Walk, w.rate # Flat, NEW f \in Int, NEW parts \in Seq(Int \X Int),
         NEW n \in Nat, n = Len(parts), NEW cut,
         cut = PiecesOf(w.cap, w.stay, w.zone, w.start, w.end),
         DOMAIN cut = f .. f + n - 1, \A i \in f .. f + n - 1 : cut[i] = parts[i - f + 1]
  PROVE  DaysPay(w.cap, w.stay, w.zone, w.rate, w.start, w.end)
           = SumFunctionOnSet(PaidList(w, parts), 1 .. n)
<1> DEFINE paid == PaidList(w, parts)
           g == [i \in f .. f + n - 1 |->
                   AtMost(w.cap.most, ChargeIn(w.stay, w.rate, cut[i][1], cut[i][2]))]
<1>1. \A i \in 1 .. n : parts[i] \in Int \X Int
  OBVIOUS
<1>3. IsFiniteSet(f .. f + n - 1) /\ f + n - 1 \in Int
  BY FS_Interval
<1>4. DaysPay(w.cap, w.stay, w.zone, w.rate, w.start, w.end) = SumFunctionOnSet(g, f .. f + n - 1)
  <2>1. \A i \in DOMAIN cut :
          g[i] = AtMost(w.cap.most, ChargeIn(w.stay, w.rate, cut[i][1], cut[i][2]))
    OBVIOUS
  <2>2. IsFiniteSet(DOMAIN cut)
    BY <1>3
  <2> HIDE DEF g
  <2>3. DaysPay(w.cap, w.stay, w.zone, w.rate, w.start, w.end) = SumFunctionOnSet(g, DOMAIN cut)
    BY <2>1, <2>2, SumOfPayments
  <2> QED
    BY <2>3
<1>5. ASSUME NEW i \in f .. f + n - 1
      PROVE  g[i] \in Int /\ paid[i + (1 - f)] = g[i]
  <2>1. i - f + 1 \in 1 .. n /\ i + (1 - f) = i - f + 1
    OBVIOUS
  <2>2. g[i] = Paid(w, parts[i - f + 1])
    BY DEF Paid
  <2>3. paid[i - f + 1] = Paid(w, parts[i - f + 1])
    BY <2>1 DEF PaidList
  <2>4. Paid(w, parts[i - f + 1]) \in Int
    <3> DEFINE p == parts[i - f + 1]
    <3>1. p \in Int \X Int
      BY <1>1, <2>1
    <3>2. ChargeIn(w.stay, w.rate, p[1], p[2]) \in Int /\ w.cap.most \in Int
      BY <3>1, PartsAreCharged, WalkAssumption DEF WalkType, DayCapType
    <3> HIDE DEF p
    <3>3. Paid(w, p) \in Int
      BY <3>2 DEF Paid, AtMost
    <3> QED
      BY <3>3 DEF p
  <2> HIDE DEF g, paid
  <2> QED
    BY <2>1, <2>2, <2>3, <2>4
<1>6. SumFunctionOnSet(g, f .. f + n - 1) = SumFunctionOnSet(paid, 1 .. n)
  <2>1. \A i \in f .. f + n - 1 : g[i] \in Int /\ paid[i + (1 - f)] = g[i]
    BY <1>5
  <2> HIDE DEF g, paid
  <2>2. Moved(g, paid, f, f + n - 1, 1, n)
    BY <1>3, <2>1 DEF Moved
  <2> QED
    BY <2>2, SumMoved
<1> HIDE DEF g, paid
<1> QED
  BY <1>4, <1>6 DEF paid

(* The loops of the walk and the operators of Caps come to the same days,   *)
(* pieces, payments and fee, in every zone there can be.                    *)
THEOREM LoopsAreTheOperators == Spec => []WalkIsPieces
<1>1. PlainInv /\ ToldInv /\ LoopInv => WalkIsPieces
  <2> SUFFICES ASSUME PlainInv, ToldInv, LoopInv, pc = "done"
               PROVE  /\ walk.asked = "apply" => caps = DaysCovered(walk.cap, walk.stay, walk.zone)
                      /\ (walk.rate # Flat \/ walk.asked = "pieces") =>
                           LET parts == PiecesOf(walk.cap, walk.stay, walk.zone, walk.start, walk.end)
                           IN  {handed[i] : i \in 1 .. Len(handed)} = {parts[i] : i \in DOMAIN parts}
                      /\ walk.rate # Flat =>
                           amounts.total = DaysPay(walk.cap, walk.stay, walk.zone, walk.rate,
                                                   walk.start, walk.end)
                      /\ walk.asked = "apply" =>
                           fee = AtMost(walk.running,
                                        DailyCeiling(walk.cap, walk.stay, walk.zone, walk.rate))
    BY DEF WalkIsPieces
  <2>1. /\ walk \in Walk /\ handed \in Seq(Int \X Int)
        /\ walk.start \in Int /\ walk.end \in Int
    BY WalkIsTyped DEF PlainInv
  <2>2. walk.asked = "apply" => caps = DaysCovered(walk.cap, walk.stay, walk.zone)
    BY <2>1, CountIsCovered DEF LoopInv, CountedAll
  <2> DEFINE cut == PiecesOf(walk.cap, walk.stay, walk.zone, walk.start, walk.end)
  <2>3. ASSUME walk.rate # Flat \/ walk.asked = "pieces"
        PROVE  \E f \in Int : cut = [i \in f .. f + Len(handed) - 1 |-> handed[i - f + 1]]
    <3>1. Walked
      BY <2>3 DEF LoopInv, Answered
    <3>2. CASE walk.end <= walk.start
      <4>1. handed = <<<<walk.start, walk.end>>>>
        BY <3>1, <3>2 DEF Walked
      <4>2. cut = [i \in {0} |-> <<walk.start, walk.end>>]
        BY <2>1, <3>2, NothingToCut
      <4>3. /\ 0 .. 0 + Len(handed) - 1 = {0} /\ handed[0 - 0 + 1] = <<walk.start, walk.end>>
        BY <4>1
      <4> HIDE DEF cut
      <4>4. cut = [i \in 0 .. 0 + Len(handed) - 1 |-> handed[i - 0 + 1]]
        BY <4>2, <4>3
      <4> QED
        BY <4>4
    <3>3. CASE ~(walk.end <= walk.start)
      <4>1. PICK f \in Nat : AllCut(walk, f, handed)
        BY <3>1, <3>3 DEF Walked
      <4>2. walk.start < walk.end
        BY <2>1, <3>3
      <4>3. cut = [i \in f .. f + Len(handed) - 1 |-> PieceAt(walk, i)]
        BY <2>1, <4>1, <4>2, PiecesAre
      <4>4. ASSUME NEW i \in f .. f + Len(handed) - 1
            PROVE  PieceAt(walk, i) = handed[i - f + 1]
        <5>1. i - f + 1 \in 1 .. Len(handed) /\ f + (i - f + 1) - 1 = i
          BY <2>1, <4>1
        <5> QED
          BY <4>1, <5>1 DEF AllCut, HandedFrom
      <4> HIDE DEF cut
      <4> QED
        BY <4>3, <4>4
    <3> QED
      BY <3>2, <3>3
  <2>4. walk.rate # Flat =>
          amounts.total = SumFunctionOnSet(PaidList(walk, handed), 1 .. Len(handed))
    BY DEF ToldInv, Told, PaidList
  <2>5. ASSUME walk.rate # Flat \/ walk.asked = "pieces"
        PROVE  {handed[i] : i \in 1 .. Len(handed)} = {cut[i] : i \in DOMAIN cut}
    <3>1. PICK f \in Int : cut = [i \in f .. f + Len(handed) - 1 |-> handed[i - f + 1]]
      BY <2>3, <2>5
    <3> HIDE DEF cut
    <3>2. DOMAIN cut = f .. f + Len(handed) - 1 /\ Len(handed) \in Nat
          /\ \A i \in f .. f + Len(handed) - 1 : cut[i] = handed[i - f + 1]
      BY <2>1, <3>1
    <3>3. ASSUME NEW i \in 1 .. Len(handed) PROVE \E j \in DOMAIN cut : cut[j] = handed[i]
      <4>1. f + i - 1 \in f .. f + Len(handed) - 1 /\ (f + i - 1) - f + 1 = i
        BY <3>2
      <4> QED
        BY <3>2, <4>1
    <3>4. ASSUME NEW j \in DOMAIN cut PROVE \E i \in 1 .. Len(handed) : cut[j] = handed[i]
      <4>1. j - f + 1 \in 1 .. Len(handed)
        BY <3>2
      <4> QED
        BY <3>2, <4>1
    <3> QED
      BY <3>3, <3>4
  <2>6. walk.rate # Flat =>
          amounts.total = DaysPay(walk.cap, walk.stay, walk.zone, walk.rate, walk.start, walk.end)
    <3> SUFFICES ASSUME walk.rate # Flat
                 PROVE  amounts.total = DaysPay(walk.cap, walk.stay, walk.zone, walk.rate,
                                                walk.start, walk.end)
      OBVIOUS
    <3>1. PICK f \in Int : cut = [i \in f .. f + Len(handed) - 1 |-> handed[i - f + 1]]
      BY <2>3
    <3>2. Len(handed) \in Nat
      BY <2>1
    <3>3. /\ DOMAIN cut = f .. f + Len(handed) - 1
          /\ \A i \in f .. f + Len(handed) - 1 : cut[i] = handed[i - f + 1]
      <4> HIDE DEF cut
      <4> QED
        BY <3>1
    <3> HIDE DEF cut
    <3>4. DaysPay(walk.cap, walk.stay, walk.zone, walk.rate, walk.start, walk.end)
            = SumFunctionOnSet(PaidList(walk, handed), 1 .. Len(handed))
      BY <2>1, <3>2, <3>3, PaidAlike DEF cut
    <3> QED
      BY <2>4, <3>4
  <2>7. walk.asked = "apply" =>
          Ceiling = DailyCeiling(walk.cap, walk.stay, walk.zone, walk.rate)
    BY <2>1, <2>2, <2>6, WalkAssumption DEF Ceiling, DailyCeiling, WholeStay
  <2>8. walk.asked = "apply" => fee = AtMost(walk.running, Ceiling)
    BY DEF LoopInv
  <2> QED
    BY <2>2, <2>5, <2>6, <2>7, <2>8
<1> QED
  BY <1>1, PlainInit, PlainStep, ToldInit, ToldStep, LoopInit, LoopStep, PTL DEF Spec
-----------------------------------------------------------------------------

(* A list of whole numbers is no more, term by term, than the beginning of a *)
(* list, and the rest of that list is not negative: nor is its sum more.     *)
Under(g, h, a, b, c) ==
  /\ a \in Int /\ b \in Int /\ c \in Int /\ a <= b + 1 /\ b <= c
  /\ \A i \in a .. b : g[i] \in Int /\ h[i] \in Int /\ g[i] <= h[i]
  /\ \A i \in b + 1 .. c : h[i] \in Nat

(* A sum of whole numbers is one.                                            *)
LEMMA SumOfInts ==
  ASSUME NEW g, NEW a \in Int, NEW b \in Int, \A i \in a .. b : g[i] \in Int
  PROVE  SumFunctionOnSet(g, a .. b) \in Int
<1>1. CASE a <= b
  <2>1. SumFunctionOnSet(g, a .. b) = SumFunctionOnSet(g, a .. b - 1) + g[b]
        /\ SumFunctionOnSet(g, a .. b - 1) \in Int
    BY <1>1, SumNext
  <2>2. g[b] \in Int
    BY <1>1
  <2> QED
    BY <2>1, <2>2
<1>2. CASE ~(a <= b)
  <2>1. a .. b = {}
    BY <1>2
  <2> QED
    BY <2>1, SumOfNothing
<1> QED
  BY <1>1, <1>2

(* Its sum is then no more than that list's.                                *)
LEMMA SumGrows ==
  ASSUME NEW g, NEW h, NEW a, NEW b, NEW c, Under(g, h, a, b, c)
  PROVE  SumFunctionOnSet(g, a .. b) <= SumFunctionOnSet(h, a .. c)
<1>0. /\ a \in Int /\ b \in Int /\ c \in Int /\ a <= b + 1 /\ b <= c
      /\ \A i \in a .. b : g[i] \in Int /\ h[i] \in Int /\ g[i] <= h[i]
      /\ \A i \in b + 1 .. c : h[i] \in Nat
  BY DEF Under
<1>1. \A i \in a .. c : h[i] \in Int
  <2> SUFFICES ASSUME NEW i \in a .. c PROVE h[i] \in Int
    OBVIOUS
  <2>1. i \in a .. b \/ i \in b + 1 .. c
    BY <1>0
  <2> QED
    BY <1>0, <2>1
<1> DEFINE G(n) == SumFunctionOnSet(g, a .. n)
           H(n) == SumFunctionOnSet(h, a .. n)
           S == {m \in Nat : a - 1 + m <= c =>
                   /\ H(a - 1 + m) \in Int
                   /\ a - 1 + m <= b => G(a - 1 + m) \in Int /\ G(a - 1 + m) <= H(a - 1 + m)
                   /\ a - 1 + m > b => G(b) \in Int /\ G(b) <= H(a - 1 + m)}
<1>2. 0 \in S
  <2>1. a .. a - 1 + 0 = {} /\ a - 1 + 0 <= b
    BY <1>0
  <2>2. G(a - 1 + 0) = 0 /\ H(a - 1 + 0) = 0
    BY <2>1, SumOfNothing
  <2> HIDE DEF G, H
  <2> QED
    BY <1>0, <2>1, <2>2
<1>3. ASSUME NEW m \in S PROVE m + 1 \in S
  <2> DEFINE x == a + m
  <2>0. m \in Nat /\ x \in Int /\ a - 1 + (m + 1) = x /\ a - 1 + m = x - 1
    BY <1>0
  <2>1. CASE x <= c
    <3>1. /\ H(x - 1) \in Int
          /\ x - 1 <= b => G(x - 1) \in Int /\ G(x - 1) <= H(x - 1)
          /\ x - 1 > b => G(b) \in Int /\ G(b) <= H(x - 1)
      <4> HIDE DEF G, H
      <4> QED
        BY <1>0, <2>0, <2>1
    <3> HIDE DEF x
    <3>2. a <= x /\ \A i \in a .. x : h[i] \in Int
      BY <1>0, <1>1, <2>0, <2>1 DEF x
    <3>3. H(x) = H(x - 1) + h[x]
      BY <1>0, <2>0, <3>2, SumNext
    <3>4. x <= b => G(x) = G(x - 1) + g[x]
      <4> SUFFICES ASSUME x <= b PROVE G(x) = G(x - 1) + g[x]
        OBVIOUS
      <4>1. \A i \in a .. x : g[i] \in Int
        BY <1>0, <2>0
      <4> QED
        BY <1>0, <2>0, <3>2, <4>1, SumNext
    <3>5. /\ h[x] \in Int
          /\ x <= b => g[x] \in Int /\ g[x] <= h[x]
          /\ x > b => h[x] \in Nat
      BY <1>0, <2>0, <2>1, <3>2
    <3> HIDE DEF G, H
    <3>6. x = b + 1 => x - 1 = b
      BY <1>0, <2>0
    <3>7. CASE x <= b
      BY <1>0, <2>0, <3>1, <3>3, <3>4, <3>5, <3>7
    <3>8. CASE x = b + 1
      <4>1. G(b) \in Int /\ G(b) <= H(x - 1)
        BY <1>0, <2>0, <3>1, <3>6, <3>8
      <4> QED
        BY <1>0, <2>0, <3>1, <3>3, <3>5, <3>8, <4>1
    <3>9. CASE x > b + 1
      BY <1>0, <2>0, <3>1, <3>3, <3>5, <3>9
    <3> QED
      BY <1>0, <2>0, <3>7, <3>8, <3>9
  <2>2. CASE ~(x <= c)
    <3> HIDE DEF G, H
    <3> QED
      BY <2>0, <2>2
  <2> QED
    BY <2>1, <2>2
<1>4. S = Nat
  <2>1. S \in SUBSET Nat
    OBVIOUS
  <2> HIDE DEF S
  <2> QED
    BY <1>2, <1>3, <2>1, Induction
<1>5. c - a + 1 \in Nat /\ a - 1 + (c - a + 1) = c
  BY <1>0
<1>6. /\ c <= b => G(c) \in Int /\ G(c) <= H(c)
      /\ c > b => G(b) \in Int /\ G(b) <= H(c)
  <2>1. c - a + 1 \in S
    BY <1>4, <1>5
  <2> HIDE DEF G, H
  <2> QED
    BY <1>0, <1>5, <2>1
<1> HIDE DEF G, H, S
<1>7. G(b) <= H(c)
  BY <1>0, <1>6
<1> QED
  BY <1>7 DEF G, H

(* A sum is the sum of its beginning and of the rest. *)
TwoParts(g, a, b, c) ==
  /\ a \in Int /\ b \in Int /\ c \in Int /\ a <= b + 1 /\ b <= c
  /\ \A i \in a .. c : g[i] \in Int

LEMMA SumOfTwoParts ==
  ASSUME NEW g, NEW a, NEW b, NEW c, TwoParts(g, a, b, c)
  PROVE  SumFunctionOnSet(g, a .. c) = SumFunctionOnSet(g, a .. b) + SumFunctionOnSet(g, b + 1 .. c)
<1>0. /\ a \in Int /\ b \in Int /\ c \in Int /\ a <= b + 1 /\ b <= c /\ b + 1 \in Int
      /\ \A i \in a .. c : g[i] \in Int
  BY DEF TwoParts
<1> DEFINE G(n) == SumFunctionOnSet(g, a .. n)
           H(n) == SumFunctionOnSet(g, b + 1 .. n)
           S == {m \in Nat : b + m <= c => /\ H(b + m) \in Int
                                           /\ G(b + m) = G(b) + H(b + m)}
<1>1. G(b) \in Int
  <2>1. \A i \in a .. b : g[i] \in Int
    BY <1>0
  <2> QED
    BY <1>0, <2>1, SumOfInts
<1>2. 0 \in S
  <2>1. b + 1 .. b + 0 = {} /\ b + 0 = b
    BY <1>0
  <2>2. H(b + 0) = 0
    BY <2>1, SumOfNothing
  <2> HIDE DEF G, H
  <2> QED
    BY <1>0, <1>1, <2>1, <2>2
<1>3. ASSUME NEW m \in S PROVE m + 1 \in S
  <2> DEFINE x == b + (m + 1)
  <2>0. m \in Nat /\ x \in Int /\ b + m = x - 1 /\ a <= x /\ b + 1 <= x
    BY <1>0
  <2>1. CASE x <= c
    <3>1. H(x - 1) \in Int /\ G(x - 1) = G(b) + H(x - 1)
      <4> HIDE DEF G, H
      <4> QED
        BY <1>0, <2>0, <2>1
    <3> HIDE DEF x
    <3>2. (\A i \in a .. x : g[i] \in Int) /\ \A i \in b + 1 .. x : g[i] \in Int
      BY <1>0, <2>0, <2>1
    <3>3. G(x) = G(x - 1) + g[x]
      BY <1>0, <2>0, <3>2, SumNext
    <3>4. H(x) = H(x - 1) + g[x]
      BY <1>0, <2>0, <3>2, SumNext
    <3>5. g[x] \in Int
      BY <1>0, <2>0, <3>2
    <3> HIDE DEF G, H
    <3>6. H(x) \in Int /\ G(x) = G(b) + H(x)
      BY <1>1, <3>1, <3>3, <3>4, <3>5
    <3> QED
      BY <2>0, <3>6 DEF x
  <2>2. CASE ~(x <= c)
    <3> HIDE DEF G, H
    <3> QED
      BY <2>0, <2>2
  <2> QED
    BY <2>1, <2>2
<1>4. S = Nat
  <2>1. S \in SUBSET Nat
    OBVIOUS
  <2> HIDE DEF S
  <2> QED
    BY <1>2, <1>3, <2>1, Induction
<1>5. c - b \in Nat /\ b + (c - b) = c
  BY <1>0
<1>6. G(c) = G(b) + H(c)
  <2>1. c - b \in S
    BY <1>4, <1>5
  <2> HIDE DEF G, H
  <2> QED
    BY <1>0, <1>5, <2>1
<1> QED
  BY <1>6

(* As many terms, each the same. *)
Alike(g, x, a, b) ==
  a \in Int /\ b \in Int /\ a <= b + 1 /\ x \in Int /\ \A i \in a .. b : g[i] = x

LEMMA SumOfAlike ==
  ASSUME NEW g, NEW x, NEW a, NEW b, Alike(g, x, a, b)
  PROVE  SumFunctionOnSet(g, a .. b) = x * (b - a + 1)
<1>0. a \in Int /\ b \in Int /\ a <= b + 1 /\ x \in Int /\ \A i \in a .. b : g[i] = x
  BY DEF Alike
<1> DEFINE G(n) == SumFunctionOnSet(g, a .. n)
           S == {m \in Nat : a - 1 + m <= b => G(a - 1 + m) = x * m}
<1>2. 0 \in S
  <2>1. a .. a - 1 + 0 = {}
    BY <1>0
  <2>2. G(a - 1 + 0) = 0
    BY <2>1, SumOfNothing
  <2> HIDE DEF G
  <2> QED
    BY <1>0, <2>2
<1>3. ASSUME NEW m \in S PROVE m + 1 \in S
  <2> DEFINE y == a + m
  <2>0. m \in Nat /\ y \in Int /\ a - 1 + (m + 1) = y /\ a - 1 + m = y - 1 /\ a <= y
    BY <1>0
  <2>1. CASE y <= b
    <3>1. G(y - 1) = x * m
      <4> HIDE DEF G
      <4> QED
        BY <1>0, <2>0, <2>1
    <3> HIDE DEF y
    <3>2. \A i \in a .. y : g[i] \in Int
      BY <1>0, <2>0, <2>1
    <3>3. G(y) = G(y - 1) + g[y]
      BY <1>0, <2>0, <3>2, SumNext
    <3>4. g[y] = x
      BY <1>0, <2>0, <2>1
    <3>5. x * (m + 1) = x * m + x
      <4>1. \A p \in Int, q \in Nat : p * (q + 1) = p * q + p
        BY SMT
      <4> QED
        BY <1>0, <2>0, <4>1
    <3> HIDE DEF G
    <3>6. G(y) = x * (m + 1)
      BY <3>1, <3>3, <3>4, <3>5
    <3> QED
      BY <2>0, <3>6
  <2>2. CASE ~(y <= b)
    <3> HIDE DEF G
    <3> QED
      BY <2>0, <2>2
  <2> QED
    BY <2>1, <2>2
<1>4. S = Nat
  <2>1. S \in SUBSET Nat
    OBVIOUS
  <2> HIDE DEF S
  <2> QED
    BY <1>2, <1>3, <2>1, Induction
<1>5. b - a + 1 \in Nat /\ a - 1 + (b - a + 1) = b
  BY <1>0
<1>6. G(b) = x * (b - a + 1)
  <2>1. b - a + 1 \in S
    BY <1>4, <1>5
  <2> HIDE DEF G
  <2> QED
    BY <1>0, <1>5, <2>1
<1> QED
  BY <1>6

(* Where days or weeks start: each after the one before it, the entry first. *)
Rising(s, e) ==
  /\ e \in Int /\ s \in [Nat -> Int] /\ s[0] = e
  /\ \A i \in Nat : s[i] < s[i + 1]

(* The day an instant lies in, and the day that lasts to an instant. *)
IsFirst(s, t, f) == f \in Nat /\ s[f] <= t /\ t < s[f + 1]
IsEnd(s, t, l) == l \in Nat /\ t <= s[l + 1] /\ (l = 0 \/ s[l] < t)
FirstOf(s, t) == CHOOSE f : IsFirst(s, t, f)
LastOf(s, t) == CHOOSE l : IsEnd(s, t, l)

(* Starts that follow one another are all in order.                          *)
LEMMA RisesAll ==
  ASSUME NEW s, NEW e, Rising(s, e)
  PROVE  /\ \A i \in Nat : s[i] \in Int /\ s[i] >= e + i
         /\ \A i, j \in Nat : i < j => s[i] < s[j]
<1>0. e \in Int /\ s[0] = e /\ \A i \in Nat : s[i] \in Int /\ s[i + 1] \in Int /\ s[i] < s[i + 1]
  BY DEF Rising
<1> DEFINE S == {n \in Nat : s[n] >= e + n}
<1>1. 0 \in S
  BY <1>0
<1>2. ASSUME NEW n \in S PROVE n + 1 \in S
  BY <1>0
<1>3. \A n \in Nat : n \in S
  <2>1. S \in SUBSET Nat
    OBVIOUS
  <2> HIDE DEF S
  <2> QED
    BY <1>1, <1>2, <2>1, Induction
<1>4. ASSUME NEW i \in Nat PROVE \A j \in Nat : i < j => s[i] < s[j]
  <2> DEFINE T == {n \in Nat : s[i] < s[i + 1 + n]}
  <2>1. 0 \in T
    BY <1>0
  <2>2. ASSUME NEW n \in T PROVE n + 1 \in T
    <3>1. /\ i + 1 + n \in Nat /\ i + 1 + (n + 1) = (i + 1 + n) + 1
      OBVIOUS
    <3> QED
      BY <1>0, <3>1
  <2>3. \A n \in Nat : n \in T
    <3>1. T \in SUBSET Nat
      OBVIOUS
    <3> HIDE DEF T
    <3> QED
      BY <2>1, <2>2, <3>1, Induction
  <2> SUFFICES ASSUME NEW j \in Nat, i < j PROVE s[i] < s[j]
    OBVIOUS
  <2>4. j - i - 1 \in Nat /\ i + 1 + (j - i - 1) = j
    OBVIOUS
  <2> QED
    BY <2>3, <2>4
<1> QED
  BY <1>0, <1>3, <1>4

(* Each instant from the entry on lies in one day, or week.                  *)
LEMMA FirstIs ==
  ASSUME NEW s, NEW e, Rising(s, e), NEW t \in Int, e <= t
  PROVE  /\ IsFirst(s, t, FirstOf(s, t))
         /\ \A f : IsFirst(s, t, f) => f = FirstOf(s, t)
<1>0. e \in Int /\ s[0] = e
  BY DEF Rising
<1>1. \E f : IsFirst(s, t, f)
  <2> DEFINE T == {n \in Nat : t < s[n + 1]}
  <2>1. t - e \in T
    <3>1. t - e \in Nat /\ s[t - e + 1] >= e + (t - e + 1) /\ s[t - e + 1] \in Int
      BY <1>0, RisesAll
    <3> QED
      BY <1>0, <3>1
  <2>2. PICK f \in T : \A n \in T : f <= n
    <3>1. T \in SUBSET Nat /\ T # {}
      BY <2>1
    <3> HIDE DEF T
    <3> QED
      BY <3>1, LeastNat
  <2>3. CASE f = 0
    BY <1>0, <2>2, <2>3 DEF IsFirst
  <2>4. CASE f # 0
    <3>1. f - 1 \in Nat /\ f - 1 \notin T /\ (f - 1) + 1 = f
      BY <2>2, <2>4
    <3>2. ~(t < s[f]) /\ s[f] \in Int
      BY <2>2, <3>1, RisesAll
    <3> QED
      BY <2>2, <3>2 DEF IsFirst
  <2> QED
    BY <2>3, <2>4
<1>2. IsFirst(s, t, FirstOf(s, t))
  BY <1>1, Zenon DEF FirstOf
<1>3. ASSUME NEW f, NEW g, IsFirst(s, t, f), IsFirst(s, t, g) PROVE f = g
  <2>1. /\ f \in Nat /\ s[f] <= t /\ t < s[f + 1] /\ f + 1 \in Nat
        /\ g \in Nat /\ s[g] <= t /\ t < s[g + 1] /\ g + 1 \in Nat
    BY <1>3 DEF IsFirst
  <2>2. s[f] \in Int /\ s[f + 1] \in Int /\ s[g] \in Int /\ s[g + 1] \in Int
    BY <2>1, RisesAll
  <2>3. ~(f < g)
    <3>1. CASE f + 1 < g
      <4>1. s[f + 1] < s[g]
        BY <2>1, <3>1, RisesAll
      <4> QED
        BY <2>1, <2>2, <4>1
    <3> QED
      BY <2>1, <2>2, <3>1
  <2>4. ~(g < f)
    <3>1. CASE g + 1 < f
      <4>1. s[g + 1] < s[f]
        BY <2>1, <3>1, RisesAll
      <4> QED
        BY <2>1, <2>2, <4>1
    <3> QED
      BY <2>1, <2>2, <3>1
  <2> QED
    BY <2>1, <2>3, <2>4
<1> QED
  BY <1>2, <1>3

(* One day, or week, is the first to last to an instant.                     *)
LEMMA LastIs ==
  ASSUME NEW s, NEW e, Rising(s, e), NEW t \in Int
  PROVE  /\ IsEnd(s, t, LastOf(s, t))
         /\ \A l : IsEnd(s, t, l) => l = LastOf(s, t)
<1>0. e \in Int /\ s[0] = e
  BY DEF Rising
<1>1. \E l : IsEnd(s, t, l)
  <2> DEFINE T == {n \in Nat : t <= s[n + 1]}
  <2>1. T # {}
    <3> DEFINE n == AtLeast(0, t - e)
    <3>1. n \in Nat /\ t - e <= n
      BY <1>0 DEF AtLeast
    <3> HIDE DEF n
    <3>2. s[n + 1] >= e + (n + 1) /\ s[n + 1] \in Int
      BY <3>1, RisesAll
    <3>3. n \in T
      BY <1>0, <3>1, <3>2
    <3> QED
      BY <3>3
  <2>2. PICK l \in T : \A n \in T : l <= n
    <3>1. T \in SUBSET Nat
      OBVIOUS
    <3> HIDE DEF T
    <3> QED
      BY <2>1, <3>1, LeastNat
  <2>3. CASE l = 0
    BY <2>2, <2>3 DEF IsEnd
  <2>4. CASE l # 0
    <3>1. l - 1 \in Nat /\ l - 1 \notin T /\ (l - 1) + 1 = l
      BY <2>2, <2>4
    <3>2. ~(t <= s[l]) /\ s[l] \in Int
      BY <2>2, <3>1, RisesAll
    <3> QED
      BY <2>2, <3>2 DEF IsEnd
  <2> QED
    BY <2>3, <2>4
<1>2. IsEnd(s, t, LastOf(s, t))
  BY <1>1, Zenon DEF LastOf
<1>3. ASSUME NEW f, NEW g, IsEnd(s, t, f), IsEnd(s, t, g), f < g PROVE FALSE
  <2>1. /\ f \in Nat /\ t <= s[f + 1] /\ f + 1 \in Nat
        /\ g \in Nat /\ s[g] < t
    BY <1>3 DEF IsEnd
  <2>2. s[f + 1] \in Int /\ s[g] \in Int
    BY <2>1, RisesAll
  <2>3. CASE f + 1 < g
    <3>1. s[f + 1] < s[g]
      BY <2>1, <2>3, RisesAll
    <3> QED
      BY <2>1, <2>2, <3>1
  <2> QED
    BY <1>3, <2>1, <2>2, <2>3
<1>4. ASSUME NEW f, NEW g, IsEnd(s, t, f), IsEnd(s, t, g) PROVE f = g
  <2>1. f \in Nat /\ g \in Nat
    BY <1>4 DEF IsEnd
  <2> QED
    BY <1>3, <1>4, <2>1
<1> QED
  BY <1>2, <1>4

(* The day an instant lies in is no later than the day a later one ends, and *)
(* a later instant ends no earlier a day.                                   *)
LEMMA CutInOrder ==
  ASSUME NEW s, NEW e, Rising(s, e), NEW a \in Int, NEW b \in Int, NEW c \in Int,
         e <= a, a <= b, a < b \/ a = e, b <= c
  PROVE  /\ FirstOf(s, a) \in Nat /\ LastOf(s, b) \in Nat /\ LastOf(s, c) \in Nat
         /\ FirstOf(s, a) <= LastOf(s, b) /\ LastOf(s, b) <= LastOf(s, c)
<1> DEFINE f == FirstOf(s, a)
           l == LastOf(s, b)
           m == LastOf(s, c)
<1>1. /\ f \in Nat /\ s[f] <= a /\ a < s[f + 1]
      /\ l \in Nat /\ b <= s[l + 1] /\ (l = 0 \/ s[l] < b)
      /\ m \in Nat /\ c <= s[m + 1] /\ (m = 0 \/ s[m] < c)
  BY FirstIs, LastIs DEF IsFirst, IsEnd
<1> HIDE DEF f, l, m
<1>2. /\ s[f] \in Int /\ s[l + 1] \in Int /\ s[l] \in Int /\ s[m + 1] \in Int
  BY <1>1, RisesAll
<1>3. f <= l
  <2>1. CASE a < b
    <3>1. l + 1 < f => s[l + 1] < s[f]
      BY <1>1, RisesAll
    <3> QED
      BY <1>1, <1>2, <2>1, <3>1
  <2>2. CASE a = e
    <3>1. s[0] = e /\ 0 < f => s[0] < s[f]
      BY <1>1, RisesAll
    <3> QED
      BY <1>1, <1>2, <2>2, <3>1 DEF Rising
  <2> QED
    BY <2>1, <2>2
<1>4. l <= m
  <2>1. m + 1 < l => s[m + 1] < s[l]
    BY <1>1, RisesAll
  <2> QED
    BY <1>1, <1>2, <2>1
<1> QED
  BY <1>1, <1>3, <1>4 DEF f, l, m

(* A part of the stay, cut where the days start. *)
CutAt(s, a, b, i) == <<AtLeast(s[i], a), AtMost(s[i + 1], b)>>

(* No cut is longer than nothing unless the whole of the stay is not.        *)
LEMMA CutsAreShort ==
  ASSUME NEW s, NEW e, Rising(s, e), NEW a \in Int, NEW b \in Int, e <= a, a <= b, a < b \/ a = e,
         NEW i \in FirstOf(s, a) .. LastOf(s, b)
  PROVE  /\ i \in Nat /\ CutAt(s, a, b, i) \in Int \X Int
         /\ s[i] \in Int /\ s[i + 1] \in Int /\ s[i] < s[i + 1] /\ s[i] <= b /\ a < s[i + 1]
         /\ e <= s[i]
         /\ CutAt(s, a, b, i)[1] <= CutAt(s, a, b, i)[2]
         /\ CutAt(s, a, b, i)[1] = CutAt(s, a, b, i)[2] => a = e /\ b = e
<1> DEFINE f == FirstOf(s, a)
           l == LastOf(s, b)
<1>1. /\ f \in Nat /\ s[f] <= a /\ a < s[f + 1]
      /\ l \in Nat /\ b <= s[l + 1] /\ (l = 0 \/ s[l] < b)
      /\ i \in f .. l
  BY FirstIs, LastIs DEF IsFirst, IsEnd
<1> HIDE DEF f, l
<1>2. /\ i \in Nat /\ s[i] \in Int /\ s[i + 1] \in Int /\ s[i] < s[i + 1]
      /\ s[f + 1] \in Int /\ s[l] \in Int /\ s[0] = e /\ e \in Int /\ e <= s[i]
  <2>1. i \in Nat /\ f + 1 \in Nat /\ i + 1 \in Nat
    BY <1>1
  <2>2. \A n \in Nat : s[n] \in Int /\ s[n] >= e + n /\ s[n] < s[n + 1]
    BY RisesAll DEF Rising
  <2>3. s[0] = e /\ e \in Int
    BY DEF Rising
  <2>4. e <= s[i]
    BY <2>1, <2>2, <2>3
  <2> QED
    BY <1>1, <2>1, <2>2, <2>3, <2>4
<1>3. a < s[i + 1]
  <2>1. f + 1 < i + 1 => s[f + 1] < s[i + 1]
    BY <1>1, <1>2, RisesAll
  <2> QED
    BY <1>1, <1>2, <2>1
<1>4. s[i] < b \/ i = 0
  <2>1. i < l => s[i] < s[l]
    BY <1>1, <1>2, RisesAll
  <2> QED
    BY <1>1, <1>2, <2>1
<1> DEFINE x == AtLeast(s[i], a)
           y == AtMost(s[i + 1], b)
<1>5. x \in Int /\ y \in Int /\ x <= y /\ (x = y => a = e /\ b = e)
  BY <1>2, <1>3, <1>4 DEF AtLeast, AtMost
<1>6. s[i] <= b
  BY <1>2, <1>4
<1> HIDE DEF x, y
<1>7. CutAt(s, a, b, i) = <<x, y>>
  BY DEF CutAt, x, y
<1> QED
  BY <1>2, <1>3, <1>5, <1>6, <1>7

(* A stay in a zone whose dates follow one another, no longer than is priced *)
(* and a day.                                                               *)
Priced(stay, zone) ==
  /\ stay \in StayType /\ zone \in ZoneType /\ OrdinaryZone(zone)
  /\ stay.entry <= stay.exit
  /\ stay.exit - stay.entry <= (MaxStayDays + 1) * DayTicks

DayStarts(d, stay, zone) == [i \in Nat |-> DayStart(d, stay, zone, i)]

(* The days of such a stay start in order, and are over before its exit.     *)
LEMMA DaysRise ==
  ASSUME NEW d, d.boundary \in DayBoundaries, NEW stay, NEW zone, Priced(stay, zone)
  PROVE  /\ Rising(DayStarts(d, stay, zone), stay.entry)
         /\ stay.entry \in Int /\ stay.exit \in Int
         /\ \A n \in Nat : DayStarts(d, stay, zone)[n] = DayStart(d, stay, zone, n)
         /\ \A n \in Nat : n >= MaxStayDays + 3 => DayStarts(d, stay, zone)[n] > stay.exit
<1>1. stay \in StayType /\ zone \in ZoneType /\ OrdinaryZone(zone)
  BY DEF Priced
<1>2. stay.entry \in Int /\ stay.exit \in Int
  BY <1>1 DEF StayType
<1> DEFINE s == DayStarts(d, stay, zone)
<1>3. \A n \in Nat : s[n] = DayStart(d, stay, zone, n)
  BY DEF DayStarts
<1>4. \A n \in Nat : DayStart(d, stay, zone, n) \in Int
                     /\ DayStart(d, stay, zone, n) < DayStart(d, stay, zone, n + 1)
  BY <1>1, DayStartsIncrease
<1>5. DayStart(d, stay, zone, 0) = stay.entry
  BY DEF DayStart
<1>6. Rising(s, stay.entry)
  <2>1. s \in [Nat -> Int]
    BY <1>4 DEF DayStarts
  <2> HIDE DEF s
  <2> QED
    BY <1>2, <1>3, <1>4, <1>5, <2>1 DEF Rising
<1>7. Enough(d, stay, zone)
  <2>1. /\ zone.after - zone.before < DayTicks /\ zone.before - zone.after < DayTicks
        /\ stay.exit - stay.entry <= (MaxStayDays + 1) * DayTicks
    BY DEF Priced, OrdinaryZone
  <2>2. 1 * DayTicks = DayTicks /\ MaxStayDays + 2 - 1 = MaxStayDays + 1
    BY DayTicksPositive, CapsAssumption
  <2> QED
    BY <1>1, <2>1, <2>2, EnoughDays
<1>8. \A n \in Nat : n >= MaxStayDays + 3 => s[n] > stay.exit
  BY <1>3, <1>7 DEF Enough
<1> HIDE DEF s
<1> QED
  BY <1>2, <1>3, <1>6, <1>8 DEF s

(* The day _day_holding finds is the one the instant lies in.                *)
LEMMA DayIsHeld ==
  ASSUME NEW d, d.boundary \in DayBoundaries, NEW stay, NEW zone, Priced(stay, zone),
         NEW t \in Int, stay.entry <= t, t <= stay.exit
  PROVE  DayHolding(d, stay, zone, t) = FirstOf(DayStarts(d, stay, zone), t)
<1> DEFINE s == DayStarts(d, stay, zone)
           e == stay.entry
           f == FirstOf(s, t)
           guess == GuessedDay(d, stay, zone, t)
           S == {0} \cup {i \in 1 .. guess : DayStart(d, stay, zone, i) <= t}
           back == Max(S)
           T == {i \in back .. back + MaxStayDays + 2 : ~(DayStart(d, stay, zone, i + 1) <= t)}
<1>1. /\ Rising(s, e) /\ e \in Int /\ stay.exit \in Int
      /\ \A n \in Nat : s[n] = DayStart(d, stay, zone, n) /\ s[n] \in Int
      /\ \A n \in Nat : n >= MaxStayDays + 3 => s[n] > stay.exit
      /\ s[0] = e
  <2>1. /\ Rising(s, e) /\ e \in Int /\ stay.exit \in Int
        /\ \A n \in Nat : s[n] = DayStart(d, stay, zone, n)
        /\ \A n \in Nat : n >= MaxStayDays + 3 => s[n] > stay.exit
    BY DaysRise
  <2> HIDE DEF s, e
  <2> QED
    BY <2>1, RisesAll DEF Rising
<1>2. f \in Nat /\ s[f] <= t /\ t < s[f + 1] /\ \A g : IsFirst(s, t, g) => g = f
  <2> HIDE DEF s
  <2> QED
    BY <1>1, FirstIs DEF IsFirst
<1>3. \A i, j \in Nat : i < j => s[i] < s[j]
  <2> HIDE DEF s
  <2> QED
    BY <1>1, RisesAll
<1>4. guess \in Nat
  <2>1. d.boundary = "rolling_24h" => guess \in Nat
    <3>1. \A x \in Nat, y \in Nat \ {0} : x \div y \in Nat
      BY SMT
    <3>2. t - stay.entry \in Nat
      BY <1>1
    <3> QED
      BY <3>1, <3>2, DayTicksPositive DEF GuessedDay
  <2>2. d.boundary = "calendar_day" => guess \in Nat
    <3>1. LocalDate(zone, t) \in Int /\ LocalDate(zone, stay.entry) \in Int
      BY <1>1, PlainClock DEF Priced
    <3> QED
      BY <3>1 DEF GuessedDay, AtLeast
  <2> HIDE DEF guess
  <2> QED
    BY <2>1, <2>2 DEF DayBoundaries
<1>5. DayHolding(d, stay, zone, t) = IF t <= stay.entry THEN 0 ELSE Min(T)
  BY DEF DayHolding
<1> HIDE DEF s, e, f, guess
<1>6. CASE t <= stay.entry
  <2>1. IsFirst(s, t, 0)
    <3>1. t = s[0] /\ s[0] < s[1] /\ s[0 + 1] = s[1]
      BY <1>1, <1>3, <1>6 DEF e
    <3> QED
      BY <3>1 DEF IsFirst
  <2> QED
    BY <1>2, <1>5, <1>6, <2>1 DEF f, s
<1>7. CASE ~(t <= stay.entry)
  <2>1. back \in Nat /\ back <= f
    <3>1. S \subseteq 0 .. f
      <4> SUFFICES ASSUME NEW i \in 1 .. guess, s[i] <= t PROVE i <= f
        BY <1>1, <1>2, <1>4
      <4>1. f + 1 < i => s[f + 1] < s[i]
        BY <1>2, <1>3, <1>4
      <4>2. s[i] \in Int /\ s[f + 1] \in Int
        BY <1>1, <1>2, <1>4
      <4> QED
        BY <1>2, <1>4, <4>1, <4>2
    <3>2. \E m \in S : \A n \in S : n <= m
      <4> DEFINE U == {n \in Nat : \A i \in S : i <= n}
      <4>1. f \in U
        BY <1>2, <3>1
      <4>2. PICK m \in U : \A n \in U : m <= n
        <5>1. U \in SUBSET Nat /\ U # {}
          BY <4>1
        <5> HIDE DEF U
        <5> QED
          BY <5>1, LeastNat
      <4>3. m \in S
        <5> SUFFICES ASSUME m \notin S PROVE FALSE
          OBVIOUS
        <5>1. m # 0 /\ m - 1 \in Nat /\ S \subseteq Nat
          BY <1>2, <3>1, <4>2
        <5>2. \A i \in S : i <= m - 1
          BY <4>2, <5>1
        <5>3. m - 1 \in U
          BY <5>1, <5>2
        <5> QED
          BY <4>2, <5>1, <5>3
      <4> QED
        BY <4>2, <4>3
    <3>3. PICK m \in S : \A n \in S : n <= m
      BY <3>2
    <3>4. S \subseteq Int
      BY <1>2, <3>1
    <3>5. back = m
      <4> HIDE DEF S
      <4> QED
        BY <3>3, <3>4, MaxIs
    <3> HIDE DEF S, back
    <3> QED
      BY <1>2, <3>1, <3>3, <3>5
  <2> HIDE DEF back
  <2>2. f <= back + MaxStayDays + 2
    <3>1. s[f] \in Int /\ s[f] <= stay.exit
      BY <1>1, <1>2
    <3>2. ~(f >= MaxStayDays + 3)
      BY <1>1, <1>2, <3>1
    <3> QED
      BY <1>2, <2>1, <3>2, CapsAssumption
  <2>3. f \in T /\ T \subseteq Int
    BY <1>1, <1>2, <2>1, <2>2, CapsAssumption
  <2>4. ASSUME NEW n \in T PROVE f <= n
    <3>1. n \in Nat /\ n + 1 \in Nat /\ ~(s[n + 1] <= t)
      BY <1>1, <2>1, CapsAssumption
    <3>2. n + 1 < f => s[n + 1] < s[f]
      BY <1>2, <1>3, <3>1
    <3>3. s[n + 1] \in Int /\ s[f] \in Int
      BY <1>1, <1>2, <3>1
    <3> QED
      BY <1>2, <3>1, <3>2, <3>3
  <2>5. Min(T) = f
    <3> HIDE DEF T
    <3> QED
      BY <2>3, <2>4, MinIs
  <2> QED
    BY <1>5, <1>7, <2>5 DEF f, s
<1> QED
  BY <1>6, <1>7

(* The last day, or week, of a stay is the least that lasts to the exit.     *)
LEMMA LeastEnd ==
  ASSUME NEW s, NEW e, Rising(s, e), NEW x \in Int, e < x,
         \A n \in Nat : n >= MaxStayDays + 3 => s[n] > x,
         NEW l, l = LastOf(s, x), NEW f \in Nat, f <= l
  PROVE  Min({i \in f .. f + MaxStayDays + 2 : s[i + 1] >= x}) = l
<1> DEFINE T == {i \in f .. f + MaxStayDays + 2 : s[i + 1] >= x}
<1>1. l \in Nat /\ x <= s[l + 1] /\ (l = 0 \/ s[l] < x)
  BY LastIs DEF IsEnd
<1>2. /\ \A n \in Nat : s[n] \in Int
      /\ \A i, j \in Nat : i < j => s[i] < s[j]
  BY RisesAll
<1>3. l <= f + MaxStayDays + 2
  <2>1. CASE l = 0
    BY <2>1, CapsAssumption
  <2>2. CASE l # 0
    <3>1. s[l] \in Int /\ s[l] < x
      BY <1>1, <1>2, <2>2
    <3>2. ~(l >= MaxStayDays + 3)
      BY <1>1, <3>1
    <3> QED
      BY <1>1, <3>2, CapsAssumption
  <2> QED
    BY <2>1, <2>2
<1>4. s[l + 1] \in Int
  BY <1>1, <1>2
<1>5. l \in T /\ T \subseteq Int
  BY <1>1, <1>3, <1>4, CapsAssumption
<1>6. ASSUME NEW n \in T PROVE l <= n
  <2>1. n \in Nat /\ n + 1 \in Nat /\ s[n + 1] >= x
    BY CapsAssumption
  <2>2. n + 1 < l => s[n + 1] < s[l]
    BY <1>1, <1>2, <2>1
  <2>3. s[n + 1] \in Int /\ s[l] \in Int
    BY <1>1, <1>2, <2>1
  <2> QED
    BY <1>1, <2>1, <2>2, <2>3
<1> HIDE DEF T
<1>7. Min(T) = l
  BY <1>5, <1>6, MinIs
<1> QED
  BY <1>7 DEF T

(* The days from one of them on, as cuts of the stay.                        *)
LEMMA DaysFrom ==
  ASSUME NEW d, d.boundary \in DayBoundaries, NEW stay, NEW zone, Priced(stay, zone),
         NEW s, s = DayStarts(d, stay, zone), NEW l, l = LastOf(s, stay.exit),
         NEW f \in Nat, f <= l
  PROVE  /\ DOMAIN DaysOf(d, stay, zone, f) = f .. l
         /\ \A i \in f .. l : DaysOf(d, stay, zone, f)[i]
                                = <<s[i], IF i = l THEN stay.exit ELSE s[i + 1]>>
<1> DEFINE e == stay.entry
           T == {i \in f .. f + MaxStayDays + 2 : DayStart(d, stay, zone, i + 1) >= stay.exit}
           last == IF stay.exit <= stay.entry THEN f ELSE Min(T)
<1>1. /\ Rising(s, e) /\ e \in Int /\ stay.exit \in Int /\ e <= stay.exit
      /\ \A n \in Nat : s[n] = DayStart(d, stay, zone, n) /\ s[n] \in Int
      /\ \A n \in Nat : n >= MaxStayDays + 3 => s[n] > stay.exit
      /\ s[0] = e
  <2>1. /\ Rising(s, e) /\ e \in Int /\ stay.exit \in Int
        /\ \A n \in Nat : s[n] = DayStart(d, stay, zone, n)
        /\ \A n \in Nat : n >= MaxStayDays + 3 => s[n] > stay.exit
    BY DaysRise
  <2> QED
    BY <2>1, RisesAll DEF Rising, Priced
<1>2. l \in Nat /\ stay.exit <= s[l + 1] /\ (l = 0 \/ s[l] < stay.exit)
      /\ \A k : IsEnd(s, stay.exit, k) => k = l
  BY <1>1, LastIs DEF IsEnd
<1>3. \A i, j \in Nat : i < j => s[i] < s[j]
  BY <1>1, RisesAll
<1>4. last = l
  <2>1. CASE stay.exit <= stay.entry
    <3>1. stay.exit = s[0] /\ s[0] < s[0 + 1]
      BY <1>1, <1>3, <2>1
    <3>2. IsEnd(s, stay.exit, 0)
      BY <1>1, <3>1 DEF IsEnd
    <3> QED
      BY <1>2, <2>1, <3>2
  <2>2. CASE ~(stay.exit <= stay.entry)
    <3>1. Min({i \in f .. f + MaxStayDays + 2 : s[i + 1] >= stay.exit}) = l
      BY <1>1, <2>2, LeastEnd
    <3>2. T = {i \in f .. f + MaxStayDays + 2 : s[i + 1] >= stay.exit}
      BY <1>1, CapsAssumption
    <3> HIDE DEF T
    <3> QED
      BY <2>2, <3>1, <3>2
  <2> QED
    BY <2>1, <2>2
<1>5. DaysOf(d, stay, zone, f)
        = [i \in f .. last |-> <<DayStart(d, stay, zone, i),
                                 IF i = last THEN stay.exit ELSE DayStart(d, stay, zone, i + 1)>>]
  BY DEF DaysOf
<1> HIDE DEF last
<1> QED
  BY <1>1, <1>2, <1>4, <1>5

(* A part of a stay that has days to cut it into. *)
PartOf(stay, a, b) ==
  /\ a \in Int /\ b \in Int /\ stay.entry <= a /\ b <= stay.exit
  /\ a < b \/ (a = stay.entry /\ b = stay.entry)

(* The pieces of a part are its cuts.                                        *)
LEMMA PiecesAreCuts ==
  ASSUME NEW d, d.boundary \in DayBoundaries, NEW stay, NEW zone, Priced(stay, zone),
         NEW s, s = DayStarts(d, stay, zone), NEW a, NEW b, PartOf(stay, a, b)
  PROVE  /\ DOMAIN PiecesOf(d, stay, zone, a, b) = FirstOf(s, a) .. LastOf(s, b)
         /\ \A i \in FirstOf(s, a) .. LastOf(s, b) :
              PiecesOf(d, stay, zone, a, b)[i] = CutAt(s, a, b, i)
<1> DEFINE e == stay.entry
           x == stay.exit
           f == FirstOf(s, a)
           k == LastOf(s, b)
           l == LastOf(s, x)
           days == DaysOf(d, stay, zone, f)
<1>1. /\ Rising(s, e) /\ e \in Int /\ x \in Int /\ e <= x
      /\ a \in Int /\ b \in Int /\ e <= a /\ a <= b /\ b <= x /\ (a < b \/ a = e)
      /\ a < b \/ (a = e /\ b = e)
  BY DaysRise DEF Priced, PartOf
<1>2. /\ f \in Nat /\ k \in Nat /\ l \in Nat /\ f <= k /\ k <= l
  <2> HIDE DEF e, x
  <2> QED
    BY <1>1, CutInOrder DEF f, k, l
<1>3. /\ s[f] <= a /\ a < s[f + 1]
      /\ b <= s[k + 1] /\ (k = 0 \/ s[k] < b)
      /\ x <= s[l + 1]
  <2> HIDE DEF e, x
  <2> QED
    BY <1>1, FirstIs, LastIs DEF IsFirst, IsEnd, f, k, l
<1>4. /\ \A i \in Nat : s[i] \in Int
      /\ \A i, j \in Nat : i < j => s[i] < s[j]
      /\ s[0] = e
  BY <1>1, RisesAll DEF Rising
<1>5. CASE ~(a < b)
  <2>1. PiecesOf(d, stay, zone, a, b) = [i \in {0} |-> <<a, b>>]
    BY <1>1, <1>5 DEF PiecesOf
  <2>2. f = 0 /\ k = 0
    <3>1. a = s[0] /\ b = s[0] /\ s[0] \in Int
      BY <1>1, <1>4, <1>5
    <3>2. (0 < f => s[0] < s[f]) /\ (0 < k => s[0] < s[k])
      BY <1>2, <1>4
    <3>3. s[f] \in Int /\ s[k] \in Int
      BY <1>2, <1>4
    <3> HIDE DEF f, k, e, x
    <3> QED
      BY <1>2, <1>3, <3>1, <3>2, <3>3
  <2>3. CutAt(s, a, b, 0) = <<a, b>>
    <3>1. s[0] < s[1] /\ s[1] \in Int /\ 0 + 1 = 1
      BY <1>4
    <3> QED
      BY <1>1, <1>4, <1>5, <3>1 DEF CutAt, AtLeast, AtMost
  <2>4. f .. k = {0}
    BY <2>2
  <2> HIDE DEF f, k
  <2> QED
    BY <2>1, <2>3, <2>4 DEF f, k
<1>6. CASE a < b
  <2>1. DOMAIN days = f .. l
        /\ \A i \in f .. l : days[i] = <<s[i], IF i = l THEN x ELSE s[i + 1]>>
    <3>1. f <= l
      BY <1>2
    <3> HIDE DEF f, e
    <3> QED
      BY <1>2, <3>1, DaysFrom DEF l, x
  <2> DEFINE inside(i) == days[i][1] < b /\ days[i][2] > a
             kept == {i \in DOMAIN days : \A j \in DOMAIN days : j <= i => inside(j)}
  <2>2. PiecesOf(d, stay, zone, a, b)
          = [i \in kept |-> <<AtLeast(days[i][1], a), AtMost(days[i][2], b)>>]
    <3>1. DayHolding(d, stay, zone, a) = f
      <4>1. a <= x
        BY <1>1
      <4> QED
        BY <1>1, <4>1, DayIsHeld
    <3>2. ~(b <= a)
      BY <1>1, <1>6
    <3> QED
      BY <3>1, <3>2 DEF PiecesOf
  <2> HIDE DEF days, f, k, l, e, x
  <2>3. ASSUME NEW i \in f .. l PROVE inside(i) <=> i <= k
    <3>1. i \in Nat /\ s[i] \in Int /\ s[i + 1] \in Int /\ s[f + 1] \in Int
          /\ s[k] \in Int /\ s[k + 1] \in Int
      BY <1>2, <1>4
    <3>2. s[i + 1] > a
      <4>1. f < i => s[f + 1] < s[i + 1]
        BY <1>2, <1>4, <3>1
      <4> QED
        BY <1>1, <1>2, <1>3, <3>1, <4>1
    <3>3. days[i][2] > a /\ days[i][1] = s[i]
      BY <1>1, <1>6, <2>1, <3>2
    <3>4. i <= k => s[i] < b
      <4>1. i < k => s[i] < s[k]
        BY <1>2, <1>4, <3>1
      <4>2. s[k] < b
        BY <1>1, <1>3, <1>4, <1>6
      <4> QED
        BY <1>1, <1>2, <3>1, <4>1, <4>2
    <3>5. ~(i <= k) => ~(s[i] < b)
      <4>1. k + 1 < i => s[k + 1] < s[i]
        BY <1>2, <1>4, <3>1
      <4> QED
        BY <1>1, <1>2, <1>3, <3>1, <4>1
    <3> QED
      BY <3>3, <3>4, <3>5
  <2>4. kept = f .. k
    <3> HIDE DEF inside
    <3>1. kept = {i \in f .. l : \A j \in f .. l : j <= i => inside(j)}
      BY <2>1
    <3>2. \A i \in f .. l : (\A j \in f .. l : j <= i => inside(j)) <=> i <= k
      BY <1>2, <2>3
    <3> HIDE DEF kept
    <3> QED
      BY <1>2, <3>1, <3>2
  <2>5. ASSUME NEW i \in f .. k
        PROVE  <<AtLeast(days[i][1], a), AtMost(days[i][2], b)>> = CutAt(s, a, b, i)
    <3>1. i \in f .. l /\ i \in Nat /\ s[i + 1] \in Int
      BY <1>2, <1>4
    <3>2. days[i][1] = s[i] /\ days[i][2] = IF i = l THEN x ELSE s[i + 1]
      BY <2>1, <3>1
    <3>3. AtMost(days[i][2], b) = AtMost(s[i + 1], b)
      BY <1>1, <1>3, <3>1, <3>2 DEF AtMost
    <3> QED
      BY <3>2, <3>3 DEF CutAt
  <2> HIDE DEF kept
  <2> QED
    BY <2>2, <2>4, <2>5 DEF f, k
<1> QED
  BY <1>5, <1>6

(* What a day's time, or a week's, comes to, as a function of when it starts *)
(* and ends; and what a part of the stay comes to, cut where the days start. *)
CutPays(pay, s, a, b) == [i \in Nat |-> pay[CutAt(s, a, b, i)]]
CutSum(pay, s, a, b) == SumFunctionOnSet(CutPays(pay, s, a, b), FirstOf(s, a) .. LastOf(s, b))

DayPay(most, stay, rate) ==
  [p \in Int \X Int |-> IF rate = Flat THEN most ELSE AtMost(most, ChargeIn(stay, rate, p[1], p[2]))]

(* What a day pays is never less when the day is longer.                     *)
LEMMA DayPayGrows ==
  ASSUME NEW most \in Nat, NEW stay \in StayType, NEW rate \in RateType \cup {Flat},
         NEW x \in Int, NEW y \in Int, NEW z \in Int, x <= y, y <= z
  PROVE  /\ DayPay(most, stay, rate)[<<x, y>>] \in Nat
         /\ DayPay(most, stay, rate)[<<x, z>>] \in Nat
         /\ DayPay(most, stay, rate)[<<x, y>>] <= DayPay(most, stay, rate)[<<x, z>>]
<1>1. CASE rate = Flat
  BY <1>1 DEF DayPay
<1>2. CASE rate # Flat
  <2>1. rate \in RateType
    BY <1>2
  <2> DEFINE owed(u) == ChargedBy(rate, MinutesUntil(stay.entry, u))
  <2>2. owed(x) \in Nat /\ owed(y) \in Nat /\ owed(z) \in Nat /\ owed(x) <= owed(y) /\ owed(y) <= owed(z)
    BY <2>1, ChargesByInstant
  <2> DEFINE c == ChargeIn(stay, rate, x, y)
             g == ChargeIn(stay, rate, x, z)
  <2>3. c = owed(y) - (IF x = stay.entry THEN 0 ELSE owed(x))
        /\ g = owed(z) - (IF x = stay.entry THEN 0 ELSE owed(x))
    BY DEF ChargeIn
  <2> HIDE DEF owed, c, g
  <2>4. c \in Nat /\ g \in Nat /\ c <= g
    BY <2>2, <2>3
  <2>5. /\ DayPay(most, stay, rate)[<<x, y>>] = AtMost(most, c)
        /\ DayPay(most, stay, rate)[<<x, z>>] = AtMost(most, g)
    BY <1>2 DEF DayPay, c, g
  <2> QED
    BY <2>4, <2>5 DEF AtMost
<1> QED
  BY <1>1, <1>2

(* What the days of a part come to: a Flat base has every day at the max.    *)
DayTotal(d, stay, zone, rate, a, b) ==
  IF rate = Flat THEN d.most * Cardinality(DOMAIN PiecesOf(d, stay, zone, a, b))
  ELSE DaysPay(d, stay, zone, rate, a, b)

(* What the days of a part pay is such a sum. *)
LEMMA DaysPayIs ==
  ASSUME NEW d, d.boundary \in DayBoundaries, d.most \in Nat,
         NEW stay, NEW zone, Priced(stay, zone), NEW rate \in RateType \cup {Flat},
         NEW s, s = DayStarts(d, stay, zone), NEW a, NEW b, PartOf(stay, a, b)
  PROVE  DayTotal(d, stay, zone, rate, a, b) = CutSum(DayPay(d.most, stay, rate), s, a, b)
<1> DEFINE f == FirstOf(s, a)
           k == LastOf(s, b)
           cut == PiecesOf(d, stay, zone, a, b)
           pay == DayPay(d.most, stay, rate)
           g == CutPays(pay, s, a, b)
<1>1. /\ Rising(s, stay.entry)
      /\ a \in Int /\ b \in Int /\ stay.entry <= a /\ a <= b /\ (a < b \/ a = stay.entry)
  BY DaysRise DEF Priced, PartOf
<1>2. f \in Nat /\ k \in Nat /\ f <= k
  BY <1>1, CutInOrder
<1>3. DOMAIN cut = f .. k /\ \A i \in f .. k : cut[i] = CutAt(s, a, b, i)
  BY PiecesAreCuts
<1>4. \A i \in f .. k : i \in Nat /\ CutAt(s, a, b, i) \in Int \X Int
  <2> SUFFICES ASSUME NEW i \in f .. k PROVE i \in Nat /\ CutAt(s, a, b, i) \in Int \X Int
    OBVIOUS
  <2> QED
    BY <1>1, CutsAreShort
<1>5. \A i \in f .. k : g[i] = pay[cut[i]]
  BY <1>3, <1>4 DEF CutPays
<1>6. CASE rate # Flat
  <2>1. \A i \in DOMAIN cut : g[i] = AtMost(d.most, ChargeIn(stay, rate, cut[i][1], cut[i][2]))
    <3> SUFFICES ASSUME NEW i \in f .. k
                 PROVE  g[i] = AtMost(d.most, ChargeIn(stay, rate, cut[i][1], cut[i][2]))
      BY <1>3
    <3>1. cut[i] \in Int \X Int /\ g[i] = pay[cut[i]]
      BY <1>3, <1>4, <1>5
    <3> HIDE DEF cut, g
    <3> QED
      BY <1>6, <3>1 DEF DayPay
  <2>2. IsFiniteSet(DOMAIN cut)
    BY <1>2, <1>3, FS_Interval
  <2> HIDE DEF cut, g, f, k, pay
  <2>3. DaysPay(d, stay, zone, rate, a, b) = SumFunctionOnSet(g, DOMAIN cut)
    BY <2>1, <2>2, SumOfPayments DEF cut
  <2>4. SumFunctionOnSet(g, f .. k) = CutSum(pay, s, a, b)
    BY DEF CutSum, g, f, k
  <2> QED
    BY <1>3, <1>6, <2>3, <2>4 DEF pay, DayTotal
<1>7. CASE rate = Flat
  <2>1. \A i \in f .. k : g[i] = d.most
    <3> SUFFICES ASSUME NEW i \in f .. k PROVE g[i] = d.most
      OBVIOUS
    <3>1. cut[i] \in Int \X Int /\ g[i] = pay[cut[i]]
      BY <1>3, <1>4, <1>5
    <3> HIDE DEF cut, g
    <3> QED
      BY <1>7, <3>1 DEF DayPay
  <2> HIDE DEF g, f, k, pay, cut
  <2>2. Alike(g, d.most, f, k)
    BY <1>2, <2>1 DEF Alike
  <2>3. SumFunctionOnSet(g, f .. k) = d.most * (k - f + 1)
    BY <2>2, SumOfAlike
  <2>4. Cardinality(f .. k) = k - f + 1
    BY <1>2, FS_Interval
  <2>5. SumFunctionOnSet(g, f .. k) = CutSum(pay, s, a, b)
    BY DEF CutSum, g, f, k
  <2>6. d.most * Cardinality(DOMAIN cut) = CutSum(pay, s, a, b)
    BY <1>3, <2>3, <2>4, <2>5
  <2> QED
    BY <1>7, <2>6 DEF pay, cut, DayTotal
<1> QED
  BY <1>6, <1>7

(* One cut's payments, each no more than the other's that starts with it.    *)
PaysMore(pay, more, s, e, a, b, c) ==
  /\ Rising(s, e) /\ a \in Int /\ b \in Int /\ c \in Int
  /\ e <= a /\ b <= c /\ a <= b /\ (a < b \/ a = e)
  /\ \A i \in FirstOf(s, a) .. LastOf(s, b) :
       /\ pay[CutAt(s, a, b, i)] \in Nat
       /\ pay[CutAt(s, a, b, i)] <= more[CutAt(s, a, c, i)]
  /\ \A i \in FirstOf(s, a) .. LastOf(s, c) : more[CutAt(s, a, c, i)] \in Nat

(* So a part that goes on pays no less.                                      *)
LEMMA CutSumGrows ==
  ASSUME NEW pay, NEW more, NEW s, NEW e, NEW a, NEW b, NEW c, PaysMore(pay, more, s, e, a, b, c)
  PROVE  CutSum(pay, s, a, b) <= CutSum(more, s, a, c)
<1> DEFINE f == FirstOf(s, a)
           k == LastOf(s, b)
           m == LastOf(s, c)
           g == CutPays(pay, s, a, b)
           h == CutPays(more, s, a, c)
<1>1. f \in Nat /\ k \in Nat /\ m \in Nat /\ f <= k /\ k <= m
  BY CutInOrder DEF PaysMore
<1>2. /\ \A i \in f .. k : g[i] \in Nat /\ g[i] <= h[i]
      /\ \A i \in f .. m : h[i] \in Nat
  BY <1>1 DEF PaysMore, CutPays
<1> HIDE DEF f, k, m, g, h
<1>3. Under(g, h, f, k, m)
  BY <1>1, <1>2 DEF Under
<1>4. SumFunctionOnSet(g, f .. k) <= SumFunctionOnSet(h, f .. m)
  BY <1>3, SumGrows
<1> QED
  BY <1>4 DEF CutSum, f, k, m, g, h

(* What a part pays is never negative.                                       *)
LEMMA CutSumIsNat ==
  ASSUME NEW pay, NEW s, NEW e, NEW a, NEW b, PaysMore(pay, pay, s, e, a, b, b)
  PROVE  CutSum(pay, s, a, b) \in Nat
<1> DEFINE f == FirstOf(s, a)
           k == LastOf(s, b)
           g == CutPays(pay, s, a, b)
           h == [i \in Nat |-> 0]
<1>1. f \in Nat /\ k \in Nat /\ f <= k
  BY CutInOrder DEF PaysMore
<1>2. \A i \in f .. k : g[i] \in Nat
  BY <1>1 DEF PaysMore, CutPays
<1>3. \A i \in f .. k : h[i] = 0
  BY <1>1
<1> HIDE DEF f, k, g, h
<1>4. Under(h, g, f, k, k) /\ Alike(h, 0, f, k) /\ \A i \in f .. k : g[i] \in Int
  BY <1>1, <1>2, <1>3 DEF Under, Alike
<1>5. SumFunctionOnSet(h, f .. k) <= SumFunctionOnSet(g, f .. k)
  BY <1>4, SumGrows
<1>6. SumFunctionOnSet(h, f .. k) = 0 * (k - f + 1)
  BY <1>4, SumOfAlike
<1>7. SumFunctionOnSet(g, f .. k) \in Int
  BY <1>1, <1>4, SumOfInts
<1>8. SumFunctionOnSet(g, f .. k) \in Nat
  BY <1>1, <1>5, <1>6, <1>7
<1> QED
  BY <1>8 DEF CutSum, f, k, g

(* A cut at a day's start pays what its two sides pay. *)
Splits(pay, s, e, a, m, c) ==
  /\ Rising(s, e) /\ a \in Int /\ c \in Int /\ m \in Nat
  /\ e <= a /\ a < s[m] /\ s[m] < c
  /\ \A i \in FirstOf(s, a) .. LastOf(s, c) : pay[CutAt(s, a, c, i)] \in Int

LEMMA CutSumSplits ==
  ASSUME NEW pay, NEW s, NEW e, NEW a, NEW m, NEW c, Splits(pay, s, e, a, m, c)
  PROVE  CutSum(pay, s, a, c) = CutSum(pay, s, a, s[m]) + CutSum(pay, s, s[m], c)
<1> DEFINE b == s[m]
           f == FirstOf(s, a)
           k == LastOf(s, c)
           g == CutPays(pay, s, a, c)
           g1 == CutPays(pay, s, a, b)
           g2 == CutPays(pay, s, b, c)
<1>1. /\ Rising(s, e) /\ a \in Int /\ c \in Int /\ m \in Nat /\ b \in Int /\ e \in Int
      /\ e <= a /\ a < b /\ b < c /\ s[0] = e
      /\ \A i \in Nat : s[i] \in Int
      /\ \A i, j \in Nat : i < j => s[i] < s[j]
  BY RisesAll DEF Splits, Rising
<1>2. m # 0 /\ m - 1 \in Nat /\ (m - 1) + 1 = m
  BY <1>1
<1>3. FirstOf(s, b) = m
  <2>1. IsFirst(s, b, m)
    BY <1>1 DEF IsFirst
  <2> QED
    BY <1>1, <2>1, FirstIs
<1>4. LastOf(s, b) = m - 1
  <2>1. m - 1 = 0 \/ s[m - 1] < b
    BY <1>1, <1>2
  <2>2. IsEnd(s, b, m - 1)
    BY <1>1, <1>2, <2>1 DEF IsEnd
  <2> QED
    BY <1>1, <2>2, LastIs
<1>5. f \in Nat /\ k \in Nat /\ f <= m - 1 /\ m <= k
  <2>1. FirstOf(s, a) <= LastOf(s, b) /\ FirstOf(s, a) \in Nat
    <3>1. a <= b /\ b <= b
      BY <1>1
    <3> HIDE DEF b
    <3> QED
      BY <1>1, <3>1, CutInOrder
  <2>2. FirstOf(s, b) <= LastOf(s, c) /\ LastOf(s, c) \in Nat
    <3>1. e <= b /\ b <= c /\ c <= c
      BY <1>1
    <3> HIDE DEF b
    <3> QED
      BY <1>1, <3>1, CutInOrder
  <2> QED
    BY <1>3, <1>4, <2>1, <2>2
<1>6. \A i \in f .. k : g[i] \in Int
  BY <1>5 DEF Splits, CutPays
<1>7. ASSUME NEW i \in f .. m - 1 PROVE g[i] = g1[i]
  <2>1. i \in Nat /\ i + 1 \in Nat /\ s[i + 1] \in Int
    BY <1>1, <1>5
  <2>2. s[i + 1] <= b
    <3>1. i + 1 < m => s[i + 1] < s[m]
      BY <1>1, <2>1
    <3> QED
      BY <1>1, <1>2, <2>1, <3>1
  <2>3. AtMost(s[i + 1], c) = AtMost(s[i + 1], b)
    <3> HIDE DEF b
    <3> QED
      BY <1>1, <2>1, <2>2 DEF AtMost
  <2> QED
    BY <2>1, <2>3 DEF CutPays, CutAt
<1>8. ASSUME NEW i \in m .. k PROVE g[i] = g2[i]
  <2>1. i \in Nat /\ s[i] \in Int
    BY <1>1, <1>5
  <2>2. b <= s[i]
    <3>1. m < i => s[m] < s[i]
      BY <1>1, <2>1
    <3> QED
      BY <1>1, <2>1, <3>1
  <2>3. AtLeast(s[i], a) = AtLeast(s[i], b)
    <3> HIDE DEF b
    <3> QED
      BY <1>1, <2>1, <2>2 DEF AtLeast
  <2> QED
    BY <2>1, <2>3 DEF CutPays, CutAt
<1>9. IsFiniteSet(f .. m - 1) /\ IsFiniteSet(m .. k)
  BY <1>1, <1>2, <1>5, FS_Interval
<1> HIDE DEF b, f, k, g, g1, g2
<1>10. SumFunctionOnSet(g, f .. k) = SumFunctionOnSet(g, f .. m - 1) + SumFunctionOnSet(g, (m - 1) + 1 .. k)
  <2>1. TwoParts(g, f, m - 1, k)
    BY <1>2, <1>5, <1>6 DEF TwoParts
  <2> QED
    BY <2>1, SumOfTwoParts
<1>11. SumFunctionOnSet(g, f .. m - 1) = SumFunctionOnSet(g1, f .. m - 1)
  <2>1. \A i \in f .. m - 1 : g[i] \in Int /\ g[i] = g1[i]
    BY <1>1, <1>5, <1>6, <1>7
  <2> QED
    BY <1>9, <2>1, SumCongruent, Zenon
<1>12. SumFunctionOnSet(g, m .. k) = SumFunctionOnSet(g2, m .. k)
  <2>1. \A i \in m .. k : g[i] \in Int /\ g[i] = g2[i]
    BY <1>1, <1>5, <1>6, <1>8
  <2> QED
    BY <1>9, <2>1, SumCongruent, Zenon
<1>13. CutSum(pay, s, a, c) = SumFunctionOnSet(g, f .. k)
  BY DEF CutSum, f, k, g
<1>14. CutSum(pay, s, a, b) = SumFunctionOnSet(g1, f .. m - 1)
  BY <1>4 DEF CutSum, f, g1
<1>15. CutSum(pay, s, b, c) = SumFunctionOnSet(g2, m .. k)
  BY <1>3 DEF CutSum, k, g2
<1> QED
  BY <1>2, <1>10, <1>11, <1>12, <1>13, <1>14, <1>15 DEF b

(* What the days of a part pay under a daily cap. *)
DaySum(d, stay, zone, rate, a, b) ==
  CutSum(DayPay(d.most, stay, rate), DayStarts(d, stay, zone), a, b)

(* The days of a part come to the sum of what its cuts pay.                  *)
LEMMA DayTotalIs ==
  ASSUME NEW d, d.boundary \in DayBoundaries, d.most \in Nat,
         NEW stay, NEW zone, Priced(stay, zone), NEW rate \in RateType \cup {Flat},
         NEW a, NEW b, PartOf(stay, a, b)
  PROVE  DayTotal(d, stay, zone, rate, a, b) = DaySum(d, stay, zone, rate, a, b)
<1>1. \A u : u = DayStarts(d, stay, zone) =>
        DayTotal(d, stay, zone, rate, a, b) = CutSum(DayPay(d.most, stay, rate), u, a, b)
  BY DaysPayIs
<1> QED
  BY <1>1 DEF DaySum

(* Every day of a part pays no less when the part goes on.                   *)
LEMMA DayTermsGrow ==
  ASSUME NEW most \in Nat, NEW stay \in StayType, NEW rate \in RateType \cup {Flat},
         NEW s, NEW e, Rising(s, e), NEW a \in Int, NEW b \in Int, NEW c \in Int,
         e <= a, b <= c, a <= b, a < b \/ a = e
  PROVE  PaysMore(DayPay(most, stay, rate), DayPay(most, stay, rate), s, e, a, b, c)
<1> DEFINE pay == DayPay(most, stay, rate)
<1>1. FirstOf(s, a) \in Nat /\ LastOf(s, b) \in Nat /\ LastOf(s, c) \in Nat
      /\ LastOf(s, b) <= LastOf(s, c)
  BY CutInOrder
<1>2. ASSUME NEW i \in FirstOf(s, a) .. LastOf(s, b)
      PROVE  /\ pay[CutAt(s, a, b, i)] \in Nat
             /\ pay[CutAt(s, a, b, i)] <= pay[CutAt(s, a, c, i)]
  <2> DEFINE x == AtLeast(s[i], a)
             y == AtMost(s[i + 1], b)
             z == AtMost(s[i + 1], c)
  <2>1. CutAt(s, a, b, i) = <<x, y>> /\ CutAt(s, a, c, i) = <<x, z>>
    BY DEF CutAt
  <2>2. s[i] \in Int /\ s[i + 1] \in Int /\ x <= y
    <3>1. s[i] \in Int /\ s[i + 1] \in Int /\ CutAt(s, a, b, i)[1] <= CutAt(s, a, b, i)[2]
      BY CutsAreShort
    <3> QED
      BY <3>1 DEF CutAt
  <2>3. x \in Int /\ y \in Int /\ z \in Int /\ y <= z
    BY <2>2 DEF AtLeast, AtMost
  <2> HIDE DEF x, y, z, pay
  <2> QED
    BY <2>1, <2>2, <2>3, DayPayGrows DEF pay
<1>3. ASSUME NEW i \in FirstOf(s, a) .. LastOf(s, c) PROVE pay[CutAt(s, a, c, i)] \in Nat
  <2>1. a <= c /\ (a < c \/ a = e)
    OBVIOUS
  <2> DEFINE p == CutAt(s, a, c, i)
  <2>2. p \in Int \X Int /\ p[1] <= p[2]
    BY <2>1, CutsAreShort
  <2> HIDE DEF p, pay
  <2>3. p = <<p[1], p[2]>> /\ p[1] \in Int /\ p[2] \in Int
    BY <2>2
  <2> DEFINE u == p[1]
             v == p[2]
  <2>4. u \in Int /\ v \in Int /\ u <= v /\ v <= v
    BY <2>2, <2>3
  <2> HIDE DEF u, v
  <2>5. pay[<<u, v>>] \in Nat
    BY <2>4, DayPayGrows DEF pay
  <2> QED
    BY <2>3, <2>5 DEF p, u, v
<1> HIDE DEF pay
<1> QED
  BY <1>2, <1>3 DEF PaysMore, pay

WeekBoundaries == {"calendar_week", "rolling_7d"}
WeekStarts(w, stay, zone) == [i \in Nat |-> WeekStart(w, stay, zone, i)]

(* The days whose starts a weekly max's weeks start with: dates, or 24 hours. *)
TwinBoundary(w) == IF w.boundary = "calendar_week" THEN "calendar_day" ELSE "rolling_24h"

(* The number of the day a week starts with. *)
FirstDay(w, stay, zone, i) ==
  IF i = 0 THEN 0
  ELSE IF w.boundary = "rolling_7d" THEN i * DaysInAWeek
  ELSE i * DaysInAWeek - ((LocalDate(zone, stay.entry) - w.starts_on) % DaysInAWeek)

Weekly(w) == w.boundary \in WeekBoundaries /\ (w.boundary = "calendar_week" => w.starts_on \in Int)

(* The days that weeks start with are days of the stay, in order.            *)
LEMMA FirstDays ==
  ASSUME NEW w, Weekly(w), NEW stay, NEW zone, Priced(stay, zone), NEW i \in Nat
  PROVE  /\ FirstDay(w, stay, zone, i) \in Nat
         /\ i <= FirstDay(w, stay, zone, i)
         /\ FirstDay(w, stay, zone, i) < FirstDay(w, stay, zone, i + 1)
<1> DEFINE n == DaysInAWeek
           r == (LocalDate(zone, stay.entry) - w.starts_on) % n
<1>1. n \in Nat \ {0}
  BY CapsAssumption
<1>2. /\ \A j \in Nat : j * n \in Nat /\ j <= j * n /\ (j + 1) * n = j * n + n
      /\ \A j \in Nat \ {0} : j * n - n + 1 >= j
  <2>1. \A j \in Nat, k \in Nat \ {0} : j * k \in Nat /\ j <= j * k /\ (j + 1) * k = j * k + k
    BY SMT
  <2>2. \A j \in Nat \ {0}, k \in Nat \ {0} : j * k - k + 1 >= j
    <3>1. \A j \in Nat \ {0}, k \in Nat \ {0} : (j - 1) * k = j * k - k /\ (j - 1) * k >= j - 1
      BY SMT
    <3>2. \A j \in Nat \ {0}, k \in Nat \ {0} : j * k \in Int
      BY SMT
    <3> QED
      BY <3>1, <3>2
  <2> QED
    BY <1>1, <2>1, <2>2
<1>3. w.boundary = "calendar_week" => r \in 0 .. n - 1
  <2>1. \A x \in Int, k \in Nat \ {0} : x % k \in 0 .. k - 1
    BY SMT
  <2>2. LocalDate(zone, stay.entry) \in Int
    BY PlainClock DEF Priced, StayType
  <2> DEFINE y == LocalDate(zone, stay.entry) - w.starts_on
  <2>3. w.boundary = "calendar_week" => y \in Int
    BY <2>2 DEF Weekly
  <2>4. r = y % n
    OBVIOUS
  <2> HIDE DEF y, n, r
  <2> QED
    BY <1>1, <2>1, <2>3, <2>4
<1>4. \A j \in Nat : FirstDay(w, stay, zone, j)
                       = IF j = 0 THEN 0 ELSE IF w.boundary = "rolling_7d" THEN j * n ELSE j * n - r
  BY DEF FirstDay
<1>5. w.boundary # "rolling_7d" => r \in 0 .. n - 1
  <2>1. w.boundary # "rolling_7d" => w.boundary = "calendar_week"
    BY DEF Weekly, WeekBoundaries
  <2> HIDE DEF r, n
  <2> QED
    BY <1>3, <2>1
<1>6. i + 1 \in Nat \ {0}
  OBVIOUS
<1> HIDE DEF n, r
<1>7. /\ FirstDay(w, stay, zone, i)
           = (IF i = 0 THEN 0 ELSE IF w.boundary = "rolling_7d" THEN i * n ELSE i * n - r)
      /\ FirstDay(w, stay, zone, i + 1)
           = (IF w.boundary = "rolling_7d" THEN (i + 1) * n ELSE (i + 1) * n - r)
  BY <1>4, <1>6
<1> DEFINE p == i * n
           q == (i + 1) * n
<1>8. p \in Nat /\ q = p + n /\ i <= p /\ (i # 0 => p - n + 1 >= i)
  BY <1>2
<1> HIDE DEF p, q
<1>9. CASE w.boundary = "rolling_7d"
  BY <1>1, <1>7, <1>8, <1>9 DEF p, q
<1>10. CASE w.boundary # "rolling_7d"
  <2>1. r \in Int /\ 0 <= r /\ r <= n - 1
    BY <1>1, <1>5, <1>10
  <2>2. /\ FirstDay(w, stay, zone, i) = (IF i = 0 THEN 0 ELSE p - r)
        /\ FirstDay(w, stay, zone, i + 1) = q - r
    BY <1>7, <1>10 DEF p, q
  <2> QED
    BY <1>1, <1>8, <2>1, <2>2
<1> QED
  BY <1>9, <1>10

(* A week starts where its first day starts. *)
LEMMA WeeksAreDays ==
  ASSUME NEW w, Weekly(w), NEW stay, NEW zone, Priced(stay, zone),
         NEW d, d.boundary = TwinBoundary(w), NEW i \in Nat
  PROVE  WeekStart(w, stay, zone, i) = DayStart(d, stay, zone, FirstDay(w, stay, zone, i))
<1> DEFINE n == DaysInAWeek
           date == LocalDate(zone, stay.entry)
           m == FirstDay(w, stay, zone, i)
<1>1. m \in Nat /\ i <= m /\ n \in Nat \ {0} /\ DayTicks \in Nat \ {0}
  BY FirstDays, CapsAssumption, DayTicksPositive
<1>2. stay.entry \in Int /\ date \in Int
  BY PlainClock DEF Priced, StayType
<1>3. CASE i = 0
  BY <1>3 DEF WeekStart, DayStart, FirstDay
<1>4. CASE i # 0 /\ w.boundary = "rolling_7d"
  <2>1. m = i * n /\ m # 0
    BY <1>1, <1>4 DEF FirstDay
  <2>2. d.boundary = "rolling_24h"
    BY <1>4 DEF TwinBoundary
  <2>3. WeekStart(w, stay, zone, i) = stay.entry + i * n * DayTicks
    BY <1>4 DEF WeekStart
  <2>4. DayStart(d, stay, zone, m) = stay.entry + m * DayTicks
    BY <2>1, <2>2 DEF DayStart
  <2> QED
    BY <2>1, <2>3, <2>4
<1>5. CASE i # 0 /\ w.boundary # "rolling_7d"
  <2>1. w.boundary = "calendar_week" /\ w.starts_on \in Int
    BY <1>5 DEF Weekly, WeekBoundaries
  <2> DEFINE r == (date - w.starts_on) % n
  <2>2. m = i * n - r /\ m # 0
    BY <1>1, <1>5 DEF FirstDay
  <2>3. d.boundary = "calendar_day"
    BY <2>1 DEF TwinBoundary
  <2>4. r \in Int /\ i * n \in Int
    <3>1. \A x \in Int, k \in Nat \ {0} : x % k \in Int
      BY SMT
    <3>2. \A x \in Nat, k \in Nat \ {0} : x * k \in Int
      BY SMT
    <3> QED
      BY <1>1, <1>2, <2>1, <3>1, <3>2
  <2>5. WeekStart(w, stay, zone, i) = Midnight(zone, date - r + i * n)
    BY <1>5, <2>1 DEF WeekStart, WeekOf
  <2>6. DayStart(d, stay, zone, m) = Midnight(zone, date + m)
    BY <2>2, <2>3 DEF DayStart
  <2>7. date - r + i * n = date + m
    <3> HIDE DEF r, date, n, m
    <3> QED
      BY <1>2, <2>2, <2>4
  <2> QED
    BY <2>5, <2>6, <2>7
<1> QED
  BY <1>3, <1>4, <1>5

(* The weeks of such a stay start in order, and are over before its exit.    *)
LEMMA WeeksRise ==
  ASSUME NEW w, Weekly(w), NEW stay, NEW zone, Priced(stay, zone)
  PROVE  /\ Rising(WeekStarts(w, stay, zone), stay.entry)
         /\ stay.entry \in Int /\ stay.exit \in Int
         /\ \A n \in Nat : WeekStarts(w, stay, zone)[n] = WeekStart(w, stay, zone, n)
         /\ \A n \in Nat : n >= MaxStayDays + 3 => WeekStarts(w, stay, zone)[n] > stay.exit
<1> DEFINE d == [boundary |-> TwinBoundary(w)]
           s == DayStarts(d, stay, zone)
           v == WeekStarts(w, stay, zone)
           m(i) == FirstDay(w, stay, zone, i)
<1>1. d.boundary \in DayBoundaries /\ d.boundary = TwinBoundary(w)
  BY DEF TwinBoundary, DayBoundaries
<1>2. /\ Rising(s, stay.entry) /\ stay.entry \in Int /\ stay.exit \in Int
      /\ \A n \in Nat : s[n] = DayStart(d, stay, zone, n)
      /\ \A n \in Nat : n >= MaxStayDays + 3 => s[n] > stay.exit
  <2> HIDE DEF d
  <2> QED
    BY <1>1, DaysRise
<1>3. \A n \in Nat : m(n) \in Nat /\ n <= m(n) /\ m(n) < m(n + 1)
  BY FirstDays
<1>4. \A n \in Nat : v[n] = WeekStart(w, stay, zone, n)
  BY DEF WeekStarts
<1>5. ASSUME NEW n \in Nat PROVE v[n] = s[m(n)]
  <2>1. WeekStart(w, stay, zone, n) = DayStart(d, stay, zone, m(n))
    <3> HIDE DEF d
    <3> QED
      BY <1>1, WeeksAreDays
  <2> HIDE DEF v, s, m, d
  <2> QED
    BY <1>2, <1>3, <1>4, <2>1
<1>6. /\ \A n \in Nat : s[n] \in Int
      /\ \A i, j \in Nat : i < j => s[i] < s[j]
      /\ s[0] = stay.entry
  <2> HIDE DEF s
  <2> QED
    BY <1>2, RisesAll DEF Rising
<1>7. m(0) = 0
  BY DEF FirstDay
<1>8. v = [n \in Nat |-> WeekStart(w, stay, zone, n)]
  BY DEF WeekStarts
<1> HIDE DEF v, s, m, d
<1>9. \A n \in Nat : WeekStart(w, stay, zone, n) \in Int
  BY <1>3, <1>4, <1>5, <1>6
<1>10. v \in [Nat -> Int]
  BY <1>8, <1>9
<1>11. \A n \in Nat : v[n] < v[n + 1]
  <2> SUFFICES ASSUME NEW n \in Nat PROVE v[n] < v[n + 1]
    OBVIOUS
  <2>1. n + 1 \in Nat
    OBVIOUS
  <2>2. v[n] = s[m(n)] /\ v[n + 1] = s[m(n + 1)]
    BY <1>5, <2>1
  <2>3. m(n) \in Nat /\ m(n + 1) \in Nat /\ m(n) < m(n + 1)
    BY <1>3, <2>1
  <2> QED
    BY <1>6, <2>2, <2>3
<1>12. v[0] = stay.entry
  BY <1>5, <1>6, <1>7
<1>13. \A n \in Nat : n >= MaxStayDays + 3 => v[n] > stay.exit
  <2> SUFFICES ASSUME NEW n \in Nat, n >= MaxStayDays + 3 PROVE v[n] > stay.exit
    OBVIOUS
  <2>1. m(n) \in Nat /\ m(n) >= MaxStayDays + 3
    BY <1>3, CapsAssumption
  <2> QED
    BY <1>2, <1>5, <2>1
<1>14. Rising(v, stay.entry)
  BY <1>2, <1>10, <1>11, <1>12 DEF Rising
<1> QED
  BY <1>2, <1>4, <1>13, <1>14 DEF v

(* The weeks of a stay are the stay, cut where its weeks start. *)
LEMMA WeeksAreCuts ==
  ASSUME NEW w, Weekly(w), NEW stay, NEW zone, Priced(stay, zone),
         NEW s, s = WeekStarts(w, stay, zone)
  PROVE  /\ FirstOf(s, stay.entry) = 0 /\ LastOf(s, stay.exit) \in Nat
         /\ DOMAIN WeeksOf(w, stay, zone) = 0 .. LastOf(s, stay.exit)
         /\ \A i \in 0 .. LastOf(s, stay.exit) :
              WeeksOf(w, stay, zone)[i] = CutAt(s, stay.entry, stay.exit, i)
<1> DEFINE e == stay.entry
           x == stay.exit
           l == LastOf(s, x)
           T == {i \in 0 .. MaxStayDays + 2 : WeekStart(w, stay, zone, i + 1) >= x}
           last == IF x = e THEN 0 ELSE Min(T)
<1>1. /\ Rising(s, e) /\ e \in Int /\ x \in Int /\ e <= x
      /\ \A n \in Nat : s[n] = WeekStart(w, stay, zone, n)
      /\ \A n \in Nat : n >= MaxStayDays + 3 => s[n] > x
  BY WeeksRise DEF Priced
<1>2. /\ \A n \in Nat : s[n] \in Int
      /\ \A i, j \in Nat : i < j => s[i] < s[j]
      /\ s[0] = e
  BY <1>1, RisesAll DEF Rising
<1>3. /\ l \in Nat /\ x <= s[l + 1] /\ (l = 0 \/ s[l] < x)
      /\ \A k : IsEnd(s, x, k) => k = l
  <2> HIDE DEF x
  <2> QED
    BY <1>1, LastIs DEF IsEnd
<1>4. FirstOf(s, e) = 0
  <2>1. s[0] < s[1] /\ 0 + 1 = 1
    BY <1>2
  <2>2. IsFirst(s, e, 0)
    BY <1>1, <1>2, <2>1 DEF IsFirst
  <2>3. e <= e
    BY <1>1
  <2> HIDE DEF e
  <2> QED
    BY <1>1, <2>2, <2>3, FirstIs
<1>5. last = l
  <2>1. CASE x = e
    <3>1. s[0] < s[1] /\ 0 + 1 = 1
      BY <1>2
    <3>2. IsEnd(s, x, 0)
      BY <1>1, <1>2, <2>1, <3>1 DEF IsEnd
    <3> QED
      BY <1>3, <2>1, <3>2
  <2>2. CASE x # e
    <3>1. e < x /\ 0 <= l
      BY <1>1, <1>3, <2>2
    <3>2. Min({i \in 0 .. 0 + MaxStayDays + 2 : s[i + 1] >= x}) = l
      <4> HIDE DEF e, x
      <4> QED
        BY <1>1, <3>1, LeastEnd DEF l
    <3>3. T = {i \in 0 .. 0 + MaxStayDays + 2 : s[i + 1] >= x}
      BY <1>1, CapsAssumption
    <3> HIDE DEF T
    <3> QED
      BY <2>2, <3>2, <3>3
  <2> QED
    BY <2>1, <2>2
<1>6. WeeksOf(w, stay, zone)
        = [i \in 0 .. last |-> <<WeekStart(w, stay, zone, i),
                                 IF i = last THEN x ELSE WeekStart(w, stay, zone, i + 1)>>]
  BY DEF WeeksOf
<1> HIDE DEF last
<1>7. ASSUME NEW i \in 0 .. l
      PROVE  <<s[i], IF i = l THEN x ELSE s[i + 1]>> = CutAt(s, e, x, i)
  <2>1. i \in Nat /\ i + 1 \in Nat /\ s[i] \in Int /\ s[i + 1] \in Int
    BY <1>2, <1>3
  <2>2. e <= s[i]
    <3>1. 0 < i => s[0] < s[i]
      BY <1>2, <2>1
    <3> QED
      BY <1>1, <1>2, <2>1, <3>1
  <2>3. i # l => s[i + 1] < x
    <3> SUFFICES ASSUME i # l PROVE s[i + 1] < x
      OBVIOUS
    <3>1. i + 1 <= l /\ l # 0
      BY <1>3, <2>1
    <3>2. i + 1 < l => s[i + 1] < s[l]
      BY <1>2, <1>3, <2>1
    <3>3. s[l] < x /\ s[l] \in Int
      BY <1>2, <1>3, <3>1
    <3>4. i + 1 = l \/ i + 1 < l
      BY <1>3, <2>1, <3>1
    <3>5. CASE i + 1 = l
      BY <3>3, <3>5
    <3>6. CASE i + 1 < l
      <4> DEFINE p == s[i + 1]
                 q == s[l]
      <4> HIDE DEF p, q, x
      <4>1. p \in Int /\ q \in Int /\ x \in Int /\ p < q /\ q < x
        BY <1>1, <2>1, <3>2, <3>3, <3>6 DEF p, q
      <4>2. p < x
        BY <4>1
      <4> QED
        BY <4>2 DEF p
    <3> QED
      BY <3>4, <3>5, <3>6
  <2>4. AtLeast(s[i], e) = s[i] /\ AtMost(s[i + 1], x) = IF i = l THEN x ELSE s[i + 1]
    <3> DEFINE p == s[i]
               q == s[i + 1]
    <3>1. i = l => x <= q
      BY <1>3
    <3>2. p \in Int /\ q \in Int /\ e <= p /\ (i # l => q < x)
      BY <2>1, <2>2, <2>3
    <3> HIDE DEF e, x, l, p, q
    <3>3. AtLeast(p, e) = p
      BY <1>1, <3>2 DEF AtLeast
    <3>4. AtMost(q, x) = IF i = l THEN x ELSE q
      BY <1>1, <3>1, <3>2 DEF AtMost
    <3> QED
      BY <3>3, <3>4 DEF p, q
  <2> QED
    BY <2>4 DEF CutAt
<1>8. \A i \in 0 .. l : WeekStart(w, stay, zone, i) = s[i]
                        /\ WeekStart(w, stay, zone, i + 1) = s[i + 1]
  BY <1>1, <1>3
<1> HIDE DEF e, x, l
<1>9. /\ DOMAIN WeeksOf(w, stay, zone) = 0 .. l
      /\ \A i \in 0 .. l : WeeksOf(w, stay, zone)[i] = CutAt(s, e, x, i)
  BY <1>5, <1>6, <1>7, <1>8
<1> QED
  BY <1>3, <1>4, <1>9 DEF e, x, l

(* A least number of some there are is the least of them.                    *)
LEMMA NatMin ==
  ASSUME NEW S \in SUBSET Nat, S # {}
  PROVE  Min(S) \in S /\ Min(S) \in Nat /\ \A n \in S : Min(S) <= n
<1>1. PICK m \in S : \A n \in S : m <= n
  BY LeastNat
<1>2. S \subseteq Int
  OBVIOUS
<1>3. Min(S) = m
  BY <1>1, <1>2, MinIs
<1> QED
  BY <1>1, <1>3

(* A least number is no more than another's, where each of that one's is at  *)
(* or above one of its own.                                                 *)
LEMMA MinGrows ==
  ASSUME NEW S \in SUBSET Nat, S # {}, NEW T \in SUBSET Nat, T # {},
         \A t \in T : \E x \in S : x <= t
  PROVE  Min(S) <= Min(T)
<1>1. Min(T) \in T /\ Min(T) \in Nat
  BY NatMin
<1>2. PICK x \in S : x <= Min(T)
  BY <1>1
<1>3. Min(S) <= x /\ Min(S) \in Nat
  BY NatMin
<1> QED
  BY <1>1, <1>2, <1>3

(* When days and weeks start, and what a day pays, look at when the stay     *)
(* began, and not at when it ends.                                          *)
LEMMA SameStarts ==
  ASSUME NEW stay, NEW other, other.entry = stay.entry, NEW zone, NEW d, NEW most, NEW rate
  PROVE  /\ DayStarts(d, other, zone) = DayStarts(d, stay, zone)
         /\ WeekStarts(d, other, zone) = WeekStarts(d, stay, zone)
         /\ DayPay(most, other, rate) = DayPay(most, stay, rate)
         /\ \A x, y : ChargeIn(other, rate, x, y) = ChargeIn(stay, rate, x, y)
<1>1. \A i : DayStart(d, other, zone, i) = DayStart(d, stay, zone, i)
  BY DEF DayStart
<1>2. \A i : WeekStart(d, other, zone, i) = WeekStart(d, stay, zone, i)
  BY DEF WeekStart
<1>3. \A x, y : ChargeIn(other, rate, x, y) = ChargeIn(stay, rate, x, y)
  BY DEF ChargeIn
<1>4. DayStarts(d, other, zone) = DayStarts(d, stay, zone)
  BY <1>1 DEF DayStarts
<1>5. WeekStarts(d, other, zone) = WeekStarts(d, stay, zone)
  BY <1>2 DEF WeekStarts
<1>6. DayPay(most, other, rate) = DayPay(most, stay, rate)
  BY <1>3 DEF DayPay
<1> QED
  BY <1>3, <1>4, <1>5, <1>6

(* A part of a stay, in the same stay a while longer. *)
Longer(stay, other, zone) ==
  /\ Priced(stay, zone) /\ Priced(other, zone)
  /\ other.entry = stay.entry /\ stay.exit <= other.exit

(* The days of a part pay no less when the part, and its stay, go on.        *)
LEMMA DaySumGrows ==
  ASSUME NEW d, d.boundary \in DayBoundaries, d.most \in Nat, NEW rate \in RateType \cup {Flat},
         NEW stay, NEW other, NEW zone, Longer(stay, other, zone),
         NEW x, NEW y, NEW z, PartOf(stay, x, y), PartOf(other, x, z), y <= z
  PROVE  /\ DaySum(d, stay, zone, rate, x, y) \in Nat
         /\ DaySum(d, other, zone, rate, x, z) \in Nat
         /\ DaySum(d, stay, zone, rate, x, y) <= DaySum(d, other, zone, rate, x, z)
<1> DEFINE s == DayStarts(d, stay, zone)
           e == stay.entry
           pay == DayPay(d.most, stay, rate)
<1>1. Rising(s, e) /\ stay \in StayType
  BY DaysRise DEF Longer, Priced
<1>2. /\ x \in Int /\ y \in Int /\ z \in Int /\ e <= x /\ x <= y /\ y <= z /\ x <= z
      /\ y <= y /\ z <= z /\ (x < y \/ x = e) /\ (x < z \/ x = e)
  BY <1>1 DEF Longer, PartOf, StayType
<1>3. /\ DaySum(d, stay, zone, rate, x, y) = CutSum(pay, s, x, y)
      /\ DaySum(d, other, zone, rate, x, z) = CutSum(pay, s, x, z)
  BY SameStarts DEF DaySum, Longer
<1> HIDE DEF s, e
<1>4. /\ PaysMore(pay, pay, s, e, x, y, z)
      /\ PaysMore(pay, pay, s, e, x, y, y)
      /\ PaysMore(pay, pay, s, e, x, z, z)
  BY <1>1, <1>2, DayTermsGrow
<1> HIDE DEF pay
<1>5. CutSum(pay, s, x, y) <= CutSum(pay, s, x, z)
  BY <1>4, CutSumGrows
<1>6. CutSum(pay, s, x, y) \in Nat /\ CutSum(pay, s, x, z) \in Nat
  BY <1>4, CutSumIsNat
<1> QED
  BY <1>3, <1>5, <1>6

(* What a week is held to is the least of these. *)
WeekTerms(w, ds, stay, zone, rate, x, y) ==
  {w.most} \cup (IF rate = Flat THEN {} ELSE {ChargeIn(stay, rate, x, y)})
    \cup {DaySum(d, stay, zone, rate, x, y) : d \in ds}

(* A ceiling of a week is the least of its terms, and none is negative.      *)
LEMMA WeekCeilingIs ==
  ASSUME NEW w, w.most \in Nat, NEW ds \in SUBSET DailyCap, NEW rate \in RateType \cup {Flat},
         NEW stay, NEW zone, Priced(stay, zone), NEW x, NEW y, PartOf(stay, x, y)
  PROVE  /\ WeekCeiling(w, ds, stay, zone, rate, x, y)
              = Min(WeekTerms(w, ds, stay, zone, rate, x, y))
         /\ WeekTerms(w, ds, stay, zone, rate, x, y) \in SUBSET Nat
         /\ w.most \in WeekTerms(w, ds, stay, zone, rate, x, y)
<1> DEFINE byDays == {DayTotal(d, stay, zone, rate, x, y) : d \in ds}
           charged == IF rate = Flat THEN {} ELSE {ChargeIn(stay, rate, x, y)}
           sums == {DaySum(d, stay, zone, rate, x, y) : d \in ds}
<1>1. ASSUME NEW d \in ds
      PROVE  /\ DayTotal(d, stay, zone, rate, x, y) = DaySum(d, stay, zone, rate, x, y)
             /\ DaySum(d, stay, zone, rate, x, y) \in Nat
  <2>1. d.boundary \in DayBoundaries /\ d.most \in Nat
    BY DEF DailyCap, DayBoundaries
  <2>2. DayTotal(d, stay, zone, rate, x, y) = DaySum(d, stay, zone, rate, x, y)
    BY <2>1, DayTotalIs
  <2>3. Longer(stay, stay, zone) /\ y <= y
    <3>1. stay.entry \in Int /\ stay.exit \in Int /\ y \in Int
      BY DEF Priced, PartOf, StayType
    <3>2. stay.entry <= stay.entry /\ stay.exit <= stay.exit /\ y <= y
      BY <3>1
    <3> QED
      BY <3>2 DEF Longer
  <2>4. DaySum(d, stay, zone, rate, x, y) \in Nat
    BY <2>1, <2>3, DaySumGrows
  <2> QED
    BY <2>2, <2>4
<1>2. byDays = sums /\ sums \in SUBSET Nat
  BY <1>1
<1>3. charged \in SUBSET Nat
  <2> SUFFICES ASSUME rate # Flat PROVE ChargeIn(stay, rate, x, y) \in Nat
    OBVIOUS
  <2>1. rate \in RateType /\ stay \in StayType /\ x \in Int /\ y \in Int /\ x <= y
    BY DEF Priced, PartOf, StayType
  <2> QED
    BY <2>1, PartsEndToEnd
<1>4. WeekCeiling(w, ds, stay, zone, rate, x, y) = Min({w.most} \cup charged \cup byDays)
  BY DEF WeekCeiling, DayTotal
<1>5. WeekTerms(w, ds, stay, zone, rate, x, y) = {w.most} \cup charged \cup sums
  BY DEF WeekTerms
<1> HIDE DEF charged, byDays, sums
<1> QED
  BY <1>2, <1>3, <1>4, <1>5

(* A week that lasts longer is held to no less.                              *)
LEMMA WeekGrows ==
  ASSUME NEW w, w.most \in Nat, NEW ds \in SUBSET DailyCap, NEW rate \in RateType \cup {Flat},
         NEW stay, NEW other, NEW zone, Longer(stay, other, zone),
         NEW x, NEW y, NEW z, PartOf(stay, x, y), PartOf(other, x, z), y <= z
  PROVE  /\ WeekCeiling(w, ds, stay, zone, rate, x, y) \in Nat
         /\ WeekCeiling(w, ds, other, zone, rate, x, z) \in Nat
         /\ WeekCeiling(w, ds, stay, zone, rate, x, y)
              <= WeekCeiling(w, ds, other, zone, rate, x, z)
<1> DEFINE S == WeekTerms(w, ds, stay, zone, rate, x, y)
           T == WeekTerms(w, ds, other, zone, rate, x, z)
<1>1. /\ WeekCeiling(w, ds, stay, zone, rate, x, y) = Min(S)
      /\ WeekCeiling(w, ds, other, zone, rate, x, z) = Min(T)
      /\ S \in SUBSET Nat /\ T \in SUBSET Nat /\ w.most \in S /\ w.most \in T
  BY WeekCeilingIs DEF Longer
<1>2. ASSUME NEW t \in T PROVE \E u \in S : u <= t
  <2>1. CASE t = w.most
    BY <1>1, <2>1
  <2>2. CASE rate # Flat /\ t = ChargeIn(other, rate, x, z)
    <3>1. rate \in RateType /\ stay \in StayType /\ x \in Int /\ y \in Int /\ z \in Int
          /\ x <= y /\ y <= z
      BY <2>2 DEF Longer, Priced, PartOf, StayType
    <3>2. ChargeIn(other, rate, x, z) = ChargeIn(stay, rate, x, z)
      BY SameStarts DEF Longer
    <3>3. ChargeIn(stay, rate, x, y) \in Int /\ ChargeIn(stay, rate, x, y) <= ChargeIn(stay, rate, x, z)
      <4> DEFINE owed(u) == ChargedBy(rate, MinutesUntil(stay.entry, u))
      <4>1. owed(x) \in Nat /\ owed(y) \in Nat /\ owed(z) \in Nat /\ owed(y) <= owed(z)
        BY <3>1, ChargesByInstant
      <4> HIDE DEF owed
      <4> QED
        BY <4>1 DEF ChargeIn, owed
    <3>4. ChargeIn(stay, rate, x, y) \in S
      BY <2>2 DEF WeekTerms
    <3> QED
      BY <2>2, <3>2, <3>3, <3>4
  <2>3. CASE \E d \in ds : t = DaySum(d, other, zone, rate, x, z)
    <3>1. PICK d \in ds : t = DaySum(d, other, zone, rate, x, z)
      BY <2>3
    <3>2. d.boundary \in DayBoundaries /\ d.most \in Nat
      BY DEF DailyCap, DayBoundaries
    <3>3. DaySum(d, stay, zone, rate, x, y) <= t
      BY <3>1, <3>2, DaySumGrows
    <3>4. DaySum(d, stay, zone, rate, x, y) \in S
      BY DEF WeekTerms
    <3> QED
      BY <3>3, <3>4
  <2> QED
    BY <2>1, <2>2, <2>3 DEF WeekTerms
<1> HIDE DEF S, T
<1>3. S # {} /\ T # {}
  BY <1>1
<1> QED
  BY <1>1, <1>2, <1>3, MinGrows, NatMin

WeekPay(w, ds, stay, zone, rate) ==
  [p \in Int \X Int |-> WeekCeiling(w, ds, stay, zone, rate, p[1], p[2])]

(* A week of a stay, or a day, is a part of it, and ends no earlier when the *)
(* stay goes on.                                                            *)
LEMMA CutIsPart ==
  ASSUME NEW stay, NEW zone, Priced(stay, zone), NEW s, Rising(s, stay.entry),
         NEW i \in FirstOf(s, stay.entry) .. LastOf(s, stay.exit)
  PROVE  /\ CutAt(s, stay.entry, stay.exit, i) \in Int \X Int
         /\ PartOf(stay, CutAt(s, stay.entry, stay.exit, i)[1], CutAt(s, stay.entry, stay.exit, i)[2])
<1> DEFINE e == stay.entry
           x == stay.exit
           p == CutAt(s, e, x, i)
<1>1. e \in Int /\ x \in Int /\ e <= e /\ e <= x /\ (e < x \/ e = e)
  BY DEF Priced, StayType
<1>2. /\ s[i] \in Int /\ s[i + 1] \in Int /\ p \in Int \X Int /\ p[1] <= p[2]
      /\ p[1] = p[2] => e = e /\ x = e
  <2> HIDE DEF e, x
  <2> QED
    BY <1>1, CutsAreShort DEF e, x
<1>3. p[1] = AtLeast(s[i], e) /\ p[2] = AtMost(s[i + 1], x) /\ p[1] \in Int /\ p[2] \in Int
  BY <1>2 DEF CutAt
<1> HIDE DEF p
<1>4. e <= p[1] /\ p[2] <= x
  BY <1>1, <1>2, <1>3 DEF AtLeast, AtMost
<1>5. p[1] < p[2] \/ (p[1] = e /\ p[2] = e)
  <2> DEFINE a == p[1]
             b == p[2]
  <2>1. a \in Int /\ b \in Int /\ a <= b /\ (a = b => x = e) /\ e <= a /\ b <= x
    BY <1>2, <1>3, <1>4
  <2> HIDE DEF a, b, e, x
  <2>2. a < b \/ (a = e /\ b = e)
    BY <1>1, <2>1
  <2> QED
    BY <2>2 DEF a, b
<1>6. PartOf(stay, p[1], p[2])
  BY <1>3, <1>4, <1>5 DEF PartOf
<1> QED
  BY <1>2, <1>6 DEF p

(* Every week of a stay is held to no less when the stay goes on.            *)
LEMMA WeekTermsGrow ==
  ASSUME NEW w, w.most \in Nat, NEW ds \in SUBSET DailyCap, NEW rate \in RateType \cup {Flat},
         NEW stay, NEW other, NEW zone, Longer(stay, other, zone),
         NEW s, Rising(s, stay.entry)
  PROVE  PaysMore(WeekPay(w, ds, stay, zone, rate), WeekPay(w, ds, other, zone, rate),
                  s, stay.entry, stay.entry, stay.exit, other.exit)
<1> DEFINE e == stay.entry
           x == stay.exit
           z == other.exit
           pay == WeekPay(w, ds, stay, zone, rate)
           more == WeekPay(w, ds, other, zone, rate)
<1>1. /\ e \in Int /\ x \in Int /\ z \in Int /\ e <= x /\ x <= z /\ e <= e /\ other.entry = e
      /\ Priced(stay, zone) /\ Priced(other, zone) /\ Rising(s, other.entry)
  BY DEF Longer, Priced, StayType
<1>2. ASSUME NEW i \in FirstOf(s, e) .. LastOf(s, x)
      PROVE  /\ pay[CutAt(s, e, x, i)] \in Nat
             /\ pay[CutAt(s, e, x, i)] <= more[CutAt(s, e, z, i)]
  <2> DEFINE a == AtLeast(s[i], e)
             b == AtMost(s[i + 1], x)
             c == AtMost(s[i + 1], z)
  <2>1. i \in FirstOf(s, e) .. LastOf(s, z)
    <3>1. FirstOf(s, e) \in Nat /\ LastOf(s, x) \in Nat /\ LastOf(s, z) \in Nat
          /\ LastOf(s, x) <= LastOf(s, z)
      <4> HIDE DEF e, x, z
      <4> QED
        BY <1>1, CutInOrder DEF e
    <3> QED
      BY <3>1
  <2>2. CutAt(s, e, x, i) = <<a, b>> /\ CutAt(s, e, z, i) = <<a, c>>
    BY DEF CutAt
  <2>3. <<a, b>> \in Int \X Int /\ PartOf(stay, a, b)
    BY <1>1, <2>2, CutIsPart
  <2>4. <<a, c>> \in Int \X Int /\ PartOf(other, a, c)
    <3>1. i \in FirstOf(s, other.entry) .. LastOf(s, other.exit)
      BY <1>1, <2>1
    <3>2. CutAt(s, other.entry, other.exit, i) = <<a, c>>
      BY <1>1, <2>2
    <3> HIDE DEF a, c
    <3> QED
      BY <1>1, <3>1, <3>2, CutIsPart
  <2>5. s[i + 1] \in Int
    <3>1. i \in Nat /\ i + 1 \in Nat
      <4>1. FirstOf(s, e) \in Nat /\ LastOf(s, x) \in Nat
        <5> HIDE DEF e, x, z
        <5> QED
          BY <1>1, CutInOrder DEF e
      <4> QED
        BY <4>1
    <3> QED
      BY <3>1, RisesAll
  <2>6. b <= c
    <3> HIDE DEF e, x, z
    <3> QED
      BY <1>1, <2>5 DEF AtMost
  <2> HIDE DEF a, b, c
  <2>7. /\ WeekCeiling(w, ds, stay, zone, rate, a, b) \in Nat
        /\ WeekCeiling(w, ds, stay, zone, rate, a, b)
             <= WeekCeiling(w, ds, other, zone, rate, a, c)
    BY <2>3, <2>4, <2>6, WeekGrows
  <2>8. /\ pay[<<a, b>>] = WeekCeiling(w, ds, stay, zone, rate, a, b)
        /\ more[<<a, c>>] = WeekCeiling(w, ds, other, zone, rate, a, c)
    BY <2>3, <2>4 DEF WeekPay
  <2> HIDE DEF pay, more
  <2> QED
    BY <2>2, <2>7, <2>8
<1>3. ASSUME NEW i \in FirstOf(s, e) .. LastOf(s, z) PROVE more[CutAt(s, e, z, i)] \in Nat
  <2> DEFINE a == AtLeast(s[i], e)
             c == AtMost(s[i + 1], z)
  <2>1. CutAt(s, e, z, i) = <<a, c>>
    BY DEF CutAt
  <2>2. <<a, c>> \in Int \X Int /\ PartOf(other, a, c)
    <3>1. i \in FirstOf(s, other.entry) .. LastOf(s, other.exit)
      BY <1>1
    <3>2. CutAt(s, other.entry, other.exit, i) = <<a, c>>
      BY <1>1, <2>1
    <3> HIDE DEF a, c
    <3> QED
      BY <1>1, <3>1, <3>2, CutIsPart
  <2>3. Longer(other, other, zone) /\ c <= c
    <3>1. z <= z /\ c <= c
      BY <1>1, <2>2
    <3> QED
      BY <1>1, <3>1 DEF Longer
  <2> HIDE DEF a, c
  <2>4. WeekCeiling(w, ds, other, zone, rate, a, c) \in Nat
    BY <2>2, <2>3, WeekGrows
  <2>5. more[<<a, c>>] = WeekCeiling(w, ds, other, zone, rate, a, c)
    BY <2>2 DEF WeekPay
  <2> HIDE DEF more
  <2> QED
    BY <2>1, <2>4, <2>5
<1> HIDE DEF pay, more
<1>4. e < x \/ e = e
  OBVIOUS
<1>5. PaysMore(pay, more, s, e, e, x, z)
  BY <1>1, <1>2, <1>3 DEF PaysMore
<1> QED
  BY <1>5 DEF pay, more

(* A stage as the engine makes one, and as it would be a minute later.       *)
Sound(c) ==
  /\ Priced(c.stay, c.zone)
  /\ c.rate \in RateType \cup {Flat}
  /\ c.base \in Nat
  /\ c.caps \in SUBSET (DailyCap \cup WeeklyCap)

(* What each kind of cap has.                                                *)
LEMMA CapKinds ==
  ASSUME NEW c, Sound(c)
  PROVE  /\ Dailies(c) \in SUBSET DailyCap /\ Dailies(c) \subseteq c.caps
         /\ \A k \in c.caps :
              /\ k.most \in Nat /\ k.id \in Nat
              /\ k.type \in {"daily_max", "weekly_max"}
              /\ k.type = "daily_max" => k \in DailyCap /\ k.boundary \in DayBoundaries
              /\ k.type = "weekly_max" => Weekly(k)
<1>1. ASSUME NEW k \in c.caps
      PROVE  /\ k.most \in Nat /\ k.id \in Nat
             /\ k.type \in {"daily_max", "weekly_max"}
             /\ k.type = "daily_max" => k \in DailyCap /\ k.boundary \in DayBoundaries
             /\ k.type = "weekly_max" => Weekly(k)
  <2>1. CASE k \in DailyCap
    BY <2>1 DEF DailyCap, DayBoundaries
  <2>2. CASE k \in WeeklyCap
    BY <2>2, CapsAssumption DEF WeeklyCap, Weekly, WeekBoundaries
  <2> QED
    BY <2>1, <2>2 DEF Sound
<1> QED
  BY <1>1 DEF Dailies

(* The daily max's ceiling is what the stay's days pay under it. *)
LEMMA DailyIs ==
  ASSUME NEW c, Sound(c), NEW k \in c.caps, k.type = "daily_max"
  PROVE  CeilingOf(c, k) = DaySum(k, c.stay, c.zone, c.rate, c.stay.entry, c.stay.exit)
<1> DEFINE stay == c.stay
           zone == c.zone
           e == c.stay.entry
           x == c.stay.exit
           s == DayStarts(k, stay, zone)
<1>1. k.boundary \in DayBoundaries /\ k.most \in Nat
  BY CapKinds
<1>2. Priced(stay, zone) /\ c.rate \in RateType \cup {Flat}
      /\ stay \in StayType /\ e \in Int /\ x \in Int /\ e <= x /\ e <= e /\ x <= x
  BY DEF Sound, Priced, StayType
<1>3. PartOf(stay, e, x)
  BY <1>2 DEF PartOf
<1>4. DayTotal(k, stay, zone, c.rate, e, x) = DaySum(k, stay, zone, c.rate, e, x)
  <2> HIDE DEF stay, zone, e, x
  <2> QED
    BY <1>1, <1>2, <1>3, DayTotalIs
<1>5. DaysCovered(k, stay, zone) = Cardinality(DOMAIN PiecesOf(k, stay, zone, e, x))
  <2>0. s = DayStarts(k, stay, zone)
    OBVIOUS
  <2>1. Rising(s, e) /\ s[0] = e
    <3>1. Rising(s, stay.entry)
      <4> HIDE DEF stay, zone
      <4> QED
        BY <1>1, <1>2, DaysRise
    <3> QED
      BY <3>1 DEF Rising
  <2>2. FirstOf(s, e) = 0
    <3>1. s[0] < s[1] /\ 0 + 1 = 1
      <4> HIDE DEF s, e
      <4> QED
        BY <2>1, RisesAll
    <3> HIDE DEF s, e
    <3>2. IsFirst(s, e, 0)
      BY <1>2, <2>1, <3>1 DEF IsFirst
    <3> QED
      BY <1>2, <2>1, <3>2, FirstIs
  <2>3. LastOf(s, x) \in Nat
    <3> HIDE DEF s, e, x
    <3> QED
      BY <1>2, <2>1, CutInOrder
  <2> HIDE DEF s
  <2>4. DOMAIN PiecesOf(k, stay, zone, e, x) = FirstOf(s, e) .. LastOf(s, x)
    BY <1>1, <1>2, <1>3, <2>0, PiecesAreCuts
  <2>5. DOMAIN DaysOf(k, stay, zone, 0) = 0 .. LastOf(s, x)
    <3> DEFINE l == LastOf(s, x)
    <3>1. l = LastOf(s, stay.exit) /\ 0 \in Nat /\ 0 <= l
      BY <2>3
    <3> HIDE DEF l, stay, zone
    <3>2. DOMAIN DaysOf(k, stay, zone, 0) = 0 .. l
      BY <1>1, <1>2, <2>0, <3>1, DaysFrom
    <3> QED
      BY <3>2 DEF l
  <2> QED
    BY <2>2, <2>4, <2>5 DEF DaysCovered
<1>6. CeilingOf(c, k) = DayTotal(k, stay, zone, c.rate, e, x)
  BY <1>5 DEF CeilingOf, DailyCeiling, DayTotal
<1> QED
  BY <1>4, <1>6

(* What the weeks of a stay come to. *)
WeekSum(w, ds, stay, zone, rate) ==
  CutSum(WeekPay(w, ds, stay, zone, rate), WeekStarts(w, stay, zone), stay.entry, stay.exit)

(* The terms a weekly max tallies, one by one. *)
WeekTermOf(c, k) ==
  CutPays(WeekPay(k, Dailies(c), c.stay, c.zone, c.rate),
          WeekStarts(k, c.stay, c.zone), c.stay.entry, c.stay.exit)
LastWeek(c, k) == LastOf(WeekStarts(k, c.stay, c.zone), c.stay.exit)

(* Each term is what its week is held to.                                    *)
LEMMA WeekTermsAre ==
  ASSUME NEW c, Sound(c), NEW k \in c.caps, k.type = "weekly_max"
  PROVE  LET cut == WeeksOf(k, c.stay, c.zone)
         IN  /\ LastWeek(c, k) \in Nat
             /\ DOMAIN cut = 0 .. LastWeek(c, k)
             /\ \A i \in 0 .. LastWeek(c, k) :
                  /\ WeekTermOf(c, k)[i] = WeekCeiling(k, Dailies(c), c.stay, c.zone, c.rate,
                                                       cut[i][1], cut[i][2])
                  /\ WeekTermOf(c, k)[i] \in Nat
             /\ WeekSum(k, Dailies(c), c.stay, c.zone, c.rate)
                  = SumFunctionOnSet(WeekTermOf(c, k), 0 .. LastWeek(c, k))
<1> DEFINE stay == c.stay
           zone == c.zone
           ds == Dailies(c)
           e == c.stay.entry
           x == c.stay.exit
           s == WeekStarts(k, stay, zone)
           pay == WeekPay(k, ds, stay, zone, c.rate)
           cut == WeeksOf(k, stay, zone)
           l == LastOf(s, x)
<1>1. Weekly(k) /\ k.most \in Nat /\ ds \in SUBSET DailyCap
  BY CapKinds
<1>2. Priced(stay, zone) /\ c.rate \in RateType \cup {Flat}
      /\ stay \in StayType /\ e \in Int /\ x \in Int /\ e <= x /\ e <= e /\ x <= x
  BY DEF Sound, Priced, StayType
<1>3. s = WeekStarts(k, stay, zone)
  OBVIOUS
<1>4. FirstOf(s, e) = 0 /\ l \in Nat /\ DOMAIN cut = 0 .. l
      /\ \A i \in 0 .. l : cut[i] = CutAt(s, e, x, i)
  <2>1. /\ FirstOf(s, stay.entry) = 0 /\ LastOf(s, stay.exit) \in Nat
        /\ DOMAIN WeeksOf(k, stay, zone) = 0 .. LastOf(s, stay.exit)
        /\ \A i \in 0 .. LastOf(s, stay.exit) :
              WeeksOf(k, stay, zone)[i] = CutAt(s, stay.entry, stay.exit, i)
    <3> HIDE DEF s, stay, zone
    <3> QED
      BY <1>1, <1>2, <1>3, WeeksAreCuts
  <2> QED
    BY <2>1
<1>5. Rising(s, e)
  <2>1. Rising(s, stay.entry)
    <3> HIDE DEF stay, zone
    <3> QED
      BY <1>1, <1>2, WeeksRise
  <2> QED
    BY <2>1
<1>6. PaysMore(pay, pay, s, e, e, x, x)
  <2>1. Longer(stay, stay, zone) /\ Rising(s, stay.entry)
    BY <1>2, <1>5 DEF Longer
  <2>2. PaysMore(pay, pay, s, stay.entry, stay.entry, stay.exit, stay.exit)
    <3> HIDE DEF stay, zone, s, ds
    <3> QED
      BY <1>1, <1>2, <2>1, WeekTermsGrow
  <2> QED
    BY <2>2
<1> HIDE DEF cut, s, pay, l
<1>7. ASSUME NEW i \in 0 .. l
      PROVE  /\ WeekTermOf(c, k)[i] = WeekCeiling(k, ds, stay, zone, c.rate, cut[i][1], cut[i][2])
             /\ WeekTermOf(c, k)[i] \in Nat
  <2>1. i \in Nat /\ i \in FirstOf(s, e) .. LastOf(s, x)
    BY <1>4 DEF l
  <2>2. CutAt(s, e, x, i) \in Int \X Int
    <3>1. Rising(s, stay.entry) /\ i \in FirstOf(s, stay.entry) .. LastOf(s, stay.exit)
      BY <1>5, <2>1
    <3>2. CutAt(s, stay.entry, stay.exit, i) \in Int \X Int
      <4> HIDE DEF stay, zone
      <4> QED
        BY <1>2, <3>1, CutIsPart
    <3> QED
      BY <3>2
  <2>3. WeekTermOf(c, k)[i] = pay[CutAt(s, e, x, i)]
    BY <2>1 DEF WeekTermOf, CutPays, pay, s
  <2>4. pay[CutAt(s, e, x, i)] \in Nat
    BY <1>6, <2>1 DEF PaysMore
  <2>5. cut[i] = CutAt(s, e, x, i)
    BY <1>4
  <2>6. pay[cut[i]] = WeekCeiling(k, ds, stay, zone, c.rate, cut[i][1], cut[i][2])
    BY <2>2, <2>5 DEF pay, WeekPay
  <2> QED
    BY <2>3, <2>4, <2>5, <2>6
<1>8. WeekSum(k, ds, stay, zone, c.rate) = SumFunctionOnSet(WeekTermOf(c, k), 0 .. l)
  BY <1>4 DEF WeekSum, WeekTermOf, CutSum, s, l
<1> QED
  BY <1>4, <1>7, <1>8 DEF LastWeek, l, s, cut

(* The weekly max's ceiling is what the stay's weeks are held to, added up.  *)
LEMMA WeeklyIs ==
  ASSUME NEW c, Sound(c), NEW k \in c.caps, k.type = "weekly_max"
  PROVE  CeilingOf(c, k) = WeekSum(k, Dailies(c), c.stay, c.zone, c.rate)
<1> DEFINE cut == WeeksOf(k, c.stay, c.zone)
           f(i) == WeekCeiling(k, Dailies(c), c.stay, c.zone, c.rate, cut[i][1], cut[i][2])
           g == WeekTermOf(c, k)
           S == DOMAIN cut
           C(it) == it = [s \in SUBSET S |-> IF s = {} THEN 0
                            ELSE LET x == CHOOSE y \in s : TRUE IN f(x) + it[s \ {x}]]
<1>1. CeilingOf(c, k) = (CHOOSE it : C(it))[S]
  BY DEF CeilingOf, WeeklyCeiling, MapThenSumSet, MapThenFoldSet
<1>2. /\ LastWeek(c, k) \in Nat /\ S = 0 .. LastWeek(c, k)
      /\ \A i \in S : g[i] = f(i)
      /\ WeekSum(k, Dailies(c), c.stay, c.zone, c.rate) = SumFunctionOnSet(g, S)
  BY WeekTermsAre
<1> HIDE DEF f, g, S
<1>3. ASSUME NEW it PROVE C(it) <=> Summed(g, S, it)
  <2>1. \A s \in SUBSET S : s # {} => (CHOOSE y \in s : TRUE) \in S
    OBVIOUS
  <2>2. \A x \in S : f(x) = g[x]
    BY <1>2
  <2>3. C(it) <=> it = [s \in SUBSET S |-> IF s = {} THEN 0
                          ELSE LET x == CHOOSE y \in s : TRUE IN f(x) + it[s \ {x}]]
    OBVIOUS
  <2> HIDE DEF C
  <2> QED
    BY <2>1, <2>2, <2>3 DEF Summed, SumStep
<1> HIDE DEF C
<1>4. IsFiniteSet(S)
  <2>1. 0 \in Int /\ LastWeek(c, k) \in Int
    BY <1>2
  <2> QED
    BY <1>2, <2>1, FS_Interval
<1>5. \E it : Summed(g, S, it)
  BY <1>4, SumExists
<1>6. C(CHOOSE jt : C(jt))
  BY <1>3, <1>5, Zenon
<1>7. Summed(g, S, CHOOSE jt : C(jt))
  BY <1>3, <1>6, Zenon
<1>8. SumFunctionOnSet(g, S) = (CHOOSE jt : C(jt))[S]
  BY <1>7, <1>4, SumIsWorkedOut
<1> QED
  BY <1>1, <1>2, <1>8

(* The same stage, a car that stays longer: no cap holds it to less.         *)
Later(c, d) ==
  /\ Sound(c) /\ Sound(d)
  /\ d.zone = c.zone /\ d.rate = c.rate /\ d.caps = c.caps
  /\ d.stay.entry = c.stay.entry /\ c.stay.exit <= d.stay.exit

(* No cap allows less when the stay is longer.                               *)
LEMMA CeilingGrows ==
  ASSUME NEW c, NEW d, Later(c, d), NEW k \in c.caps
  PROVE  /\ CeilingOf(c, k) \in Nat
         /\ CeilingOf(d, k) \in Nat
         /\ CeilingOf(c, k) <= CeilingOf(d, k)
<1> DEFINE stay == c.stay
           other == d.stay
           zone == c.zone
           rate == c.rate
           ds == Dailies(c)
<1>1. /\ Sound(c) /\ Sound(d) /\ k \in d.caps
      /\ d.zone = zone /\ d.rate = rate /\ Dailies(d) = ds
      /\ Longer(stay, other, zone) /\ rate \in RateType \cup {Flat}
      /\ stay.entry \in Int /\ stay.exit \in Int /\ other.exit \in Int
      /\ other.entry = stay.entry /\ stay.entry <= stay.exit /\ stay.exit <= other.exit
      /\ Priced(stay, zone)
  BY DEF Later, Sound, Longer, Dailies, Priced, StayType
<1>2. k.most \in Nat /\ k.type \in {"daily_max", "weekly_max"} /\ ds \in SUBSET DailyCap
      /\ (k.type = "daily_max" => k.boundary \in DayBoundaries)
      /\ (k.type = "weekly_max" => Weekly(k))
  BY <1>1, CapKinds
<1>3. CASE k.type = "daily_max"
  <2>1. CeilingOf(c, k) = DaySum(k, stay, zone, rate, stay.entry, stay.exit)
    BY <1>1, <1>3, DailyIs
  <2>2. CeilingOf(d, k) = DaySum(k, other, zone, rate, stay.entry, other.exit)
    <3>1. CeilingOf(d, k) = DaySum(k, d.stay, d.zone, d.rate, d.stay.entry, d.stay.exit)
      BY <1>1, <1>3, DailyIs
    <3> QED
      BY <1>1, <3>1
  <2>3. PartOf(stay, stay.entry, stay.exit) /\ PartOf(other, stay.entry, other.exit)
    BY <1>1 DEF PartOf
  <2> HIDE DEF stay, other, zone, rate
  <2> DEFINE e == stay.entry
             x == stay.exit
             z == other.exit
  <2>4. x <= z /\ PartOf(stay, e, x) /\ PartOf(other, e, z)
    BY <1>1, <2>3
  <2> HIDE DEF e, x, z
  <2>5. /\ DaySum(k, stay, zone, rate, e, x) \in Nat
        /\ DaySum(k, other, zone, rate, e, z) \in Nat
        /\ DaySum(k, stay, zone, rate, e, x) <= DaySum(k, other, zone, rate, e, z)
    BY <1>1, <1>2, <1>3, <2>4, DaySumGrows
  <2> QED
    BY <2>1, <2>2, <2>5 DEF e, x, z
<1>4. CASE k.type = "weekly_max"
  <2> DEFINE s == WeekStarts(k, stay, zone)
             pay == WeekPay(k, ds, stay, zone, rate)
             more == WeekPay(k, ds, other, zone, rate)
             e == stay.entry
             x == stay.exit
             z == other.exit
  <2>1. CeilingOf(c, k) = CutSum(pay, s, e, x)
    BY <1>1, <1>4, WeeklyIs DEF WeekSum
  <2>2. CeilingOf(d, k) = CutSum(more, s, e, z)
    <3>1. CeilingOf(d, k) = WeekSum(k, Dailies(d), d.stay, d.zone, d.rate)
      BY <1>1, <1>4, WeeklyIs
    <3>2. WeekStarts(k, other, zone) = WeekStarts(k, stay, zone)
      BY <1>1, SameStarts
    <3> QED
      BY <1>1, <3>1, <3>2 DEF WeekSum
  <2>3. Rising(s, stay.entry)
    <3> HIDE DEF stay, zone
    <3> QED
      BY <1>1, <1>2, <1>4, WeeksRise
  <2>4. Longer(stay, stay, zone) /\ Longer(other, other, zone) /\ Rising(s, other.entry)
    BY <1>1, <2>3 DEF Longer
  <2> HIDE DEF s, stay, other, zone, rate, ds
  <2>5. PaysMore(pay, more, s, stay.entry, stay.entry, stay.exit, other.exit)
    BY <1>1, <1>2, <2>3, WeekTermsGrow
  <2>6. PaysMore(pay, pay, s, stay.entry, stay.entry, stay.exit, stay.exit)
    BY <1>1, <1>2, <2>3, <2>4, WeekTermsGrow
  <2>7. PaysMore(more, more, s, other.entry, other.entry, other.exit, other.exit)
    BY <1>1, <1>2, <2>4, WeekTermsGrow
  <2>8. PaysMore(pay, more, s, e, e, x, z) /\ PaysMore(pay, pay, s, e, e, x, x)
        /\ PaysMore(more, more, s, e, e, z, z)
    BY <1>1, <2>5, <2>6, <2>7
  <2> HIDE DEF pay, more, e, x, z
  <2>9. CutSum(pay, s, e, x) <= CutSum(more, s, e, z)
    BY <2>8, CutSumGrows
  <2>10. CutSum(pay, s, e, x) \in Nat /\ CutSum(more, s, e, z) \in Nat
    BY <2>8, CutSumIsNat
  <2> QED
    BY <2>1, <2>2, <2>9, <2>10
<1> QED
  BY <1>2, <1>3, <1>4

(* No ceiling is negative.                                                   *)
LEMMA CeilingIsNat ==
  ASSUME NEW c, Sound(c), NEW k \in c.caps
  PROVE  CeilingOf(c, k) \in Nat
<1>1. c.stay.exit <= c.stay.exit
  BY DEF Sound, Priced, StayType
<1>2. Later(c, c)
  BY <1>1 DEF Later
<1> QED
  BY <1>2, CeilingGrows

(* What is asked of the engine is a stage its caps can be asked about. *)
LEMMA CallsAreSound ==
  ASSUME NEW c \in CapCall
  PROVE  /\ Sound(c)
         /\ \A a, b \in c.caps : a.id = b.id => a = b
         /\ c.stay.exit - c.stay.entry <= MaxStayDays * DayTicks
         /\ c.rate # Flat => ChargedBy(c.rate, Duration(c.stay)) = c.base
<1>1. /\ c \in CallType /\ c.stay.entry <= c.stay.exit
      /\ Duration(c.stay) <= MaxStayDays * MinutesInADay
      /\ \A a, b \in c.caps : a.id = b.id => a = b
      /\ c.rate # Flat => ChargedBy(c.rate, Duration(c.stay)) = c.base
      /\ OrdinaryZone(c.zone)
  BY CapCallAssumption
<1>2. /\ c.stay \in StayType /\ c.zone \in ZoneType /\ c.rate \in RateType \cup {Flat}
      /\ c.base \in Nat /\ c.caps \in SUBSET (DailyCap \cup WeeklyCap)
      /\ c.stay.entry \in Int /\ c.stay.exit \in Int
  BY <1>1 DEF CallType, StayType
<1>3. c.stay.exit - c.stay.entry <= MaxStayDays * DayTicks
  BY <1>1, <1>2, MinutesCover, CapsAssumption DEF Duration
<1>4. MaxStayDays * DayTicks \in Int /\ (MaxStayDays + 1) * DayTicks = MaxStayDays * DayTicks + DayTicks
  BY NextMultiple, CapsAssumption
<1>5. c.stay.exit - c.stay.entry <= (MaxStayDays + 1) * DayTicks
  BY <1>2, <1>3, <1>4, DayTicksPositive
<1> QED
  BY <1>1, <1>2, <1>3, <1>5 DEF Sound, Priced

(* The lowest of what the base charged and what the caps asked so far allow.  *)
LeastAllowed(c, asked) == Min({c.base} \cup {CeilingOf(c, k) : k \in asked})

(* One more cap takes the lowest down to its ceiling, or leaves it.          *)
LEMMA OneMoreAsked ==
  ASSUME NEW c, Sound(c), NEW asked \in SUBSET c.caps, NEW k \in c.caps
  PROVE  /\ LeastAllowed(c, {}) = c.base
         /\ LeastAllowed(c, asked \cup {k}) = TakenDown(LeastAllowed(c, asked), CeilingOf(c, k))
         /\ LeastAllowed(c, asked) \in Nat
<1> DEFINE S == {c.base} \cup {CeilingOf(c, j) : j \in asked}
           v == CeilingOf(c, k)
<1>1. c.base \in Nat /\ S \in SUBSET Nat /\ S # {} /\ v \in Nat
  BY CeilingIsNat DEF Sound
<1>2. LeastAllowed(c, {}) = c.base
  <2>1. {c.base} \cup {CeilingOf(c, j) : j \in {}} = {c.base}
    OBVIOUS
  <2>2. \A n \in {c.base} : c.base <= n
    BY <1>1
  <2>3. Min({c.base}) = c.base
    BY <1>1, <2>2, MinIs
  <2> QED
    BY <2>1, <2>3 DEF LeastAllowed
<1>3. {c.base} \cup {CeilingOf(c, j) : j \in asked \cup {k}} = S \cup {v}
  OBVIOUS
<1>4. LeastAllowed(c, asked) = Min(S) /\ LeastAllowed(c, asked \cup {k}) = Min(S \cup {v})
  BY <1>3 DEF LeastAllowed
<1> HIDE DEF S, v
<1>5. Min(S) \in S /\ Min(S) \in Nat /\ \A n \in S : Min(S) <= n
  BY <1>1, NatMin
<1>6. TakenDown(Min(S), v) = IF Min(S) <= v THEN Min(S) ELSE v
  BY <1>1, <1>5 DEF TakenDown
<1>7. CASE Min(S) <= v
  <2>1. Min(S) \in S \cup {v} /\ (\A n \in S \cup {v} : Min(S) <= n) /\ S \cup {v} \subseteq Int
    BY <1>1, <1>5, <1>7
  <2>2. Min(S \cup {v}) = Min(S)
    BY <2>1, MinIs
  <2> QED
    BY <1>2, <1>4, <1>5, <1>6, <1>7, <2>2 DEF v
<1>8. CASE ~(Min(S) <= v)
  <2>1. v \in S \cup {v} /\ S \cup {v} \subseteq Int
    BY <1>1
  <2>2. \A n \in S \cup {v} : v <= n
    BY <1>1, <1>5, <1>8
  <2>3. Min(S \cup {v}) = v
    BY <2>1, <2>2, MinIs
  <2> QED
    BY <1>2, <1>4, <1>5, <1>6, <1>8, <2>3 DEF v
<1> QED
  BY <1>7, <1>8

(* How far the weekly max being asked has come. *)
TallyOf(c, k, n) == SumFunctionOnSet(WeekTermOf(c, k), 0 .. n - 1)

Tallying(c, k) ==
  /\ IsNext(k) /\ k.type = "weekly_max"
  /\ \E n \in Nat : n <= LastWeek(c, k) + 1 /\ weeks = [count |-> n, total |-> TallyOf(c, k, n)]

(* The inductive invariant: the total is the lowest of what has been asked,  *)
(* and a tally that is open is the next cap's, up to the week it has come to. *)
StageInv ==
  /\ call \in CapCall
  /\ pending \in SUBSET call.caps
  /\ running = LeastAllowed(call, call.caps \ pending)
  /\ weeks = NoWeeks \/ \E k \in pending : Tallying(call, k)

(* No cap has been asked.                                                    *)
LEMMA StageStarts == StageInit => StageInv
<1> SUFFICES ASSUME StageInit PROVE StageInv
  OBVIOUS
<1>1. call \in CapCall /\ pending = call.caps /\ running = call.base /\ weeks = NoWeeks
  BY DEF StageInit
<1>2. Sound(call)
  BY <1>1, CallsAreSound
<1>3. call.caps \ pending = {}
  BY <1>1
<1>4. LeastAllowed(call, {}) = call.base
  <2>1. {call.base} \cup {CeilingOf(call, j) : j \in {}} = {call.base}
    OBVIOUS
  <2>2. \A n \in {call.base} : call.base <= n
    BY <1>2 DEF Sound
  <2>3. Min({call.base}) = call.base
    BY <1>2, <2>2, MinIs DEF Sound
  <2> QED
    BY <2>1, <2>3 DEF LeastAllowed
<1> QED
  BY <1>1, <1>3, <1>4 DEF StageInv

(* One cap is next.                                                          *)
LEMMA NextIsOne ==
  ASSUME StageInv, NEW a, NEW b, IsNext(a), IsNext(b)
  PROVE  a = b /\ a \in call.caps
<1>1. a \in pending /\ b \in pending /\ a.id <= b.id /\ b.id <= a.id
  BY DEF IsNext
<1>2. call \in CapCall /\ a \in call.caps /\ b \in call.caps
  BY <1>1 DEF StageInv
<1>3. Sound(call) /\ \A x, y \in call.caps : x.id = y.id => x = y
  BY <1>2, CallsAreSound
<1>4. a.id \in Nat /\ b.id \in Nat
  BY <1>2, <1>3, CapKinds
<1> QED
  BY <1>1, <1>2, <1>3, <1>4

(* A cap answers: its ceiling is one of those asked. *)
LEMMA AnswerHolds ==
  ASSUME StageInv, NEW cap, IsNext(cap), running' = TakenDown(running, CeilingOf(call, cap)),
         pending' = pending \ {cap}, call' = call, weeks' = NoWeeks
  PROVE  StageInv'
<1>1. call \in CapCall /\ pending \in SUBSET call.caps /\ cap \in pending /\ cap \in call.caps
      /\ running = LeastAllowed(call, call.caps \ pending)
  BY DEF StageInv, IsNext
<1>2. call.caps \ pending' = (call.caps \ pending) \cup {cap}
  BY <1>1
<1>3. Sound(call) /\ call.caps \ pending \in SUBSET call.caps
  BY <1>1, CallsAreSound
<1>4. running' = LeastAllowed(call, call.caps \ pending')
  BY <1>1, <1>2, <1>3, OneMoreAsked
<1> QED
  BY <1>1, <1>4 DEF StageInv

(* A day cap answers, a week is tallied, or a week cap answers.              *)
LEMMA StageHolds == StageInv /\ [StageNext]_stageVars => StageInv'
<1> SUFFICES ASSUME StageInv, [StageNext]_stageVars PROVE StageInv'
  OBVIOUS
<1>1. call \in CapCall /\ pending \in SUBSET call.caps
  BY DEF StageInv
<1>2. Sound(call)
  BY <1>1, CallsAreSound
<1>3. ASSUME NEW cap \in pending, ApplyDaily(cap) PROVE StageInv'
  <2>1. IsNext(cap) /\ cap.type = "daily_max" /\ call' = call /\ weeks' = weeks
        /\ pending' = pending \ {cap} /\ running' = TakenDown(running, CeilingOf(call, cap))
    BY <1>3 DEF ApplyDaily, CeilingOf
  <2>2. weeks = NoWeeks
    <3> SUFFICES ASSUME NEW k \in pending, Tallying(call, k) PROVE FALSE
      BY DEF StageInv
    <3>1. IsNext(k) /\ k.type = "weekly_max"
      BY DEF Tallying
    <3>2. k = cap
      BY <2>1, <3>1, NextIsOne
    <3> QED
      BY <2>1, <3>1, <3>2
  <2> QED
    BY <2>1, <2>2, AnswerHolds
<1>4. ASSUME NEW cap \in pending, IsNext(cap), cap.type = "weekly_max"
      PROVE  \E n \in Nat : n <= LastWeek(call, cap) + 1
                            /\ weeks = [count |-> n, total |-> TallyOf(call, cap, n)]
  <2>1. LastWeek(call, cap) \in Nat
    <3>1. cap \in call.caps
      BY <1>1, <1>4
    <3> QED
      BY <1>2, <1>4, <3>1, WeekTermsAre
  <2>2. CASE weeks = NoWeeks
    <3>1. 0 .. 0 - 1 = {}
      OBVIOUS
    <3>2. TallyOf(call, cap, 0) = 0
      BY <3>1, SumOfNothing DEF TallyOf
    <3>3. 0 \in Nat /\ 0 <= LastWeek(call, cap) + 1
      BY <2>1
    <3> QED
      BY <2>2, <3>2, <3>3 DEF NoWeeks
  <2>3. CASE \E k \in pending : Tallying(call, k)
    <3>1. PICK k \in pending : Tallying(call, k)
      BY <2>3
    <3>2. k = cap
      BY <1>4, <3>1, NextIsOne DEF Tallying
    <3> QED
      BY <3>1, <3>2 DEF Tallying
  <2> QED
    BY <2>2, <2>3 DEF StageInv
<1>5. ASSUME NEW cap \in pending, TallyWeek(cap) PROVE StageInv'
  <2> DEFINE cut == WeeksOf(cap, call.stay, call.zone)
             g == WeekTermOf(call, cap)
             l == LastWeek(call, cap)
  <2>1. /\ IsNext(cap) /\ cap.type = "weekly_max" /\ weeks.count \in DOMAIN cut
        /\ weeks' = [count |-> weeks.count + 1,
                     total |-> weeks.total
                       + WeekCeiling(cap, Dailies(call), call.stay, call.zone, call.rate,
                                     cut[weeks.count][1], cut[weeks.count][2])]
        /\ UNCHANGED <<call, pending, running>>
    BY <1>5 DEF TallyWeek
  <2>2. PICK n \in Nat : n <= l + 1 /\ weeks = [count |-> n, total |-> TallyOf(call, cap, n)]
    BY <1>4, <2>1
  <2>3. cap \in call.caps
    BY <1>1
  <2>4. /\ l \in Nat /\ DOMAIN cut = 0 .. l
        /\ \A i \in 0 .. l :
             /\ g[i] = WeekCeiling(cap, Dailies(call), call.stay, call.zone, call.rate,
                                   cut[i][1], cut[i][2])
             /\ g[i] \in Nat
    BY <1>2, <2>1, <2>3, WeekTermsAre
  <2> HIDE DEF cut, g, l
  <2>5. n \in 0 .. l /\ weeks.count = n /\ weeks.total = TallyOf(call, cap, n)
    BY <2>1, <2>2, <2>4
  <2>6. weeks' = [count |-> n + 1, total |-> TallyOf(call, cap, n) + g[n]]
    BY <2>1, <2>4, <2>5
  <2>7. TallyOf(call, cap, n + 1) = TallyOf(call, cap, n) + g[n]
    <3>1. 0 \in Int /\ n \in Int /\ 0 <= n /\ (\A i \in 0 .. n : g[i] \in Int) /\ (n + 1) - 1 = n
      BY <2>4, <2>5
    <3>2. SumFunctionOnSet(g, 0 .. n) = SumFunctionOnSet(g, 0 .. n - 1) + g[n]
      BY <3>1, SumNext
    <3> QED
      BY <3>1, <3>2 DEF TallyOf, g
  <2>8. n + 1 \in Nat /\ n + 1 <= l + 1
    BY <2>4, <2>5
  <2>9. Tallying(call, cap)'
    <3>1. weeks' = [count |-> n + 1, total |-> TallyOf(call, cap, n + 1)]
      BY <2>6, <2>7
    <3>2. IsNext(cap)' /\ call' = call
      BY <2>1 DEF IsNext
    <3>3. \E m \in Nat : m <= LastWeek(call, cap) + 1
                         /\ weeks' = [count |-> m, total |-> TallyOf(call, cap, m)]
      BY <2>8, <3>1 DEF l
    <3> QED
      BY <2>1, <3>2, <3>3 DEF Tallying
  <2>10. \E k \in pending' : Tallying(call, k)'
    BY <2>1, <2>9
  <2>11. call' \in CapCall /\ pending' \in SUBSET call'.caps
         /\ running' = LeastAllowed(call', call'.caps \ pending')
    BY <2>1 DEF StageInv
  <2> QED
    BY <2>10, <2>11 DEF StageInv
<1>6. ASSUME NEW cap \in pending, ApplyWeekly(cap) PROVE StageInv'
  <2> DEFINE cut == WeeksOf(cap, call.stay, call.zone)
             l == LastWeek(call, cap)
  <2>1. IsNext(cap) /\ cap.type = "weekly_max" /\ weeks.count \notin DOMAIN cut
        /\ call' = call /\ weeks' = NoWeeks /\ pending' = pending \ {cap}
        /\ running' = TakenDown(running, weeks.total)
    BY <1>6 DEF ApplyWeekly
  <2>2. PICK n \in Nat : n <= l + 1 /\ weeks = [count |-> n, total |-> TallyOf(call, cap, n)]
    BY <1>4, <2>1
  <2>3. cap \in call.caps
    BY <1>1
  <2>4. /\ l \in Nat /\ DOMAIN cut = 0 .. l
        /\ WeekSum(cap, Dailies(call), call.stay, call.zone, call.rate)
             = SumFunctionOnSet(WeekTermOf(call, cap), 0 .. l)
    BY <1>2, <2>1, <2>3, WeekTermsAre
  <2> HIDE DEF cut, l
  <2>5. n - 1 = l
    BY <2>1, <2>2, <2>4
  <2>6. weeks.total = CeilingOf(call, cap)
    <3>1. CeilingOf(call, cap) = WeekSum(cap, Dailies(call), call.stay, call.zone, call.rate)
      BY <1>2, <2>1, <2>3, WeeklyIs
    <3> QED
      BY <2>2, <2>4, <2>5, <3>1 DEF TallyOf
  <2> QED
    BY <2>1, <2>6, AnswerHolds
<1>7. ASSUME UNCHANGED stageVars PROVE StageInv'
  <2>1. call' = call /\ pending' = pending /\ running' = running /\ weeks' = weeks
    BY <1>7 DEF stageVars
  <2> QED
    BY <2>1 DEF StageInv, Tallying, IsNext
<1> QED
  BY <1>3, <1>5, <1>6, <1>7 DEF StageNext, StageStep

(* Whichever order the caps answer in, what is left to pay is the lowest of  *)
(* what the base charged and every cap's ceiling (F33).                     *)
THEOREM CapsCompose == StageSpec => []LowestCeilingStands
<1>1. StageInv => LowestCeilingStands
  <2> SUFFICES ASSUME StageInv, Done PROVE running = CappedFee(call)
    BY DEF LowestCeilingStands
  <2>1. call.caps \ pending = call.caps
    BY DEF Done
  <2> QED
    BY <2>1 DEF StageInv, LeastAllowed, CappedFee
<1> QED
  BY <1>1, StageStarts, StageHolds, PTL DEF StageSpec

(* The same stage for a car that leaves a little later is a stage the caps   *)
(* can be asked about, and its base is no less.                             *)
LEMMA LeavesLater ==
  ASSUME NEW c \in CapCall, NEW more \in 1 .. MinuteTicks,
         NEW d, d = LeavingAt(c, c.stay.exit + more)
  PROVE  Later(c, d) /\ c.base <= d.base
<1>1. /\ Sound(c) /\ c.stay.exit - c.stay.entry <= MaxStayDays * DayTicks
      /\ c.rate # Flat => ChargedBy(c.rate, Duration(c.stay)) = c.base
      /\ c \in CallType
  BY CallsAreSound, CapCallAssumption
<1> DEFINE e == c.stay.entry
           x == c.stay.exit
           y == x + more
           other == [c.stay EXCEPT !.exit = y]
           base == IF c.rate = Flat THEN c.base ELSE ChargedBy(c.rate, Duration(other))
<1>2. e \in Int /\ x \in Int /\ e <= x /\ c.stay \in StayType /\ c.zone \in ZoneType
      /\ OrdinaryZone(c.zone) /\ c.base \in Nat
      /\ c.rate \in RateType \cup {Flat} /\ c.caps \in SUBSET (DailyCap \cup WeeklyCap)
  BY <1>1 DEF Sound, Priced, StayType
<1>3. y \in Int /\ x <= y /\ more <= MinuteTicks /\ more \in Nat /\ MinuteTicks \in Nat
  BY <1>2, ClockAssumption
<1>4. other \in StayType /\ other.entry = e /\ other.exit = y
  BY <1>2, <1>3 DEF StayType
<1>5. d.stay = other /\ d.zone = c.zone /\ d.rate = c.rate /\ d.caps = c.caps /\ d.base = base
  BY <1>1 DEF LeavingAt, CallType
<1>6. y - e <= (MaxStayDays + 1) * DayTicks
  <2>1. MaxStayDays * DayTicks \in Int /\ (MaxStayDays + 1) * DayTicks = MaxStayDays * DayTicks + DayTicks
    BY NextMultiple, CapsAssumption
  <2>2. MinuteTicks <= DayTicks
    <3>1. \A m \in Nat \ {0}, n \in Nat \ {0} : m <= m * n /\ m <= n * m
      BY SMT
    <3> QED
      BY <3>1, ClockAssumption DEF DayTicks
  <2> DEFINE a == MaxStayDays * DayTicks
             b == (MaxStayDays + 1) * DayTicks
  <2>3. a \in Int /\ b = a + DayTicks /\ x - e <= a /\ DayTicks \in Int
    BY <1>1, <2>1, DayTicksPositive
  <2> HIDE DEF a, b
  <2>4. y - e <= b
    BY <1>2, <1>3, <2>2, <2>3
  <2> QED
    BY <2>4 DEF b
<1>7. base \in Nat /\ c.base <= base
  <2>1. CASE c.rate = Flat
    BY <1>2, <2>1
  <2>2. CASE c.rate # Flat
    <3>1. c.rate \in RateType /\ base = ChargedBy(c.rate, MinutesUntil(e, y))
          /\ c.base = ChargedBy(c.rate, MinutesUntil(e, x))
      BY <1>1, <1>2, <1>4, <2>2 DEF Duration
    <3>2. ChargedBy(c.rate, MinutesUntil(c.stay.entry, x)) \in Nat
          /\ ChargedBy(c.rate, MinutesUntil(c.stay.entry, y)) \in Nat
          /\ ChargedBy(c.rate, MinutesUntil(c.stay.entry, x))
               <= ChargedBy(c.rate, MinutesUntil(c.stay.entry, y))
      <4> HIDE DEF x, y
      <4> QED
        BY <1>2, <1>3, <3>1, ChargesByInstant
    <3> QED
      BY <3>1, <3>2
  <2> QED
    BY <2>1, <2>2
<1> HIDE DEF other, base, y
<1>8. e <= y
  BY <1>2, <1>3
<1>9. Sound(d)
  <2>1. Priced(d.stay, d.zone)
    BY <1>2, <1>4, <1>5, <1>6, <1>8 DEF Priced
  <2> QED
    BY <1>2, <1>5, <1>7, <2>1 DEF Sound
<1> QED
  BY <1>1, <1>3, <1>4, <1>5, <1>7, <1>9 DEF Later

(* The lowest of all of them is no less, then.                               *)
LEMMA CappedFeeGrows ==
  ASSUME NEW c, NEW d, Later(c, d), c.base <= d.base
  PROVE  CappedFee(c) <= CappedFee(d)
<1> DEFINE S == {c.base} \cup {CeilingOf(c, k) : k \in c.caps}
           T == {d.base} \cup {CeilingOf(d, k) : k \in d.caps}
<1>1. Sound(c) /\ Sound(d) /\ d.caps = c.caps
  BY DEF Later
<1>2. S \in SUBSET Nat /\ S # {} /\ T \in SUBSET Nat /\ T # {}
  BY <1>1, CeilingIsNat DEF Sound
<1>3. ASSUME NEW t \in T PROVE \E u \in S : u <= t
  <2>1. CASE t = d.base
    BY <2>1
  <2>2. CASE \E k \in d.caps : t = CeilingOf(d, k)
    <3>1. PICK k \in d.caps : t = CeilingOf(d, k)
      BY <2>2
    <3>2. CeilingOf(c, k) <= t /\ CeilingOf(c, k) \in S
      BY <1>1, <3>1, CeilingGrows
    <3> QED
      BY <3>2
  <2> QED
    BY <2>1, <2>2
<1> HIDE DEF S, T
<1>4. Min(S) <= Min(T)
  BY <1>2, <1>3, MinGrows
<1> QED
  BY <1>4 DEF CappedFee, S, T

(* A car that stays a minute longer, or any part of one, is never charged    *)
(* less once every cap has answered.                                        *)
THEOREM MinuteNeverSaves == StageSpec => []LongerNeverCheaper
<1>1. StageInv => LongerNeverCheaper
  <2> SUFFICES ASSUME StageInv, Done, NEW more \in 1 .. MinuteTicks
               PROVE  running <= CappedFee(LeavingAt(call, call.stay.exit + more))
    BY DEF LongerNeverCheaper
  <2>1. call \in CapCall /\ running = CappedFee(call)
    <3>1. call.caps \ pending = call.caps
      BY DEF Done
    <3> QED
      BY <3>1 DEF StageInv, LeastAllowed, CappedFee
  <2> DEFINE d == LeavingAt(call, call.stay.exit + more)
  <2>2. d = LeavingAt(call, call.stay.exit + more)
    OBVIOUS
  <2> HIDE DEF d
  <2>3. Later(call, d) /\ call.base <= d.base
    BY <2>1, <2>2, LeavesLater
  <2>4. CappedFee(call) <= CappedFee(d)
    BY <2>3, CappedFeeGrows
  <2> QED
    BY <2>1, <2>4 DEF d
<1> QED
  BY <1>1, StageStarts, StageHolds, PTL DEF StageSpec

(* A daily cap whose days start where a weekly max's weeks do holds the stay *)
(* to no less, since each week is held to what its days pay.                *)
LEMMA NestedWeeks ==
  ASSUME NEW c, Sound(c), NEW w \in c.caps, w.type = "weekly_max",
         NEW d \in Dailies(c), Nests(d, w)
  PROVE  CeilingOf(c, w) <= CeilingOf(c, d)
<1> DEFINE stay == c.stay
           zone == c.zone
           rate == c.rate
           ds == Dailies(c)
           e == stay.entry
           x == stay.exit
           v == WeekStarts(w, stay, zone)
           s == DayStarts(d, stay, zone)
           pay == DayPay(d.most, stay, rate)
           g == WeekTermOf(c, w)
           l == LastWeek(c, w)
           m(i) == FirstDay(w, stay, zone, i)
           E(i) == AtMost(v[i + 1], x)
           D(a, b) == DaySum(d, stay, zone, rate, a, b)
           G(n) == SumFunctionOnSet(g, 0 .. n)
<1>1. /\ Priced(stay, zone) /\ rate \in RateType \cup {Flat} /\ stay \in StayType
      /\ e \in Int /\ x \in Int /\ e <= x /\ e <= e
  BY DEF Sound, Priced, StayType
<1>2. /\ d \in c.caps /\ d.type = "daily_max" /\ ds \in SUBSET DailyCap
      /\ d.boundary \in DayBoundaries /\ d.most \in Nat /\ Weekly(w) /\ w.most \in Nat
  BY CapKinds DEF Dailies
<1>3. d.boundary = TwinBoundary(w)
  BY <1>2 DEF Nests, TwinBoundary, DayBoundaries
<1>4. Rising(s, e) /\ \A n \in Nat : s[n] = DayStart(d, stay, zone, n)
  <2>1. Rising(s, stay.entry) /\ \A n \in Nat : s[n] = DayStart(d, stay, zone, n)
    <3> HIDE DEF stay, zone
    <3> QED
      BY <1>1, <1>2, DaysRise
  <2> QED
    BY <2>1
<1>5. Rising(v, e) /\ \A n \in Nat : v[n] = WeekStart(w, stay, zone, n)
  <2>1. Rising(v, stay.entry) /\ \A n \in Nat : v[n] = WeekStart(w, stay, zone, n)
    <3> HIDE DEF stay, zone
    <3> QED
      BY <1>1, <1>2, WeeksRise
  <2> QED
    BY <2>1
<1>6. ASSUME NEW n \in Nat PROVE m(n) \in Nat /\ v[n] = s[m(n)]
  <2>1. m(n) \in Nat
    <3> HIDE DEF stay, zone
    <3> QED
      BY <1>1, <1>2, FirstDays
  <2>2. WeekStart(w, stay, zone, n) = DayStart(d, stay, zone, m(n))
    <3> HIDE DEF stay, zone
    <3> QED
      BY <1>1, <1>2, <1>3, WeeksAreDays
  <2> HIDE DEF m, s, v
  <2> QED
    BY <1>4, <1>5, <2>1, <2>2
<1>7. /\ CeilingOf(c, w) = G(l) /\ l \in Nat
      /\ \A i \in 0 .. l : g[i] \in Nat
  <2>1. /\ l \in Nat /\ \A i \in 0 .. l : g[i] \in Nat
        /\ WeekSum(w, ds, stay, zone, rate) = SumFunctionOnSet(g, 0 .. l)
    BY WeekTermsAre
  <2>2. CeilingOf(c, w) = WeekSum(w, ds, stay, zone, rate)
    BY WeeklyIs
  <2> QED
    BY <2>1, <2>2
<1>8. CeilingOf(c, d) = D(e, x)
  BY <1>2, DailyIs
<1>9. /\ v[0] = e /\ \A n \in Nat : v[n] \in Int
      /\ \A i, j \in Nat : i < j => v[i] < v[j]
  <2> HIDE DEF v, e
  <2> QED
    BY <1>5, RisesAll DEF Rising
<1>10. l = LastOf(v, x) /\ x <= v[l + 1] /\ (l = 0 \/ v[l] < x) /\ FirstOf(v, e) = 0
  <2>1. l = LastOf(v, x)
    BY DEF LastWeek
  <2>2. v[0] < v[1] /\ 0 + 1 = 1
    BY <1>9
  <2> HIDE DEF v, e, x, l
  <2>3. IsFirst(v, e, 0)
    BY <1>1, <1>9, <2>2 DEF IsFirst
  <2> QED
    BY <1>1, <1>5, <2>1, <2>3, FirstIs, LastIs DEF IsEnd
<1>11. E(l) = x
  <2> HIDE DEF v, x, l
  <2> QED
    BY <1>1, <1>7, <1>9, <1>10 DEF AtMost
<1>12. ASSUME NEW i \in 0 .. l
       PROVE  /\ i \in Nat /\ g[i] \in Nat /\ g[i] <= D(v[i], E(i)) /\ D(v[i], E(i)) \in Nat
              /\ CutAt(v, e, x, i) = <<v[i], E(i)>> /\ PartOf(stay, v[i], E(i))
  <2>1. i \in Nat /\ i \in FirstOf(v, e) .. LastOf(v, x) /\ g[i] \in Nat
    <3> HIDE DEF v, e, x, l, g
    <3> QED
      BY <1>7, <1>10
  <2>2. e <= v[i]
    <3> HIDE DEF v, e
    <3>1. 0 < i => v[0] < v[i]
      BY <1>9, <2>1
    <3> QED
      BY <1>1, <1>9, <2>1, <3>1
  <2>3. CutAt(v, e, x, i) = <<v[i], E(i)>>
    <3>1. AtLeast(v[i], e) = v[i]
      <4> HIDE DEF v, e
      <4> QED
        BY <1>1, <1>9, <2>1, <2>2 DEF AtLeast
    <3> QED
      BY <3>1 DEF CutAt
  <2> DEFINE a == v[i]
             b == E(i)
  <2>4. <<a, b>> \in Int \X Int /\ PartOf(stay, a, b)
    <3>1. CutAt(v, stay.entry, stay.exit, i) = <<a, b>>
      BY <2>3
    <3>2. i \in FirstOf(v, stay.entry) .. LastOf(v, stay.exit) /\ Rising(v, stay.entry)
      BY <1>5, <2>1
    <3> HIDE DEF a, b, v, stay, zone
    <3> QED
      BY <1>1, <3>1, <3>2, CutIsPart
  <2>5. g[i] = WeekCeiling(w, ds, stay, zone, rate, a, b)
    <3>1. g[i] = WeekPay(w, ds, stay, zone, rate)[CutAt(v, e, x, i)]
      BY <2>1 DEF WeekTermOf, CutPays
    <3>2. CutAt(v, e, x, i) = <<a, b>>
      BY <2>3
    <3> HIDE DEF a, b, g, v, e, x
    <3> QED
      BY <2>4, <3>1, <3>2 DEF WeekPay
  <2> HIDE DEF a, b
  <2> DEFINE S == WeekTerms(w, ds, stay, zone, rate, a, b)
  <2>6. WeekCeiling(w, ds, stay, zone, rate, a, b) = Min(S) /\ S \in SUBSET Nat /\ w.most \in S
    <3> HIDE DEF stay, zone, rate, ds
    <3> QED
      BY <1>1, <1>2, <2>4, WeekCeilingIs
  <2>7. D(a, b) \in S
    BY DEF WeekTerms
  <2> HIDE DEF S, D, g
  <2>8. Min(S) <= D(a, b) /\ D(a, b) \in Nat
    <3>1. S # {}
      BY <2>6
    <3> QED
      BY <2>6, <2>7, <3>1, NatMin
  <2> QED
    BY <2>1, <2>3, <2>4, <2>5, <2>6, <2>8 DEF a, b
<1>13. ASSUME NEW n \in Nat, n + 1 <= l
       PROVE  /\ E(n) = v[n + 1] /\ E(n + 1) \in Int
              /\ D(e, E(n + 1)) = D(e, E(n)) + D(v[n + 1], E(n + 1))
  <2>1. n + 1 \in Nat /\ n + 1 \in 0 .. l /\ n + 2 \in Nat /\ (n + 1) + 1 = n + 2
    BY <1>7, <1>13
  <2>2. v[n + 1] < x /\ e < v[n + 1] /\ v[n + 1] < v[n + 2]
        /\ v[n + 1] \in Int /\ v[n + 2] \in Int
    <3> HIDE DEF v, e, x, l
    <3>1. n + 1 < l => v[n + 1] < v[l]
      BY <1>7, <1>9, <2>1
    <3>2. v[l] < x /\ v[l] \in Int
      BY <1>7, <1>9, <1>10, <1>13
    <3>3. v[0] < v[n + 1] /\ v[n + 1] < v[n + 2] /\ v[n + 1] \in Int /\ v[n + 2] \in Int
      BY <1>9, <2>1
    <3>4. n + 1 = l \/ n + 1 < l
      BY <1>7, <1>13
    <3>5. v[n + 1] < x
      <4>1. CASE n + 1 = l
        BY <3>2, <4>1
      <4>2. CASE n + 1 < l
        <5> DEFINE p == v[n + 1]
                   q == v[l]
        <5>1. p \in Int /\ q \in Int /\ p < q /\ q < x
          BY <3>1, <3>2, <3>3, <4>2
        <5> HIDE DEF p, q
        <5>2. p < x
          BY <1>1, <5>1
        <5> QED
          BY <5>2 DEF p
      <4> QED
        BY <3>4, <4>1, <4>2
    <3> QED
      BY <1>9, <3>3, <3>5
  <2>3. E(n) = v[n + 1]
    <3> HIDE DEF v, x
    <3> QED
      BY <1>1, <2>2 DEF AtMost
  <2> DEFINE b == E(n + 1)
             k == m(n + 1)
  <2>4. b \in Int /\ v[n + 1] < b
    <3>1. b = AtMost(v[n + 2], x)
      BY <2>1
    <3> HIDE DEF b, v, x
    <3> QED
      BY <1>1, <2>2, <3>1 DEF AtMost
  <2>5. k \in Nat /\ v[n + 1] = s[k]
    BY <1>6, <2>1
  <2> HIDE DEF b, k
  <2>6. PaysMore(pay, pay, s, e, e, b, b)
    <3>1. e <= b /\ b <= b /\ (e < b \/ e = e)
      <4> HIDE DEF e, v
      <4> QED
        BY <1>1, <2>2, <2>4
    <3> HIDE DEF s, e, stay, rate
    <3> QED
      BY <1>1, <1>2, <1>4, <2>4, <3>1, DayTermsGrow
  <2>7. Splits(pay, s, e, e, k, b)
    <3> HIDE DEF pay, s, e, v
    <3>1. \A i \in FirstOf(s, e) .. LastOf(s, b) : pay[CutAt(s, e, b, i)] \in Int
      BY <2>6 DEF PaysMore
    <3>2. e < s[k] /\ s[k] < b
      BY <2>2, <2>4, <2>5
    <3> QED
      BY <1>1, <1>4, <2>4, <2>5, <3>1, <3>2 DEF Splits
  <2>8. CutSum(pay, s, e, b) = CutSum(pay, s, e, s[k]) + CutSum(pay, s, s[k], b)
    <3> HIDE DEF pay, s, e
    <3> QED
      BY <2>7, CutSumSplits
  <2>9. D(e, b) = D(e, v[n + 1]) + D(v[n + 1], b)
    <3>1. \A p, q : D(p, q) = CutSum(pay, s, p, q)
      BY DEF DaySum
    <3> HIDE DEF D, pay, s, e, v
    <3> QED
      BY <2>5, <2>8, <3>1
  <2> QED
    BY <2>3, <2>4, <2>9 DEF b
<1>14. ASSUME NEW n \in Nat, n + 1 <= l PROVE G(n + 1) = G(n) + g[n + 1] /\ G(n) \in Int
  <2>1. /\ 0 <= n + 1 /\ n + 1 \in Int /\ n + 1 - 1 = n
        /\ \A i \in 0 .. n + 1 : g[i] \in Int
    BY <1>7, <1>14
  <2> DEFINE b == n + 1
  <2>2. b - 1 = n /\ 0 <= b /\ b \in Int /\ 0 \in Int /\ \A i \in 0 .. b : g[i] \in Int
    BY <2>1
  <2> HIDE DEF g, b
  <2>3. /\ SumFunctionOnSet(g, 0 .. b - 1) \in Int
        /\ SumFunctionOnSet(g, 0 .. b) = SumFunctionOnSet(g, 0 .. b - 1) + g[b]
    BY <2>2, SumNext
  <2>4. SumFunctionOnSet(g, 0 .. n) \in Int
        /\ SumFunctionOnSet(g, 0 .. b) = SumFunctionOnSet(g, 0 .. n) + g[b]
    BY <2>2, <2>3
  <2> QED
    BY <2>4 DEF b
<1> DEFINE T == {n \in Nat : n <= l => /\ G(n) \in Int /\ D(e, E(n)) \in Int
                                       /\ G(n) <= D(e, E(n))}
<1>15. 0 \in T
  <2>1. 0 \in 0 .. l
    BY <1>7
  <2>2. g[0] \in Nat /\ g[0] <= D(v[0], E(0)) /\ D(v[0], E(0)) \in Nat
    BY <1>12, <2>1
  <2>3. G(0) = g[0]
    <3>1. \A i \in 0 .. 0 : g[i] \in Int
      BY <2>2
    <3> HIDE DEF g
    <3>2. 0 .. 0 - 1 = {} /\ 0 \in Int /\ 0 <= 0
      OBVIOUS
    <3>3. SumFunctionOnSet(g, 0 .. 0) = SumFunctionOnSet(g, 0 .. 0 - 1) + g[0]
      BY <3>1, <3>2, SumNext
    <3>4. SumFunctionOnSet(g, {}) = 0
      BY SumOfNothing
    <3> QED
      BY <2>2, <3>2, <3>3, <3>4
  <2> HIDE DEF G, D, E, g, v, e, l
  <2> QED
    BY <1>9, <2>2, <2>3
<1>16. ASSUME NEW n \in T PROVE n + 1 \in T
  <2> SUFFICES ASSUME n + 1 <= l
               PROVE  G(n + 1) \in Int /\ D(e, E(n + 1)) \in Int /\ G(n + 1) <= D(e, E(n + 1))
    OBVIOUS
  <2>1. n \in Nat /\ n <= l /\ n + 1 \in 0 .. l
    BY <1>7
  <2>2. G(n) \in Int /\ D(e, E(n)) \in Int /\ G(n) <= D(e, E(n))
    BY <2>1
  <2>3. G(n + 1) = G(n) + g[n + 1]
    BY <1>14, <2>1
  <2>4. D(e, E(n + 1)) = D(e, E(n)) + D(v[n + 1], E(n + 1))
    BY <1>13, <2>1
  <2>5. g[n + 1] \in Nat /\ g[n + 1] <= D(v[n + 1], E(n + 1)) /\ D(v[n + 1], E(n + 1)) \in Nat
    BY <1>12, <2>1
  <2> HIDE DEF G, D, E, g, v, e, l, T
  <2> QED
    BY <2>2, <2>3, <2>4, <2>5
<1>17. T = Nat
  <2>1. T \in SUBSET Nat
    OBVIOUS
  <2> HIDE DEF T
  <2> QED
    BY <1>15, <1>16, <2>1, Induction
<1>18. G(l) <= D(e, E(l))
  <2>1. l \in T /\ l <= l
    BY <1>7, <1>17
  <2> HIDE DEF G, D, E, l, e
  <2> QED
    BY <2>1
<1> HIDE DEF G, D, E, l, e, x
<1> QED
  BY <1>7, <1>8, <1>11, <1>18

(* Terms no greater than the steps of a running count add up to no more.     *)
LEMMA SumOfSteps ==
  ASSUME NEW g, NEW reached, NEW l \in Nat,
         \A i \in 0 .. l : g[i] \in Nat /\ reached[i] \in Nat,
         g[0] <= reached[0],
         \A i \in 0 .. l : i # 0 => g[i] <= reached[i] - reached[i - 1]
  PROVE  SumFunctionOnSet(g, 0 .. l) <= reached[l]
<1> DEFINE G(n) == SumFunctionOnSet(g, 0 .. n)
           T == {n \in Nat : n <= l => G(n) \in Int /\ G(n) <= reached[n]}
<1>1. 0 \in T
  <2>1. /\ 0 .. 0 - 1 = {} /\ 0 \in 0 .. l /\ 0 \in Int /\ 0 <= 0
        /\ \A i \in 0 .. 0 : g[i] \in Int
    OBVIOUS
  <2>2. G(0) = g[0] /\ g[0] \in Nat
    <3>1. SumFunctionOnSet(g, 0 .. 0) = SumFunctionOnSet(g, 0 .. 0 - 1) + g[0]
      BY ONLY <2>1, SumNext
    <3>2. SumFunctionOnSet(g, {}) = 0
      BY SumOfNothing
    <3> QED
      BY <2>1, <3>1, <3>2
  <2> HIDE DEF G
  <2> QED
    BY <2>2
<1>2. ASSUME NEW n \in T PROVE n + 1 \in T
  <2> SUFFICES ASSUME n + 1 <= l PROVE G(n + 1) \in Int /\ G(n + 1) <= reached[n + 1]
    OBVIOUS
  <2>1. /\ n \in Nat /\ n <= l /\ n + 1 \in 0 .. l /\ n \in 0 .. l
        /\ n + 1 # 0 /\ (n + 1) - 1 = n
    OBVIOUS
  <2>2. G(n) \in Int /\ G(n) <= reached[n]
    BY <2>1
  <2>3. G(n + 1) = G(n) + g[n + 1]
    <3>1. /\ 0 \in Int /\ n + 1 \in Int /\ 0 <= n + 1
          /\ \A i \in 0 .. n + 1 : g[i] \in Int
      BY <2>1
    <3>2. SumFunctionOnSet(g, 0 .. n + 1) = SumFunctionOnSet(g, 0 .. (n + 1) - 1) + g[n + 1]
      BY <3>1, SumNext
    <3> QED
      BY <2>1, <3>2
  <2>4. /\ g[n + 1] <= reached[n + 1] - reached[n] /\ g[n + 1] \in Nat
        /\ reached[n + 1] \in Nat /\ reached[n] \in Nat
    BY <2>1
  <2> HIDE DEF G
  <2> QED
    BY <2>2, <2>3, <2>4
<1>3. T = Nat
  <2>1. T \in SUBSET Nat
    OBVIOUS
  <2> HIDE DEF T
  <2> QED
    BY <1>1, <1>2, <2>1, Induction
<1> HIDE DEF G
<1> QED
  BY <1>3 DEF G

(* The weeks of a rate's stay come to no more than the base charged: what    *)
(* the time in each was charged adds up to it, and none is held to more.     *)
LEMMA WeeksWithinTheBase ==
  ASSUME NEW c, Sound(c), NEW w \in c.caps, w.type = "weekly_max", c.rate # Flat
  PROVE  CeilingOf(c, w) <= ChargedBy(c.rate, Duration(c.stay))
<1> DEFINE stay == c.stay
           zone == c.zone
           rate == c.rate
           e == stay.entry
           x == stay.exit
           cut == WeeksOf(w, stay, zone)
           l == LastWeek(c, w)
           g == WeekTermOf(c, w)
           owed(t) == ChargedBy(rate, MinutesUntil(e, t))
           reached == [i \in 0 .. l |-> owed(cut[i][2])]
<1>1. /\ Priced(stay, zone) /\ rate \in RateType /\ rate \in RateType \cup {Flat}
      /\ stay \in StayType /\ e \in Int /\ x \in Int /\ e <= x
  BY DEF Sound, Priced, StayType
<1>2. Weekly(w) /\ w.most \in Nat /\ Dailies(c) \in SUBSET DailyCap
  BY CapKinds
<1>3. /\ l \in Nat /\ DOMAIN cut = 0 .. l
      /\ \A i \in 0 .. l :
           /\ g[i] = WeekCeiling(w, Dailies(c), stay, zone, rate, cut[i][1], cut[i][2])
           /\ g[i] \in Nat
      /\ CeilingOf(c, w) = SumFunctionOnSet(g, 0 .. l)
  BY WeekTermsAre, WeeklyIs
<1>4. \A i \in 0 .. l : PartOf(stay, cut[i][1], cut[i][2])
  <2>1. \A s : s = WeekStarts(w, stay, zone) =>
          /\ Rising(s, stay.entry) /\ FirstOf(s, stay.entry) = 0
          /\ \A i \in 0 .. LastOf(s, stay.exit) :
               WeeksOf(w, stay, zone)[i] = CutAt(s, stay.entry, stay.exit, i)
    <3> HIDE DEF stay, zone
    <3> QED
      BY <1>1, <1>2, WeeksAreCuts, WeeksRise
  <2>2. PICK s : s = WeekStarts(w, stay, zone)
    OBVIOUS
  <2>3. l = LastOf(s, stay.exit)
    BY <2>2 DEF LastWeek
  <2> SUFFICES ASSUME NEW i \in 0 .. l PROVE PartOf(stay, cut[i][1], cut[i][2])
    OBVIOUS
  <2>4. Rising(s, stay.entry) /\ i \in FirstOf(s, stay.entry) .. LastOf(s, stay.exit)
    BY <2>1, <2>2, <2>3
  <2>5. cut[i] = CutAt(s, stay.entry, stay.exit, i)
    BY <2>1, <2>2, <2>3
  <2>6. PartOf(stay, CutAt(s, stay.entry, stay.exit, i)[1], CutAt(s, stay.entry, stay.exit, i)[2])
    <3> HIDE DEF stay, zone
    <3> QED
      BY <1>1, <2>4, CutIsPart
  <2> HIDE DEF stay, cut
  <2> QED
    BY <2>5, <2>6
<1>5. /\ cut[0][1] = e /\ cut[l][2] = x
      /\ \A i \in 0 .. l : i # 0 => cut[i][1] = cut[i - 1][2] /\ cut[i][1] > e
  <2> DEFINE start(i) == WeekStart(w, stay, zone, i)
             last == IF stay.exit = stay.entry THEN 0
                     ELSE Min({i \in 0 .. MaxStayDays + 2 : start(i + 1) >= stay.exit})
  <2>1. cut = [i \in 0 .. last |-> <<start(i), IF i = last THEN x ELSE start(i + 1)>>]
    BY DEF WeeksOf
  <2>2. 0 .. last = 0 .. l
    <3> HIDE DEF start, last
    <3>1. DOMAIN cut = 0 .. last
      BY <2>1
    <3> QED
      BY <1>3, <3>1
  <2>3. \A n \in Nat : start(n) \in Int /\ (n # 0 => start(n) > e)
    <3>1. /\ Rising(WeekStarts(w, stay, zone), e)
          /\ \A n \in Nat : WeekStarts(w, stay, zone)[n] = start(n)
      <4> HIDE DEF zone
      <4> QED
        BY <1>1, <1>2, WeeksRise
    <3>2. \A n \in Nat : /\ WeekStarts(w, stay, zone)[n] \in Int
                         /\ WeekStarts(w, stay, zone)[n] >= e + n
      BY <3>1, RisesAll
    <3> HIDE DEF start, e
    <3> QED
      BY <1>1, <3>1, <3>2
  <2>4. start(0) = e
    BY DEF WeekStart
  <2>5. last = l
    <3>1. last \in Int
      <4>1. CASE x = e
        BY <4>1
      <4>2. CASE x # e
        <5> DEFINE S == {i \in 0 .. MaxStayDays + 2 : start(i + 1) >= x}
        <5>1. S # {}
          <6>1. MaxStayDays + 2 \in 0 .. MaxStayDays + 2 /\ (MaxStayDays + 2) + 1 \in Nat
                /\ (MaxStayDays + 2) + 1 >= MaxStayDays + 3
            BY CapsAssumption
          <6>2. WeekStarts(w, stay, zone)[(MaxStayDays + 2) + 1] > x
                /\ WeekStarts(w, stay, zone)[(MaxStayDays + 2) + 1] = start((MaxStayDays + 2) + 1)
            <7> HIDE DEF zone
            <7> QED
              BY <1>1, <1>2, <6>1, WeeksRise
          <6>3. start((MaxStayDays + 2) + 1) >= x
            <7> HIDE DEF start, x
            <7> QED
              BY <1>1, <2>3, <6>1, <6>2
          <6> HIDE DEF start, x
          <6> QED
            BY <6>1, <6>3
        <5>2. S \in SUBSET Nat
          BY CapsAssumption
        <5>3. Min(S) \in Nat
          <6> HIDE DEF S
          <6> QED
            BY <5>1, <5>2, NatMin
        <5> QED
          BY <4>2, <5>3
      <4> QED
        BY <4>1, <4>2
    <3>2. 0 \in 0 .. last /\ l \in 0 .. last
      <4>1. l \in Nat
        BY <1>3
      <4> HIDE DEF last, l
      <4>2. 0 \in 0 .. l /\ l \in 0 .. l
        BY <4>1
      <4> QED
        BY <2>2, <4>2, Zenon
    <3> HIDE DEF last, l
    <3>3. last \in 0 .. l
      BY <2>2, <3>1, <3>2
    <3> QED
      BY <3>1, <3>2, <3>3
  <2> HIDE DEF start, last, l, x
  <2>6. \A i \in 0 .. l : cut[i] = <<start(i), IF i = l THEN x ELSE start(i + 1)>>
    BY <2>1, <2>5
  <2>7. ASSUME NEW i \in 0 .. l, i # 0
        PROVE  cut[i][1] = cut[i - 1][2] /\ cut[i][1] > e
    <3>1. i - 1 \in 0 .. l /\ i - 1 # l /\ (i - 1) + 1 = i /\ i \in Nat
      BY <1>3, <2>7
    <3> HIDE DEF cut, e
    <3>2. cut[i][1] = start(i) /\ cut[i - 1][2] = start(i)
      BY <2>6, <3>1
    <3> QED
      BY <2>3, <2>7, <3>1, <3>2
  <2>8. 0 \in 0 .. l /\ l \in 0 .. l
    BY <1>3
  <2> HIDE DEF cut, e
  <2> QED
    BY <2>4, <2>6, <2>7, <2>8
<1>6. \A i \in 0 .. l : /\ cut[i][1] \in Int /\ cut[i][2] \in Int
                        /\ cut[i][1] <= cut[i][2]
  BY <1>1, <1>4 DEF PartOf
<1>7. \A i \in 0 .. l : owed(cut[i][1]) \in Nat /\ owed(cut[i][2]) \in Nat
  <2> HIDE DEF cut
  <2> QED
    BY <1>1, <1>6, ChargesByInstant
<1>8. ASSUME NEW i \in 0 .. l
      PROVE  g[i] <= ChargeIn(stay, rate, cut[i][1], cut[i][2])
  <2> DEFINE S == WeekTerms(w, Dailies(c), stay, zone, rate, cut[i][1], cut[i][2])
  <2>1. /\ WeekCeiling(w, Dailies(c), stay, zone, rate, cut[i][1], cut[i][2]) = Min(S)
        /\ S \in SUBSET Nat /\ w.most \in S
    <3>1. PartOf(stay, cut[i][1], cut[i][2])
      BY <1>4
    <3> HIDE DEF stay, zone, rate, cut
    <3> QED
      BY <1>1, <1>2, <3>1, WeekCeilingIs
  <2>2. ChargeIn(stay, rate, cut[i][1], cut[i][2]) \in S
    BY DEF WeekTerms
  <2> HIDE DEF S, cut, stay, rate
  <2>3. Min(S) <= ChargeIn(stay, rate, cut[i][1], cut[i][2])
    BY <2>1, <2>2, NatMin
  <2> QED
    BY <1>3, <2>1, <2>3
<1>9. g[0] <= reached[0]
  <2>1. 0 \in 0 .. l
    BY <1>3
  <2>2. ChargeIn(stay, rate, cut[0][1], cut[0][2]) = owed(cut[0][2])
    <3>1. owed(cut[0][2]) \in Nat
      BY <1>7, <2>1
    <3> HIDE DEF cut
    <3> QED
      BY <1>5, <3>1 DEF ChargeIn
  <2>3. g[0] <= ChargeIn(stay, rate, cut[0][1], cut[0][2])
    BY <1>8, <2>1
  <2>4. reached[0] = owed(cut[0][2])
    BY <2>1
  <2> QED
    BY <2>2, <2>3, <2>4, Zenon
<1>10. ASSUME NEW i \in 0 .. l, i # 0
       PROVE  g[i] <= reached[i] - reached[i - 1]
  <2>1. i - 1 \in 0 .. l
    BY <1>3, <1>10
  <2>2. cut[i][1] = cut[i - 1][2] /\ cut[i][1] # e
    <3>1. cut[i][1] > e /\ cut[i][1] \in Int
      BY <1>5, <1>6, <1>10
    <3> HIDE DEF cut, e
    <3> QED
      BY <1>1, <1>5, <1>10, <3>1
  <2>3. ChargeIn(stay, rate, cut[i][1], cut[i][2]) = owed(cut[i][2]) - owed(cut[i - 1][2])
    BY <2>2, Zenon DEF ChargeIn
  <2>4. reached[i] = owed(cut[i][2]) /\ reached[i - 1] = owed(cut[i - 1][2])
    BY <2>1
  <2>5. g[i] <= ChargeIn(stay, rate, cut[i][1], cut[i][2])
    BY <1>8
  <2> QED
    BY <2>3, <2>4, <2>5, Zenon
<1>11. reached[l] = ChargedBy(rate, Duration(stay))
  <2>1. l \in 0 .. l
    BY <1>3
  <2> QED
    BY <1>5, <2>1 DEF Duration
<1>12. \A i \in 0 .. l : g[i] \in Nat /\ reached[i] \in Nat
  BY <1>3, <1>7
<1> HIDE DEF reached, g, l
<1>13. SumFunctionOnSet(g, 0 .. l) <= reached[l]
  BY <1>3, <1>9, <1>10, <1>12, SumOfSteps
<1> QED
  BY <1>3, <1>11, <1>13

(* With a base that is a rate, and where the days of every daily max that   *)
(* has answered nest in a weekly max's weeks, the weekly max finds the total *)
(* at or above its own ceiling.                                             *)
THEOREM NestedCapsNeedNoTurn == StageSpec => []NestedCapsCompose
<1>1. StageInv => NestedCapsCompose
  <2> SUFFICES ASSUME StageInv, NEW w \in pending, w.type = "weekly_max", call.rate # Flat,
                      \A k \in call.caps \ pending : k.type = "daily_max" /\ Nests(k, w)
               PROVE  CeilingOf(call, w) <= running
    BY DEF NestedCapsCompose
  <2>1. /\ Sound(call) /\ w \in call.caps
        /\ call.rate # Flat => ChargedBy(call.rate, Duration(call.stay)) = call.base
        /\ running = LeastAllowed(call, call.caps \ pending)
    BY CallsAreSound DEF StageInv
  <2> DEFINE S == {call.base} \cup {CeilingOf(call, k) : k \in call.caps \ pending}
  <2>2. CeilingOf(call, w) <= call.base
    BY <2>1, WeeksWithinTheBase
  <2>3. \A k \in call.caps \ pending : CeilingOf(call, w) <= CeilingOf(call, k)
    BY <2>1, NestedWeeks DEF Dailies
  <2>4. \A n \in S : CeilingOf(call, w) <= n
    BY <2>2, <2>3
  <2>5. S \in SUBSET Nat /\ S # {} /\ running = Min(S)
    BY <2>1, CeilingIsNat DEF Sound, LeastAllowed
  <2> HIDE DEF S
  <2> QED
    BY <2>4, <2>5, NatMin
<1> QED
  BY <1>1, StageStarts, StageHolds, PTL DEF StageSpec
=============================================================================
