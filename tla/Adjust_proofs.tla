--------------------------- MODULE Adjust_proofs ---------------------------
(***************************************************************************)
(* What TLAPS proves of the ADJUST stage, for every set of rules the       *)
(* loader lets through and every call: the total stays a natural number    *)
(* through every order; a discount is set against the stay exactly once;   *)
(* what is returned is the least of every order (an order is unfolded turn *)
(* by turn, and the machine is always underway in one); and one rule more  *)
(* moves it its own way (two orders that differ by one rule are run side   *)
(* by side).                                                               *)
(***************************************************************************)
EXTENDS Adjust, FiniteSetTheorems, WellFoundedInduction, TLAPS

(* Dividing by a positive number: the quotient and what it leaves.          *)
LEMMA Division ==
  ASSUME NEW n \in Int, NEW d \in Nat \ {0}
  PROVE  /\ n \div d \in Int
         /\ d * (n \div d) <= n
         /\ n < d * (n \div d) + d
  OBVIOUS

(* percent_of_minor of an amount that is not negative is not negative.      *)
LEMMA PercentIsNat ==
  ASSUME NEW amount \in Nat, NEW bp \in Nat, NEW rounding
  PROVE  PercentOf(amount, bp, rounding) \in Nat
<1>1. amount * bp \in Nat
  OBVIOUS
<1>2. (amount * bp) \div BASIS_POINTS_PER_WHOLE \in Nat
  BY <1>1 DEF BASIS_POINTS_PER_WHOLE
<1> QED
  BY <1>2 DEF PercentOf, CentFor

(* A percentage of at most the whole is at most the amount, whichever way   *)
(* it rounds: why a percentage discount never goes past the fee.            *)
LEMMA PercentAtMostWhole ==
  ASSUME NEW amount \in Nat, NEW bp \in Nat, NEW rounding,
         bp <= BASIS_POINTS_PER_WHOLE
  PROVE  PercentOf(amount, bp, rounding) <= amount
<1> DEFINE product == amount * bp
<1> DEFINE quotient == product \div 10000
<1> DEFINE remainder == product % 10000
<1>1. product \in Nat /\ product <= amount * 10000
  BY DEF BASIS_POINTS_PER_WHOLE
<1> HIDE DEF product
<1>2. /\ quotient \in Nat /\ remainder \in Nat
      /\ product = 10000 * quotient + remainder
  BY <1>1
<1> HIDE DEF quotient, remainder
<1>3. CASE remainder = 0
  <2>1. quotient <= amount
    BY <1>1, <1>2, <1>3
  <2>2. CentFor(remainder, rounding) = 0
    BY <1>3 DEF CentFor, BASIS_POINTS_PER_WHOLE
  <2> QED
    BY <2>1, <2>2, <1>2 DEF PercentOf, BASIS_POINTS_PER_WHOLE, product, quotient, remainder
<1>4. CASE remainder > 0
  <2>1. quotient + 1 <= amount
    BY <1>1, <1>2, <1>4
  <2>2. CentFor(remainder, rounding) \in {0, 1}
    BY DEF CentFor
  <2>3. PercentOf(amount, bp, rounding) = quotient + CentFor(remainder, rounding)
    BY DEF PercentOf, BASIS_POINTS_PER_WHOLE, product, quotient, remainder
  <2> QED
    BY <2>1, <2>2, <2>3, <1>2
<1> QED
  BY <1>2, <1>3, <1>4

-----------------------------------------------------------------------------
(* Two facts about products that the shares below rest on. *)
LEMMA Cancel ==
  ASSUME NEW d \in Nat \ {0}, NEW a \in Int, NEW b \in Int, d * a < d * b
  PROVE  a < b
  OBVIOUS

LEMMA ProductMonotone ==
  ASSUME NEW d \in Nat, NEW a \in Int, NEW b \in Int, a <= b
  PROVE  d * a <= d * b
  OBVIOUS

LEMMA CeilDivision ==
  ASSUME NEW n \in Nat, NEW d \in Nat \ {0}
  PROVE  /\ CeilDiv(n, d) \in Nat
         /\ n <= d * CeilDiv(n, d)
         /\ d * CeilDiv(n, d) < n + d
<1> DEFINE q == (-n) \div d
<1>1. q \in Int /\ d * q <= -n /\ -n < d * q + d
  BY Division
<1>2. CeilDiv(n, d) = -q
  BY DEF CeilDiv
<1> HIDE DEF q
<1>3. d * (-q) = -(d * q)
  BY <1>1
<1>4. n <= d * (-q) /\ d * (-q) < n + d
  BY <1>1, <1>3
<1>5. -q >= 0
  <2> SUFFICES ASSUME q > 0 PROVE FALSE
    BY <1>1
  <2>1. d * 1 <= d * q
    BY <1>1, ProductMonotone
  <2> QED
    BY <2>1, <1>1
<1> QED
  BY <1>1, <1>2, <1>4, <1>5

(* A part's share of a discount, rounded up or down: it is at most the part *)
(* and at most the discount, and what it leaves for the other part is at    *)
(* most the other part.                                                     *)
LEMMA Share ==
  ASSUME NEW whole \in Nat \ {0}, NEW part \in 0 .. whole, NEW spread \in 0 .. whole,
         NEW share \in Int,
         \/ share = CeilDiv(spread * part, whole)
         \/ share = (spread * part) \div whole
  PROVE  /\ share \in 0 .. part
         /\ share <= spread
         /\ spread - share <= whole - part
<1> DEFINE n == spread * part
<1>1. n \in Nat /\ n <= whole * part /\ n <= whole * spread
  <2>1. spread * part \in Nat
    OBVIOUS
  <2>2. part * spread <= part * whole
    BY ProductMonotone
  <2>3. spread * part <= spread * whole
    BY ProductMonotone
  <2> QED
    BY <2>1, <2>2, <2>3
<1>2. whole * share < n + whole /\ n - whole < whole * share /\ share >= 0
  <2>1. CASE share = CeilDiv(n, whole)
    BY <2>1, <1>1, CeilDivision
  <2>2. CASE share = n \div whole
    <3>1. whole * share <= n /\ n < whole * share + whole
      BY <2>2, <1>1, Division
    <3>2. share >= 0
      <4> SUFFICES ASSUME share <= -1 PROVE FALSE
        OBVIOUS
      <4>1. whole * share <= whole * (-1)
        BY ProductMonotone
      <4> QED
        BY <4>1, <3>1, <1>1
    <3> QED
      BY <3>1, <3>2, <1>1
  <2> QED
    BY <2>1, <2>2
<1>3. share < part + 1
  <2>1. whole * (part + 1) = whole * part + whole
    OBVIOUS
  <2>2. whole * share < whole * (part + 1)
    BY <1>1, <1>2, <2>1
  <2> QED
    BY <2>2, Cancel
<1>4. share < spread + 1
  <2>1. whole * (spread + 1) = whole * spread + whole
    OBVIOUS
  <2>2. whole * share < whole * (spread + 1)
    BY <1>1, <1>2, <2>1
  <2> QED
    BY <2>2, Cancel
<1>5. spread - share < (whole - part) + 1
  <2>1. whole * (spread - share) < whole * spread - n + whole
    <3>1. whole * (spread - share) = whole * spread - whole * share
      OBVIOUS
    <3> QED
      BY <3>1, <1>1, <1>2
  <2>2. whole * spread - n <= whole * (whole - part)
    <3>1. whole * spread - n = (whole - part) * spread
      OBVIOUS
    <3>2. (whole - part) * spread <= (whole - part) * whole
      BY ProductMonotone
    <3>3. (whole - part) * whole = whole * (whole - part)
      OBVIOUS
    <3> QED
      BY <3>1, <3>2, <3>3
  <2>3. whole * ((whole - part) + 1) = whole * (whole - part) + whole
    OBVIOUS
  <2>4. whole * (spread - share) < whole * ((whole - part) + 1)
    BY <2>1, <2>2, <2>3, <1>1
  <2> QED
    BY <2>4, Cancel
<1> QED
  BY <1>2, <1>3, <1>4, <1>5

-----------------------------------------------------------------------------
(* _left_after, both ways: each part keeps between nothing and all of what  *)
(* it charged, and the two together keep what the discounts left.           *)
LeftIsSound(r, c, off, split) ==
  LET rest == LeftAfter(r, c, off, split)
  IN  /\ rest.time \in 0 .. c.time
      /\ rest.extra \in 0 .. c.extras
      /\ rest.time + rest.extra = AtLeast(0, Total(c) - off)

LEMMA LeftAfterIsSound ==
  ASSUME NEW r, NEW c, IsCall(c), NEW off \in Nat, NEW split
  PROVE  LeftIsSound(r, c, off, split)
<1> DEFINE whole == c.time + c.extras
<1> DEFINE spread == AtMost(off, whole)
<1>1. c.time \in Nat /\ c.extras \in Nat
  BY DEF IsCall
<1>2. CASE split = TIME_FIRST \/ c.time = 0 \/ c.extras = 0
  BY <1>1, <1>2 DEF LeftIsSound, LeftAfter, TimeFirst, AtMost, AtLeast, Total
<1>3. CASE ~(split = TIME_FIRST \/ c.time = 0 \/ c.extras = 0)
  <2>1. whole \in Nat \ {0} /\ c.time \in 0 .. whole /\ c.extras \in 0 .. whole
    BY <1>1, <1>3
  <2>2. spread \in 0 .. whole /\ whole - spread = AtLeast(0, whole - off)
    BY <1>1 DEF AtMost, AtLeast
  <2> DEFINE extraCeil == CeilDiv(spread * c.extras, whole)
  <2> DEFINE timeCeil == CeilDiv(spread * c.time, whole)
  <2> DEFINE timeFloor == (spread * c.time) \div whole
  <2>3. LeftAfter(r, c, off, split) = PerPart(r, c, off)
    BY <1>3 DEF LeftAfter
  <2>4. /\ spread * c.extras \in Nat /\ spread * c.time \in Nat
        /\ extraCeil \in Int /\ timeCeil \in Int /\ timeFloor \in Int
    <3>1. spread * c.extras \in Nat /\ spread * c.time \in Nat
      BY <2>1, <2>2
    <3> QED
      BY <3>1, <2>1, CeilDivision, Division
  <2>5. /\ extraCeil \in 0 .. c.extras
        /\ extraCeil <= spread
        /\ spread - extraCeil <= whole - c.extras
    BY <2>1, <2>2, <2>4, Share
  <2>6. /\ timeCeil \in 0 .. c.time
        /\ timeCeil <= spread
        /\ spread - timeCeil <= whole - c.time
    BY <2>1, <2>2, <2>4, Share
  <2>7. /\ timeFloor \in 0 .. c.time
        /\ timeFloor <= spread
        /\ spread - timeFloor <= whole - c.time
    BY <2>1, <2>2, <2>4, Share
  <2> DEFINE timeOff == IF RaisesExtra(r) /\ ~RaisesTime(r, c) THEN spread - extraCeil
                        ELSE IF RaisesTime(r, c) THEN timeCeil ELSE timeFloor
  <2>8. PerPart(r, c, off) = [time |-> c.time - timeOff,
                              extra |-> c.extras - (spread - timeOff)]
    <3>1. \A x \in Nat : \A y \in 0 .. x : AtMost(x, y) = y
      BY DEF AtMost
    <3>2. AtMost(c.extras, extraCeil) = extraCeil
      BY <3>1, <2>5, <1>1
    <3>3. AtMost(c.time, timeCeil) = timeCeil
      BY <3>1, <2>6, <1>1
    <3>4. AtMost(c.time, timeFloor) = timeFloor
      BY <3>1, <2>7, <1>1
    <3> QED
      BY <3>2, <3>3, <3>4 DEF PerPart
  <2> HIDE DEF extraCeil, timeCeil, timeFloor, spread
  <2>9. /\ timeOff \in 0 .. c.time
        /\ spread - timeOff \in 0 .. c.extras
    <3>1. timeOff \in {spread - extraCeil, timeCeil, timeFloor}
      OBVIOUS
    <3>2. whole - c.extras = c.time /\ whole - c.time = c.extras
      BY <1>1
    <3> HIDE DEF timeOff, whole
    <3>3. CASE timeOff = spread - extraCeil
      BY <3>2, <3>3, <2>2, <2>5, <1>1
    <3>4. CASE timeOff = timeCeil
      BY <3>2, <3>4, <2>2, <2>6, <1>1
    <3>5. CASE timeOff = timeFloor
      BY <3>2, <3>5, <2>2, <2>7, <1>1
    <3> QED
      BY <3>1, <3>3, <3>4, <3>5
  <2> HIDE DEF timeOff
  <2> QED
    BY <2>2, <2>3, <2>8, <2>9, <1>1 DEF LeftIsSound, Total
<1> QED
  BY <1>2, <1>3

-----------------------------------------------------------------------------
(* What one rule does to a total that is not negative. *)
LEMMA RuleFields ==
  ASSUME NEW r, SoundAdjustment(r)
  PROVE  /\ r.type = "fill_level" => SoundFill(r)
         /\ r.type # "fill_level" =>
              /\ SoundWindow(r)
              /\ (r.direction = "discount" /\ r.kind = "percent")
                   => r.amount <= BASIS_POINTS_PER_WHOLE
  BY DEF SoundAdjustment, SoundFill, SoundWindow

LEMMA MagnitudeBounds ==
  ASSUME NEW r, SoundAdjustment(r), r.type # "fill_level", NEW total \in Nat
  PROVE  /\ Magnitude(r, total) \in Nat
         /\ r.direction = "discount" => Magnitude(r, total) <= total
<1>1. /\ r.amount \in Nat
      /\ (r.direction = "discount" /\ r.kind = "percent")
           => r.amount <= BASIS_POINTS_PER_WHOLE
  BY RuleFields DEF SoundWindow
<1>2. CASE r.kind = "percent"
  BY <1>1, <1>2, PercentIsNat, PercentAtMostWhole DEF Magnitude
<1>3. CASE r.kind # "percent"
  BY <1>1, <1>3 DEF Magnitude, AtMost, AtLeast
<1> QED
  BY <1>2, <1>3

LEMMA RaiseIsNat ==
  ASSUME NEW r, SoundFill(r), NEW c, IsCall(c), NEW off \in Nat, NEW split
  PROVE  Raise(r, c, off, split) \in Nat
<1> DEFINE rest == LeftAfter(r, c, off, split)
<1>1. rest.time \in Nat /\ rest.extra \in Nat
  BY LeftAfterIsSound DEF LeftIsSound, IsCall
<1>2. r.percent_bp \in Nat
  BY DEF SoundFill
<1> HIDE DEF rest
<1>3. /\ PercentOf(rest.time, r.percent_bp, r.rounding) \in Nat
      /\ PercentOf(rest.extra, r.percent_bp, r.rounding) \in Nat
  BY <1>1, <1>2, PercentIsNat
<1> QED
  BY <1>3 DEF Raise, rest

LEMMA DeltaKeepsTotal ==
  ASSUME NEW r, SoundAdjustment(r), NEW c, IsCall(c), NEW total \in Nat,
         NEW off \in Nat, NEW split
  PROVE  /\ Delta(r, c, total, off, split) \in Int
         /\ total + Delta(r, c, total, off, split) \in Nat
<1>1. CASE r \notin c.qualified
  BY <1>1 DEF Delta
<1>2. CASE r \in c.qualified /\ r.type = "fill_level"
  <2>1. Delta(r, c, total, off, split) = Raise(r, c, off, split)
    BY <1>2 DEF Delta
  <2> QED
    BY <2>1, <1>2, RuleFields, RaiseIsNat
<1>3. CASE r \in c.qualified /\ r.type # "fill_level"
  <2>1. Delta(r, c, total, off, split)
          = IF r.direction = "discount" THEN -Magnitude(r, total) ELSE Magnitude(r, total)
    BY <1>3 DEF Delta
  <2> QED
    BY <2>1, <1>3, MagnitudeBounds
<1> QED
  BY <1>1, <1>2, <1>3

-----------------------------------------------------------------------------
LEMMA TypedIsCall ==
  ASSUME NEW c \in CallType
  PROVE  IsCall(c)
  BY DEF CallType, IsCall

LEMMA CallIsTyped ==
  ASSUME NEW c, IsCall(c)
  PROVE  Total(c) \in Nat
  BY DEF IsCall, Total

(* No order, however long, takes the total below nothing: every amount the  *)
(* stage computes is a natural number, for every plan the loader accepts    *)
(* and every call.                                                          *)
THEOREM TypeCorrect == AdjustSpec => []TypeOK
<1>1. AdjustInit => TypeOK
  BY CallAssumption, TypedIsCall, CallIsTyped DEF CallType, AdjustInit, BeginCall, TypeOK
<1>2. TypeOK /\ [AdjustNext]_adjustVars => TypeOK'
  <2> SUFFICES ASSUME TypeOK, [AdjustNext]_adjustVars PROVE TypeOK'
    OBVIOUS
  <2> USE DEF TypeOK
  <2>0. IsCall(call)
    BY TypedIsCall
  <2>1. CASE ApplyRule
    <3>1. PICK r \in left :
            LET d == Delta(r, call, running, taken, Places(call)[place][2])
            IN  /\ running' = running + d
                /\ taken' = IF d < 0 THEN taken - d ELSE taken
                /\ left' = left \ {r}
      BY <2>1 DEF ApplyRule
    <3> DEFINE d == Delta(r, call, running, taken, Places(call)[place][2])
    <3>2. d \in Int /\ running + d \in Nat
      <4>1. SoundAdjustment(r)
        BY AdjustRuleAssumption
      <4> QED
        BY <2>0, <4>1, DeltaKeepsTotal
    <3> HIDE DEF d
    <3>3. running' = running + d /\ taken' = IF d < 0 THEN taken - d ELSE taken
      BY <3>1 DEF d
    <3>4. running' \in Nat /\ taken' \in Nat
      BY <3>2, <3>3
    <3>5. left' \in SUBSET AdjustRule
      BY <3>1
    <3> QED
      BY <2>1, <3>4, <3>5 DEF ApplyRule
  <2>2. CASE NextOrder
    <3>1. Total(call) \in Nat /\ call.rules \in SUBSET AdjustRule
      BY <2>0, CallIsTyped DEF CallType
    <3> QED
      BY <2>2, <3>1 DEF NextOrder
  <2>3. CASE Returned
    BY <2>3 DEF Returned, adjustVars
  <2>4. CASE UNCHANGED adjustVars
    BY <2>4 DEF adjustVars
  <2> QED
    BY <2>1, <2>2, <2>3, <2>4 DEF AdjustNext
<1> QED
  BY <1>1, <1>2, PTL DEF AdjustSpec

(* A discount is set against the stay once, whatever came off before it and *)
(* whichever way it is set: the two parts always add up to what is left.    *)
THEOREM DiscountSetOnce == AdjustSpec => []PartsAddUp
<1>1. TypeOK => PartsAddUp
  BY TypedIsCall, LeftAfterIsSound DEF TypeOK, PartsAddUp, LeftIsSound
<1> QED
  BY <1>1, TypeCorrect, PTL
-----------------------------------------------------------------------------
(* The library's well-founded order on the natural numbers, as a fact about *)
(* a relation, so that induction can be said of sets.                       *)
LEMMA LessThanIsWellFounded ==
  \E R : IsWellFoundedOn(R, Nat) /\ \A a, b \in Nat : a < b => <<a, b>> \in R
<1> DEFINE R == OpToRel(<, Nat)
<1>1. IsWellFoundedOn(R, Nat)
  BY NatLessThanWellFounded
<1>2. \A a, b \in Nat : a < b => <<a, b>> \in R
  BY DEF OpToRel
<1> QED
  BY <1>1, <1>2

LEMMA LeastUnder ==
  ASSUME NEW R, IsWellFoundedOn(R, Nat), NEW T, T \subseteq Nat, T # {}
  PROVE  \E m \in T : \A y \in T : ~(<<y, m>> \in R)
BY WFMin

LEMMA LeastNat ==
  ASSUME NEW T \in SUBSET Nat, T # {}
  PROVE  \E m \in T : \A n \in T : m <= n
<1>1. ASSUME NEW R, IsWellFoundedOn(R, Nat), \A a, b \in Nat : a < b => <<a, b>> \in R
      PROVE  \E m \in T : \A n \in T : m <= n
  <2>1. T \subseteq Nat /\ IsWellFoundedOn(R, Nat)
    BY <1>1
  <2>2. PICK m \in T : \A y \in T : ~(<<y, m>> \in R)
    BY <2>1, LeastUnder, Zenon
  <2>3. \A n \in T : n \in Nat /\ ~(n < m)
    BY <1>1, <2>1, <2>2
  <2> QED
    BY <2>1, <2>3
<1> QED
  BY <1>1, LessThanIsWellFounded

(* Induction over the natural numbers, said of a set of them.                *)
LEMMA Induction ==
  ASSUME NEW S \in SUBSET Nat, 0 \in S, \A n \in S : n + 1 \in S
  PROVE  S = Nat
<1> DEFINE T == Nat \ S
<1> SUFFICES ASSUME T # {} PROVE FALSE
  OBVIOUS
<1>1. PICK m \in T : \A n \in T : m <= n
  BY LeastNat
<1>2. m # 0 /\ m - 1 \in Nat /\ m - 1 \notin T
  BY <1>1
<1> QED
  BY <1>1, <1>2

(* Induction over the subsets of a finite set, said of a set of them. *)
LEMMA SubsetInduction ==
  ASSUME NEW S, IsFiniteSet(S), NEW G, {} \in G,
         \A T \in SUBSET S : T # {} /\ (\A x \in T : T \ {x} \in G) => T \in G
  PROVE  \A T \in SUBSET S : T \in G
<1> DEFINE N == {n \in Nat : \A T \in SUBSET S : Cardinality(T) = n => T \in G}
<1>0. \A T \in SUBSET S : IsFiniteSet(T) /\ Cardinality(T) \in Nat
  BY FS_Subset, FS_CardinalityType
<1>1. 0 \in N
  <2>1. \A T \in SUBSET S : Cardinality(T) = 0 => T = {}
    BY <1>0, FS_EmptySet
  <2> QED
    BY <2>1
<1>2. ASSUME NEW n \in N
      PROVE  n + 1 \in N
  <2> SUFFICES ASSUME NEW T \in SUBSET S, Cardinality(T) = n + 1
               PROVE  T \in G
    OBVIOUS
  <2>1. T # {}
    BY FS_EmptySet
  <2>2. ASSUME NEW x \in T
        PROVE  T \ {x} \in G
    <3>1. Cardinality(T \ {x}) = n
      BY <1>0, FS_RemoveElement
    <3> QED
      BY <3>1
  <2> QED
    BY <2>1, <2>2
<1>3. N = Nat
  <2> HIDE DEF N
  <2>1. N \in SUBSET Nat
    BY DEF N
  <2> QED
    BY <1>1, <1>2, <2>1, Induction
<1> QED
  BY <1>0, <1>3
-----------------------------------------------------------------------------
(* The order the other rules run in: each rule once, by rank.                *)
Ranked(c, rules) ==
  /\ IsFiniteSet(rules)
  /\ \A r \in rules : c.rank[r] \in Nat
  /\ \A r, q \in rules : c.rank[r] = c.rank[q] => r = q

Sorted(c, rules, order) ==
  /\ order \in [1 .. Cardinality(rules) -> rules]
  /\ \A r \in rules : \E i \in 1 .. Cardinality(rules) : order[i] = r
  /\ \A i, j \in 1 .. Cardinality(rules) : i < j => c.rank[order[i]] < c.rank[order[j]]

(* Of rules that have ranks of their own, one has the last.                  *)
LEMMA LastRanked ==
  ASSUME NEW c, NEW rules, Ranked(c, rules), rules # {}
  PROVE  \E last \in rules : \A r \in rules \ {last} : c.rank[r] < c.rank[last]
<1> DEFINE HasLast(T) == \E last \in T : \A r \in T \ {last} : c.rank[r] < c.rank[last]
           G == {T \in SUBSET rules : T # {} => HasLast(T)}
<1>1. {} \in G
  OBVIOUS
<1>2. ASSUME NEW T \in SUBSET rules, T # {}, \A x \in T : T \ {x} \in G
      PROVE  T \in G
  <2>1. PICK x \in T : TRUE
    BY <1>2
  <2>2. CASE T \ {x} = {}
    <3>1. HasLast(T)
      BY <2>1, <2>2
    <3> QED
      BY <3>1
  <2>3. CASE T \ {x} # {}
    <3>1. HasLast(T \ {x})
      BY <1>2, <2>1, <2>3
    <3>2. PICK last \in T \ {x} : \A r \in (T \ {x}) \ {last} : c.rank[r] < c.rank[last]
      BY <3>1
    <3>3. c.rank[x] \in Nat /\ c.rank[last] \in Nat /\ c.rank[x] # c.rank[last]
          /\ \A r \in T : c.rank[r] \in Nat
      BY <2>1, <3>2 DEF Ranked
    <3>4. CASE c.rank[x] < c.rank[last]
      <4>1. \A r \in T \ {last} : c.rank[r] < c.rank[last]
        BY <3>2, <3>4
      <4> QED
        BY <4>1
    <3>5. CASE c.rank[last] < c.rank[x]
      <4>1. \A r \in T \ {x} : c.rank[r] < c.rank[x]
        BY <3>2, <3>3, <3>5
      <4> QED
        BY <2>1, <4>1
    <3> QED
      BY <3>3, <3>4, <3>5
  <2> QED
    BY <2>2, <2>3
<1>3. \A T \in SUBSET rules : T \in G
  <2>1. IsFiniteSet(rules)
    BY DEF Ranked
  <2> HIDE DEF G
  <2> QED
    BY <1>1, <1>2, <2>1, SubsetInduction
<1> QED
  BY <1>3

LEMMA SortedExists ==
  ASSUME NEW c, NEW rules, Ranked(c, rules)
  PROVE  \E order : Sorted(c, rules, order)
<1> DEFINE G == {T \in SUBSET rules : \E order : Sorted(c, T, order)}
<1>0. \A T \in SUBSET rules : IsFiniteSet(T) /\ Cardinality(T) \in Nat
  BY FS_Subset, FS_CardinalityType DEF Ranked
<1>1. {} \in G
  <2> DEFINE none == [i \in 1 .. 0 |-> 0]
  <2>1. Cardinality({}) = 0
    BY FS_EmptySet
  <2>2. Sorted(c, {}, none)
    BY <2>1 DEF Sorted
  <2> QED
    BY <2>2
<1>2. ASSUME NEW T \in SUBSET rules, T # {}, \A x \in T : T \ {x} \in G
      PROVE  T \in G
  <2>1. Ranked(c, T)
    BY <1>0 DEF Ranked
  <2>2. PICK last \in T : \A r \in T \ {last} : c.rank[r] < c.rank[last]
    BY <1>2, <2>1, LastRanked
  <2>3. PICK order : Sorted(c, T \ {last}, order)
    BY <1>2
  <2> DEFINE n == Cardinality(T)
             longer == [i \in 1 .. n |-> IF i = n THEN last ELSE order[i]]
  <2>4. n \in Nat /\ n > 0 /\ Cardinality(T \ {last}) = n - 1
    <3>1. Cardinality(T \ {last}) = n - 1 /\ Cardinality(T \ {last}) \in Nat
      BY <1>0, FS_RemoveElement
    <3> QED
      BY <1>0, <3>1
  <2> HIDE DEF n
  <2>5. /\ order \in [1 .. n - 1 -> T \ {last}]
        /\ \A r \in T \ {last} : \E i \in 1 .. n - 1 : order[i] = r
        /\ \A i, j \in 1 .. n - 1 : i < j => c.rank[order[i]] < c.rank[order[j]]
    BY <2>3, <2>4 DEF Sorted
  <2>6. /\ longer[n] = last /\ \A i \in 1 .. n - 1 : longer[i] = order[i]
        /\ \A i \in 1 .. n : i # n => i \in 1 .. n - 1
        /\ \A i \in 1 .. n - 1 : i \in 1 .. n
    BY <2>4
  <2>7. longer \in [1 .. n -> T]
    BY <2>5, <2>6
  <2>8. ASSUME NEW r \in T PROVE \E i \in 1 .. n : longer[i] = r
    <3>1. CASE r = last
      BY <2>4, <2>6, <3>1
    <3>2. CASE r # last
      <4>1. PICK i \in 1 .. n - 1 : order[i] = r
        BY <2>5, <3>2
      <4> QED
        BY <2>6, <4>1
    <3> QED
      BY <3>1, <3>2
  <2>9. ASSUME NEW i \in 1 .. n, NEW j \in 1 .. n, i < j
        PROVE  c.rank[longer[i]] < c.rank[longer[j]]
    <3>1. i \in 1 .. n - 1 /\ longer[i] = order[i]
      BY <2>4, <2>6, <2>9
    <3>2. CASE j = n
      <4>1. order[i] \in T \ {last}
        BY <2>5, <3>1
      <4> QED
        BY <2>2, <2>6, <3>1, <3>2, <4>1
    <3>3. CASE j # n
      BY <2>5, <2>6, <2>9, <3>1, <3>3
    <3> QED
      BY <3>2, <3>3
  <2>10. Sorted(c, T, longer)
    <3> HIDE DEF longer
    <3> QED
      BY <2>7, <2>8, <2>9 DEF Sorted, n
  <2> QED
    BY <2>10
<1>3. \A T \in SUBSET rules : T \in G
  <2>1. IsFiniteSet(rules)
    BY DEF Ranked
  <2> HIDE DEF G
  <2> QED
    BY <1>1, <1>2, <2>1, SubsetInduction
<1> QED
  BY <1>3

LEMMA InRankOrderIsSorted ==
  ASSUME NEW c, NEW rules, Ranked(c, rules)
  PROVE  Sorted(c, rules, InRankOrder(c, rules))
<1>1. PICK order : Sorted(c, rules, order)
  BY SortedExists
<1> DEFINE Is(o) == /\ \A r \in rules : \E i \in DOMAIN o : o[i] = r
                    /\ \A i, j \in DOMAIN o : i < j => c.rank[o[i]] < c.rank[o[j]]
<1>2. order \in [1 .. Cardinality(rules) -> rules] /\ Is(order)
  BY <1>1 DEF Sorted
<1>3. /\ InRankOrder(c, rules) \in [1 .. Cardinality(rules) -> rules]
      /\ Is(InRankOrder(c, rules))
  <2>1. InRankOrder(c, rules) = CHOOSE o \in [1 .. Cardinality(rules) -> rules] : Is(o)
    BY DEF InRankOrder
  <2> HIDE DEF Is
  <2> QED
    BY <1>2, <2>1
<1> QED
  BY <1>3 DEF Sorted
-----------------------------------------------------------------------------
(* An order folded turn by turn, as the library's fold works it out.         *)
Begun(c) == [total |-> Total(c), off |-> 0]

Turn(c, split, s, r) ==
  LET d == Delta(r, c, s.total, s.off, split)
  IN  [total |-> s.total + d, off |-> s.off + AtLeast(0, -d)]

FoldStep(c, order, split, it, s) ==
  IF s = {} THEN Begun(c) ELSE LET x == Max(s) IN Turn(c, split, it[s \ {x}], order[x])

Folded(c, order, split, it) ==
  it = [s \in SUBSET DOMAIN order |-> FoldStep(c, order, split, it, s)]

AfterTurns(c, order, split, n) == (CHOOSE it : Folded(c, order, split, it))[1 .. n]

LEMMA FoldIs ==
  ASSUME NEW c, NEW order, NEW split
  PROVE  OrderTotal(c, order, split)
           = (CHOOSE it : Folded(c, order, split, it))[DOMAIN order].total
BY DEF OrderTotal, FoldLeft, MapThenFoldSet, Folded, FoldStep, Turn, Begun

LEMMA MaxIsMax ==
  ASSUME NEW n \in Nat, NEW S \in SUBSET (1 .. n), S # {}
  PROVE  Max(S) \in S /\ \A x \in S : x <= Max(S)
<1> DEFINE T == {k \in Nat : n - k \in S}
<1>1. T \in SUBSET Nat /\ T # {}
  <2>1. PICK x \in S : TRUE
    OBVIOUS
  <2>2. x \in 1 .. n
    BY <2>1
  <2>3. n - x \in Nat /\ n - (n - x) = x
    BY <2>2
  <2>4. n - x \in T
    BY <2>1, <2>3
  <2> QED
    BY <2>4
<1>2. PICK k \in T : \A j \in T : k <= j
  BY <1>1, LeastNat
<1>3. ASSUME NEW x \in S
      PROVE  x <= n - k
  <2>1. x \in 1 .. n
    OBVIOUS
  <2>2. n - x \in Nat /\ n - (n - x) = x
    BY <2>1
  <2>3. n - x \in T
    BY <2>2
  <2> QED
    BY <1>2, <2>1, <2>2, <2>3
<1>4. n - k \in S
  BY <1>2
<1>5. \E m \in S : \A x \in S : m >= x
  <2>1. \A x \in S : x \in Int
    OBVIOUS
  <2> QED
    BY <1>3, <1>4, <2>1
<1>6. \A y, x \in S : y >= x <=> x <= y
  OBVIOUS
<1> QED
  BY <1>5, <1>6 DEF Max

LEMMA FoldExists ==
  ASSUME NEW c, NEW split, NEW len \in Nat, NEW order, DOMAIN order = 1 .. len
  PROVE  \E it : Folded(c, order, split, it)
<1> DEFINE S == 1 .. len
           Right(h, s) == h[s] = FoldStep(c, order, split, h, s)
           UpTo(h, n) == /\ h = [s \in SUBSET S |-> h[s]]
                         /\ \A s \in SUBSET S : Cardinality(s) <= n => Right(h, s)
           N == {n \in Nat : \E h : UpTo(h, n)}
<1>0. /\ \A s \in SUBSET S : IsFiniteSet(s) /\ Cardinality(s) \in Nat
      /\ IsFiniteSet(S)
  <2>1. IsFiniteSet(S)
    BY FS_Interval
  <2> QED
    BY <2>1, FS_Subset, FS_CardinalityType
<1>1. 0 \in N
  <2> DEFINE h == [s \in SUBSET S |-> Begun(c)]
  <2>1. ASSUME NEW s \in SUBSET S, Cardinality(s) <= 0
        PROVE  Right(h, s)
    <3>1. s = {}
      BY <1>0, <2>1, FS_EmptySet
    <3> QED
      BY <3>1 DEF FoldStep
  <2>2. h = [s \in SUBSET S |-> h[s]]
    OBVIOUS
  <2>3. UpTo(h, 0)
    BY <2>1, <2>2
  <2> QED
    BY <2>3
<1>2. ASSUME NEW n \in N
      PROVE  n + 1 \in N
  <2>1. PICK h : UpTo(h, n)
    OBVIOUS
  <2> DEFINE k == [s \in SUBSET S |-> FoldStep(c, order, split, h, s)]
  <2>2. ASSUME NEW s \in SUBSET S, Cardinality(s) <= n + 1
        PROVE  Right(k, s)
    <3>1. CASE s = {}
      BY <3>1 DEF FoldStep
    <3>2. CASE s # {}
      <4> DEFINE x == Max(s)
      <4>1. x \in s
        BY <3>2, MaxIsMax
      <4> HIDE DEF x
      <4>2. s \ {x} \in SUBSET S /\ Cardinality(s \ {x}) <= n
        <5>1. IsFiniteSet(s) /\ Cardinality(s) \in Nat
          BY <1>0, <2>2
        <5>2. Cardinality(s \ {x}) = Cardinality(s) - 1
          BY <4>1, <5>1, FS_RemoveElement
        <5>3. Cardinality(s \ {x}) <= n
          BY <2>2, <5>1, <5>2
        <5> QED
          BY <5>3
      <4>3. h[s \ {x}] = FoldStep(c, order, split, h, s \ {x})
        BY <2>1, <4>2
      <4>4. k[s \ {x}] = h[s \ {x}]
        BY <4>2, <4>3
      <4>5. k[s] = Turn(c, split, h[s \ {x}], order[x])
        BY <3>2 DEF FoldStep, x
      <4>6. FoldStep(c, order, split, k, s) = Turn(c, split, k[s \ {x}], order[x])
        BY <3>2 DEF FoldStep, x
      <4> QED
        BY <4>4, <4>5, <4>6
    <3> QED
      BY <3>1, <3>2
  <2>3. k = [s \in SUBSET S |-> k[s]]
    OBVIOUS
  <2>4. \E h1 : UpTo(h1, n + 1)
    <3> HIDE DEF k
    <3> QED
      BY <2>2, <2>3
  <2>5. n + 1 \in Nat
    OBVIOUS
  <2> HIDE DEF UpTo
  <2> QED
    BY <2>4, <2>5
<1>3. N = Nat
  <2> HIDE DEF N
  <2>1. N \in SUBSET Nat
    BY DEF N
  <2> QED
    BY <1>1, <1>2, <2>1, Induction
<1>4. PICK h : UpTo(h, Cardinality(S))
  BY <1>0, <1>3
<1>5. \A s \in SUBSET S : Cardinality(s) <= Cardinality(S)
  BY <1>0, FS_Subset
<1>6. h = [s \in SUBSET S |-> FoldStep(c, order, split, h, s)]
  BY <1>4, <1>5
<1> QED
  BY <1>6 DEF Folded

(* Nothing has run, then one rule a turn, and the total is after the last.   *)
Unfolded(c, order, split, len) ==
  /\ AfterTurns(c, order, split, 0) = Begun(c)
  /\ \A n \in 1 .. len :
       AfterTurns(c, order, split, n)
         = Turn(c, split, AfterTurns(c, order, split, n - 1), order[n])
  /\ OrderTotal(c, order, split) = AfterTurns(c, order, split, len).total

LEMMA TurnsUnfold ==
  ASSUME NEW c, NEW split, NEW len \in Nat, NEW order, DOMAIN order = 1 .. len
  PROVE  Unfolded(c, order, split, len)
<1> DEFINE it == CHOOSE h : Folded(c, order, split, h)
<1>1. Folded(c, order, split, it)
  BY FoldExists
<1>2. \A s \in SUBSET (1 .. len) : it[s] = FoldStep(c, order, split, it, s)
  BY <1>1 DEF Folded
<1>3. \A n : AfterTurns(c, order, split, n) = it[1 .. n]
  BY DEF AfterTurns
<1>4. OrderTotal(c, order, split) = it[1 .. len].total
  BY FoldIs
<1> HIDE DEF it
<1>5. it[1 .. 0] = Begun(c)
  <2>1. 1 .. 0 = {} /\ 1 .. 0 \in SUBSET (1 .. len)
    OBVIOUS
  <2> QED
    BY <1>2, <2>1 DEF FoldStep
<1>6. ASSUME NEW n \in 1 .. len
      PROVE  it[1 .. n] = Turn(c, split, it[1 .. n - 1], order[n])
  <2>1. /\ n \in 1 .. n /\ 1 .. n # {} /\ 1 .. n \in SUBSET (1 .. len)
        /\ 1 .. n \in SUBSET (1 .. n) /\ (1 .. n) \ {n} = 1 .. n - 1 /\ n \in Nat
    <3>1. n \in Nat /\ 1 <= n /\ n <= len
      OBVIOUS
    <3>2. (1 .. n) \ {n} = 1 .. n - 1
      BY <3>1
    <3>3. 1 .. n \in SUBSET (1 .. len)
      BY <3>1
    <3> QED
      BY <3>1, <3>2, <3>3
  <2>2. Max(1 .. n) \in 1 .. n /\ n <= Max(1 .. n)
    BY <2>1, MaxIsMax
  <2>3. Max(1 .. n) = n
    BY <2>2
  <2> QED
    BY <1>2, <2>1, <2>3 DEF FoldStep
<1> QED
  BY <1>3, <1>4, <1>5, <1>6 DEF Unfolded
-----------------------------------------------------------------------------
(* The rules of a call, and the fill rule whose place is tried. *)
LEMMA RulesAre ==
  ASSUME NEW c, SoundCall(c)
  PROVE  /\ IsCall(c)
         /\ IsFiniteSet(c.rules)
         /\ (\A q \in c.rules : SoundAdjustment(q))
         /\ NoRule \notin c.rules
         /\ Ranked(c, Others(c))
<1>1. /\ IsCall(c) /\ IsFiniteSet(c.rules)
      /\ \A r, q \in c.rules : c.rank[r] = c.rank[q] => r = q
  BY DEF SoundCall
<1>2. \A q \in c.rules : SoundAdjustment(q) /\ c.rank[q] \in Nat
  BY DEF SoundCall
<1>3. NoRule \notin c.rules
  BY <1>2 DEF NoRule, SoundAdjustment, SoundWindow, SoundFill
<1>4. Others(c) \in SUBSET c.rules
  BY DEF Others
<1>5. IsFiniteSet(Others(c))
  BY <1>1, <1>4, FS_Subset
<1> QED
  BY <1>1, <1>2, <1>3, <1>4, <1>5 DEF Ranked

LEMMA PlacedIs ==
  ASSUME NEW c, SoundCall(c)
  PROVE  \/ Placed(c) = NoRule /\ Others(c) = c.rules
         \/ /\ Placed(c) # NoRule
            /\ Placed(c) \in c.rules
            /\ Placed(c) \in Fills(c)
            /\ Others(c) # {}
<1>1. CASE Cardinality(Fills(c)) = 1 /\ Beside(c) # {}
  <2>1. Fills(c) # {}
    BY <1>1, FS_EmptySet
  <2>2. Placed(c) \in Fills(c)
    BY <1>1, <2>1 DEF Placed
  <2>3. Fills(c) \in SUBSET c.rules
    BY DEF Fills
  <2>4. Beside(c) \in SUBSET Others(c)
    BY <2>2 DEF Beside, Others
  <2> QED
    BY <1>1, <2>2, <2>3, <2>4, RulesAre
<1>2. CASE ~(Cardinality(Fills(c)) = 1 /\ Beside(c) # {})
  <2>1. Placed(c) = NoRule
    BY <1>2 DEF Placed
  <2> QED
    BY <2>1, RulesAre DEF Others
<1> QED
  BY <1>1, <1>2

(* The places the stage tries: the plan's own when no rule is placed;        *)
(* otherwise every one of them, with a discount set either way unless the    *)
(* fill rule comes first.                                                    *)
Splits(at) == IF at = 0 THEN {TIME_FIRST} ELSE {TIME_FIRST, PER_PART}

EveryPlace(c) ==
  IF Placed(c) = NoRule THEN {<<Cardinality(Others(c)), TIME_FIRST>>}
  ELSE UNION {{<<at, split>> : split \in Splits(at)} : at \in 0 .. Cardinality(Others(c))}

LEMMA Joined ==
  ASSUME NEW S, NEW a \in Seq(S), NEW b \in Seq(S)
  PROVE  /\ a \o b \in Seq(S)
         /\ Len(a \o b) = Len(a) + Len(b)
         /\ \A i \in 1 .. Len(a) : (a \o b)[i] = a[i]
         /\ \A i \in Len(a) + 1 .. Len(a) + Len(b) : (a \o b)[i] = b[i - Len(a)]
  OBVIOUS

LEMMA PlacesAre ==
  ASSUME NEW c, SoundCall(c)
  PROVE  /\ Places(c) \in Seq(Int \X {TIME_FIRST, PER_PART})
         /\ Len(Places(c)) > 0
         /\ {Places(c)[i] : i \in 1 .. Len(Places(c))} = EveryPlace(c)
<1> DEFINE k == Cardinality(Others(c))
           between == [i \in 1 .. 2 * (k - 1) |->
                         <<(i + 1) \div 2, IF i % 2 = 1 THEN TIME_FIRST ELSE PER_PART>>]
           ends == << <<k, TIME_FIRST>>, <<0, TIME_FIRST>>, <<k, PER_PART>> >>
<1>1. k \in Nat /\ (Others(c) # {} => k > 0)
  <2>1. IsFiniteSet(Others(c))
    BY RulesAre DEF Ranked
  <2> QED
    BY <2>1, FS_CardinalityType, FS_EmptySet
<1>2. CASE Placed(c) = NoRule
  <2>1. Places(c) = << <<k, TIME_FIRST>> >>
    BY <1>2 DEF Places
  <2>2. EveryPlace(c) = {<<k, TIME_FIRST>>}
    BY <1>2 DEF EveryPlace
  <2> HIDE DEF k
  <2>3. /\ Places(c) \in Seq(Int \X {TIME_FIRST, PER_PART})
        /\ Len(Places(c)) = 1 /\ Places(c)[1] = <<k, TIME_FIRST>>
    BY <1>1, <2>1
  <2>4. {Places(c)[i] : i \in 1 .. Len(Places(c))} = {<<k, TIME_FIRST>>}
    <3>1. \A i \in 1 .. Len(Places(c)) : Places(c)[i] = <<k, TIME_FIRST>>
      BY <2>3
    <3>2. 1 \in 1 .. Len(Places(c))
      BY <2>3
    <3> QED
      BY <3>1, <3>2, Zenon
  <2> QED
    BY <2>2, <2>3, <2>4
<1>3. CASE Placed(c) # NoRule
  <2>1. k > 0
    BY <1>1, <1>3, PlacedIs
  <2>2. Places(c) = ends \o between
    BY <1>3 DEF Places
  <2>3. EveryPlace(c) = UNION {{<<at, split>> : split \in Splits(at)} : at \in 0 .. k}
    BY <1>3 DEF EveryPlace
  <2> HIDE DEF k
  <2>4. /\ 2 * (k - 1) \in Nat
        /\ \A i \in 1 .. 2 * (k - 1) : (i + 1) \div 2 \in 1 .. k - 1
    BY <1>1, <2>1
  <2>5. between \in Seq(Int \X {TIME_FIRST, PER_PART}) /\ Len(between) = 2 * (k - 1)
    BY <2>4
  <2>6. ends \in Seq(Int \X {TIME_FIRST, PER_PART}) /\ Len(ends) = 3
    BY <1>1
  <2>7. /\ Places(c) \in Seq(Int \X {TIME_FIRST, PER_PART})
        /\ Len(Places(c)) = 2 * k + 1
        /\ Places(c)[1] = <<k, TIME_FIRST>>
        /\ Places(c)[2] = <<0, TIME_FIRST>>
        /\ Places(c)[3] = <<k, PER_PART>>
        /\ \A i \in 4 .. 2 * k + 1 : Places(c)[i] = between[i - 3]
    <3> HIDE DEF between
    <3>1. /\ ends[1] = <<k, TIME_FIRST>>
          /\ ends[2] = <<0, TIME_FIRST>>
          /\ ends[3] = <<k, PER_PART>>
      OBVIOUS
    <3> HIDE DEF ends
    <3>2. /\ Places(c) \in Seq(Int \X {TIME_FIRST, PER_PART})
          /\ Len(Places(c)) = 3 + 2 * (k - 1)
          /\ \A i \in 1 .. 3 : Places(c)[i] = ends[i]
          /\ \A i \in 3 + 1 .. 3 + 2 * (k - 1) : Places(c)[i] = between[i - 3]
      <4> DEFINE S == Int \X {TIME_FIRST, PER_PART}
      <4> HIDE DEF S
      <4>1. ends \in Seq(S) /\ between \in Seq(S)
        BY <2>5, <2>6 DEF S
      <4>2. /\ ends \o between \in Seq(S)
            /\ Len(ends \o between) = Len(ends) + Len(between)
            /\ \A i \in 1 .. Len(ends) : (ends \o between)[i] = ends[i]
            /\ \A i \in Len(ends) + 1 .. Len(ends) + Len(between) :
                 (ends \o between)[i] = between[i - Len(ends)]
        BY <4>1, Joined
      <4>3. Len(ends) = 3 /\ Len(between) = 2 * (k - 1)
        BY <2>5, <2>6
      <4> QED
        BY <2>2, <4>2, <4>3 DEF S
    <3>3. 3 + 2 * (k - 1) = 2 * k + 1 /\ 3 + 1 = 4 /\ 1 \in 1 .. 3 /\ 2 \in 1 .. 3 /\ 3 \in 1 .. 3
      BY <1>1
    <3>4. /\ Places(c)[1] = <<k, TIME_FIRST>>
          /\ Places(c)[2] = <<0, TIME_FIRST>>
          /\ Places(c)[3] = <<k, PER_PART>>
      BY <3>1, <3>2, <3>3, Zenon
    <3>5. \A i \in 4 .. 2 * k + 1 : Places(c)[i] = between[i - 3]
      BY <3>2, <3>3, Zenon
    <3> QED
      BY <3>2, <3>3, <3>4, <3>5, Zenon
  <2>11. \A m \in 1 .. 2 * (k - 1) : Places(c)[m + 3] = between[m] /\ m + 3 \in 1 .. 2 * k + 1
    <3> HIDE DEF between
    <3>1. \A i \in 4 .. 2 * k + 1 : Places(c)[i] = between[i - 3]
      BY <2>7
    <3> SUFFICES ASSUME NEW m \in 1 .. 2 * (k - 1)
                 PROVE  Places(c)[m + 3] = between[m] /\ m + 3 \in 1 .. 2 * k + 1
      OBVIOUS
    <3>2. m + 3 \in 4 .. 2 * k + 1 /\ m + 3 - 3 = m /\ m + 3 \in 1 .. 2 * k + 1
      BY <1>1
    <3>3. Places(c)[m + 3] = between[m + 3 - 3]
      BY <3>1, <3>2
    <3> QED
      BY <3>2, <3>3
  <2>8. ASSUME NEW i \in 1 .. 2 * k + 1
        PROVE  Places(c)[i] \in EveryPlace(c)
    <3>1. CASE i \in 1 .. 3
      <4>1. k \in 0 .. k /\ 0 \in 0 .. k /\ k # 0
        BY <1>1, <2>1
      <4>2. TIME_FIRST \in Splits(k) /\ TIME_FIRST \in Splits(0) /\ PER_PART \in Splits(k)
        BY <4>1 DEF Splits
      <4>3. i = 1 \/ i = 2 \/ i = 3
        BY <3>1
      <4> QED
        BY <2>3, <2>7, <4>1, <4>2, <4>3
    <3>2. CASE i \notin 1 .. 3
      <4>1. i \in 4 .. 2 * k + 1 /\ i - 3 \in 1 .. 2 * (k - 1)
        BY <1>1, <3>2
      <4> DEFINE at == (i - 3 + 1) \div 2
                 split == IF (i - 3) % 2 = 1 THEN TIME_FIRST ELSE PER_PART
      <4>2. Places(c)[i] = <<at, split>>
        BY <2>7, <4>1
      <4>3. at \in 1 .. k - 1
        BY <2>4, <4>1
      <4>4. split \in {TIME_FIRST, PER_PART}
        OBVIOUS
      <4> HIDE DEF at, split
      <4>5. at \in 0 .. k /\ split \in Splits(at)
        BY <1>1, <4>3, <4>4 DEF Splits
      <4> QED
        BY <2>3, <4>2, <4>5
    <3> QED
      BY <3>1, <3>2
  <2>9. ASSUME NEW p \in EveryPlace(c)
        PROVE  \E i \in 1 .. 2 * k + 1 : Places(c)[i] = p
    <3>1. PICK at \in 0 .. k : \E split \in Splits(at) : p = <<at, split>>
      BY <2>3
    <3>2. PICK split \in Splits(at) : p = <<at, split>>
      BY <3>1
    <3>3. split \in {TIME_FIRST, PER_PART} /\ (at = 0 => split = TIME_FIRST)
      BY <3>2 DEF Splits
    <3>4. 1 \in 1 .. 2 * k + 1 /\ 2 \in 1 .. 2 * k + 1 /\ 3 \in 1 .. 2 * k + 1
      BY <1>1, <2>1
    <3>5. CASE at = 0
      BY <2>7, <3>2, <3>3, <3>4, <3>5
    <3>6. CASE at = k
      BY <2>7, <3>2, <3>3, <3>4, <3>6
    <3>7. CASE at # 0 /\ at # k /\ split = TIME_FIRST
      <4> DEFINE j == 2 * at - 1
      <4>1. j \in 1 .. 2 * (k - 1) /\ (j + 1) \div 2 = at /\ j % 2 = 1
        BY <1>1, <3>7
      <4> HIDE DEF j
      <4>3. Places(c)[j + 3] = between[j] /\ j + 3 \in 1 .. 2 * k + 1
        <5> HIDE DEF between
        <5> QED
          BY <2>11, <4>1
      <4>4. between[j] = <<at, TIME_FIRST>>
        BY <4>1
      <4> QED
        BY <3>2, <3>7, <4>3, <4>4
    <3>8. CASE at # 0 /\ at # k /\ split = PER_PART
      <4> DEFINE j == 2 * at
      <4>1. j \in 1 .. 2 * (k - 1) /\ (j + 1) \div 2 = at /\ j % 2 # 1
        BY <1>1, <3>8
      <4> HIDE DEF j
      <4>3. Places(c)[j + 3] = between[j] /\ j + 3 \in 1 .. 2 * k + 1
        <5> HIDE DEF between
        <5> QED
          BY <2>11, <4>1
      <4>4. between[j] = <<at, PER_PART>>
        BY <4>1
      <4> QED
        BY <3>2, <3>8, <4>3, <4>4
    <3> QED
      BY <3>3, <3>5, <3>6, <3>7, <3>8
  <2>10. {Places(c)[i] : i \in 1 .. Len(Places(c))} = EveryPlace(c)
    BY <2>7, <2>8, <2>9
  <2> QED
    BY <2>7, <2>10, <1>1
<1> QED
  BY <1>2, <1>3
-----------------------------------------------------------------------------
(* The order a place stands for: the others by rank, the fill rule after the *)
(* first `at` of them.                                                       *)
OrderAt(c, at) ==
  IF Placed(c) = NoRule THEN InRankOrder(c, Others(c))
  ELSE InsertAt(InRankOrder(c, Others(c)), at + 1, Placed(c))

MayTake(c, at) ==
  /\ at \in 0 .. Cardinality(Others(c))
  /\ Placed(c) = NoRule => at = Cardinality(Others(c))

LEMMA RulesCounted ==
  ASSUME NEW c, SoundCall(c)
  PROVE  /\ Cardinality(Others(c)) \in Nat
         /\ Cardinality(c.rules) \in Nat
         /\ Placed(c) = NoRule => Cardinality(c.rules) = Cardinality(Others(c))
         /\ Placed(c) # NoRule => Cardinality(c.rules) = Cardinality(Others(c)) + 1
<1>1. IsFiniteSet(c.rules)
  BY RulesAre
<1>2. IsFiniteSet(Others(c))
  BY RulesAre DEF Ranked
<1>3. Cardinality(Others(c)) \in Nat /\ Cardinality(c.rules) \in Nat
  BY <1>1, <1>2, FS_CardinalityType
<1>4. CASE Placed(c) = NoRule
  <2>1. Others(c) = c.rules
    BY <1>4, PlacedIs
  <2> QED
    BY <1>3, <1>4, <2>1
<1>5. CASE Placed(c) # NoRule
  <2>1. Placed(c) \in c.rules
    BY <1>5, PlacedIs
  <2>2. Cardinality(c.rules \ {Placed(c)}) = Cardinality(c.rules) - 1
    BY <1>1, <2>1, FS_RemoveElement
  <2> QED
    BY <1>3, <1>5, <2>2 DEF Others
<1> QED
  BY <1>4, <1>5

(* Where a rule stands in the order. *)
Stands(c, at, j) ==
  LET others == InRankOrder(c, Others(c))
  IN  IF j <= at THEN OrderAt(c, at)[j] = others[j]
      ELSE IF j = at + 1 THEN OrderAt(c, at)[j] = Placed(c)
      ELSE OrderAt(c, at)[j] = others[j - 1]

IsWith(S, s, e, at, longer) ==
  /\ longer \in Seq(S)
  /\ Len(longer) = Len(s) + 1
  /\ \A j \in 1 .. Len(s) + 1 :
       longer[j] = IF j <= at THEN s[j] ELSE IF j = at + 1 THEN e ELSE s[j - 1]

LEMMA Inserted ==
  ASSUME NEW S, NEW s \in Seq(S), NEW e \in S, NEW at \in 0 .. Len(s),
         NEW pos, pos = at + 1
  PROVE  IsWith(S, s, e, at, InsertAt(s, pos, e))
<1> DEFINE a == SubSeq(s, 1, at)
           b == <<e>>
           d == SubSeq(s, at + 1, Len(s))
<1>0. Len(s) \in Nat /\ at \in Nat /\ pos - 1 = at /\ pos = at + 1
  OBVIOUS
<1>1. a \in Seq(S) /\ Len(a) = at /\ \A j \in 1 .. at : a[j] = s[j]
  BY <1>0
<1>2. b \in Seq(S) /\ Len(b) = 1 /\ b[1] = e
  OBVIOUS
<1>3. d \in Seq(S) /\ Len(d) = Len(s) - at /\ \A j \in 1 .. Len(s) - at : d[j] = s[at + j]
  <2>1. \A j \in at + 1 .. Len(s) : s[j] \in S
    BY <1>0
  <2>2. d \in Seq(S)
    BY <1>0, <2>1
  <2>3. Len(d) = Len(s) - at
    BY <1>0
  <2>4. \A j \in 1 .. Len(s) - at : d[j] = s[at + 1 + j - 1] /\ at + 1 + j - 1 = at + j
    BY <1>0
  <2> HIDE DEF d
  <2>5. \A j \in 1 .. Len(s) - at : d[j] = s[at + j]
    BY <2>4
  <2> QED
    BY <2>2, <2>3, <2>5
<1>4. InsertAt(s, pos, e) = (a \o b) \o d
  <2>1. InsertAt(s, pos, e) = (SubSeq(s, 1, pos - 1) \o <<e>>) \o SubSeq(s, pos, Len(s))
    BY DEF InsertAt
  <2>2. SubSeq(s, 1, pos - 1) = a /\ SubSeq(s, pos, Len(s)) = d
    BY <1>0
  <2> HIDE DEF a, d
  <2> QED
    BY <2>1, <2>2
<1> HIDE DEF a, b, d
<1>5. /\ a \o b \in Seq(S) /\ Len(a \o b) = at + 1
      /\ \A j \in 1 .. at : (a \o b)[j] = s[j]
      /\ (a \o b)[at + 1] = e
  <2>1. /\ a \o b \in Seq(S)
        /\ Len(a \o b) = Len(a) + Len(b)
        /\ \A i \in 1 .. Len(a) : (a \o b)[i] = a[i]
        /\ \A i \in Len(a) + 1 .. Len(a) + Len(b) : (a \o b)[i] = b[i - Len(a)]
    BY <1>1, <1>2, Joined
  <2>2. (a \o b)[at + 1] = b[1]
    BY <1>0, <1>1, <1>2, <2>1
  <2> QED
    BY <1>1, <1>2, <2>1, <2>2
<1> DEFINE ab == a \o b
<1> HIDE DEF ab
<1>6. /\ ab \o d \in Seq(S)
      /\ Len(ab \o d) = Len(ab) + Len(d)
      /\ \A i \in 1 .. Len(ab) : (ab \o d)[i] = ab[i]
      /\ \A i \in Len(ab) + 1 .. Len(ab) + Len(d) : (ab \o d)[i] = d[i - Len(ab)]
  <2>1. ab \in Seq(S)
    BY <1>5 DEF ab
  <2> QED
    BY <1>3, <2>1, Joined
<1>7. Len(ab) = at + 1 /\ Len(ab) + Len(d) = Len(s) + 1
  BY <1>0, <1>3, <1>5 DEF ab
<1>8. ASSUME NEW j \in 1 .. Len(s) + 1
      PROVE  (ab \o d)[j] = IF j <= at THEN s[j] ELSE IF j = at + 1 THEN e ELSE s[j - 1]
  <2>1. CASE j <= at
    <3>1. j \in 1 .. at /\ j \in 1 .. Len(ab)
      BY <2>1, <1>0, <1>7
    <3>2. (ab \o d)[j] = ab[j] /\ ab[j] = s[j]
      BY <3>1, <1>5, <1>6 DEF ab
    <3> QED
      BY <2>1, <3>2
  <2>2. CASE j = at + 1
    <3>1. j \in 1 .. Len(ab) /\ ~(j <= at)
      BY <2>2, <1>0, <1>7
    <3>2. (ab \o d)[j] = ab[j] /\ ab[j] = e
      BY <2>2, <3>1, <1>5, <1>6 DEF ab
    <3> QED
      BY <2>2, <3>1, <3>2
  <2>3. CASE j > at + 1
    <3>1. j \in Len(ab) + 1 .. Len(ab) + Len(d) /\ j - Len(ab) \in 1 .. Len(s) - at
          /\ at + (j - Len(ab)) = j - 1
      BY <2>3, <1>0, <1>7
    <3>2. (ab \o d)[j] = d[j - Len(ab)] /\ d[j - Len(ab)] = s[at + (j - Len(ab))]
      BY <1>3, <1>6, <3>1
    <3> QED
      BY <2>3, <3>1, <3>2, <1>0
  <2>4. j <= at \/ j = at + 1 \/ j > at + 1
    BY <1>0
  <2> QED
    BY <2>1, <2>2, <2>3, <2>4, Zenon
<1> QED
  BY <1>4, <1>6, <1>7, <1>8, Zenon DEF ab, IsWith

LEMMA OrderStands ==
  ASSUME NEW c, SoundCall(c), NEW at, MayTake(c, at)
  PROVE  /\ OrderAt(c, at) \in Seq(c.rules)
         /\ Len(OrderAt(c, at)) = Cardinality(c.rules)
         /\ \A j \in 1 .. Cardinality(c.rules) : Stands(c, at, j)
<1> DEFINE k == Cardinality(Others(c))
           others == InRankOrder(c, Others(c))
<1>1. Sorted(c, Others(c), others)
  BY RulesAre, InRankOrderIsSorted
<1>2. k \in Nat /\ others \in [1 .. k -> Others(c)] /\ Others(c) \in SUBSET c.rules
  BY <1>1, RulesCounted DEF Sorted, Others
<1>3. others \in Seq(c.rules) /\ Len(others) = k
  <2> HIDE DEF k, others
  <2> QED
    BY <1>2
<1>4. at \in 0 .. k /\ (Placed(c) = NoRule => at = k)
  BY DEF MayTake
<1>5. CASE Placed(c) = NoRule
  <2>1. OrderAt(c, at) = others /\ Cardinality(c.rules) = k /\ at = k
    BY <1>4, <1>5, RulesCounted DEF OrderAt
  <2>2. \A j \in 1 .. Cardinality(c.rules) : Stands(c, at, j)
    <3>1. \A j \in 1 .. k : j <= k
      BY <1>2
    <3> QED
      BY <2>1, <3>1 DEF Stands
  <2> QED
    BY <1>3, <2>1, <2>2
<1>6. CASE Placed(c) # NoRule
  <2>1. OrderAt(c, at) = InsertAt(others, at + 1, Placed(c)) /\ Cardinality(c.rules) = k + 1
        /\ Placed(c) \in c.rules
    BY <1>6, RulesCounted, PlacedIs DEF OrderAt
  <2> HIDE DEF others, k
  <2>2. /\ OrderAt(c, at) \in Seq(c.rules)
        /\ Len(OrderAt(c, at)) = k + 1
        /\ \A j \in 1 .. k + 1 :
              OrderAt(c, at)[j]
                = IF j <= at THEN others[j] ELSE IF j = at + 1 THEN Placed(c) ELSE others[j - 1]
    <3>1. at \in 0 .. Len(others)
      BY <1>3, <1>4
    <3> DEFINE e == Placed(c)
    <3> HIDE DEF e
    <3>2. e \in c.rules
      BY <2>1 DEF e
    <3> DEFINE S == c.rules
    <3> HIDE DEF S
    <3>5. others \in Seq(S) /\ e \in S
      BY <1>3, <3>2 DEF S
    <3> DEFINE i == at + 1
    <3> HIDE DEF i
    <3>6. i = at + 1
      BY DEF i
    <3>7. IsWith(S, others, e, at, InsertAt(others, i, e))
      <4> HIDE DEF others
      <4> QED
        BY <3>1, <3>5, <3>6, Inserted, Zenon
    <3>3. /\ InsertAt(others, i, e) \in Seq(S)
          /\ Len(InsertAt(others, i, e)) = Len(others) + 1
          /\ \A j \in 1 .. Len(others) + 1 :
               InsertAt(others, i, e)[j]
                 = IF j <= at THEN others[j] ELSE IF j = at + 1 THEN e ELSE others[j - 1]
      BY <3>7 DEF IsWith
    <3> QED
      <4>1. OrderAt(c, at) = InsertAt(others, i, e) /\ Len(others) = k
        BY <1>3, <2>1 DEF e, i
      <4>2. \A j \in 1 .. k + 1 :
              OrderAt(c, at)[j]
                = IF j <= at THEN others[j] ELSE IF j = at + 1 THEN e ELSE others[j - 1]
        BY <3>3, <4>1
      <4>3. OrderAt(c, at) \in Seq(c.rules) /\ Len(OrderAt(c, at)) = k + 1
        BY <3>3, <4>1 DEF S
      <4> QED
        BY <4>2, <4>3 DEF e
  <2>3. ASSUME NEW j \in 1 .. k + 1
        PROVE  Stands(c, at, j)
    BY <2>2 DEF Stands, others
  <2> QED
    BY <2>1, <2>2, <2>3
<1> QED
  BY <1>5, <1>6
-----------------------------------------------------------------------------
(* The first rules of a sequence. *)
FirstTurns(order, n) == {order[j] : j \in 1 .. n}

LEMMA FirstCounted ==
  ASSUME NEW c, SoundCall(c), NEW n \in 0 .. Cardinality(Others(c))
  PROVE  Cardinality(FirstTurns(InRankOrder(c, Others(c)), n)) = n
<1> DEFINE k == Cardinality(Others(c))
           others == InRankOrder(c, Others(c))
           F == FirstTurns(others, n)
           f == [j \in 1 .. n |-> others[j]]
<1>1. Sorted(c, Others(c), others) /\ Ranked(c, Others(c)) /\ k \in Nat
  BY RulesAre, InRankOrderIsSorted, RulesCounted
<1>2. /\ others \in [1 .. k -> Others(c)]
      /\ \A i, j \in 1 .. k : i < j => c.rank[others[i]] < c.rank[others[j]]
      /\ \A r \in Others(c) : c.rank[r] \in Nat
  BY <1>1 DEF Sorted, Ranked
<1> HIDE DEF k, others
<1>3. n \in Nat /\ 1 .. n \in SUBSET (1 .. k)
  BY <1>1 DEF k
<1>4. \A i, j \in 1 .. n : others[i] = others[j] => i = j
  <2>1. \A i, j \in 1 .. n : i < j => others[i] # others[j]
    BY <1>2, <1>3
  <2> QED
    BY <1>3, <2>1
<1>5. f \in [1 .. n -> F] /\ \A t \in F : \E s \in 1 .. n : f[s] = t
  BY DEF FirstTurns
<1>6. \A i, j \in 1 .. n : f[i] = f[j] => i = j
  BY <1>4
<1>7. f \in Bijection(1 .. n, F)
  <2> HIDE DEF f, F
  <2> QED
    BY <1>5, <1>6 DEF Bijection, Injection, Surjection, IsInjective
<1>8. ExistsBijection(1 .. n, F)
  <2> HIDE DEF f, F
  <2> QED
    BY <1>7 DEF ExistsBijection
<1> QED
  BY <1>3, <1>8, FS_CountingElements DEF others

(* Whether a rule is the next one, of the rules that are left, at a place.   *)
NextOf(c, at, rest, r) ==
  LET gone == Cardinality(Others(c) \ rest)
      fillsTurn == Placed(c) \in rest /\ gone = at
  IN  IF fillsTurn THEN r = Placed(c)
      ELSE /\ r # Placed(c)
           /\ \A q \in rest \ {Placed(c)} : c.rank[r] <= c.rank[q]

(* When the first n rules of an order have run, the next rule is the one     *)
(* after them.                                                               *)
LEMMA NextIs ==
  ASSUME NEW c, SoundCall(c), NEW at, MayTake(c, at), NEW n \in 0 .. Cardinality(c.rules),
         NEW r \in c.rules \ FirstTurns(OrderAt(c, at), n),
         NextOf(c, at, c.rules \ FirstTurns(OrderAt(c, at), n), r)
  PROVE  n < Cardinality(c.rules) /\ r = OrderAt(c, at)[n + 1]
<1> DEFINE k == Cardinality(Others(c))
           total == Cardinality(c.rules)
           others == InRankOrder(c, Others(c))
           order == OrderAt(c, at)
           rest == c.rules \ FirstTurns(order, n)
           m == IF n <= at THEN n ELSE n - 1
<1>1. /\ others \in [1 .. k -> Others(c)]
      /\ \A q \in Others(c) : \E i \in 1 .. k : others[i] = q
      /\ \A i, j \in 1 .. k : i < j => c.rank[others[i]] < c.rank[others[j]]
      /\ \A q \in Others(c) : c.rank[q] \in Nat
  BY RulesAre, InRankOrderIsSorted DEF Sorted, Ranked
<1>2. /\ k \in Nat /\ total \in Nat
      /\ Placed(c) = NoRule => total = k
      /\ Placed(c) # NoRule => total = k + 1
  BY RulesCounted
<1>3. at \in 0 .. k /\ (Placed(c) = NoRule => at = k)
  BY DEF MayTake
<1>4. \A j \in 1 .. total :
        order[j] = IF j <= at THEN others[j] ELSE IF j = at + 1 THEN Placed(c) ELSE others[j - 1]
  BY OrderStands DEF Stands
<1>5. /\ Others(c) = c.rules \ {Placed(c)}
      /\ Placed(c) # NoRule => Placed(c) \in c.rules
      /\ NoRule \notin c.rules
  BY PlacedIs, RulesAre DEF Others
<1>6. NextOf(c, at, rest, r) /\ r \in rest
  OBVIOUS
<1>7. \A i \in 0 .. k : Cardinality(FirstTurns(others, i)) = i
  BY FirstCounted
<1> HIDE DEF k, total, others, order, rest
<1>8. n \in 0 .. total /\ rest = c.rules \ FirstTurns(order, n)
  BY DEF rest, total, order
<1>9. m \in 0 .. k /\ (n > at => Placed(c) # NoRule)
  BY <1>2, <1>3, <1>8
<1>10. FirstTurns(order, n) = FirstTurns(others, m) \cup (IF n > at THEN {Placed(c)} ELSE {})
  <2>1. CASE n <= at
    <3>1. \A j \in 1 .. n : order[j] = others[j]
      BY <1>2, <1>3, <1>4, <1>8, <2>1
    <3> QED
      BY <2>1, <3>1, <1>3, <1>8 DEF FirstTurns
  <2>2. CASE n > at
    <3>1. ASSUME NEW j \in 1 .. n
          PROVE  order[j] \in FirstTurns(others, n - 1) \cup {Placed(c)}
      <4>1. CASE j <= at
        <5>1. order[j] = others[j] /\ j \in 1 .. n - 1
          BY <1>2, <1>3, <1>4, <1>8, <2>2, <4>1
        <5> QED
          BY <5>1 DEF FirstTurns
      <4>2. CASE j = at + 1
        BY <1>2, <1>3, <1>4, <1>8, <2>2, <4>2
      <4>3. CASE j > at + 1
        <5>1. order[j] = others[j - 1] /\ j - 1 \in 1 .. n - 1
          BY <1>2, <1>3, <1>4, <1>8, <2>2, <4>3
        <5> QED
          BY <5>1 DEF FirstTurns
      <4> QED
        BY <1>3, <1>8, <4>1, <4>2, <4>3
    <3>2. \E j \in 1 .. n : order[j] = Placed(c)
      <4>1. at + 1 \in 1 .. n /\ order[at + 1] = Placed(c)
        BY <1>2, <1>3, <1>4, <1>8, <2>2
      <4> QED
        BY <4>1
    <3>3. ASSUME NEW i \in 1 .. n - 1
          PROVE  \E j \in 1 .. n : order[j] = others[i]
      <4>1. CASE i <= at
        <5>1. i \in 1 .. n /\ order[i] = others[i]
          BY <1>2, <1>3, <1>4, <1>8, <2>2, <4>1
        <5> QED
          BY <5>1
      <4>2. CASE i > at
        <5>1. i + 1 \in 1 .. n /\ i + 1 \in 1 .. total /\ ~(i + 1 <= at) /\ i + 1 # at + 1
              /\ i + 1 - 1 = i
          BY <1>2, <1>3, <1>8, <2>2, <4>2
        <5>2. order[i + 1] = others[i + 1 - 1]
          BY <1>4, <5>1
        <5> QED
          BY <5>1, <5>2
      <4> QED
        BY <1>3, <4>1, <4>2
    <3>4. FirstTurns(order, n) = FirstTurns(others, n - 1) \cup {Placed(c)}
      BY <3>1, <3>2, <3>3 DEF FirstTurns
    <3>5. m = n - 1
      BY <1>3, <1>8, <2>2
    <3> QED
      BY <2>2, <3>4, <3>5
  <2> QED
    BY <1>3, <1>8, <2>1, <2>2
<1> HIDE DEF m
<1>11. FirstTurns(others, m) \in SUBSET Others(c)
  BY <1>1, <1>2, <1>9 DEF FirstTurns
<1>12. Others(c) \ rest = FirstTurns(others, m)
  BY <1>5, <1>8, <1>10, <1>11
<1>13. Cardinality(Others(c) \ rest) = m
  BY <1>7, <1>9, <1>12
<1>14. Placed(c) \in rest <=> (Placed(c) # NoRule /\ n <= at)
  BY <1>3, <1>5, <1>8, <1>10, <1>11
<1>15. (Placed(c) \in rest /\ Cardinality(Others(c) \ rest) = at)
         <=> (Placed(c) # NoRule /\ n = at)
  BY <1>3, <1>8, <1>13, <1>14 DEF m
<1>16. CASE Placed(c) # NoRule /\ n = at
  <2>1. r = Placed(c)
    BY <1>6, <1>15, <1>16 DEF NextOf
  <2>2. n < total /\ n + 1 \in 1 .. total /\ ~(n + 1 <= at) /\ n + 1 = at + 1
    BY <1>2, <1>3, <1>16
  <2>3. order[n + 1] = Placed(c)
    BY <1>4, <2>2
  <2> QED
    BY <2>1, <2>2, <2>3 DEF total, order
<1>17. CASE ~(Placed(c) # NoRule /\ n = at)
  <2>1. r # Placed(c) /\ \A q \in rest \ {Placed(c)} : c.rank[r] <= c.rank[q]
    BY <1>6, <1>15, <1>17 DEF NextOf
  <2>2. r \in Others(c)
    BY <1>5, <1>6, <1>8, <2>1
  <2>3. PICK j \in 1 .. k : others[j] = r
    BY <1>1, <2>2
  <2>4. j > m
    <3>1. r \notin FirstTurns(others, m)
      BY <1>6, <1>8, <1>10
    <3>2. j \notin 1 .. m
      BY <2>3, <3>1 DEF FirstTurns
    <3> QED
      BY <1>9, <3>2
  <2>5. m + 1 \in 1 .. k /\ others[m + 1] \in Others(c)
    <3>1. m + 1 \in 1 .. k
      BY <1>2, <1>9, <2>3, <2>4
    <3>2. \A i \in 1 .. k : others[i] \in Others(c)
      BY <1>1
    <3> QED
      BY <3>1, <3>2
  <2>6. others[m + 1] \notin FirstTurns(others, m)
    <3>1. \A i \in 1 .. m : c.rank[others[i]] < c.rank[others[m + 1]]
      <4>1. \A i, u \in 1 .. k : i < u => c.rank[others[i]] < c.rank[others[u]]
        BY <1>1
      <4>2. \A i \in 1 .. m : i \in 1 .. k /\ i < m + 1
        BY <1>2, <1>9
      <4> QED
        BY <2>5, <4>1, <4>2
    <3>2. \A i \in 1 .. m : others[i] \in Others(c)
      BY <1>1, <1>2, <1>9
    <3>3. \A i \in 1 .. m : others[i] # others[m + 1]
      BY <1>1, <2>5, <3>1, <3>2
    <3> QED
      BY <3>3 DEF FirstTurns
  <2>7. others[m + 1] \in rest \ {Placed(c)}
    BY <1>5, <1>8, <1>10, <2>5, <2>6
  <2>8. c.rank[r] <= c.rank[others[m + 1]]
    BY <2>1, <2>7
  <2>9. j = m + 1
    <3> SUFFICES ASSUME j > m + 1 PROVE FALSE
      BY <1>2, <1>9, <2>4
    <3>1. c.rank[others[m + 1]] < c.rank[others[j]]
      BY <1>1, <2>3, <2>5
    <3>2. c.rank[r] \in Nat /\ c.rank[others[m + 1]] \in Nat
      BY <1>1, <2>2, <2>5
    <3> QED
      BY <2>3, <2>8, <3>1, <3>2
  <2>10. r = others[m + 1]
    BY <2>3, <2>9
  <2>11. CASE n <= at
    <3>1. m = n /\ n + 1 \in 1 .. total /\ n + 1 <= at /\ n < total
      <4>1. m = n
        BY <2>11 DEF m
      <4>2. CASE n < at
        BY <1>2, <1>3, <1>8, <4>1, <4>2
      <4>3. CASE n = at
        <5>1. Placed(c) = NoRule /\ at = k
          BY <1>3, <1>17, <4>3
        <5> QED
          BY <1>2, <2>5, <4>1, <4>3, <5>1
      <4> QED
        BY <1>3, <1>8, <2>11, <4>2, <4>3
    <3>2. order[n + 1] = others[n + 1]
      BY <1>4, <3>1
    <3> QED
      BY <2>10, <3>1, <3>2 DEF total, order
  <2>12. CASE n > at
    <3>1. m = n - 1 /\ n + 1 \in 1 .. total /\ ~(n + 1 <= at) /\ n + 1 # at + 1 /\ n < total
          /\ n + 1 - 1 = m + 1
      BY <1>2, <1>3, <1>8, <1>9, <2>5, <2>12 DEF m
    <3>2. order[n + 1] = others[n + 1 - 1]
      BY <1>4, <3>1
    <3> QED
      BY <2>10, <3>1, <3>2 DEF total, order
  <2> QED
    BY <1>3, <1>8, <2>11, <2>12
<1> QED
  BY <1>16, <1>17
-----------------------------------------------------------------------------
(* Where the pricing of one order stands after n of its rules. *)
Progress(c, at, split, n, rest, total, off) ==
  /\ rest = c.rules \ FirstTurns(OrderAt(c, at), n)
  /\ total = AfterTurns(c, OrderAt(c, at), split, n).total
  /\ off = AfterTurns(c, OrderAt(c, at), split, n).off

Underway(c, p, rest, total, off) ==
  \E n \in 0 .. Cardinality(c.rules) : Progress(c, p[1], p[2], n, rest, total, off)

PriceOf(c, p) == OrderTotal(c, OrderAt(c, p[1]), p[2])

LEMMA OrderUnfolds ==
  ASSUME NEW c, SoundCall(c), NEW at, MayTake(c, at), NEW split
  PROVE  Unfolded(c, OrderAt(c, at), split, Cardinality(c.rules))
<1>1. Cardinality(c.rules) \in Nat
  BY RulesCounted
<1>2. OrderAt(c, at) \in Seq(c.rules) /\ Len(OrderAt(c, at)) = Cardinality(c.rules)
  BY OrderStands
<1> DEFINE order == OrderAt(c, at)
<1> HIDE DEF order
<1>3. DOMAIN order = 1 .. Cardinality(c.rules)
  BY <1>2 DEF order
<1>4. Unfolded(c, order, split, Cardinality(c.rules))
  BY <1>1, <1>3, TurnsUnfold
<1> QED
  BY <1>4 DEF order

LEMMA StartsUnderway ==
  ASSUME NEW c, SoundCall(c), NEW p, MayTake(c, p[1])
  PROVE  Underway(c, p, c.rules, Total(c), 0)
<1>1. 0 \in 0 .. Cardinality(c.rules)
  BY RulesCounted
<1>2. FirstTurns(OrderAt(c, p[1]), 0) = {}
  BY DEF FirstTurns
<1>3. AfterTurns(c, OrderAt(c, p[1]), p[2], 0) = Begun(c)
  BY OrderUnfolds DEF Unfolded
<1>4. Progress(c, p[1], p[2], 0, c.rules, Total(c), 0)
  BY <1>2, <1>3 DEF Progress, Begun
<1> QED
  BY <1>1, <1>4 DEF Underway

LEMMA StaysUnderway ==
  ASSUME NEW c, SoundCall(c), NEW p, MayTake(c, p[1]),
         NEW rest, NEW total \in Nat, NEW off \in Nat,
         Underway(c, p, rest, total, off),
         NEW r \in rest, NextOf(c, p[1], rest, r),
         NEW d \in Int, d = Delta(r, c, total, off, p[2])
  PROVE  Underway(c, p, rest \ {r}, total + d, IF d < 0 THEN off - d ELSE off)
<1> DEFINE order == OrderAt(c, p[1])
<1>1. PICK n \in 0 .. Cardinality(c.rules) : Progress(c, p[1], p[2], n, rest, total, off)
  BY DEF Underway
<1>2. /\ rest = c.rules \ FirstTurns(order, n)
      /\ total = AfterTurns(c, order, p[2], n).total
      /\ off = AfterTurns(c, order, p[2], n).off
  BY <1>1 DEF Progress
<1>3. n < Cardinality(c.rules) /\ r = order[n + 1]
  <2> DEFINE at == p[1]
  <2> HIDE DEF at
  <2>1. MayTake(c, at) /\ NextOf(c, at, c.rules \ FirstTurns(OrderAt(c, at), n), r)
        /\ r \in c.rules \ FirstTurns(OrderAt(c, at), n)
    BY <1>2 DEF at
  <2>2. n < Cardinality(c.rules) /\ r = OrderAt(c, at)[n + 1]
    BY <2>1, NextIs
  <2> QED
    BY <2>2 DEF at
<1>4. /\ Cardinality(c.rules) \in Nat /\ n + 1 \in 1 .. Cardinality(c.rules)
      /\ n + 1 \in 0 .. Cardinality(c.rules) /\ n + 1 - 1 = n
  BY <1>3, RulesCounted
<1>5. AfterTurns(c, order, p[2], n + 1)
        = Turn(c, p[2], AfterTurns(c, order, p[2], n), order[n + 1])
  <2>1. \A j \in 1 .. Cardinality(c.rules) :
          AfterTurns(c, order, p[2], j)
            = Turn(c, p[2], AfterTurns(c, order, p[2], j - 1), order[j])
    <3>1. Unfolded(c, order, p[2], Cardinality(c.rules))
      BY OrderUnfolds
    <3> HIDE DEF order
    <3> QED
      BY <3>1 DEF Unfolded
  <2> DEFINE next == n + 1
  <2>2. next \in 1 .. Cardinality(c.rules) /\ next - 1 = n
    BY <1>4
  <2> HIDE DEF order, next
  <2>3. AfterTurns(c, order, p[2], next)
          = Turn(c, p[2], AfterTurns(c, order, p[2], next - 1), order[next])
    BY <2>1, <2>2
  <2>4. AfterTurns(c, order, p[2], next) = Turn(c, p[2], AfterTurns(c, order, p[2], n), order[next])
    BY <2>2, <2>3
  <2> QED
    BY <2>4 DEF next
<1>6. FirstTurns(order, n + 1) = FirstTurns(order, n) \cup {order[n + 1]}
  <2>1. 1 .. n + 1 = (1 .. n) \cup {n + 1}
    BY <1>4
  <2> HIDE DEF order
  <2> QED
    BY <2>1 DEF FirstTurns
<1> DEFINE s == AfterTurns(c, order, p[2], n)
<1>7. AfterTurns(c, order, p[2], n + 1) = [total |-> s.total + d, off |-> s.off + AtLeast(0, -d)]
  <2>1. AfterTurns(c, order, p[2], n + 1) = Turn(c, p[2], s, r)
    BY <1>3, <1>4, <1>5
  <2>2. d = Delta(r, c, s.total, s.off, p[2])
    BY <1>2
  <2> HIDE DEF s
  <2> QED
    BY <2>1, <2>2 DEF Turn
<1>8. off + AtLeast(0, -d) = IF d < 0 THEN off - d ELSE off
  BY DEF AtLeast
<1>9. Progress(c, p[1], p[2], n + 1, rest \ {r}, total + d, IF d < 0 THEN off - d ELSE off)
  <2>1. rest \ {r} = c.rules \ FirstTurns(order, n + 1)
    BY <1>2, <1>3, <1>6
  <2>2. total = s.total /\ off = s.off
    BY <1>2
  <2> HIDE DEF s
  <2>3. /\ AfterTurns(c, order, p[2], n + 1).total = total + d
        /\ AfterTurns(c, order, p[2], n + 1).off = IF d < 0 THEN off - d ELSE off
    BY <1>7, <1>8, <2>2
  <2> QED
    BY <2>1, <2>3 DEF Progress
<1> QED
  BY <1>4, <1>9 DEF Underway

LEMMA EndsPriced ==
  ASSUME NEW c, SoundCall(c), NEW p, MayTake(c, p[1]), NEW total, NEW off,
         Underway(c, p, {}, total, off)
  PROVE  total = PriceOf(c, p)
<1> DEFINE order == OrderAt(c, p[1])
           whole == Cardinality(c.rules)
<1>1. PICK n \in 0 .. whole : Progress(c, p[1], p[2], n, {}, total, off)
  BY DEF Underway
<1>2. {} = c.rules \ FirstTurns(order, n) /\ total = AfterTurns(c, order, p[2], n).total
  BY <1>1 DEF Progress
<1>3. whole \in Nat /\ n \in Nat /\ n <= whole
  BY RulesCounted
<1>4. order \in Seq(c.rules) /\ Len(order) = whole
  BY OrderStands
<1> HIDE DEF order
<1>5. c.rules = FirstTurns(order, n)
  <2>1. FirstTurns(order, n) \in SUBSET c.rules
    BY <1>3, <1>4 DEF FirstTurns
  <2> QED
    BY <1>2, <2>1
<1>6. whole <= n
  <2> DEFINE f == [j \in 1 .. n |-> order[j]]
  <2>1. f \in [1 .. n -> FirstTurns(order, n)] /\ \A t \in FirstTurns(order, n) : \E j \in 1 .. n : f[j] = t
    BY DEF FirstTurns
  <2>2. f \in Surjection(1 .. n, FirstTurns(order, n))
    BY <2>1 DEF Surjection
  <2>3. ExistsSurjection(1 .. n, FirstTurns(order, n))
    BY <2>2 DEF ExistsSurjection
  <2>4. Cardinality(FirstTurns(order, n)) <= n
    BY <1>3, <2>3, FS_SurjCardinalityBound
  <2> QED
    BY <1>5, <2>4
<1>7. n = whole
  BY <1>3, <1>6
<1>8. OrderTotal(c, order, p[2]) = AfterTurns(c, order, p[2], whole).total
  BY OrderUnfolds DEF Unfolded, order
<1> QED
  BY <1>2, <1>7, <1>8 DEF PriceOf, order
-----------------------------------------------------------------------------
(* What the stage has priced so far: nothing yet, or the least total of the  *)
(* orders before this one.                                                   *)
LeastSoFar(c, upTo, b) ==
  IF upTo = 1 THEN b = Unpriced
  ELSE /\ \E j \in 1 .. upTo - 1 : b = PriceOf(c, Places(c)[j])
       /\ \A j \in 1 .. upTo - 1 : /\ PriceOf(c, Places(c)[j]) \in Nat
                                   /\ b <= PriceOf(c, Places(c)[j])

OrderInv ==
  /\ SoundCall(call)
  /\ place \in 1 .. Len(Places(call)) + 1
  /\ place <= Len(Places(call)) => Underway(call, Places(call)[place], left, running, taken)
  /\ LeastSoFar(call, place, best)

(* What the stage has priced when it has tried every place is the reference. *)
LEMMA EachMayBeTaken ==
  ASSUME NEW c, SoundCall(c), NEW i \in 1 .. Len(Places(c))
  PROVE  MayTake(c, Places(c)[i][1])
<1>1. Places(c)[i] \in EveryPlace(c)
  BY PlacesAre
<1>2. Cardinality(Others(c)) \in Nat
  BY RulesCounted
<1>3. CASE Placed(c) = NoRule
  BY <1>1, <1>2, <1>3 DEF EveryPlace, MayTake
<1>4. CASE Placed(c) # NoRule
  <2>1. PICK at \in 0 .. Cardinality(Others(c)) : \E split \in Splits(at) : Places(c)[i] = <<at, split>>
    BY <1>1, <1>4 DEF EveryPlace
  <2>2. Places(c)[i][1] = at
    BY <2>1
  <2> QED
    BY <1>4, <2>2 DEF MayTake
<1> QED
  BY <1>3, <1>4

LEMMA LeastIsTheReference ==
  ASSUME NEW c, SoundCall(c), NEW b, LeastSoFar(c, Len(Places(c)) + 1, b)
  PROVE  b = AdjustedTotal(c)
<1> DEFINE n == Len(Places(c))
           Prices == {PriceOf(c, p) : p \in EveryPlace(c)}
<1>1. n \in Nat /\ n > 0 /\ {Places(c)[i] : i \in 1 .. n} = EveryPlace(c)
  BY PlacesAre
<1>2. /\ \E j \in 1 .. n : b = PriceOf(c, Places(c)[j])
      /\ \A j \in 1 .. n : PriceOf(c, Places(c)[j]) \in Nat /\ b <= PriceOf(c, Places(c)[j])
  BY <1>1 DEF LeastSoFar
<1> HIDE DEF n
<1>3. b \in Prices /\ \A x \in Prices : x \in Nat /\ b <= x
  BY <1>1, <1>2
<1>4. CASE Placed(c) = NoRule
  <2>1. Prices = {OrderTotal(c, InRankOrder(c, Others(c)), TIME_FIRST)}
    <3>1. EveryPlace(c) = {<<Cardinality(Others(c)), TIME_FIRST>>}
      BY <1>4 DEF EveryPlace
    <3>2. PriceOf(c, <<Cardinality(Others(c)), TIME_FIRST>>)
            = OrderTotal(c, InRankOrder(c, Others(c)), TIME_FIRST)
      BY <1>4 DEF PriceOf, OrderAt
    <3> QED
      BY <3>1, <3>2
  <2>2. AdjustedTotal(c) = OrderTotal(c, InRankOrder(c, Others(c)), TIME_FIRST)
    BY <1>4 DEF AdjustedTotal
  <2> HIDE DEF Prices
  <2> QED
    BY <1>3, <2>1, <2>2
<1>5. CASE Placed(c) # NoRule
  <2> DEFINE others == InRankOrder(c, Others(c))
             k == Cardinality(Others(c))
             anyPlace == UNION {{OrderTotal(c, InsertAt(others, at + 1, Placed(c)), split)
                                   : split \in Splits(at)} : at \in 0 .. Len(others)}
  <2>1. AdjustedTotal(c) = Min(anyPlace)
    BY <1>5, Zenon DEF AdjustedTotal, Splits
  <2>2. Len(others) = k
    <3>1. others \in [1 .. k -> Others(c)] /\ k \in Nat
      BY RulesAre, InRankOrderIsSorted, RulesCounted DEF Sorted
    <3> HIDE DEF others, k
    <3> QED
      BY <3>1
  <2>3. \A at, split : PriceOf(c, <<at, split>>)
                         = OrderTotal(c, InsertAt(others, at + 1, Placed(c)), split)
    BY <1>5 DEF PriceOf, OrderAt
  <2>4. EveryPlace(c) = UNION {{<<at, split>> : split \in Splits(at)} : at \in 0 .. k}
    BY <1>5 DEF EveryPlace
  <2>5. anyPlace = Prices
    <3> DEFINE Priced(at, split) == OrderTotal(c, InsertAt(others, at + 1, Placed(c)), split)
    <3>1. anyPlace = UNION {{Priced(at, split) : split \in Splits(at)} : at \in 0 .. k}
      BY <2>2
    <3>2. \A at, split : PriceOf(c, <<at, split>>) = Priced(at, split)
      BY <2>3
    <3> HIDE DEF Priced, anyPlace, k
    <3>3. ASSUME NEW x \in anyPlace
          PROVE  x \in Prices
      <4>1. PICK at \in 0 .. k : \E split \in Splits(at) : x = Priced(at, split)
        BY <3>1
      <4>2. PICK split \in Splits(at) : x = Priced(at, split)
        BY <4>1
      <4>3. <<at, split>> \in EveryPlace(c) /\ x = PriceOf(c, <<at, split>>)
        BY <2>4, <3>2, <4>2
      <4> QED
        BY <4>3, Zenon
    <3>4. ASSUME NEW e \in EveryPlace(c)
          PROVE  PriceOf(c, e) \in anyPlace
      <4>1. PICK at \in 0 .. k : \E split \in Splits(at) : e = <<at, split>>
        BY <2>4
      <4>2. PICK split \in Splits(at) : e = <<at, split>>
        BY <4>1
      <4>3. PriceOf(c, e) = Priced(at, split)
        BY <3>2, <4>2
      <4>4. Priced(at, split) \in {Priced(at, sp) : sp \in Splits(at)}
        BY <4>2
      <4>5. Priced(at, split) \in anyPlace
        BY <3>1, <4>4
      <4> QED
        BY <4>3, <4>5
    <3> QED
      BY <3>3, <3>4, Zenon
  <2> HIDE DEF anyPlace, Prices
  <2>6. Min(anyPlace) = CHOOSE x \in anyPlace : \A y \in anyPlace : x <= y
    BY DEF Min
  <2>7. Min(anyPlace) \in anyPlace /\ \A y \in anyPlace : Min(anyPlace) <= y
    BY <1>3, <2>5, <2>6
  <2>8. Min(anyPlace) \in Nat /\ b \in Nat /\ Min(anyPlace) <= b /\ b <= Min(anyPlace)
    BY <1>3, <2>5, <2>7
  <2> QED
    BY <2>1, <2>8
<1> QED
  BY <1>4, <1>5

(* One order more is priced: the least so far is kept.                       *)
LEMMA LeastIsKept ==
  ASSUME NEW c, SoundCall(c), NEW i \in Nat \ {0}, NEW b \in Nat \cup {Unpriced},
         LeastSoFar(c, i, b), NEW total \in Nat, total = PriceOf(c, Places(c)[i])
  PROVE  LeastSoFar(c, i + 1, IF b = Unpriced \/ total < b THEN total ELSE b)
<1> DEFINE Price(j) == PriceOf(c, Places(c)[j])
           kept == IF b = Unpriced \/ total < b THEN total ELSE b
<1>1. /\ i + 1 # 1 /\ i + 1 - 1 = i
      /\ \A j \in 1 .. i : j = i \/ j \in 1 .. i - 1
      /\ i \in 1 .. i /\ \A j \in 1 .. i - 1 : j \in 1 .. i
  OBVIOUS
<1>2. Price(i) = total
  OBVIOUS
<1>3. CASE i = 1
  <2>1. b = Unpriced
    BY <1>3 DEF LeastSoFar
  <2>2. \A j \in 1 .. i : j = i
    BY <1>3
  <2> HIDE DEF Price
  <2>3. /\ kept = total /\ kept = Price(i)
        /\ \A j \in 1 .. i : Price(j) \in Nat /\ kept <= Price(j)
    BY <1>2, <2>1, <2>2
  <2>4. (\E j \in 1 .. i : kept = Price(j)) /\ \A j \in 1 .. i : Price(j) \in Nat /\ kept <= Price(j)
    BY <1>1, <2>3
  <2> HIDE DEF kept
  <2>5. LeastSoFar(c, i + 1, kept)
    BY <1>1, <2>4 DEF LeastSoFar, Price
  <2> QED
    BY <2>5 DEF kept
<1>4. CASE i # 1
  <2> HIDE DEF Price
  <2>1. /\ \E j \in 1 .. i - 1 : b = Price(j)
        /\ \A j \in 1 .. i - 1 : Price(j) \in Nat /\ b <= Price(j)
    BY <1>4 DEF LeastSoFar, Price
  <2>2. b \in Nat
    BY <2>1
  <2>3. kept \in Nat /\ kept <= total /\ kept <= b /\ (kept = total \/ kept = b)
    BY <2>2 DEF Unpriced
  <2> HIDE DEF kept
  <2>4. \E j \in 1 .. i : kept = Price(j)
    BY <1>1, <1>2, <2>1, <2>3
  <2>5. ASSUME NEW j \in 1 .. i
        PROVE  Price(j) \in Nat /\ kept <= Price(j)
    <3>1. CASE j = i
      BY <1>2, <2>3, <3>1
    <3>2. CASE j # i
      <4>1. Price(j) \in Nat /\ b <= Price(j)
        BY <1>1, <2>1, <3>2
      <4> QED
        BY <2>2, <2>3, <4>1
    <3> QED
      BY <3>1, <3>2
  <2>6. LeastSoFar(c, i + 1, kept)
    BY <1>1, <2>4, <2>5 DEF LeastSoFar, Price
  <2> QED
    BY <2>6 DEF kept
<1> QED
  BY <1>3, <1>4

LEMMA OrdersArePriced == AdjustSpec => []OrderInv
<1>1. AdjustInit => OrderInv
  <2> SUFFICES ASSUME NEW c, SoundCall(c), BeginCall(c) PROVE OrderInv
    BY CallAssumption DEF AdjustInit
  <2>1. /\ call = c /\ place = 1 /\ left = c.rules /\ running = Total(c)
        /\ taken = 0 /\ best = Unpriced
    BY DEF BeginCall
  <2>2. Len(Places(c)) \in Nat /\ Len(Places(c)) > 0 /\ 1 \in 1 .. Len(Places(c))
    BY PlacesAre
  <2>3. Underway(c, Places(c)[1], c.rules, Total(c), 0)
    BY <2>2, EachMayBeTaken, StartsUnderway
  <2>4. LeastSoFar(c, 1, Unpriced)
    BY DEF LeastSoFar
  <2> QED
    BY <2>1, <2>2, <2>3, <2>4 DEF OrderInv
<1>2. OrderInv /\ TypeOK /\ [AdjustNext]_adjustVars => OrderInv'
  <2> SUFFICES ASSUME OrderInv, TypeOK, [AdjustNext]_adjustVars PROVE OrderInv'
    OBVIOUS
  <2>0. /\ SoundCall(call)
        /\ place \in 1 .. Len(Places(call)) + 1
        /\ place <= Len(Places(call)) => Underway(call, Places(call)[place], left, running, taken)
        /\ LeastSoFar(call, place, best)
    BY DEF OrderInv
  <2>00. Len(Places(call)) \in Nat
    BY <2>0, PlacesAre
  <2>1. CASE ApplyRule
    <3> DEFINE p == Places(call)[place]
    <3>1. /\ place <= Len(Places(call))
          /\ call' = call /\ place' = place /\ best' = best
      BY <2>1 DEF ApplyRule
    <3>2. PICK r \in left :
            /\ IsNext(r)
            /\ LET d == Delta(r, call, running, taken, p[2])
               IN  /\ running' = running + d
                   /\ taken' = IF d < 0 THEN taken - d ELSE taken
            /\ left' = left \ {r}
      BY <2>1 DEF ApplyRule
    <3>3. place \in 1 .. Len(Places(call))
      BY <2>0, <2>00, <3>1
    <3>4. NextOf(call, p[1], left, r)
      BY <3>2 DEF IsNext, NextOf
    <3> DEFINE d == Delta(r, call, running, taken, p[2])
    <3>5. d \in Int
      <4>1. r \in AdjustRule /\ running \in Nat /\ taken \in Nat
        BY DEF TypeOK
      <4>2. IsCall(call) /\ SoundAdjustment(r)
        BY <2>0, <4>1, AdjustRuleAssumption DEF SoundCall
      <4> QED
        BY <4>1, <4>2, DeltaKeepsTotal
    <3>6. MayTake(call, p[1]) /\ Underway(call, p, left, running, taken)
      BY <2>0, <3>1, <3>3, EachMayBeTaken
    <3>7. running \in Nat /\ taken \in Nat
      BY DEF TypeOK
    <3>8. /\ running' = running + d
          /\ taken' = IF d < 0 THEN taken - d ELSE taken
          /\ left' = left \ {r}
      BY <3>2
    <3>9. d = Delta(r, call, running, taken, p[2])
      OBVIOUS
    <3> HIDE DEF d, p
    <3>10. Underway(call, p, left \ {r}, running + d, IF d < 0 THEN taken - d ELSE taken)
      BY <2>0, <3>4, <3>5, <3>6, <3>7, <3>9, StaysUnderway
    <3>11. Underway(call, p, left', running', taken')
      BY <3>8, <3>10, Zenon
    <3>12. Underway(call', Places(call')[place'], left', running', taken')
      BY <3>1, <3>11 DEF p
    <3> QED
      BY <2>0, <3>1, <3>12, Zenon DEF OrderInv
  <2>2. CASE NextOrder
    <3>1. /\ place <= Len(Places(call))
          /\ left = {}
          /\ best' = IF best = Unpriced \/ running < best THEN running ELSE best
          /\ place' = place + 1
          /\ left' = call.rules
          /\ running' = Total(call)
          /\ taken' = 0
          /\ call' = call
      BY <2>2 DEF NextOrder
    <3>2. place \in 1 .. Len(Places(call)) /\ place \in Nat \ {0}
          /\ place + 1 \in 1 .. Len(Places(call)) + 1
      BY <2>0, <2>00, <3>1
    <3>3. MayTake(call, Places(call)[place][1])
      BY <2>0, <3>2, EachMayBeTaken
    <3>4. running = PriceOf(call, Places(call)[place])
      BY <2>0, <3>1, <3>3, EndsPriced
    <3>5. LeastSoFar(call, place + 1, best')
      <4>1. running \in Nat /\ best \in Nat \cup {Unpriced}
        BY DEF TypeOK
      <4>2. LeastSoFar(call, place + 1, IF best = Unpriced \/ running < best THEN running ELSE best)
        BY <2>0, <3>2, <3>4, <4>1, LeastIsKept
      <4> QED
        BY <3>1, <4>2, Zenon
    <3> DEFINE next == place + 1
    <3>6. next <= Len(Places(call)) => Underway(call, Places(call)[next], call.rules, Total(call), 0)
      <4> SUFFICES ASSUME next <= Len(Places(call))
                   PROVE  Underway(call, Places(call)[next], call.rules, Total(call), 0)
        OBVIOUS
      <4>1. next \in 1 .. Len(Places(call))
        BY <2>00, <3>2
      <4> HIDE DEF next
      <4>2. MayTake(call, Places(call)[next][1])
        BY <2>0, <4>1, EachMayBeTaken
      <4> QED
        BY <2>0, <4>2, StartsUnderway
    <3>7. place' = next
      BY <3>1
    <3>8. next \in 1 .. Len(Places(call)) + 1 /\ LeastSoFar(call, next, best')
      BY <3>2, <3>5
    <3> HIDE DEF next
    <3> QED
      BY <2>0, <3>1, <3>6, <3>7, <3>8 DEF OrderInv
  <2>3. CASE Returned
    BY <2>0, <2>3 DEF Returned, adjustVars, OrderInv
  <2>4. CASE UNCHANGED adjustVars
    BY <2>0, <2>4 DEF adjustVars, OrderInv
  <2> QED
    BY <2>1, <2>2, <2>3, <2>4 DEF AdjustNext
<1> QED
  BY <1>1, <1>2, TypeCorrect, PTL DEF AdjustSpec

(* "Never a cent more than the cheapest order", whatever the rules of the    *)
(* plan, however many of them there are and whatever the call: what _adjusted *)
(* returns is the least total over every place of the fill rule and both     *)
(* ways of setting a discount against the charge.                            *)
THEOREM CheapestOfAllOrders == AdjustSpec => []CheapestOrder
<1>1. OrderInv => CheapestOrder
  <2> SUFFICES ASSUME OrderInv, Done PROVE best = AdjustedTotal(call)
    BY DEF CheapestOrder
  <2>1. SoundCall(call) /\ place \in 1 .. Len(Places(call)) + 1 /\ LeastSoFar(call, place, best)
    BY DEF OrderInv
  <2>2. Len(Places(call)) \in Nat
    BY <2>1, PlacesAre
  <2>3. place = Len(Places(call)) + 1
    BY <2>1, <2>2 DEF Done
  <2>4. LeastSoFar(call, Len(Places(call)) + 1, best)
    BY <2>1, <2>3
  <2> QED
    BY <2>1, <2>4, LeastIsTheReference
<1> QED
  BY <1>1, OrdersArePriced, PTL
-----------------------------------------------------------------------------
(* A percentage of more is no less, and of at most the whole it grows no     *)
(* faster than what it is taken of, to the cent.                             *)
LEMMA PercentIs ==
  ASSUME NEW amount \in Nat, NEW bp \in Nat, NEW rounding \in {"up", "down"}
  PROVE  /\ PercentOf(amount, bp, rounding) \in Nat
         /\ rounding = "up" =>
              /\ amount * bp <= 10000 * PercentOf(amount, bp, rounding)
              /\ 10000 * PercentOf(amount, bp, rounding) < amount * bp + 10000
         /\ rounding = "down" =>
              /\ 10000 * PercentOf(amount, bp, rounding) <= amount * bp
              /\ amount * bp < 10000 * PercentOf(amount, bp, rounding) + 10000
<1> DEFINE product == amount * bp
           quotient == product \div 10000
           remainder == product % 10000
<1>1. product \in Nat
  OBVIOUS
<1>2. PercentOf(amount, bp, rounding) = quotient + CentFor(remainder, rounding)
  BY DEF PercentOf, BASIS_POINTS_PER_WHOLE
<1> HIDE DEF product
<1>3. /\ quotient \in Nat /\ remainder \in 0 .. 9999
      /\ product = 10000 * quotient + remainder
  BY <1>1
<1> HIDE DEF quotient, remainder
<1>4. CentFor(remainder, rounding) = IF rounding = "up" /\ remainder > 0 THEN 1 ELSE 0
  BY DEF CentFor
<1> DEFINE share == PercentOf(amount, bp, rounding)
<1>5. share = quotient + (IF rounding = "up" /\ remainder > 0 THEN 1 ELSE 0)
  BY <1>2, <1>4
<1> HIDE DEF share
<1>6. /\ share \in Nat
      /\ rounding = "up" => product <= 10000 * share /\ 10000 * share < product + 10000
      /\ rounding = "down" => 10000 * share <= product /\ product < 10000 * share + 10000
  BY <1>3, <1>5
<1> QED
  BY <1>6 DEF share, product

LEMMA PercentGrows ==
  ASSUME NEW a \in Nat, NEW b \in Nat, a <= b, NEW bp \in Nat, NEW rounding \in {"up", "down"}
  PROVE  /\ PercentOf(a, bp, rounding) <= PercentOf(b, bp, rounding)
         /\ bp <= BASIS_POINTS_PER_WHOLE =>
              PercentOf(b, bp, rounding) - PercentOf(a, bp, rounding) <= b - a
<1> DEFINE x == a * bp
           y == b * bp
           P == PercentOf(a, bp, rounding)
           Q == PercentOf(b, bp, rounding)
           more == (b - a) * bp
<1>1. /\ P \in Nat /\ Q \in Nat
      /\ rounding = "up" => x <= 10000 * P /\ 10000 * P < x + 10000
                            /\ y <= 10000 * Q /\ 10000 * Q < y + 10000
      /\ rounding = "down" => 10000 * P <= x /\ x < 10000 * P + 10000
                              /\ 10000 * Q <= y /\ y < 10000 * Q + 10000
  <2> DEFINE Is(m) == /\ PercentOf(m, bp, rounding) \in Nat
                      /\ rounding = "up" =>
                           /\ m * bp <= 10000 * PercentOf(m, bp, rounding)
                           /\ 10000 * PercentOf(m, bp, rounding) < m * bp + 10000
                      /\ rounding = "down" =>
                           /\ 10000 * PercentOf(m, bp, rounding) <= m * bp
                           /\ m * bp < 10000 * PercentOf(m, bp, rounding) + 10000
  <2>1. Is(a)
    BY PercentIs
  <2>2. Is(b)
    BY PercentIs
  <2> QED
    BY <2>1, <2>2
<1>2. more \in Nat /\ x \in Nat /\ y \in Nat
  <2>1. b - a \in Nat
    OBVIOUS
  <2> QED
    BY <2>1
<1>3. y = x + more
  <2>1. b = a + (b - a)
    OBVIOUS
  <2>2. (a + (b - a)) * bp = a * bp + (b - a) * bp
    OBVIOUS
  <2> QED
    BY <2>1, <2>2
<1>4. bp <= 10000 => more <= 10000 * (b - a)
  <2> SUFFICES ASSUME bp <= 10000 PROVE more <= 10000 * (b - a)
    OBVIOUS
  <2>1. b - a \in Nat
    OBVIOUS
  <2>2. (b - a) * bp <= (b - a) * 10000
    BY <2>1, ProductMonotone
  <2> QED
    BY <2>2
<1> HIDE DEF x, y, P, Q, more
<1>5. P <= Q
  BY <1>1, <1>2, <1>3
<1>6. bp <= 10000 => Q - P <= b - a
  BY <1>1, <1>2, <1>3, <1>4
<1> QED
  BY <1>5, <1>6 DEF P, Q, BASIS_POINTS_PER_WHOLE

(* An adjustment moves a larger total at least as far up as a smaller one:   *)
(* it never puts the larger below the smaller.                               *)
LEMMA WindowKeepsOrder ==
  ASSUME NEW q, SoundAdjustment(q), q.type # "fill_level",
         NEW low \in Nat, NEW high \in Nat, low <= high
  PROVE  /\ q.direction = "discount" =>
              low - Magnitude(q, low) <= high - Magnitude(q, high)
         /\ q.direction # "discount" =>
              low + Magnitude(q, low) <= high + Magnitude(q, high)
<1>1. /\ q.amount \in Nat /\ q.rounding \in {"up", "down"}
      /\ (q.direction = "discount" /\ q.kind = "percent")
           => q.amount <= BASIS_POINTS_PER_WHOLE
  BY RuleFields DEF SoundWindow
<1>2. CASE q.kind = "percent"
  <2> DEFINE P == PercentOf(low, q.amount, q.rounding)
             Q == PercentOf(high, q.amount, q.rounding)
  <2>1. Magnitude(q, low) = P /\ Magnitude(q, high) = Q
    BY <1>2 DEF Magnitude
  <2>2. P \in Nat /\ Q \in Nat
    BY <1>1, PercentIsNat
  <2>3. P <= Q /\ (q.amount <= BASIS_POINTS_PER_WHOLE => Q - P <= high - low)
    BY <1>1, PercentGrows
  <2> HIDE DEF P, Q
  <2> QED
    BY <1>1, <1>2, <2>1, <2>2, <2>3
<1>3. CASE q.kind # "percent"
  BY <1>1, <1>3 DEF Magnitude, AtMost, AtLeast
<1> QED
  BY <1>2, <1>3

(* The more has come off before the fill rule, the less is left of each part *)
(* and the less it adds.                                                     *)
LEMMA ShareGrows ==
  ASSUME NEW whole \in Nat \ {0}, NEW part \in 0 .. whole,
         NEW a \in Nat, NEW b \in Nat, a <= b
  PROVE  /\ CeilDiv(a * part, whole) <= CeilDiv(b * part, whole)
         /\ CeilDiv(b * part, whole) - CeilDiv(a * part, whole) <= b - a
         /\ (a * part) \div whole <= (b * part) \div whole
         /\ (b * part) \div whole - (a * part) \div whole <= b - a
<1> DEFINE x == a * part
           y == b * part
           more == (b - a) * part
           p == CeilDiv(x, whole)
           q == CeilDiv(y, whole)
           u == x \div whole
           v == y \div whole
<1>1. /\ x \in Nat /\ y \in Nat /\ more \in Nat /\ b - a \in Nat
      /\ y = x + more
  <2>1. b - a \in Nat /\ b = a + (b - a) /\ part \in Nat
    OBVIOUS
  <2>2. (a + (b - a)) * part = a * part + (b - a) * part
    BY <2>1
  <2> QED
    BY <2>1, <2>2
<1>2. more <= whole * (b - a)
  <2>1. (b - a) * part <= (b - a) * whole
    BY <1>1, ProductMonotone
  <2>2. (b - a) * whole = whole * (b - a)
    BY <1>1
  <2> QED
    BY <2>1, <2>2
<1> HIDE DEF x, y, more
<1>3. /\ p \in Nat /\ x <= whole * p /\ whole * p < x + whole
      /\ q \in Nat /\ y <= whole * q /\ whole * q < y + whole
  BY <1>1, CeilDivision
<1>4. /\ u \in Int /\ whole * u <= x /\ x < whole * u + whole
      /\ v \in Int /\ whole * v <= y /\ y < whole * v + whole
  BY <1>1, Division
<1> HIDE DEF p, q, u, v
<1>5. p <= q
  <2>1. whole * p < whole * q + whole
    BY <1>1, <1>3
  <2>2. whole * q + whole = whole * (q + 1)
    BY <1>3
  <2>3. p < q + 1
    BY <1>3, <2>1, <2>2, Cancel
  <2> QED
    BY <1>3, <2>3
<1>6. u <= v
  <2>1. whole * u < whole * v + whole
    BY <1>1, <1>4
  <2>2. whole * v + whole = whole * (v + 1)
    BY <1>4
  <2>3. u < v + 1
    BY <1>4, <2>1, <2>2, Cancel
  <2> QED
    BY <1>4, <2>3
<1>7. q - p <= b - a
  <2>1. whole * q < whole * p + whole * (b - a) + whole
    BY <1>1, <1>2, <1>3
  <2>2. whole * p + whole * (b - a) + whole = whole * (p + (b - a) + 1)
    BY <1>1, <1>3
  <2>3. q < p + (b - a) + 1
    BY <1>1, <1>3, <2>1, <2>2, Cancel
  <2> QED
    BY <1>1, <1>3, <2>3
<1>8. v - u <= b - a
  <2>1. whole * v < whole * u + whole * (b - a) + whole
    BY <1>1, <1>2, <1>4
  <2>2. whole * u + whole * (b - a) + whole = whole * (u + (b - a) + 1)
    BY <1>1, <1>4
  <2>3. v < u + (b - a) + 1
    BY <1>1, <1>4, <2>1, <2>2, Cancel
  <2> QED
    BY <1>1, <1>4, <2>3
<1> QED
  BY <1>5, <1>6, <1>7, <1>8 DEF x, y, p, q, u, v

TimeOff(r, c, off) ==
  LET whole == c.time + c.extras
      spread == AtMost(off, whole)
  IN  IF RaisesExtra(r) /\ ~RaisesTime(r, c) THEN spread - CeilDiv(spread * c.extras, whole)
      ELSE IF RaisesTime(r, c) THEN CeilDiv(spread * c.time, whole)
      ELSE (spread * c.time) \div whole

LEMMA PerPartIs ==
  ASSUME NEW r, NEW c, IsCall(c), NEW off \in Nat, c.time # 0, c.extras # 0
  PROVE  LET spread == AtMost(off, c.time + c.extras)
         IN  PerPart(r, c, off) = [time |-> c.time - TimeOff(r, c, off),
                                   extra |-> c.extras - (spread - TimeOff(r, c, off))]
<1> DEFINE whole == c.time + c.extras
           spread == AtMost(off, whole)
           extraCeil == CeilDiv(spread * c.extras, whole)
           timeCeil == CeilDiv(spread * c.time, whole)
           timeFloor == (spread * c.time) \div whole
<1>1. c.time \in Nat /\ c.extras \in Nat
  BY DEF IsCall
<1>2. whole \in Nat \ {0} /\ c.time \in 0 .. whole /\ c.extras \in 0 .. whole
  BY <1>1
<1>3. spread \in 0 .. whole
  BY <1>1 DEF AtMost
<1>4. /\ spread * c.extras \in Nat /\ spread * c.time \in Nat
      /\ extraCeil \in Int /\ timeCeil \in Int /\ timeFloor \in Int
  <2>1. spread * c.extras \in Nat /\ spread * c.time \in Nat
    BY <1>2, <1>3
  <2> QED
    BY <2>1, <1>2, CeilDivision, Division
<1>5. extraCeil \in 0 .. c.extras /\ timeCeil \in 0 .. c.time /\ timeFloor \in 0 .. c.time
  BY <1>2, <1>3, <1>4, Share
<1>6. \A x \in Nat : \A y \in 0 .. x : AtMost(x, y) = y
  BY DEF AtMost
<1>7. /\ AtMost(c.extras, extraCeil) = extraCeil
      /\ AtMost(c.time, timeCeil) = timeCeil
      /\ AtMost(c.time, timeFloor) = timeFloor
  BY <1>1, <1>5, <1>6
<1> QED
  BY <1>7 DEF PerPart, TimeOff

LEMMA LeftShrinks ==
  ASSUME NEW r, NEW c, IsCall(c), NEW a \in Nat, NEW b \in Nat, a <= b, NEW split
  PROVE  /\ LeftAfter(r, c, b, split).time <= LeftAfter(r, c, a, split).time
         /\ LeftAfter(r, c, b, split).extra <= LeftAfter(r, c, a, split).extra
<1>1. c.time \in Nat /\ c.extras \in Nat
  BY DEF IsCall
<1>2. CASE split = TIME_FIRST \/ c.time = 0 \/ c.extras = 0
  BY <1>1, <1>2 DEF LeftAfter, TimeFirst, AtMost, AtLeast
<1>3. CASE ~(split = TIME_FIRST \/ c.time = 0 \/ c.extras = 0)
  <2> DEFINE whole == c.time + c.extras
             low == AtMost(a, whole)
             high == AtMost(b, whole)
             s == TimeOff(r, c, a)
             t == TimeOff(r, c, b)
             e == CeilDiv(low * c.extras, whole)
             f == CeilDiv(high * c.extras, whole)
             u == CeilDiv(low * c.time, whole)
             v == CeilDiv(high * c.time, whole)
             g == (low * c.time) \div whole
             h == (high * c.time) \div whole
  <2>1. whole \in Nat \ {0} /\ c.time \in 0 .. whole /\ c.extras \in 0 .. whole
    BY <1>1, <1>3
  <2>2. low \in 0 .. whole /\ high \in 0 .. whole /\ low <= high
    BY <1>1 DEF AtMost
  <2>3. /\ s = IF RaisesExtra(r) /\ ~RaisesTime(r, c) THEN low - e
               ELSE IF RaisesTime(r, c) THEN u ELSE g
        /\ t = IF RaisesExtra(r) /\ ~RaisesTime(r, c) THEN high - f
               ELSE IF RaisesTime(r, c) THEN v ELSE h
    BY DEF TimeOff
  <2>4. /\ LeftAfter(r, c, a, split) = [time |-> c.time - s, extra |-> c.extras - (low - s)]
        /\ LeftAfter(r, c, b, split) = [time |-> c.time - t, extra |-> c.extras - (high - t)]
    BY <1>3, PerPartIs DEF LeftAfter
  <2> HIDE DEF s, t
  <2>5. low \in Nat /\ high \in Nat
    BY <2>2
  <2> HIDE DEF whole, low, high
  <2>6. /\ e <= f /\ f - e <= high - low
        /\ u <= v /\ v - u <= high - low
        /\ g <= h /\ h - g <= high - low
    BY <2>1, <2>2, <2>5, ShareGrows
  <2>7. /\ low * c.extras \in Nat /\ high * c.extras \in Nat
        /\ low * c.time \in Nat /\ high * c.time \in Nat
    BY <1>1, <2>5
  <2>8. e \in Int /\ f \in Int /\ u \in Int /\ v \in Int /\ g \in Int /\ h \in Int
    <3>1. \A n \in Nat : CeilDiv(n, whole) \in Int /\ n \div whole \in Int
      BY <2>1, CeilDivision, Division
    <3> QED
      BY <2>7, <3>1
  <2> HIDE DEF e, f, u, v, g, h
  <2>9. s \in Int /\ t \in Int /\ s <= t /\ t - s <= high - low
    BY <2>3, <2>5, <2>6, <2>8
  <2> QED
    BY <1>1, <2>4, <2>5, <2>9
<1> QED
  BY <1>2, <1>3

LEMMA RaiseShrinks ==
  ASSUME NEW r, SoundFill(r), NEW c, IsCall(c), NEW a \in Nat, NEW b \in Nat, a <= b, NEW split
  PROVE  Raise(r, c, b, split) <= Raise(r, c, a, split)
<1> DEFINE more == LeftAfter(r, c, a, split)
           less == LeftAfter(r, c, b, split)
<1>0. more.time \in Nat /\ more.extra \in Nat /\ less.time \in Nat /\ less.extra \in Nat
  <2>1. LeftIsSound(r, c, a, split) /\ LeftIsSound(r, c, b, split)
    BY LeftAfterIsSound
  <2>2. c.time \in Nat /\ c.extras \in Nat
    BY DEF IsCall
  <2> QED
    BY <2>1, <2>2 DEF LeftIsSound
<1>1. less.time <= more.time /\ less.extra <= more.extra
  BY LeftShrinks
<1>2. r.percent_bp \in Nat /\ r.rounding \in {"up", "down"}
  <2>1. r.percent_bp \in 1 .. BASIS_POINTS_PER_WHOLE /\ r.rounding \in {"up", "down"}
    BY DEF SoundFill
  <2> QED
    BY <2>1
<1> DEFINE P(x) == PercentOf(x, r.percent_bp, r.rounding)
<1>3. /\ Raise(r, c, a, split) = (IF RaisesTime(r, c) THEN P(more.time) ELSE 0)
                                 + (IF RaisesExtra(r) /\ more.extra # 0 THEN P(more.extra) ELSE 0)
      /\ Raise(r, c, b, split) = (IF RaisesTime(r, c) THEN P(less.time) ELSE 0)
                                 + (IF RaisesExtra(r) /\ less.extra # 0 THEN P(less.extra) ELSE 0)
  BY DEF Raise
<1> HIDE DEF more, less
<1>4. /\ P(more.time) \in Nat /\ P(more.extra) \in Nat
      /\ P(less.time) \in Nat /\ P(less.extra) \in Nat
  BY <1>0, <1>2, PercentIsNat
<1>5. P(less.time) <= P(more.time) /\ P(less.extra) <= P(more.extra)
  BY <1>0, <1>1, <1>2, PercentGrows
<1> HIDE DEF P
<1>6. less.extra # 0 => more.extra # 0
  BY <1>0, <1>1
<1> QED
  BY <1>3, <1>4, <1>5, <1>6
-----------------------------------------------------------------------------
(* Two orders that differ by one rule run side by side: whatever holds of    *)
(* their states at the start and is kept by a turn of each, or by the turn   *)
(* of the one rule more, holds at the end.                                   *)
State == [total : Nat, off : Nat]

Shorter(order, fewer, len, p) ==
  /\ DOMAIN order = 1 .. len
  /\ DOMAIN fewer = 1 .. len - 1
  /\ \A j \in 1 .. len - 1 : fewer[j] = IF j < p THEN order[j] ELSE order[j + 1]

KeptAbreast(c, cc, order, split, splitt, len, p, R) ==
  \A n \in 0 .. len - 1, s \in State, t \in State :
    <<n, s, t>> \in R =>
      IF n + 1 = p THEN <<n + 1, Turn(c, split, s, order[n + 1]), t>> \in R
      ELSE <<n + 1, Turn(c, split, s, order[n + 1]), Turn(cc, splitt, t, order[n + 1])>> \in R

LEMMA Abreast ==
  ASSUME NEW c, NEW cc, NEW split, NEW splitt, NEW order, NEW fewer,
         NEW len \in Nat, NEW p \in 1 .. len, Shorter(order, fewer, len, p),
         NEW R \in SUBSET (Nat \X State \X State),
         <<0, Begun(c), Begun(cc)>> \in R,
         KeptAbreast(c, cc, order, split, splitt, len, p, R)
  PROVE  <<len, AfterTurns(c, order, split, len), AfterTurns(cc, fewer, splitt, len - 1)>> \in R
<1> DEFINE A(n) == AfterTurns(c, order, split, n)
           B(n) == AfterTurns(cc, fewer, splitt, n)
           m(n) == IF n < p THEN n ELSE n - 1
           N == {n \in Nat : n <= len => <<n, A(n), B(m(n))>> \in R}
<1>0. len - 1 \in Nat /\ p \in Nat /\ p >= 1 /\ p <= len
  OBVIOUS
<1>1. /\ A(0) = Begun(c)
      /\ \A n \in 1 .. len : A(n) = Turn(c, split, A(n - 1), order[n])
  <2>1. DOMAIN order = 1 .. len
    BY DEF Shorter
  <2>2. Unfolded(c, order, split, len)
    BY <2>1, TurnsUnfold
  <2> QED
    BY <2>2 DEF Unfolded
<1>2. /\ B(0) = Begun(cc)
      /\ \A n \in 1 .. len - 1 : B(n) = Turn(cc, splitt, B(n - 1), fewer[n])
  <2> DEFINE l == len - 1
  <2>1. DOMAIN fewer = 1 .. l /\ l \in Nat
    BY <1>0 DEF Shorter
  <2> HIDE DEF l
  <2>2. Unfolded(cc, fewer, splitt, l)
    BY <2>1, TurnsUnfold
  <2> QED
    BY <2>2 DEF l, Unfolded
<1>3. \A j \in 1 .. len - 1 : fewer[j] = IF j < p THEN order[j] ELSE order[j + 1]
  BY DEF Shorter
<1> HIDE DEF A, B
<1>4. 0 \in N
  <2>1. m(0) = 0
    BY <1>0
  <2> QED
    BY <1>1, <1>2, <2>1
<1>5. ASSUME NEW n \in N
      PROVE  n + 1 \in N
  <2> SUFFICES ASSUME n + 1 <= len
               PROVE  <<n + 1, A(n + 1), B(m(n + 1))>> \in R
    OBVIOUS
  <2>1. n \in Nat /\ n \in 0 .. len - 1 /\ n + 1 \in 1 .. len /\ n + 1 - 1 = n /\ n <= len
    OBVIOUS
  <2>2. <<n, A(n), B(m(n))>> \in R
    BY <2>1
  <2>3. A(n) \in State /\ B(m(n)) \in State
    BY <2>2
  <2>4. A(n + 1) = Turn(c, split, A(n), order[n + 1])
    <3> DEFINE next == n + 1
    <3>1. next \in 1 .. len /\ next - 1 = n
      BY <2>1
    <3> HIDE DEF next
    <3>2. A(next) = Turn(c, split, A(next - 1), order[next])
      BY <1>1, <3>1
    <3>3. A(next) = Turn(c, split, A(n), order[next])
      BY <3>1, <3>2
    <3> QED
      BY <3>3 DEF next
  <2>5. IF n + 1 = p THEN <<n + 1, Turn(c, split, A(n), order[n + 1]), B(m(n))>> \in R
        ELSE <<n + 1, Turn(c, split, A(n), order[n + 1]),
               Turn(cc, splitt, B(m(n)), order[n + 1])>> \in R
    BY <2>1, <2>2, <2>3 DEF KeptAbreast
  <2>6. CASE n + 1 = p
    <3>1. m(n + 1) = m(n)
      BY <1>0, <2>1, <2>6
    <3> HIDE DEF m
    <3> QED
      BY <2>4, <2>5, <2>6, <3>1
  <2>7. CASE n + 1 # p
    <3> DEFINE i == m(n + 1)
    <3>1. i \in 1 .. len - 1 /\ i - 1 = m(n)
          /\ (i < p => i = n + 1) /\ (~(i < p) => i + 1 = n + 1)
      BY <1>0, <2>1, <2>7
    <3>2. m(n + 1) = i
      OBVIOUS
    <3> HIDE DEF i, m
    <3>3. fewer[i] = order[n + 1]
      BY <1>3, <3>1
    <3>4. B(i) = Turn(cc, splitt, B(i - 1), fewer[i])
      BY <1>2, <3>1
    <3>5. B(i) = Turn(cc, splitt, B(m(n)), order[n + 1])
      BY <3>1, <3>3, <3>4
    <3> QED
      BY <2>4, <2>5, <2>7, <3>2, <3>5
  <2> QED
    BY <2>6, <2>7
<1>6. N = Nat
  <2> HIDE DEF N
  <2>1. N \in SUBSET Nat
    BY DEF N
  <2> QED
    BY <1>4, <1>5, <2>1, Induction
<1>7. <<len, A(len), B(m(len))>> \in R
  BY <1>6
<1>8. m(len) = len - 1
  BY <1>0
<1> QED
  BY <1>7, <1>8 DEF A, B

EndAbreast(c, cc, split, splitt, order, fewer, len, R) ==
  \E s, t : /\ <<len, s, t>> \in R
           /\ OrderTotal(c, order, split) = s.total
           /\ OrderTotal(cc, fewer, splitt) = t.total

LEMMA EndsAbreast ==
  ASSUME NEW c, NEW cc, NEW split, NEW splitt, NEW order, NEW fewer,
         NEW len \in Nat, NEW p \in 1 .. len, Shorter(order, fewer, len, p),
         NEW R \in SUBSET (Nat \X State \X State),
         <<0, Begun(c), Begun(cc)>> \in R,
         KeptAbreast(c, cc, order, split, splitt, len, p, R)
  PROVE  EndAbreast(c, cc, split, splitt, order, fewer, len, R)
<1> DEFINE l == len - 1
<1>1. DOMAIN order = 1 .. len /\ DOMAIN fewer = 1 .. l /\ l \in Nat
  BY DEF Shorter
<1>2. <<len, AfterTurns(c, order, split, len), AfterTurns(cc, fewer, splitt, l)>> \in R
  BY Abreast
<1> HIDE DEF l
<1>3. Unfolded(c, order, split, len) /\ Unfolded(cc, fewer, splitt, l)
  BY <1>1, TurnsUnfold
<1>4. /\ OrderTotal(c, order, split) = AfterTurns(c, order, split, len).total
      /\ OrderTotal(cc, fewer, splitt) = AfterTurns(cc, fewer, splitt, l).total
  BY <1>3 DEF Unfolded
<1> QED
  BY <1>2, <1>4, Zenon DEF EndAbreast

(* What is said of a call without one of its rules.                          *)
LEMMA WithoutIs ==
  ASSUME NEW c, SoundCall(c), NEW r \in c.rules
  PROVE  /\ SoundCall(Without(c, r))
         /\ Without(c, r).rules = c.rules \ {r}
         /\ Without(c, r).qualified = c.qualified \ {r}
         /\ Without(c, r).rank = c.rank
         /\ Without(c, r).time = c.time
         /\ Without(c, r).extras = c.extras
         /\ Without(c, r).by_special = c.by_special
<1> DEFINE w == Without(c, r)
<1>1. IsCall(c)
  BY DEF SoundCall
<1>2. w = [c EXCEPT !.rules = c.rules \ {r}, !.qualified = c.qualified \ {r}]
  BY DEF Without
<1>3. /\ IsCall(w)
      /\ w.rules = c.rules \ {r} /\ w.qualified = c.qualified \ {r} /\ w.rank = c.rank
      /\ w.time = c.time /\ w.extras = c.extras /\ w.by_special = c.by_special
  BY <1>1, <1>2 DEF IsCall
<1> HIDE DEF w
<1>4. IsFiniteSet(w.rules)
  BY <1>3, FS_RemoveElement DEF SoundCall
<1>5. \A q, x \in w.rules : w.rank[q] = w.rank[x] => q = x
  BY <1>3 DEF SoundCall
<1>55. \A q \in w.rules : SoundAdjustment(q) /\ w.rank[q] \in Nat
  BY <1>3 DEF SoundCall
<1>6. \A q, x \in Fills(w) : q = x
  <2>1. Fills(w) \in SUBSET Fills(c)
    BY <1>3 DEF Fills
  <2> QED
    BY <2>1 DEF SoundCall
<1>7. SoundCall(w)
  BY <1>3, <1>4, <1>5, <1>55, <1>6 DEF SoundCall
<1> QED
  BY <1>3, <1>7 DEF w

LEMMA WithoutMoves ==
  ASSUME NEW c, SoundCall(c), NEW r \in c.rules, NEW q, q # r,
         NEW total, NEW off, NEW split
  PROVE  Delta(q, Without(c, r), total, off, split) = Delta(q, c, total, off, split)
<1> DEFINE w == Without(c, r)
<1>1. /\ w.qualified = c.qualified \ {r}
      /\ w.time = c.time /\ w.extras = c.extras /\ w.by_special = c.by_special
  BY WithoutIs
<1> HIDE DEF w
<1>2. RaisesTime(q, w) = RaisesTime(q, c)
  BY <1>1 DEF RaisesTime
<1>3. LeftAfter(q, w, off, split) = LeftAfter(q, c, off, split)
  BY <1>1, <1>2 DEF LeftAfter, TimeFirst, PerPart
<1>4. Raise(q, w, off, split) = Raise(q, c, off, split)
  BY <1>2, <1>3 DEF Raise
<1>5. q \in w.qualified <=> q \in c.qualified
  BY <1>1
<1> QED
  BY <1>4, <1>5 DEF Delta, w

(* The order by rank is one order, and without a rule it is the same order   *)
(* without it.                                                               *)
LEMMA SortedOnce ==
  ASSUME NEW c, NEW rules, Ranked(c, rules),
         NEW a, NEW b, Sorted(c, rules, a), Sorted(c, rules, b)
  PROVE  a = b
<1> DEFINE k == Cardinality(rules)
           T == {i \in Nat : i \in 1 .. k /\ a[i] # b[i]}
<1>1. /\ a \in [1 .. k -> rules] /\ b \in [1 .. k -> rules]
      /\ \A r \in rules : \E i \in 1 .. k : a[i] = r
      /\ \A r \in rules : \E i \in 1 .. k : b[i] = r
      /\ \A i, j \in 1 .. k : i < j => c.rank[a[i]] < c.rank[a[j]]
      /\ \A i, j \in 1 .. k : i < j => c.rank[b[i]] < c.rank[b[j]]
      /\ \A r \in rules : c.rank[r] \in Nat
  BY DEF Sorted, Ranked
<1>0. k \in Nat
  BY FS_CardinalityType DEF Ranked
<1> HIDE DEF k
<1>2. T = {}
  <2> SUFFICES ASSUME T # {} PROVE FALSE
    OBVIOUS
  <2>1. PICK i \in T : \A j \in T : i <= j
    BY LeastNat
  <2>2. /\ i \in 1 .. k /\ a[i] # b[i]
        /\ \A j \in 1 .. k : j < i => a[j] = b[j]
    <3>1. \A j \in 1 .. k : j \in Nat
      OBVIOUS
    <3> QED
      BY <2>1, <3>1
  <2>3. PICK j \in 1 .. k : b[j] = a[i]
    BY <1>1, <2>2
  <2>4. PICK u \in 1 .. k : a[u] = b[i]
    BY <1>1, <2>2
  <2>5. c.rank[a[i]] \in Nat /\ c.rank[b[i]] \in Nat
    BY <1>1, <2>2
  <2>6. j > i
    <3>1. j # i
      BY <2>2, <2>3
    <3>2. ~(j < i)
      <4> SUFFICES ASSUME j < i PROVE FALSE
        OBVIOUS
      <4>1. a[j] = a[i]
        BY <2>2, <2>3
      <4>2. c.rank[a[j]] < c.rank[a[i]]
        BY <1>1, <2>2
      <4> QED
        BY <2>5, <4>1, <4>2
    <3> QED
      BY <2>2, <3>1, <3>2
  <2>7. u > i
    <3>1. u # i
      BY <2>2, <2>4
    <3>2. ~(u < i)
      <4> SUFFICES ASSUME u < i PROVE FALSE
        OBVIOUS
      <4>1. b[u] = b[i]
        BY <2>2, <2>4
      <4>2. c.rank[b[u]] < c.rank[b[i]]
        BY <1>1, <2>2
      <4> QED
        BY <2>5, <4>1, <4>2
    <3> QED
      BY <2>2, <3>1, <3>2
  <2>8. c.rank[b[i]] < c.rank[a[i]]
    BY <1>1, <2>2, <2>3, <2>6
  <2>9. c.rank[a[i]] < c.rank[b[i]]
    BY <1>1, <2>2, <2>4, <2>7
  <2> QED
    BY <2>5, <2>8, <2>9
<1>3. \A i \in 1 .. k : a[i] = b[i]
  BY <1>2
<1>4. a = [i \in 1 .. k |-> a[i]] /\ b = [i \in 1 .. k |-> b[i]]
  BY <1>1
<1>5. [i \in 1 .. k |-> a[i]] = [i \in 1 .. k |-> b[i]]
  BY <1>3
<1> HIDE DEF T
<1> QED
  BY <1>4, <1>5, Zenon

LEMMA SortedShorter ==
  ASSUME NEW c, NEW rules, Ranked(c, rules), NEW r \in rules
  PROVE  \E p \in 1 .. Cardinality(rules) :
           /\ InRankOrder(c, rules)[p] = r
           /\ \A j \in 1 .. Cardinality(rules) : InRankOrder(c, rules)[j] = r => j = p
           /\ Shorter(InRankOrder(c, rules), InRankOrder(c, rules \ {r}), Cardinality(rules), p)
<1> DEFINE k == Cardinality(rules)
           order == InRankOrder(c, rules)
           others == rules \ {r}
<1>1. /\ order \in [1 .. k -> rules]
      /\ \A q \in rules : \E i \in 1 .. k : order[i] = q
      /\ \A i, j \in 1 .. k : i < j => c.rank[order[i]] < c.rank[order[j]]
      /\ \A q \in rules : c.rank[q] \in Nat
  BY InRankOrderIsSorted DEF Sorted, Ranked
<1>2. /\ k \in Nat /\ Cardinality(others) = k - 1 /\ IsFiniteSet(others)
  <2>1. IsFiniteSet(rules)
    BY DEF Ranked
  <2>2. k \in Nat /\ IsFiniteSet(others)
    BY <2>1, FS_CardinalityType, FS_RemoveElement
  <2>3. Cardinality(others) = k - 1
    BY <2>1, FS_RemoveElement
  <2> QED
    BY <2>2, <2>3
<1>3. Ranked(c, others)
  BY <1>2 DEF Ranked
<1> HIDE DEF k, order, others
<1>4. PICK p \in 1 .. k : order[p] = r
  BY <1>1
<1>5. \A i, j \in 1 .. k : order[i] = order[j] => i = j
  <2>1. \A i \in 1 .. k : c.rank[order[i]] \in Nat
    BY <1>1
  <2>2. \A i, j \in 1 .. k : i < j => order[i] # order[j]
    BY <1>1, <2>1
  <2> QED
    BY <1>2, <2>2
<1> DEFINE at(j) == IF j < p THEN j ELSE j + 1
           fewer == [j \in 1 .. k - 1 |-> order[at(j)]]
<1>6. \A j \in 1 .. k - 1 : at(j) \in 1 .. k /\ at(j) # p
  BY <1>2
<1>7. \A i, j \in 1 .. k - 1 : i < j => at(i) < at(j)
  BY <1>2
<1>8. \A i \in 1 .. k : i # p => \E j \in 1 .. k - 1 : at(j) = i
  <2> SUFFICES ASSUME NEW i \in 1 .. k, i # p PROVE \E j \in 1 .. k - 1 : at(j) = i
    OBVIOUS
  <2>1. CASE i < p
    <3>1. i \in 1 .. k - 1 /\ at(i) = i
      BY <1>2, <2>1
    <3> QED
      BY <3>1
  <2>2. CASE i > p
    <3>1. i - 1 \in 1 .. k - 1 /\ at(i - 1) = i
      BY <1>2, <2>2
    <3> QED
      BY <3>1
  <2> QED
    BY <1>2, <2>1, <2>2
<1> HIDE DEF at
<1>9. Sorted(c, others, fewer)
  <2>1. \A j \in 1 .. k - 1 : order[at(j)] \in others
    BY <1>1, <1>4, <1>5, <1>6 DEF others
  <2>2. \A q \in others : \E j \in 1 .. k - 1 : fewer[j] = q
    <3> SUFFICES ASSUME NEW q \in others PROVE \E j \in 1 .. k - 1 : fewer[j] = q
      OBVIOUS
    <3>1. PICK i \in 1 .. k : order[i] = q
      BY <1>1 DEF others
    <3>2. i # p
      BY <1>4, <3>1 DEF others
    <3>3. PICK j \in 1 .. k - 1 : at(j) = i
      BY <1>8, <3>2
    <3> QED
      BY <3>1, <3>3
  <2>3. ASSUME NEW i \in 1 .. k - 1, NEW j \in 1 .. k - 1, i < j
        PROVE  c.rank[fewer[i]] < c.rank[fewer[j]]
    <3>1. at(i) \in 1 .. k /\ at(j) \in 1 .. k /\ at(i) < at(j)
      BY <1>6, <1>7, <2>3
    <3>2. c.rank[order[at(i)]] < c.rank[order[at(j)]]
      BY <1>1, <3>1
    <3> QED
      BY <3>2
  <2>4. fewer \in [1 .. k - 1 -> others]
    BY <2>1
  <2> HIDE DEF fewer
  <2> QED
    BY <1>2, <2>2, <2>3, <2>4 DEF Sorted
<1>10. InRankOrder(c, others) = fewer
  BY <1>3, <1>9, InRankOrderIsSorted, SortedOnce
<1>11. Shorter(order, fewer, k, p)
  BY <1>1 DEF Shorter, at
<1>12. \A j \in 1 .. k : order[j] = r => j = p
  BY <1>4, <1>5
<1> QED
  BY <1>4, <1>10, <1>11, <1>12 DEF k, order, others
-----------------------------------------------------------------------------
(* Every order a call may take is priced at a whole number of minor units,   *)
(* and the reference is the least of those prices.                           *)
LEMMA TurnStays ==
  ASSUME NEW c, IsCall(c), NEW s \in State, NEW r, SoundAdjustment(r), NEW split
  PROVE  Turn(c, split, s, r) \in State
<1>1. s.total \in Nat /\ s.off \in Nat
  BY DEF State
<1> DEFINE d == Delta(r, c, s.total, s.off, split)
<1>2. d \in Int /\ s.total + d \in Nat
  BY <1>1, DeltaKeepsTotal
<1>3. Turn(c, split, s, r) = [total |-> s.total + d, off |-> s.off + AtLeast(0, -d)]
  BY DEF Turn
<1> HIDE DEF d
<1>4. s.off + AtLeast(0, -d) \in Nat
  BY <1>1, <1>2 DEF AtLeast
<1> QED
  BY <1>2, <1>3, <1>4 DEF State

LEMMA BegunIsState ==
  ASSUME NEW c, IsCall(c)
  PROVE  Begun(c) \in State
BY CallIsTyped DEF Begun, State

LEMMA TotalIsNat ==
  ASSUME NEW c, SoundCall(c), NEW split, NEW len \in Nat, NEW order,
         DOMAIN order = 1 .. len, \A j \in 1 .. len : SoundAdjustment(order[j])
  PROVE  OrderTotal(c, order, split) \in Nat
<1> DEFINE A(n) == AfterTurns(c, order, split, n)
           N == {n \in Nat : n <= len => A(n) \in State}
<1>1. /\ A(0) = Begun(c)
      /\ \A n \in 1 .. len : A(n) = Turn(c, split, A(n - 1), order[n])
      /\ OrderTotal(c, order, split) = A(len).total
  <2>1. Unfolded(c, order, split, len)
    BY TurnsUnfold
  <2> QED
    BY <2>1 DEF Unfolded
<1>2. IsCall(c)
  BY RulesAre
<1> HIDE DEF A
<1>3. 0 \in N
  BY <1>1, <1>2, BegunIsState
<1>4. ASSUME NEW n \in N
      PROVE  n + 1 \in N
  <2> SUFFICES ASSUME n + 1 <= len PROVE A(n + 1) \in State
    OBVIOUS
  <2> DEFINE next == n + 1
  <2>1. next \in 1 .. len /\ next - 1 = n /\ A(n) \in State
    OBVIOUS
  <2> HIDE DEF next
  <2>2. A(next) = Turn(c, split, A(n), order[next])
    BY <1>1, <2>1
  <2>3. A(next) \in State
    BY <1>2, <2>1, <2>2, TurnStays
  <2> QED
    BY <2>3 DEF next
<1>5. N = Nat
  <2> HIDE DEF N
  <2>1. N \in SUBSET Nat
    BY DEF N
  <2> QED
    BY <1>3, <1>4, <2>1, Induction
<1>6. A(len) \in State
  BY <1>5
<1> QED
  BY <1>1, <1>6 DEF State

LEMMA PlaceMayBeTaken ==
  ASSUME NEW c, SoundCall(c), NEW p \in EveryPlace(c)
  PROVE  MayTake(c, p[1])
<1>1. {Places(c)[i] : i \in 1 .. Len(Places(c))} = EveryPlace(c)
  BY PlacesAre
<1>2. PICK i \in 1 .. Len(Places(c)) : p = Places(c)[i]
  BY <1>1
<1> QED
  BY <1>2, EachMayBeTaken

LEMMA PriceIsNat ==
  ASSUME NEW c, SoundCall(c), NEW p \in EveryPlace(c)
  PROVE  PriceOf(c, p) \in Nat
<1> DEFINE order == OrderAt(c, p[1])
           len == Cardinality(c.rules)
<1>1. order \in Seq(c.rules) /\ Len(order) = len
  BY PlaceMayBeTaken, OrderStands
<1>2. len \in Nat /\ (\A q \in c.rules : SoundAdjustment(q))
  BY RulesAre, RulesCounted
<1> HIDE DEF order, len
<1>3. DOMAIN order = 1 .. len /\ \A j \in 1 .. len : SoundAdjustment(order[j])
  BY <1>1, <1>2
<1>4. OrderTotal(c, order, p[2]) \in Nat
  BY <1>2, <1>3, TotalIsNat
<1> QED
  BY <1>4 DEF PriceOf, order

LEMMA ReferenceIsLeast ==
  ASSUME NEW c, SoundCall(c)
  PROVE  /\ \E p \in EveryPlace(c) : AdjustedTotal(c) = PriceOf(c, p)
         /\ \A p \in EveryPlace(c) : PriceOf(c, p) \in Nat /\ AdjustedTotal(c) <= PriceOf(c, p)
<1> DEFINE n == Len(Places(c))
           T == {PriceOf(c, p) : p \in EveryPlace(c)}
<1>1. n \in Nat /\ n > 0 /\ {Places(c)[i] : i \in 1 .. n} = EveryPlace(c)
  BY PlacesAre
<1>2. T \in SUBSET Nat /\ T # {}
  <2>1. Places(c)[1] \in EveryPlace(c)
    BY <1>1
  <2> QED
    BY <2>1, PriceIsNat
<1>3. PICK b \in T : \A x \in T : b <= x
  BY <1>2, LeastNat
<1>4. LeastSoFar(c, n + 1, b)
  <2> HIDE DEF n
  <2>1. n + 1 # 1 /\ n + 1 - 1 = n
    BY <1>1
  <2>2. \A j \in 1 .. n : Places(c)[j] \in EveryPlace(c)
    BY <1>1
  <2>3. \E j \in 1 .. n : b = PriceOf(c, Places(c)[j])
    BY <1>1, <1>3
  <2>4. \A j \in 1 .. n : PriceOf(c, Places(c)[j]) \in Nat /\ b <= PriceOf(c, Places(c)[j])
    BY <1>2, <1>3, <2>2
  <2> QED
    BY <1>1, <2>1, <2>3, <2>4 DEF LeastSoFar
<1>5. b = AdjustedTotal(c)
  BY <1>4, LeastIsTheReference
<1> QED
  BY <1>2, <1>3, <1>5
-----------------------------------------------------------------------------
(* What one turn does to two states, one above the other.                    *)
MayStand(c, q) == q \notin c.qualified \/ q.type # "fill_level"

LEMMA WithoutTurns ==
  ASSUME NEW c, SoundCall(c), NEW r \in c.rules, NEW q, q # r, NEW s, NEW split
  PROVE  Turn(Without(c, r), split, s, q) = Turn(c, split, s, q)
<1>1. Delta(q, Without(c, r), s.total, s.off, split) = Delta(q, c, s.total, s.off, split)
  BY WithoutMoves
<1> QED
  BY <1>1 DEF Turn

LEMMA MovedBeside ==
  ASSUME NEW c, IsCall(c), NEW q, SoundAdjustment(q), MayStand(c, q), NEW s \in State, NEW split
  PROVE  Turn(c, split, s, q)
           = IF q \notin c.qualified THEN s
             ELSE IF q.direction = "discount"
             THEN [total |-> s.total - Magnitude(q, s.total), off |-> s.off + Magnitude(q, s.total)]
             ELSE [total |-> s.total + Magnitude(q, s.total), off |-> s.off]
<1> DEFINE d == Delta(q, c, s.total, s.off, split)
<1>1. s.total \in Nat /\ s.off \in Nat /\ s = [total |-> s.total, off |-> s.off]
  BY DEF State
<1>2. Turn(c, split, s, q) = [total |-> s.total + d, off |-> s.off + AtLeast(0, -d)]
  BY DEF Turn
<1>3. CASE q \notin c.qualified
  <2>1. d = 0
    BY <1>3 DEF Delta
  <2>2. s.total + d = s.total /\ s.off + AtLeast(0, -d) = s.off
    BY <1>1, <2>1 DEF AtLeast
  <2> HIDE DEF d
  <2> QED
    BY <1>1, <1>2, <1>3, <2>2
<1>4. CASE q \in c.qualified
  <2> DEFINE m == Magnitude(q, s.total)
  <2>1. q.type # "fill_level"
    BY <1>4 DEF MayStand
  <2>2. m \in Nat
    BY <1>1, <2>1, MagnitudeBounds
  <2>3. d = IF q.direction = "discount" THEN -m ELSE m
    BY <1>4, <2>1 DEF Delta
  <2> HIDE DEF d, m
  <2>4. /\ s.total + d = IF q.direction = "discount" THEN s.total - m ELSE s.total + m
        /\ s.off + AtLeast(0, -d) = IF q.direction = "discount" THEN s.off + m ELSE s.off
    BY <1>1, <2>2, <2>3 DEF AtLeast
  <2> QED
    BY <1>2, <1>4, <2>4 DEF m
<1> QED
  BY <1>3, <1>4

LEMMA BesideKeepsOrder ==
  ASSUME NEW c, IsCall(c), NEW q, SoundAdjustment(q), MayStand(c, q),
         NEW s \in State, NEW t \in State, s.total <= t.total, NEW split, NEW splitt
  PROVE  Turn(c, split, s, q).total <= Turn(c, splitt, t, q).total
<1>1. s.total \in Nat /\ t.total \in Nat
  BY DEF State
<1>2. CASE q \notin c.qualified
  BY <1>2, MovedBeside
<1>3. CASE q \in c.qualified
  <2>1. q.type # "fill_level"
    BY <1>3 DEF MayStand
  <2>2. /\ q.direction = "discount" =>
             s.total - Magnitude(q, s.total) <= t.total - Magnitude(q, t.total)
        /\ q.direction # "discount" =>
             s.total + Magnitude(q, s.total) <= t.total + Magnitude(q, t.total)
    BY <1>1, <2>1, WindowKeepsOrder
  <2> QED
    BY <1>3, <2>2, MovedBeside
<1> QED
  BY <1>2, <1>3

LEMMA DiscountMoves ==
  ASSUME NEW c, IsCall(c), NEW q, SoundAdjustment(q), q.type # "fill_level",
         q \in c.qualified => q.direction = "discount", NEW s \in State, NEW split
  PROVE  /\ Turn(c, split, s, q).total <= s.total
         /\ Turn(c, split, s, q).total + Turn(c, split, s, q).off = s.total + s.off
<1>1. s.total \in Nat /\ s.off \in Nat
  BY DEF State
<1> DEFINE m == Magnitude(q, s.total)
<1>2. m \in Nat
  BY <1>1, MagnitudeBounds
<1>3. Turn(c, split, s, q) = IF q \notin c.qualified THEN s
                             ELSE [total |-> s.total - m, off |-> s.off + m]
  BY MovedBeside DEF MayStand
<1> HIDE DEF m
<1> QED
  BY <1>1, <1>2, <1>3

LEMMA FillMoves ==
  ASSUME NEW c, IsCall(c), NEW f, SoundAdjustment(f), f \in c.qualified, f.type = "fill_level",
         NEW s \in State, NEW split
  PROVE  /\ Raise(f, c, s.off, split) \in Nat
         /\ Turn(c, split, s, f) = [total |-> s.total + Raise(f, c, s.off, split), off |-> s.off]
<1>1. s.total \in Nat /\ s.off \in Nat
  BY DEF State
<1>2. SoundFill(f)
  BY RuleFields
<1> DEFINE d == Raise(f, c, s.off, split)
<1>3. d \in Nat
  BY <1>1, <1>2, RaiseIsNat
<1>4. Turn(c, split, s, f) = [total |-> s.total + d, off |-> s.off + AtLeast(0, -d)]
  BY DEF Turn, Delta
<1> HIDE DEF d
<1>5. s.off + AtLeast(0, -d) = s.off
  BY <1>1, <1>3 DEF AtLeast
<1> QED
  BY <1>3, <1>4, <1>5 DEF d

(* An order with the fill rule prices the stay no lower than the order       *)
(* without it, however each sets a discount against the charge.              *)
LEMMA RunAbove ==
  ASSUME NEW c, SoundCall(c), NEW f \in c.rules, f.type = "fill_level",
         \A q \in c.rules \ {f} : MayStand(c, q), NEW split, NEW splitt,
         NEW len \in Nat, NEW p \in 1 .. len, NEW order, NEW fewer,
         Shorter(order, fewer, len, p),
         \A j \in 1 .. len : order[j] \in c.rules /\ (order[j] = f <=> j = p)
  PROVE  OrderTotal(Without(c, f), fewer, splitt) <= OrderTotal(c, order, split)
<1> DEFINE w == Without(c, f)
           R == {x \in Nat \X State \X State : x[3].total <= x[2].total}
<1>1. /\ IsCall(c) /\ (\A q \in c.rules : SoundAdjustment(q))
      /\ SoundAdjustment(f)
  BY RulesAre
<1>2. IsCall(w) /\ w.time = c.time /\ w.extras = c.extras
  BY <1>1, WithoutIs, RulesAre
<1> HIDE DEF w
<1>3. \A n, s, t : <<n, s, t>> \in R <=> n \in Nat /\ s \in State /\ t \in State
                                         /\ t.total <= s.total
  OBVIOUS
<1> HIDE DEF R
<1>4. <<0, Begun(c), Begun(w)>> \in R
  <2>1. Begun(c) = Begun(w)
    BY <1>2 DEF Begun, Total
  <2>2. Begun(c) \in State /\ Begun(c).total \in Nat
    BY <1>1, BegunIsState DEF State
  <2> QED
    BY <1>3, <2>1, <2>2
<1>5. KeptAbreast(c, w, order, split, splitt, len, p, R)
  <2> SUFFICES ASSUME NEW n \in 0 .. len - 1, NEW s \in State, NEW t \in State,
                      <<n, s, t>> \in R
               PROVE  IF n + 1 = p THEN <<n + 1, Turn(c, split, s, order[n + 1]), t>> \in R
                      ELSE <<n + 1, Turn(c, split, s, order[n + 1]),
                             Turn(w, splitt, t, order[n + 1])>> \in R
    BY DEF KeptAbreast
  <2> DEFINE i == n + 1
             q == order[i]
  <2>1. i \in Nat /\ i \in 1 .. len
    OBVIOUS
  <2> HIDE DEF i
  <2>2. q \in c.rules /\ SoundAdjustment(q) /\ (q = f <=> i = p)
    BY <1>1, <2>1
  <2>3. t.total <= s.total /\ s.total \in Nat /\ t.total \in Nat
    BY <1>3 DEF State
  <2> HIDE DEF q
  <2>4. Turn(c, split, s, q) \in State
    BY <1>1, <2>2, TurnStays
  <2>5. CASE i = p
    <3>1. ASSUME f \in c.qualified PROVE t.total <= Turn(c, split, s, q).total
      <4>1. Raise(f, c, s.off, split) \in Nat
            /\ Turn(c, split, s, q).total = s.total + Raise(f, c, s.off, split)
        BY <1>1, <2>2, <2>5, <3>1, FillMoves
      <4> QED
        BY <2>3, <4>1
    <3>2. t.total <= Turn(c, split, s, q).total
      <4>1. CASE f \notin c.qualified
        BY <1>1, <2>2, <2>3, <2>5, <4>1, MovedBeside DEF MayStand
      <4> QED
        BY <3>1, <4>1
    <3>3. <<i, Turn(c, split, s, q), t>> \in R
      BY <1>3, <2>1, <2>4, <3>2
    <3> QED
      BY <2>5, <3>3 DEF i, q
  <2>6. CASE i # p
    <3>1. q # f
      BY <2>2, <2>6
    <3>2. MayStand(c, q)
      BY <2>2, <3>1
    <3>3. Turn(w, splitt, t, q) = Turn(c, splitt, t, q)
      BY <1>1, <3>1, WithoutTurns DEF w
    <3>4. Turn(c, splitt, t, q).total <= Turn(c, split, s, q).total
      BY <1>1, <2>2, <2>3, <3>2, BesideKeepsOrder
    <3>5. Turn(c, splitt, t, q) \in State
      BY <1>1, <2>2, TurnStays
    <3>6. <<i, Turn(c, split, s, q), Turn(w, splitt, t, q)>> \in R
      BY <1>3, <2>1, <2>4, <3>3, <3>4, <3>5
    <3> QED
      BY <2>6, <3>6 DEF i, q
  <2> QED
    BY <2>5, <2>6
<1>6. PICK s, t : /\ <<len, s, t>> \in R
                  /\ OrderTotal(c, order, split) = s.total
                  /\ OrderTotal(w, fewer, splitt) = t.total
  <2>1. R \in SUBSET (Nat \X State \X State)
    BY DEF R
  <2>2. EndAbreast(c, w, split, splitt, order, fewer, len, R)
    BY <1>4, <1>5, <2>1, EndsAbreast
  <2> QED
    BY <2>2 DEF EndAbreast
<1>7. t.total <= s.total
  BY <1>3, <1>6
<1> QED
  BY <1>6, <1>7 DEF w

(* An order with one discount more prices the stay no higher than the order  *)
(* without it: until the discount both are the same; from then on what the   *)
(* one has less in its total it has more taken off, until the fill rule, so  *)
(* that the fill rule adds no more; and every discount keeps their order.    *)
Balanced(c, order, len, p, n, s, t) ==
  /\ s.total <= t.total
  /\ n < p => s = t
  /\ \/ s.total + s.off = t.total + t.off
     \/ \A j \in n + 1 .. len : order[j] \notin Fills(c)

LEMMA FillTurn ==
  ASSUME NEW c, IsCall(c), NEW f, SoundAdjustment(f), f \in c.qualified, f.type = "fill_level",
         NEW s \in State, NEW t \in State, s.total <= t.total,
         s.total + s.off = t.total + t.off, NEW split
  PROVE  Turn(c, split, s, f).total <= Turn(c, split, t, f).total
<1>1. /\ s.total \in Nat /\ s.off \in Nat /\ t.total \in Nat /\ t.off \in Nat
      /\ t.off <= s.off
  <2>1. s.total \in Nat /\ s.off \in Nat /\ t.total \in Nat /\ t.off \in Nat
    BY DEF State
  <2> QED
    BY <2>1
<1>2. SoundFill(f)
  BY RuleFields
<1> DEFINE a == Raise(f, c, s.off, split)
           b == Raise(f, c, t.off, split)
<1>3. a <= b
  BY <1>1, <1>2, RaiseShrinks
<1>4. /\ a \in Nat /\ b \in Nat
      /\ Turn(c, split, s, f).total = s.total + a
      /\ Turn(c, split, t, f).total = t.total + b
  BY FillMoves
<1> HIDE DEF a, b
<1> QED
  BY <1>1, <1>3, <1>4

LEMMA RunBelow ==
  ASSUME NEW c, SoundCall(c), NEW r \in Beside(c),
         \A q \in Beside(c) : q.direction = "discount", NEW split,
         NEW len \in Nat, NEW p \in 1 .. len, NEW order, NEW fewer,
         Shorter(order, fewer, len, p), order[p] = r,
         \A j \in 1 .. len : order[j] \in c.rules,
         \A i, j \in 1 .. len : order[i] = order[j] => i = j
  PROVE  OrderTotal(c, order, split) <= OrderTotal(Without(c, r), fewer, split)
<1> DEFINE w == Without(c, r)
           R == {x \in Nat \X State \X State : Balanced(c, order, len, p, x[1], x[2], x[3])}
<1>1. /\ IsCall(c) /\ (\A q \in c.rules : SoundAdjustment(q))
      /\ r \in c.rules /\ r \in c.qualified /\ SoundAdjustment(r) /\ r.type # "fill_level"
  BY RulesAre DEF Beside, Fills
<1>2. IsCall(w) /\ w.time = c.time /\ w.extras = c.extras
  BY <1>1, WithoutIs, RulesAre
<1> HIDE DEF w
<1>3. \A n, s, t : <<n, s, t>> \in R <=> n \in Nat /\ s \in State /\ t \in State
                                         /\ Balanced(c, order, len, p, n, s, t)
  OBVIOUS
<1>4. R \in SUBSET (Nat \X State \X State)
  OBVIOUS
<1> HIDE DEF R
<1>5. <<0, Begun(c), Begun(w)>> \in R
  <2>1. Begun(c) = Begun(w)
    BY <1>2 DEF Begun, Total
  <2>2. Begun(c) \in State /\ Begun(c).total \in Nat
    BY <1>1, BegunIsState DEF State
  <2>3. Balanced(c, order, len, p, 0, Begun(c), Begun(c))
    BY <2>2 DEF Balanced
  <2> QED
    BY <1>3, <2>1, <2>2, <2>3
<1>6. ASSUME NEW i \in 1 .. len, NEW n \in Nat, n + 1 = i, NEW s \in State, NEW t \in State,
             Balanced(c, order, len, p, n, s, t)
      PROVE  IF i = p THEN <<i, Turn(c, split, s, order[i]), t>> \in R
             ELSE <<i, Turn(c, split, s, order[i]), Turn(w, split, t, order[i])>> \in R
  <2> DEFINE q == order[i]
             u == Turn(c, split, s, q)
             v == IF i = p THEN t ELSE Turn(w, split, t, q)
  <2>1. q \in c.rules /\ SoundAdjustment(q) /\ (q = r <=> i = p)
    BY <1>1
  <2>2. /\ s.total \in Nat /\ s.off \in Nat /\ t.total \in Nat /\ t.off \in Nat
        /\ s.total <= t.total
        /\ n < p => s = t
        /\ \/ s.total + s.off = t.total + t.off
           \/ \A j \in i .. len : order[j] \notin Fills(c)
    BY <1>6 DEF Balanced, State
  <2>3. i # p => v = Turn(c, split, t, q)
    <3>1. i # p => q # r
      BY <2>1
    <3> HIDE DEF q
    <3> QED
      BY <1>1, <3>1, WithoutTurns DEF w
  <2> HIDE DEF q, v
  <2>4. u \in State /\ v \in State
    <3>1. u \in State /\ Turn(c, split, t, q) \in State
      BY <1>1, <2>1, TurnStays
    <3>2. i = p => v = t
      BY DEF v
    <3> QED
      BY <2>3, <3>1, <3>2
  <2> HIDE DEF u
  <2>44. u.total \in Nat /\ u.off \in Nat /\ v.total \in Nat /\ v.off \in Nat
    BY <2>4 DEF State
  <2>5. u.total <= v.total /\ (i < p => u = v)
        /\ (u.total + u.off = v.total + v.off \/ \A j \in i + 1 .. len : order[j] \notin Fills(c))
    <3>1. CASE i = p
      <4>1. q.type # "fill_level" /\ (q \in c.qualified => q.direction = "discount") /\ v = t /\ s = t
        BY <1>1, <1>6, <2>1, <2>2, <3>1 DEF v
      <4>2. u.total <= s.total /\ u.total + u.off = s.total + s.off
        BY <1>1, <2>1, <4>1, DiscountMoves DEF u
      <4> QED
        BY <2>2, <2>44, <3>1, <4>1, <4>2
    <3>2. CASE i < p
      <4>1. s = t
        BY <1>6, <2>2, <3>2
      <4>2. u = v
        BY <2>3, <3>2, <4>1 DEF u
      <4> QED
        BY <2>44, <4>2
    <3>3. CASE i > p /\ q \notin Fills(c)
      <4>1. q.type # "fill_level" \/ q \notin c.qualified
        BY <2>1, <3>3 DEF Fills
      <4>2. q \in c.qualified => q \in Beside(c)
        BY <2>1, <3>3 DEF Beside
      <4>3. v = Turn(c, split, t, q)
        BY <2>3, <3>3
      <4>4. u.total <= v.total
        BY <1>1, <2>1, <2>2, <4>1, <4>3, BesideKeepsOrder DEF u, MayStand
      <4>5. u.total + u.off = s.total + s.off /\ v.total + v.off = t.total + t.off
        <5>1. CASE q \in c.qualified
          <6>1. q.type # "fill_level" /\ (q \in c.qualified => q.direction = "discount")
            BY <4>1, <4>2, <5>1
          <6> QED
            BY <1>1, <2>1, <4>3, <6>1, DiscountMoves DEF u
        <5>2. CASE q \notin c.qualified
          <6>1. u = s /\ v = t
            BY <1>1, <2>1, <4>3, <5>2, MovedBeside DEF u, MayStand
          <6> QED
            BY <6>1
        <5> QED
          BY <5>1, <5>2
      <4>6. u.total + u.off = v.total + v.off \/ \A j \in i + 1 .. len : order[j] \notin Fills(c)
        BY <2>2, <4>5
      <4> QED
        BY <3>3, <4>4, <4>6
    <3>4. CASE i > p /\ q \in Fills(c)
      <4>1. q \in c.qualified /\ q.type = "fill_level"
        BY <3>4 DEF Fills
      <4>2. s.total + s.off = t.total + t.off
        <5>1. i \in i .. len
          OBVIOUS
        <5> QED
          BY <2>2, <3>4, <5>1 DEF q
      <4>3. v = Turn(c, split, t, q)
        BY <2>3, <3>4
      <4>4. u.total <= v.total
        BY <1>1, <2>1, <2>2, <4>1, <4>2, <4>3, FillTurn DEF u
      <4>5. ASSUME NEW j \in i + 1 .. len, order[j] \in Fills(c) PROVE FALSE
        <5>1. order[j] = q
          BY <3>4, <4>5 DEF SoundCall
        <5>2. j \in 1 .. len /\ j # i
          OBVIOUS
        <5> QED
          BY <5>1, <5>2 DEF q
      <4> QED
        BY <3>4, <4>4, <4>5
    <3> QED
      BY <3>1, <3>2, <3>3, <3>4
  <2>6. Balanced(c, order, len, p, i, u, v)
    BY <2>5 DEF Balanced
  <2>7. <<i, u, v>> \in R
    BY <1>3, <2>4, <2>6
  <2> QED
    BY <2>7 DEF u, v, q
<1>7. KeptAbreast(c, w, order, split, split, len, p, R)
  <2> SUFFICES ASSUME NEW n \in 0 .. len - 1, NEW s \in State, NEW t \in State,
                      <<n, s, t>> \in R
               PROVE  IF n + 1 = p THEN <<n + 1, Turn(c, split, s, order[n + 1]), t>> \in R
                      ELSE <<n + 1, Turn(c, split, s, order[n + 1]),
                             Turn(w, split, t, order[n + 1])>> \in R
    BY DEF KeptAbreast
  <2> DEFINE i == n + 1
  <2>1. i \in 1 .. len /\ n \in Nat /\ n + 1 = i
    OBVIOUS
  <2>2. Balanced(c, order, len, p, n, s, t)
    BY <1>3
  <2> HIDE DEF i
  <2>3. IF i = p THEN <<i, Turn(c, split, s, order[i]), t>> \in R
        ELSE <<i, Turn(c, split, s, order[i]), Turn(w, split, t, order[i])>> \in R
    BY <1>6, <2>1, <2>2
  <2> QED
    BY <2>3 DEF i
<1>8. PICK s, t : /\ <<len, s, t>> \in R
                  /\ OrderTotal(c, order, split) = s.total
                  /\ OrderTotal(w, fewer, split) = t.total
  <2>1. EndAbreast(c, w, split, split, order, fewer, len, R)
    BY <1>4, <1>5, <1>7, EndsAbreast
  <2> QED
    BY <2>1 DEF EndAbreast
<1>9. s.total <= t.total
  BY <1>3, <1>8 DEF Balanced
<1> QED
  BY <1>8, <1>9 DEF w
-----------------------------------------------------------------------------
(* No rule stands twice in an order a call may take.                         *)
LEMMA OrderOnce ==
  ASSUME NEW c, SoundCall(c), NEW at, MayTake(c, at)
  PROVE  /\ \A j \in 1 .. Cardinality(c.rules) : OrderAt(c, at)[j] \in c.rules
         /\ \A i, j \in 1 .. Cardinality(c.rules) :
              OrderAt(c, at)[i] = OrderAt(c, at)[j] => i = j
<1> DEFINE k == Cardinality(Others(c))
           len == Cardinality(c.rules)
           others == InRankOrder(c, Others(c))
           order == OrderAt(c, at)
<1>1. /\ others \in [1 .. k -> Others(c)]
      /\ \A i, j \in 1 .. k : i < j => c.rank[others[i]] < c.rank[others[j]]
      /\ \A r \in Others(c) : c.rank[r] \in Nat
  BY RulesAre, InRankOrderIsSorted DEF Sorted, Ranked
<1>2. /\ k \in Nat /\ len \in Nat /\ at \in 0 .. k
      /\ Placed(c) = NoRule => len = k /\ at = k
      /\ Placed(c) # NoRule => len = k + 1
  BY RulesCounted DEF MayTake
<1>3. /\ order \in Seq(c.rules) /\ Len(order) = len
      /\ \A j \in 1 .. len : Stands(c, at, j)
  BY OrderStands
<1>4. Placed(c) \notin Others(c)
  BY DEF Others
<1>5. \A j \in 1 .. len : order[j] = IF j <= at THEN others[j]
                                     ELSE IF j = at + 1 THEN Placed(c) ELSE others[j - 1]
  BY <1>3 DEF Stands
<1> HIDE DEF k, len, others, order
<1>6. \A i, j \in 1 .. k : others[i] = others[j] => i = j
  <2>1. \A i, j \in 1 .. k : i < j => others[i] # others[j]
    BY <1>1
  <2> QED
    BY <1>2, <2>1
<1>7. \A j \in 1 .. len : j # at + 1 =>
        \E m \in 1 .. k : order[j] = others[m] /\ m = IF j <= at THEN j ELSE j - 1
  <2> SUFFICES ASSUME NEW j \in 1 .. len, j # at + 1
               PROVE  \E m \in 1 .. k : order[j] = others[m] /\ m = IF j <= at THEN j ELSE j - 1
    OBVIOUS
  <2>1. CASE j <= at
    BY <1>2, <1>5, <2>1
  <2>2. CASE ~(j <= at)
    <3> DEFINE m == j - 1
    <3>1. m \in 1 .. k /\ m = j - 1
      BY <1>2, <2>2
    <3> HIDE DEF m
    <3>2. order[j] = others[m]
      BY <1>5, <2>2, <3>1
    <3> QED
      BY <2>2, <3>1, <3>2
  <2> QED
    BY <2>1, <2>2
<1>8. ASSUME NEW i \in 1 .. len, NEW j \in 1 .. len, order[i] = order[j], i < j
      PROVE  FALSE
  <2>1. CASE i = at + 1
    <3>1. order[i] = Placed(c)
      BY <1>2, <1>5, <2>1
    <3>2. order[j] \in Others(c)
      BY <1>1, <1>7, <1>8, <2>1
    <3> QED
      BY <1>4, <1>8, <3>1, <3>2
  <2>2. CASE j = at + 1
    <3>1. order[j] = Placed(c)
      BY <1>2, <1>5, <2>2
    <3>2. order[i] \in Others(c)
      BY <1>1, <1>7, <1>8, <2>2
    <3> QED
      BY <1>4, <1>8, <3>1, <3>2
  <2>3. CASE i # at + 1 /\ j # at + 1
    <3>1. PICK m \in 1 .. k : order[i] = others[m] /\ m = IF i <= at THEN i ELSE i - 1
      BY <1>7, <2>3
    <3>2. PICK n \in 1 .. k : order[j] = others[n] /\ n = IF j <= at THEN j ELSE j - 1
      BY <1>7, <2>3
    <3>3. m = n
      BY <1>6, <1>8, <3>1, <3>2
    <3> QED
      BY <1>2, <1>8, <2>3, <3>1, <3>2, <3>3
  <2> QED
    BY <2>1, <2>2, <2>3
<1>9. \A i, j \in 1 .. len : order[i] = order[j] => i = j
  BY <1>2, <1>8
<1>10. \A j \in 1 .. len : order[j] \in c.rules
  BY <1>3
<1> QED
  BY <1>9, <1>10 DEF len, order

LEMMA SameOrder ==
  ASSUME NEW c, SoundCall(c), NEW r \in c.rules, NEW rules
  PROVE  InRankOrder(Without(c, r), rules) = InRankOrder(c, rules)
<1> DEFINE w == Without(c, r)
<1>1. w.rank = c.rank
  BY WithoutIs
<1> HIDE DEF w
<1>2. InRankOrder(w, rules) = InRankOrder(c, rules)
  BY <1>1 DEF InRankOrder
<1> QED
  BY <1>2 DEF w

LEMMA PlainReference ==
  ASSUME NEW c, SoundCall(c), Placed(c) = NoRule
  PROVE  AdjustedTotal(c) = OrderTotal(c, InRankOrder(c, c.rules), TIME_FIRST)
<1>1. Others(c) = c.rules
  BY PlacedIs
<1> QED
  BY <1>1, Zenon DEF AdjustedTotal

LEMMA RulesRanked ==
  ASSUME NEW c, SoundCall(c)
  PROVE  Ranked(c, c.rules)
<1>1. IsCall(c) /\ IsFiniteSet(c.rules)
      /\ \A r, q \in c.rules : c.rank[r] = c.rank[q] => r = q
  BY DEF SoundCall
<1>2. \A q \in c.rules : SoundAdjustment(q) /\ c.rank[q] \in Nat
  BY DEF SoundCall
<1> QED
  BY <1>1, <1>2 DEF Ranked

(* A garage that is full costs no less than the same stay without its fill   *)
(* rule.                                                                     *)
LEMMA FullCostsNoLess ==
  ASSUME NEW c, SoundCall(c), NEW f \in c.rules, f.type = "fill_level",
         f \in c.qualified \/ Fills(c) = {}
  PROVE  AdjustedTotal(Without(c, f)) <= AdjustedTotal(c)
<1> DEFINE w == Without(c, f)
           fewer == InRankOrder(c, c.rules \ {f})
           len == Cardinality(c.rules)
<1>1. len \in Nat /\ (\A q \in c.rules : SoundAdjustment(q))
  BY RulesCounted, RulesAre
<1>0. \A q \in Fills(c) : q = f
  BY DEF Fills, SoundCall
<1>2. SoundCall(w) /\ w.rules = c.rules \ {f} /\ w.qualified = c.qualified \ {f}
  BY <1>1, WithoutIs
<1>3. Fills(w) = {}
  BY <1>0, <1>2 DEF Fills
<1>4. Placed(w) = NoRule
  <2>1. Cardinality(Fills(w)) # 1
    BY <1>3, FS_EmptySet
  <2> QED
    BY <2>1 DEF Placed
<1>5. AdjustedTotal(w) = OrderTotal(w, fewer, TIME_FIRST)
  <2>1. AdjustedTotal(w) = OrderTotal(w, InRankOrder(w, w.rules), TIME_FIRST)
    BY <1>2, <1>4, PlainReference
  <2>2. InRankOrder(w, w.rules) = InRankOrder(c, w.rules)
    BY <1>1, SameOrder
  <2> QED
    BY <1>2, <2>1, <2>2
<1>6. PICK p \in EveryPlace(c) : AdjustedTotal(c) = PriceOf(c, p)
  BY ReferenceIsLeast
<1> DEFINE order == OrderAt(c, p[1])
<1>7. MayTake(c, p[1])
  BY PlaceMayBeTaken
<1>8. /\ order \in Seq(c.rules) /\ Len(order) = len
      /\ \A j \in 1 .. len : Stands(c, p[1], j)
  BY <1>7, OrderStands
<1>9. /\ \A j \in 1 .. len : order[j] \in c.rules
      /\ \A i, j \in 1 .. len : order[i] = order[j] => i = j
  BY <1>7, OrderOnce
<1>10. \E at \in 1 .. len : order[at] = f /\ Shorter(order, fewer, len, at)
  <2>1. CASE Placed(c) = NoRule
    <3>1. order = InRankOrder(c, c.rules)
      BY <2>1, PlacedIs DEF OrderAt
    <3>2. PICK at \in 1 .. len :
            /\ InRankOrder(c, c.rules)[at] = f
            /\ Shorter(InRankOrder(c, c.rules), fewer, len, at)
      BY <1>1, RulesRanked, SortedShorter
    <3> QED
      BY <3>1, <3>2
  <2>2. CASE Placed(c) # NoRule
    <3> DEFINE k == Cardinality(Others(c))
               at == p[1] + 1
    <3>1. Placed(c) = f
      BY <1>0, <2>2, PlacedIs
    <3>2. k \in Nat /\ len = k + 1 /\ p[1] \in 0 .. k /\ Others(c) = c.rules \ {f}
      BY <1>7, <2>2, <3>1, RulesCounted DEF MayTake, Others
    <3>3. DOMAIN fewer = 1 .. k
      <4>1. Sorted(c, Others(c), fewer)
        BY <3>2, RulesAre, InRankOrderIsSorted
      <4> QED
        BY <4>1 DEF Sorted
    <3>4. \A j \in 1 .. len :
            order[j] = IF j <= p[1] THEN fewer[j]
                       ELSE IF j = p[1] + 1 THEN f ELSE fewer[j - 1]
      BY <1>8, <3>1, <3>2 DEF Stands
    <3> HIDE DEF fewer, order, k, len
    <3>5. at \in 1 .. len /\ order[at] = f /\ DOMAIN order = 1 .. len
      BY <1>8, <3>2, <3>4
    <3>6. len - 1 = k /\ p[1] \in Nat
      BY <3>2
    <3>7. \A j \in 1 .. k : fewer[j] = IF j < at THEN order[j] ELSE order[j + 1]
      <4> SUFFICES ASSUME NEW j \in 1 .. k
                   PROVE  fewer[j] = IF j < at THEN order[j] ELSE order[j + 1]
        OBVIOUS
      <4>1. CASE j < at
        BY <3>2, <3>4, <4>1
      <4>2. CASE ~(j < at)
        <5> DEFINE i == j + 1
        <5>1. i \in 1 .. len /\ ~(i <= p[1]) /\ i # p[1] + 1 /\ i - 1 = j
          BY <3>2, <4>2
        <5> HIDE DEF i
        <5>2. order[i] = fewer[j]
          BY <3>4, <5>1
        <5> QED
          BY <4>2, <5>2 DEF i
      <4> QED
        BY <4>1, <4>2
    <3> HIDE DEF at
    <3>8. Shorter(order, fewer, len, at)
      BY <3>3, <3>5, <3>6, <3>7 DEF Shorter
    <3> QED
      BY <3>5, <3>8
  <2> QED
    BY <2>1, <2>2
<1>11. PICK at \in 1 .. len : order[at] = f /\ Shorter(order, fewer, len, at)
  BY <1>10
<1> HIDE DEF order, fewer, len
<1>12. OrderTotal(w, fewer, TIME_FIRST) <= OrderTotal(c, order, p[2])
  <2>1. \A j \in 1 .. len : order[j] \in c.rules /\ (order[j] = f <=> j = at)
    BY <1>9, <1>11
  <2>2. \A q \in c.rules \ {f} : MayStand(c, q)
    BY <1>0 DEF MayStand, Fills
  <2> QED
    BY <1>1, <1>11, <2>1, <2>2, RunAbove
<1> QED
  BY <1>5, <1>6, <1>12 DEF PriceOf, order

(* An order of the call without one of its discounts, where the fill rule    *)
(* stands among the others after `at` of them; and the call's own order that *)
(* is the same once the discount is left out.                                *)
FillAmong(c, others, at, len, order) ==
  /\ DOMAIN order = 1 .. len
  /\ \A j \in 1 .. len :
       order[j] = IF j <= at THEN others[j] ELSE IF j = at + 1 THEN Placed(c) ELSE others[j - 1]

LEMMA OneDiscountBack ==
  ASSUME NEW c, SoundCall(c), Placed(c) # NoRule, NEW r \in Beside(c),
         \A q \in Beside(c) : q.direction = "discount",
         NEW k, k = Cardinality(Others(c)), NEW to \in 0 .. k - 1, NEW split \in Splits(to),
         NEW fewer, FillAmong(c, InRankOrder(c, Others(c) \ {r}), to, k, fewer)
  PROVE  \E p \in EveryPlace(c) : PriceOf(c, p) <= OrderTotal(Without(c, r), fewer, split)
<1> DEFINE others == InRankOrder(c, Others(c))
           rest == InRankOrder(c, Others(c) \ {r})
           len == Cardinality(c.rules)
<1>1. /\ k \in Nat /\ len = k + 1 /\ r \in Others(c) /\ r # Placed(c)
  <2>1. Placed(c) \in Fills(c)
    BY PlacedIs
  <2>2. r \in c.rules /\ r \notin Fills(c)
    BY DEF Beside
  <2>3. r # Placed(c)
    BY <2>1, <2>2
  <2>4. r \in Others(c)
    BY <2>2, <2>3 DEF Others
  <2> QED
    BY <2>3, <2>4, RulesCounted
<1>2. PICK m \in 1 .. k : others[m] = r /\ Shorter(others, rest, k, m)
  BY <1>1, RulesAre, SortedShorter
<1>3. \A j \in 1 .. k - 1 : rest[j] = IF j < m THEN others[j] ELSE others[j + 1]
  BY <1>2 DEF Shorter
<1> DEFINE at == IF m <= to + 1 THEN to + 1 ELSE to
           p == IF m <= at THEN m ELSE m + 1
           order == OrderAt(c, at)
<1>4. /\ at \in 0 .. k /\ p \in 1 .. len /\ to \in Nat
      /\ at = IF m <= to + 1 THEN to + 1 ELSE to
      /\ p = IF m <= at THEN m ELSE m + 1
  BY <1>1
<1>5. MayTake(c, at)
  BY <1>4 DEF MayTake
<1>6. <<at, split>> \in EveryPlace(c)
  <2>1. split \in Splits(at)
    BY <1>4 DEF Splits
  <2>2. at \in 0 .. Cardinality(Others(c))
    BY <1>4
  <2> HIDE DEF at
  <2> QED
    BY <2>1, <2>2 DEF EveryPlace
<1>7. /\ order \in Seq(c.rules) /\ Len(order) = len
      /\ \A j \in 1 .. len : Stands(c, at, j)
  BY <1>5, OrderStands
<1>8. /\ \A j \in 1 .. len : order[j] \in c.rules
      /\ \A i, j \in 1 .. len : order[i] = order[j] => i = j
  BY <1>5, OrderOnce
<1>9. \A j \in 1 .. len : order[j] = IF j <= at THEN others[j]
                                     ELSE IF j = at + 1 THEN Placed(c) ELSE others[j - 1]
  BY <1>7 DEF Stands
<1>10. /\ DOMAIN fewer = 1 .. k
       /\ \A j \in 1 .. k : fewer[j] = IF j <= to THEN rest[j]
                                       ELSE IF j = to + 1 THEN Placed(c) ELSE rest[j - 1]
  BY DEF FillAmong
<1> HIDE DEF order, others, rest, len, at, p
<1>11. order[p] = r
  <2>1. CASE m <= at
    BY <1>2, <1>4, <1>9, <2>1
  <2>2. CASE ~(m <= at)
    <3>1. p \in 1 .. len /\ ~(p <= at) /\ p # at + 1 /\ p - 1 = m
      BY <1>1, <1>4, <2>2
    <3> QED
      BY <1>2, <1>9, <3>1
  <2> QED
    BY <2>1, <2>2
<1>12. ASSUME NEW j \in 1 .. k
       PROVE  fewer[j] = IF j < p THEN order[j] ELSE order[j + 1]
  <2> DEFINE i == j + 1
             h == j - 1
  <2>1. i \in 1 .. len /\ i - 1 = j /\ j \in 1 .. len /\ h + 1 = j
    BY <1>1
  <2>2. order[j] = IF j <= at THEN others[j] ELSE IF j = at + 1 THEN Placed(c) ELSE others[h]
    BY <1>9, <2>1
  <2> HIDE DEF i
  <2>3. order[i] = IF i <= at THEN others[i] ELSE IF i = at + 1 THEN Placed(c) ELSE others[j]
    BY <1>9, <2>1
  <2>4. fewer[j] = IF j <= to THEN rest[j] ELSE IF j = to + 1 THEN Placed(c) ELSE rest[h]
    BY <1>10
  <2> HIDE DEF h
  <2>5. j \in 1 .. k - 1 => rest[j] = IF j < m THEN others[j] ELSE others[i]
    BY <1>3 DEF i
  <2>6. h \in 1 .. k - 1 => rest[h] = IF h < m THEN others[h] ELSE others[j]
    BY <1>3, <2>1
  <2>7. fewer[j] = IF j < p THEN order[j] ELSE order[i]
    <3>1. j \in Int /\ i = j + 1 /\ h = j - 1 /\ 1 <= j /\ j <= k
      BY <1>1, <2>1 DEF i, h
    <3>2. CASE j <= to
      <4>1. fewer[j] = IF j < m THEN others[j] ELSE others[i]
        BY <1>1, <2>4, <2>5, <3>1, <3>2
      <4>2. CASE j < m
        BY <1>1, <1>4, <2>2, <3>1, <3>2, <4>1, <4>2
      <4>3. CASE ~(j < m)
        <5>1. m <= to /\ ~(j < p) /\ i <= at
          BY <1>1, <1>4, <3>1, <3>2, <4>3
        <5> QED
          BY <2>3, <4>1, <4>3, <5>1
      <4> QED
        BY <4>2, <4>3
    <3>3. CASE j = to + 1
      <4>1. fewer[j] = Placed(c)
        BY <1>4, <2>4, <3>3
      <4>2. CASE m <= to + 1
        <5>1. ~(j < p) /\ ~(i <= at) /\ i = at + 1
          BY <1>1, <1>4, <3>1, <3>3, <4>2
        <5> QED
          BY <2>3, <4>1, <5>1
      <4>3. CASE ~(m <= to + 1)
        <5>1. j < p /\ ~(j <= at) /\ j = at + 1
          BY <1>1, <1>4, <3>1, <3>3, <4>3
        <5> QED
          BY <2>2, <4>1, <5>1
      <4> QED
        BY <4>2, <4>3
    <3>4. CASE j > to + 1
      <4>1. fewer[j] = IF h < m THEN others[h] ELSE others[j]
        BY <1>1, <1>4, <2>4, <2>6, <3>1, <3>4
      <4>2. CASE h < m
        <5>1. j < p /\ ~(j <= at) /\ j # at + 1
          BY <1>1, <1>4, <3>1, <3>4, <4>2
        <5> QED
          BY <2>2, <4>1, <4>2, <5>1
      <4>3. CASE ~(h < m)
        <5>1. ~(j < p) /\ ~(i <= at) /\ i # at + 1
          BY <1>1, <1>4, <3>1, <3>4, <4>3
        <5> QED
          BY <2>3, <4>1, <4>3, <5>1
      <4> QED
        BY <4>2, <4>3
    <3> QED
      BY <1>4, <3>1, <3>2, <3>3, <3>4
  <2> QED
    BY <2>7 DEF i
<1>13. Shorter(order, fewer, len, p)
  <2>1. DOMAIN order = 1 .. len /\ len - 1 = k
    BY <1>1, <1>7
  <2> QED
    BY <1>10, <1>12, <2>1 DEF Shorter
<1>14. OrderTotal(c, order, split) <= OrderTotal(Without(c, r), fewer, split)
  <2>1. len \in Nat
    BY <1>1
  <2> QED
    BY <1>4, <1>8, <1>11, <1>13, <2>1, RunBelow
<1>15. PriceOf(c, <<at, split>>) = OrderTotal(c, order, split)
  BY DEF PriceOf, order
<1> QED
  BY <1>6, <1>14, <1>15

(* Where only discounts apply beside the fill rule, the stay with one more   *)
(* of them costs no more.                                                    *)
LEMMA DiscountCostsNoMore ==
  ASSUME NEW c, SoundCall(c), NEW r \in Beside(c),
         \A q \in Beside(c) : q.direction = "discount"
  PROVE  AdjustedTotal(c) <= AdjustedTotal(Without(c, r))
<1> DEFINE w == Without(c, r)
           f == Placed(c)
           k == Cardinality(Others(c))
           rest == InRankOrder(c, Others(c) \ {r})
<1>1. r \in c.rules /\ r \in c.qualified /\ r \notin Fills(c)
  BY DEF Beside
<1>2. SoundCall(w) /\ w.rules = c.rules \ {r} /\ w.qualified = c.qualified \ {r}
  BY <1>1, WithoutIs
<1>3. Fills(w) = Fills(c)
  BY <1>1, <1>2 DEF Fills
<1>4. k \in Nat /\ IsFiniteSet(c.rules) /\ NoRule \notin c.rules
  BY RulesCounted, RulesAre
<1> HIDE DEF w
<1>5. CASE f = NoRule
  <2> DEFINE len == Cardinality(c.rules)
             order == InRankOrder(c, c.rules)
             fewer == InRankOrder(c, c.rules \ {r})
  <2>1. Cardinality(Fills(c)) # 1
    <3> SUFFICES ASSUME Cardinality(Fills(c)) = 1 PROVE FALSE
      OBVIOUS
    <3>1. Beside(c) # {} /\ Fills(c) # {}
      BY FS_EmptySet
    <3>2. f \in Fills(c)
      BY <3>1 DEF Placed
    <3> QED
      BY <1>4, <1>5, <3>2 DEF Fills
  <2>2. Placed(w) = NoRule
    BY <1>3, <2>1 DEF Placed
  <2>3. AdjustedTotal(w) = OrderTotal(w, fewer, TIME_FIRST)
    <3>1. AdjustedTotal(w) = OrderTotal(w, InRankOrder(w, w.rules), TIME_FIRST)
      BY <1>2, <2>2, PlainReference
    <3>2. InRankOrder(w, w.rules) = InRankOrder(c, w.rules)
      BY <1>1, SameOrder DEF w
    <3> QED
      BY <1>2, <3>1, <3>2
  <2>4. AdjustedTotal(c) = OrderTotal(c, order, TIME_FIRST)
    BY <1>5, PlainReference
  <2>5. MayTake(c, k) /\ OrderAt(c, k) = order
    <3>1. Others(c) = c.rules
      BY <1>5, PlacedIs
    <3>2. OrderAt(c, k) = order
      BY <1>5, <3>1 DEF OrderAt
    <3>3. k \in 0 .. k
      BY <1>4
    <3>4. MayTake(c, k)
      BY <3>3 DEF MayTake
    <3> QED
      BY <3>2, <3>4
  <2>6. /\ \A j \in 1 .. len : order[j] \in c.rules
        /\ \A i, j \in 1 .. len : order[i] = order[j] => i = j
    <3>1. /\ \A j \in 1 .. len : OrderAt(c, k)[j] \in c.rules
          /\ \A i, j \in 1 .. len : OrderAt(c, k)[i] = OrderAt(c, k)[j] => i = j
      BY <2>5, OrderOnce
    <3> QED
      BY <2>5, <3>1
  <2>7. PICK p \in 1 .. len : order[p] = r /\ Shorter(order, fewer, len, p)
    BY <1>1, RulesRanked, SortedShorter
  <2>8. len \in Nat
    BY RulesCounted
  <2> HIDE DEF len, order, fewer
  <2>9. OrderTotal(c, order, TIME_FIRST) <= OrderTotal(w, fewer, TIME_FIRST)
    BY <2>6, <2>7, <2>8, RunBelow DEF w
  <2> QED
    BY <2>3, <2>4, <2>9 DEF w
<1>6. CASE f # NoRule
  <2>1. f \in Fills(c) /\ f \in c.rules /\ f # r /\ r \in Others(c)
    <3>1. f \in Fills(c) /\ f \in c.rules
      BY <1>6, PlacedIs
    <3>2. f # r
      BY <1>1, <3>1
    <3> QED
      BY <1>1, <3>1, <3>2 DEF Others
  <2>2. Cardinality(Others(c) \ {r}) = k - 1 /\ k - 1 \in Nat
    <3>1. IsFiniteSet(Others(c))
      BY RulesAre DEF Ranked
    <3>2. IsFiniteSet(Others(c) \ {r}) /\ Cardinality(Others(c) \ {r}) = k - 1
      BY <2>1, <3>1, FS_RemoveElement
    <3>3. Cardinality(Others(c) \ {r}) \in Nat
      BY <3>2, FS_CardinalityType
    <3> QED
      BY <3>2, <3>3
  <2>3. \E to \in 0 .. k - 1 : \E split \in Splits(to) : \E fewer :
          FillAmong(c, rest, to, k, fewer) /\ AdjustedTotal(w) = OrderTotal(w, fewer, split)
    <3>1. CASE Placed(w) # NoRule
      <4>1. Placed(w) = f
        <5>1. Placed(w) \in Fills(c)
          BY <1>2, <1>3, <3>1, PlacedIs
        <5> QED
          BY <2>1, <5>1 DEF SoundCall
      <4>2. Others(w) = Others(c) \ {r}
        BY <1>2, <4>1 DEF Others
      <4>3. PICK p \in EveryPlace(w) : AdjustedTotal(w) = PriceOf(w, p)
        BY <1>2, ReferenceIsLeast
      <4>4. PICK to \in 0 .. Cardinality(Others(w)) : \E split \in Splits(to) : p = <<to, split>>
        BY <3>1 DEF EveryPlace
      <4>5. PICK split \in Splits(to) : p = <<to, split>>
        BY <4>4
      <4> DEFINE fewer == OrderAt(w, to)
      <4>6. to \in 0 .. k - 1
        BY <2>2, <4>2
      <4>7. AdjustedTotal(w) = OrderTotal(w, fewer, split)
        BY <4>3, <4>5 DEF PriceOf
      <4>8. MayTake(w, to)
        BY <1>2, <4>5, PlaceMayBeTaken
      <4>9. Cardinality(w.rules) = k
        <5>1. Cardinality(w.rules) = Cardinality(Others(w)) + 1
          BY <1>2, <3>1, RulesCounted
        <5>2. Cardinality(Others(w)) = k - 1
          BY <2>2, <4>2
        <5> QED
          BY <1>4, <5>1, <5>2
      <4>10. /\ fewer \in Seq(w.rules) /\ Len(fewer) = k
             /\ \A j \in 1 .. k : Stands(w, to, j)
        BY <1>2, <4>8, <4>9, OrderStands
      <4>11. InRankOrder(w, Others(w)) = rest
        BY <1>1, <4>2, SameOrder DEF w
      <4> HIDE DEF rest, k
      <4>12. \A j \in 1 .. k : fewer[j] = IF j <= to THEN rest[j]
                                          ELSE IF j = to + 1 THEN f ELSE rest[j - 1]
        BY <4>1, <4>10, <4>11 DEF Stands
      <4> HIDE DEF fewer
      <4>13. DOMAIN fewer = 1 .. k
        BY <4>10
      <4>14. FillAmong(c, rest, to, k, fewer)
        BY <4>12, <4>13 DEF FillAmong
      <4> QED
        BY <4>6, <4>7, <4>14
    <3>2. CASE Placed(w) = NoRule
      <4> DEFINE fewer == InRankOrder(c, c.rules \ {r})
      <4>1. AdjustedTotal(w) = OrderTotal(w, fewer, TIME_FIRST)
        <5>1. AdjustedTotal(w) = OrderTotal(w, InRankOrder(w, w.rules), TIME_FIRST)
          BY <1>2, <3>2, PlainReference
        <5>2. InRankOrder(w, w.rules) = InRankOrder(c, w.rules)
          BY <1>1, SameOrder DEF w
        <5> QED
          BY <1>2, <5>1, <5>2
      <4>2. Ranked(c, c.rules \ {r})
        <5>1. Ranked(c, c.rules)
          BY RulesRanked
        <5>2. IsFiniteSet(c.rules \ {r})
          BY <1>4, FS_RemoveElement
        <5> QED
          BY <5>1, <5>2 DEF Ranked
      <4>3. Cardinality(c.rules \ {r}) = k
        <5>1. Cardinality(c.rules \ {r}) = Cardinality(c.rules) - 1
          BY <1>1, <1>4, FS_RemoveElement
        <5>2. Cardinality(c.rules) = k + 1
          BY <1>6, RulesCounted
        <5> QED
          BY <1>4, <5>1, <5>2
      <4>4. (c.rules \ {r}) \ {f} = Others(c) \ {r}
        BY DEF Others
      <4>5. PICK q \in 1 .. k : fewer[q] = f /\ Shorter(fewer, rest, k, q)
        <5>1. f \in c.rules \ {r}
          BY <2>1
        <5>2. \E q \in 1 .. Cardinality(c.rules \ {r}) :
                /\ InRankOrder(c, c.rules \ {r})[q] = f
                /\ \A j \in 1 .. Cardinality(c.rules \ {r}) :
                     InRankOrder(c, c.rules \ {r})[j] = f => j = q
                /\ Shorter(InRankOrder(c, c.rules \ {r}),
                           InRankOrder(c, (c.rules \ {r}) \ {f}), Cardinality(c.rules \ {r}), q)
          <6> HIDE DEF f
          <6> QED
            BY <4>2, <5>1, SortedShorter
        <5> QED
          BY <4>3, <4>4, <5>2
      <4> HIDE DEF fewer, rest, k, f
      <4> DEFINE to == q - 1
      <4>6. /\ to \in 0 .. k - 1 /\ to + 1 = q /\ to \in Int
            /\ TIME_FIRST \in Splits(to)
        BY <1>4 DEF Splits
      <4> HIDE DEF to
      <4>7. /\ DOMAIN fewer = 1 .. k
            /\ \A j \in 1 .. k - 1 : rest[j] = IF j < q THEN fewer[j] ELSE fewer[j + 1]
        BY <4>5 DEF Shorter
      <4>8. ASSUME NEW j \in 1 .. k
            PROVE  fewer[j] = IF j <= to THEN rest[j] ELSE IF j = to + 1 THEN f ELSE rest[j - 1]
        <5>1. CASE j <= to
          <6>1. j \in 1 .. k - 1 /\ j < q
            BY <1>4, <4>6, <5>1
          <6> QED
            BY <4>7, <5>1, <6>1
        <5>2. CASE j = to + 1
          BY <4>5, <4>6, <5>2
        <5>3. CASE j > to + 1
          <6> DEFINE h == j - 1
          <6>1. h \in 1 .. k - 1 /\ ~(h < q) /\ h + 1 = j
            BY <1>4, <4>6, <5>3
          <6> HIDE DEF h
          <6>2. rest[h] = fewer[j]
            BY <4>7, <6>1
          <6>3. fewer[j] = rest[j - 1]
            BY <6>2 DEF h
          <6> QED
            BY <4>6, <5>3, <6>3
        <5> QED
          BY <4>6, <5>1, <5>2, <5>3
      <4>9. FillAmong(c, rest, to, k, fewer)
        BY <4>7, <4>8 DEF FillAmong, f
      <4> QED
        BY <4>1, <4>6, <4>9
    <3> QED
      BY <3>1, <3>2
  <2>34. PICK to \in 0 .. k - 1 : \E split \in Splits(to) : \E fewer :
           FillAmong(c, rest, to, k, fewer) /\ AdjustedTotal(w) = OrderTotal(w, fewer, split)
    BY <2>3
  <2>4. PICK split \in Splits(to) : \E fewer :
          FillAmong(c, rest, to, k, fewer) /\ AdjustedTotal(w) = OrderTotal(w, fewer, split)
    BY <2>34
  <2>44. PICK fewer : FillAmong(c, rest, to, k, fewer) /\ AdjustedTotal(w) = OrderTotal(w, fewer, split)
    BY <2>4
  <2>5. PICK p \in EveryPlace(c) : PriceOf(c, p) <= OrderTotal(w, fewer, split)
    <3>1. \E p \in EveryPlace(c) : PriceOf(c, p) <= OrderTotal(Without(c, r), fewer, split)
      BY <1>6, <2>44, OneDiscountBack
    <3> QED
      BY <3>1 DEF w
  <2>6. /\ AdjustedTotal(c) <= PriceOf(c, p) /\ PriceOf(c, p) \in Nat
        /\ AdjustedTotal(c) \in Nat /\ AdjustedTotal(w) \in Nat
    BY <1>2, ReferenceIsLeast
  <2> QED
    BY <2>44, <2>5, <2>6 DEF w
<1> QED
  BY <1>5, <1>6

(* One rule more moves the fee its own way, whatever the plan and the call,   *)
(* though it moves where the fill rule is taken and which cent each part      *)
(* rounds to: what _adjusted returns for a full garage is no less than what   *)
(* it returns without the fill rule, and, where only discounts apply beside   *)
(* it, no more than what it returns with one discount fewer.                  *)
THEOREM OneRuleMore == AdjustSpec => []EachRuleMovesItsOwnWay
<1>1. OrderInv /\ CheapestOrder => EachRuleMovesItsOwnWay
  <2> SUFFICES ASSUME OrderInv, CheapestOrder, Done
               PROVE  /\ \A r \in Fills(call) : best >= AdjustedTotal(Without(call, r))
                      /\ (\A r \in Beside(call) : r.direction = "discount")
                           => \A r \in Beside(call) : best <= AdjustedTotal(Without(call, r))
    BY DEF EachRuleMovesItsOwnWay
  <2>1. SoundCall(call) /\ best = AdjustedTotal(call)
    BY DEF OrderInv, CheapestOrder
  <2>2. ASSUME NEW r \in Fills(call)
        PROVE  best >= AdjustedTotal(Without(call, r))
    <3>1. AdjustedTotal(Without(call, r)) <= AdjustedTotal(call)
      BY <2>1, FullCostsNoLess DEF Fills
    <3> QED
      BY <2>1, <3>1
  <2>3. ASSUME \A q \in Beside(call) : q.direction = "discount", NEW r \in Beside(call)
        PROVE  best <= AdjustedTotal(Without(call, r))
    <3>1. AdjustedTotal(call) <= AdjustedTotal(Without(call, r))
      BY <2>1, <2>3, DiscountCostsNoMore
    <3> QED
      BY <2>1, <3>1
  <2> QED
    BY <2>2, <2>3
<1> QED
  BY <1>1, OrdersArePriced, CheapestOfAllOrders, PTL
-----------------------------------------------------------------------------
(* A call without its fill rules, qualified or not, comes to no more.        *)
Removed(c, gone) == [c EXCEPT !.rules = @ \ gone, !.qualified = @ \ gone]
FillRules(c) == {r \in c.rules : r.type = "fill_level"}

LEMMA RemovedIsExcept ==
  ASSUME NEW c, NEW gone
  PROVE  Removed(c, gone) = [c EXCEPT !.rules = c.rules \ gone, !.qualified = c.qualified \ gone]
  BY DEF Removed

LEMMA RemovedIs ==
  ASSUME NEW c, IsCall(c), NEW gone
  PROVE  /\ Removed(c, gone).rules = c.rules \ gone
         /\ Removed(c, gone).qualified = c.qualified \ gone
         /\ Removed(c, gone).rank = c.rank
         /\ Removed(c, gone).time = c.time
         /\ Removed(c, gone).extras = c.extras
         /\ Removed(c, gone).by_special = c.by_special
<1>1. Removed(c, gone) = [c EXCEPT !.rules = c.rules \ gone, !.qualified = c.qualified \ gone]
  BY RemovedIsExcept
<1> QED
  BY <1>1 DEF IsCall

LEMMA RemovedOneMore ==
  ASSUME NEW c, IsCall(c), NEW gone, NEW r
  PROVE  /\ Without(Removed(c, gone), r) = Removed(c, gone \cup {r})
         /\ Removed(Without(c, r), gone) = Removed(c, gone \cup {r})
<1> DEFINE IsIt(d) == d = [c EXCEPT !.rules = c.rules \ (gone \cup {r}),
                                    !.qualified = c.qualified \ (gone \cup {r})]
<1>1. IsIt(Removed(c, gone \cup {r}))
  BY RemovedIsExcept
<1>2. /\ (c.rules \ gone) \ {r} = c.rules \ (gone \cup {r})
      /\ (c.rules \ {r}) \ gone = c.rules \ (gone \cup {r})
      /\ (c.qualified \ gone) \ {r} = c.qualified \ (gone \cup {r})
      /\ (c.qualified \ {r}) \ gone = c.qualified \ (gone \cup {r})
  OBVIOUS
<1>3. IsIt(Without(Removed(c, gone), r))
  BY <1>2 DEF Removed, Without, IsCall
<1>4. IsIt(Removed(Without(c, r), gone))
  BY <1>2 DEF Removed, Without, IsCall
<1> QED
  BY <1>1, <1>3, <1>4

LEMMA IdleFillsCostNothing ==
  ASSUME NEW c, SoundCall(c), Fills(c) = {}
  PROVE  /\ SoundCall(Removed(c, FillRules(c)))
         /\ AdjustedTotal(Removed(c, FillRules(c))) <= AdjustedTotal(c)
<1> DEFINE F == FillRules(c)
           G == {T \in SUBSET F : /\ SoundCall(Removed(c, T))
                                  /\ AdjustedTotal(Removed(c, T)) <= AdjustedTotal(c)}
<1>1. IsCall(c) /\ IsFiniteSet(c.rules)
  BY DEF SoundCall
<1>2. IsFiniteSet(F)
  BY <1>1, FS_Subset DEF FillRules
<1>3. \A d : SoundCall(d) => AdjustedTotal(d) \in Nat
  <2> SUFFICES ASSUME NEW d, SoundCall(d) PROVE AdjustedTotal(d) \in Nat
    OBVIOUS
  <2>1. PICK p \in EveryPlace(d) : AdjustedTotal(d) = PriceOf(d, p)
    BY ReferenceIsLeast
  <2> QED
    BY <2>1, PriceIsNat
<1>7. \A out : /\ Removed(c, out).rules = c.rules \ out
               /\ Removed(c, out).qualified = c.qualified \ out
  BY <1>1, RemovedIs
<1>4. {} \in G
  <2>1. Removed(c, {}) = c
    <3>1. c.rules \ {} = c.rules /\ c.qualified \ {} = c.qualified
      OBVIOUS
    <3>2. Removed(c, {}) = [c EXCEPT !.rules = c.rules \ {}, !.qualified = c.qualified \ {}]
      BY RemovedIsExcept
    <3> QED
      BY <1>1, <3>1, <3>2 DEF IsCall
  <2>2. AdjustedTotal(c) \in Nat
    BY <1>3
  <2> QED
    BY <2>1, <2>2
<1>5. ASSUME NEW T \in SUBSET F, T # {}, \A x \in T : T \ {x} \in G
      PROVE  T \in G
  <2>1. PICK x \in T : TRUE
    BY <1>5
  <2> DEFINE gone == T \ {x}
             d == Removed(c, gone)
  <2>2. SoundCall(d) /\ AdjustedTotal(d) <= AdjustedTotal(c)
    BY <1>5
  <2>30. gone \cup {x} = T /\ x \notin gone
    OBVIOUS
  <2> HIDE DEF gone
  <2>3. d.rules = c.rules \ gone /\ d.qualified = c.qualified \ gone
    BY <1>7
  <2>4. Without(d, x) = Removed(c, T)
    BY <1>1, <2>30, RemovedOneMore
  <2> HIDE DEF d
  <2>5. x \in d.rules /\ x.type = "fill_level"
    BY <2>3, <2>30 DEF FillRules
  <2>6. Fills(d) = {}
    BY <2>3 DEF Fills
  <2>7. SoundCall(Without(d, x)) /\ AdjustedTotal(Without(d, x)) <= AdjustedTotal(d)
    BY <2>2, <2>5, <2>6, WithoutIs, FullCostsNoLess
  <2>8. /\ AdjustedTotal(Without(d, x)) \in Nat /\ AdjustedTotal(d) \in Nat
        /\ AdjustedTotal(c) \in Nat
    BY <1>3, <2>2, <2>7
  <2>9. AdjustedTotal(Without(d, x)) <= AdjustedTotal(c)
    BY <2>2, <2>7, <2>8
  <2> QED
    BY <2>4, <2>7, <2>9
<1>6. \A T \in SUBSET F : T \in G
  <2> HIDE DEF F, G
  <2> QED
    BY <1>2, <1>4, <1>5, SubsetInduction
<1> QED
  BY <1>6

LEMMA FillsCostNoLess ==
  ASSUME NEW c, SoundCall(c)
  PROVE  /\ SoundCall(Removed(c, FillRules(c)))
         /\ AdjustedTotal(Removed(c, FillRules(c))) <= AdjustedTotal(c)
<1>1. CASE Fills(c) = {}
  BY <1>1, IdleFillsCostNothing
<1>2. CASE Fills(c) # {}
  <2>1. PICK f \in Fills(c) : TRUE
    BY <1>2
  <2> DEFINE d == Without(c, f)
  <2>2. f \in c.rules /\ f \in c.qualified /\ f.type = "fill_level" /\ IsCall(c)
    BY DEF Fills, SoundCall
  <2>3. SoundCall(d) /\ d.rules = c.rules \ {f} /\ d.qualified = c.qualified \ {f}
    BY <2>2, WithoutIs
  <2>4. AdjustedTotal(d) <= AdjustedTotal(c)
    BY <2>2, FullCostsNoLess
  <2>5. Removed(d, FillRules(d)) = Removed(c, FillRules(d) \cup {f})
    BY <2>2, RemovedOneMore
  <2> HIDE DEF d
  <2>6. Fills(d) = {}
    BY <2>3 DEF Fills, SoundCall
  <2>7. FillRules(d) \cup {f} = FillRules(c)
    BY <2>2, <2>3 DEF FillRules
  <2>8. /\ SoundCall(Removed(d, FillRules(d)))
        /\ AdjustedTotal(Removed(d, FillRules(d))) <= AdjustedTotal(d)
    BY <2>3, <2>6, IdleFillsCostNothing
  <2>9. \A x : SoundCall(x) => AdjustedTotal(x) \in Nat
    <3> SUFFICES ASSUME NEW x, SoundCall(x) PROVE AdjustedTotal(x) \in Nat
      OBVIOUS
    <3>1. PICK p \in EveryPlace(x) : AdjustedTotal(x) = PriceOf(x, p)
      BY ReferenceIsLeast
    <3> QED
      BY <3>1, PriceIsNat
  <2>10. AdjustedTotal(Removed(d, FillRules(d))) <= AdjustedTotal(c)
    BY <2>3, <2>4, <2>8, <2>9
  <2> QED
    BY <2>5, <2>7, <2>8, <2>10
<1> QED
  BY <1>1, <1>2

(* What a call comes to rests on the places of its own rules alone.          *)
Alike(c, d) ==
  /\ d.rules = c.rules /\ d.qualified = c.qualified
  /\ d.time = c.time /\ d.extras = c.extras /\ d.by_special = c.by_special
  /\ \A r \in c.rules : d.rank[r] = c.rank[r]

LEMMA AlikeTurns ==
  ASSUME NEW c, NEW d, Alike(c, d), NEW order, NEW split
  PROVE  OrderTotal(d, order, split) = OrderTotal(c, order, split)
<1>1. /\ d.qualified = c.qualified
      /\ d.time = c.time /\ d.extras = c.extras /\ d.by_special = c.by_special
  BY DEF Alike
<1>2. \A q : RaisesTime(q, d) = RaisesTime(q, c)
  BY <1>1 DEF RaisesTime
<1>3. \A q, off : LeftAfter(q, d, off, split) = LeftAfter(q, c, off, split)
  BY <1>1, <1>2 DEF LeftAfter, TimeFirst, PerPart
<1>4. \A q, off : Raise(q, d, off, split) = Raise(q, c, off, split)
  BY <1>2, <1>3 DEF Raise
<1>5. \A q, total, off : Delta(q, d, total, off, split) = Delta(q, c, total, off, split)
  BY <1>1, <1>4 DEF Delta
<1>6. \A q, s : Turn(d, split, s, q) = Turn(c, split, s, q)
  BY <1>5 DEF Turn
<1>7. Begun(d) = Begun(c)
  BY <1>1 DEF Begun, Total
<1>8. \A it, s : FoldStep(d, order, split, it, s) = FoldStep(c, order, split, it, s)
  BY <1>6, <1>7 DEF FoldStep
<1>9. \A it : Folded(d, order, split, it) <=> Folded(c, order, split, it)
  BY <1>8, Zenon DEF Folded
<1>10. (CHOOSE it : Folded(d, order, split, it)) = (CHOOSE it : Folded(c, order, split, it))
  BY <1>9, Zenon
<1> QED
  BY <1>10, FoldIs

LEMMA AlikeCosts ==
  ASSUME NEW c, SoundCall(c), NEW d, SoundCall(d), Alike(c, d)
  PROVE  AdjustedTotal(d) = AdjustedTotal(c)
<1>1. Fills(d) = Fills(c) /\ Beside(d) = Beside(c)
  BY DEF Alike, Fills, Beside
<1>2. Placed(d) = Placed(c)
  BY <1>1 DEF Placed
<1>3. Others(d) = Others(c)
  BY <1>2 DEF Others, Alike
<1>4. InRankOrder(d, Others(d)) = InRankOrder(c, Others(c))
  <2> DEFINE a == InRankOrder(c, Others(c))
             b == InRankOrder(d, Others(d))
  <2>1. Ranked(c, Others(c)) /\ Sorted(c, Others(c), a)
    BY RulesAre, InRankOrderIsSorted
  <2>2. Sorted(d, Others(c), b)
    BY <1>3, RulesAre, InRankOrderIsSorted
  <2>3. \A r \in Others(c) : d.rank[r] = c.rank[r]
    BY DEF Others, Alike
  <2> HIDE DEF a, b
  <2>4. Sorted(c, Others(c), b)
    BY <2>2, <2>3 DEF Sorted
  <2>5. a = b
    BY <2>1, <2>4, SortedOnce
  <2> QED
    BY <2>5 DEF a, b
<1>5. \A order, split : OrderTotal(d, order, split) = OrderTotal(c, order, split)
  BY AlikeTurns
<1>6. \A at : OrderAt(d, at) = OrderAt(c, at)
  BY <1>2, <1>4 DEF OrderAt
<1>7. EveryPlace(d) = EveryPlace(c)
  BY <1>2, <1>3 DEF EveryPlace
<1>8. \A p : PriceOf(d, p) = PriceOf(c, p)
  BY <1>5, <1>6 DEF PriceOf
<1>9. PICK p \in EveryPlace(c) : AdjustedTotal(c) = PriceOf(c, p)
  BY ReferenceIsLeast
<1>10. PICK q \in EveryPlace(c) : AdjustedTotal(d) = PriceOf(c, q)
  BY <1>7, <1>8, ReferenceIsLeast
<1>11. AdjustedTotal(c) <= PriceOf(c, q) /\ PriceOf(c, q) \in Nat /\ PriceOf(c, p) \in Nat
  BY ReferenceIsLeast
<1>12. AdjustedTotal(d) <= PriceOf(c, p)
  BY <1>7, <1>8, ReferenceIsLeast
<1> QED
  BY <1>9, <1>10, <1>11, <1>12
LEMMA AlikeIsSound ==
  ASSUME NEW c, SoundCall(c), NEW d, IsCall(d), Alike(c, d)
  PROVE  SoundCall(d)
<1>1. d.rules = c.rules /\ d.qualified = c.qualified /\ \A r \in c.rules : d.rank[r] = c.rank[r]
  BY DEF Alike
<1>2. Fills(d) = Fills(c)
  BY <1>1 DEF Fills
<1>3. IsFiniteSet(d.rules) /\ \A r, q \in d.rules : d.rank[r] = d.rank[q] => r = q
  BY <1>1 DEF SoundCall
<1>4. \A r \in d.rules : SoundAdjustment(r) /\ d.rank[r] \in Nat
  BY <1>1 DEF SoundCall
<1>5. \A r, q \in Fills(d) : r = q
  BY <1>2 DEF SoundCall
<1> QED
  BY <1>3, <1>4, <1>5 DEF SoundCall

LEMMA AdjustedIsNat ==
  ASSUME NEW c, SoundCall(c)
  PROVE  AdjustedTotal(c) \in Nat
<1>1. PICK p \in EveryPlace(c) : AdjustedTotal(c) = PriceOf(c, p)
  BY ReferenceIsLeast
<1> QED
  BY <1>1, PriceIsNat
=============================================================================
