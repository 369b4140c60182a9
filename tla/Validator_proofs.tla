-------------------------- MODULE Validator_proofs --------------------------
(***************************************************************************)
(* Proofs about the validator, for every plan and zone: the probes are made*)
(* in the order of the loops and none is passed over, so that the report   *)
(* is whole and what is kept with a finding is the first probe that finds  *)
(* it; and where the clock stands, the engine gives the finding for the    *)
(* stay an owner is shown.                                                 *)
(***************************************************************************)
EXTENDS Validator, FiniteSetTheorems, WellFoundedInduction, TLAPS

(* The library's well-founded order on the natural numbers, as a fact about *)
(* a relation, so that induction can be said of sets.                       *)
LEMMA LessThanIsWellFounded ==
  \E R : IsWellFoundedOn(R, Nat) /\ \A a, b \in Nat : a < b => <<a, b>> \in R
<1> DEFINE R == OpToRel(<, Nat)
<1>1. IsWellFoundedOn(R, Nat)
  BY NatLessThanWellFounded
<1>2. \A a, b \in Nat : a < b => <<a, b>> \in R
  BY DEF OpToRel
<1> QED
  BY <1>1, <1>2

LEMMA LeastUnder ==
  ASSUME NEW R, IsWellFoundedOn(R, Nat), NEW T, T \subseteq Nat, T # {}
  PROVE  \E m \in T : \A y \in T : ~(<<y, m>> \in R)
BY WFMin

LEMMA LeastNat ==
  ASSUME NEW T \in SUBSET Nat, T # {}
  PROVE  \E m \in T : \A n \in T : m <= n
<1>1. ASSUME NEW R, IsWellFoundedOn(R, Nat), \A a, b \in Nat : a < b => <<a, b>> \in R
      PROVE  \E m \in T : \A n \in T : m <= n
  <2>1. T \subseteq Nat /\ IsWellFoundedOn(R, Nat)
    BY <1>1
  <2>2. PICK m \in T : \A y \in T : ~(<<y, m>> \in R)
    BY <2>1, LeastUnder, Zenon
  <2>3. \A n \in T : n \in Nat /\ ~(n < m)
    BY <1>1, <2>1, <2>2
  <2> QED
    BY <2>1, <2>3
<1> QED
  BY <1>1, LessThanIsWellFounded

(* What a loop over sorted marks relies on: whatever is left has a first.    *)
HasFirst(S) == \E m \in S : \A n \in S : m <= n
Sortable(S) == S \subseteq Int /\ \A T \in SUBSET S : T # {} => HasFirst(T)

LEMMA BoundedIsSortable ==
  ASSUME NEW low \in Int, NEW S \in SUBSET Int, \A n \in S : low <= n
  PROVE  Sortable(S)
<1> SUFFICES ASSUME NEW T \in SUBSET S, T # {} PROVE HasFirst(T)
  BY DEF Sortable
<1> DEFINE Up == {n - low : n \in T}
<1>1. Up \in SUBSET Nat /\ Up # {}
  <2>1. \A n \in T : n - low \in Nat
    OBVIOUS
  <2> QED
    BY <2>1
<1>2. PICK k \in Up : \A n \in Up : k <= n
  BY <1>1, LeastNat
<1>3. PICK m \in T : k = m - low
  OBVIOUS
<1>4. \A n \in T : n - low \in Up /\ k <= n - low
  BY <1>2
<1>5. \A n \in T : m <= n
  BY <1>3, <1>4
<1> QED
  BY <1>5 DEF HasFirst

(* A finite set of whole numbers is bounded: the bound is the least of the   *)
(* numbers below 0, seen from above.                                        *)
LEMMA FiniteIsSortable ==
  ASSUME NEW S \in SUBSET Int, IsFiniteSet(S)
  PROVE  Sortable(S)
<1> DEFINE HasFloor(n) == \A T \in SUBSET Int : (IsFiniteSet(T) /\ Cardinality(T) = n) =>
                            \E low \in Int : \A k \in T : low <= k
           NoFloor == {n \in Nat : ~HasFloor(n)}
<1>1. NoFloor = {}
  <2> SUFFICES ASSUME NoFloor # {} PROVE FALSE
    OBVIOUS
  <2>1. PICK n \in NoFloor : \A k \in NoFloor : n <= k
    <3>1. NoFloor \in SUBSET Nat
      OBVIOUS
    <3> QED
      BY <3>1, LeastNat
  <2>2. PICK T \in SUBSET Int : /\ IsFiniteSet(T) /\ Cardinality(T) = n
                                /\ ~\E low \in Int : \A k \in T : low <= k
    BY <2>1
  <2>3. PICK x \in T : TRUE
    <3>1. T # {}
      BY <2>2
    <3> QED
      BY <3>1
  <2>4. IsFiniteSet(T \ {x}) /\ Cardinality(T \ {x}) = n - 1
    BY <2>2, <2>3, FS_RemoveElement
  <2>5. n - 1 \in Nat
    BY <2>4, FS_CardinalityType
  <2>6. HasFloor(n - 1)
    BY <2>1, <2>5
  <2>7. PICK low \in Int : \A k \in T \ {x} : low <= k
    BY <2>4, <2>6
  <2>8. \A k \in T : AtMost(low, x) <= k
    BY <2>2, <2>7 DEF AtMost
  <2>9. AtMost(low, x) \in Int
    BY <2>2, <2>7 DEF AtMost
  <2> QED
    BY <2>2, <2>8, <2>9
<1>2. Cardinality(S) \in Nat
  BY FS_CardinalityType
<1>3. PICK low \in Int : \A k \in S : low <= k
  BY <1>1, <1>2
<1> QED
  BY <1>3, BoundedIsSortable

LEMMA FirstIsFirst ==
  ASSUME NEW S, Sortable(S), NEW T \in SUBSET S, T # {}
  PROVE  /\ First(T) \in T
         /\ \A n \in T : First(T) <= n
<1>1. HasFirst(T)
  BY DEF Sortable
<1> QED
  BY <1>1 DEF HasFirst, First, Min
-----------------------------------------------------------------------------
(* The marks of a plan, each a set that can be gone through in order.        *)
LengthsOf(pl, minute) == {m \in DurationMarks(pl, minute) : m >= 0}

LEMMA MinutesAreSortable ==
  ASSUME NEW pl \in Plans
  PROVE  Sortable(EntryMinutesOfDay(pl)) /\ EntryMinutesOfDay(pl) # {}
<1>1. \A m \in EntryMinutesOfDay(pl) : m \in 0 .. MinutesInADay - 1
  BY DEF EntryMinutesOfDay
<1>2. EntryMinutesOfDay(pl) \in SUBSET Int /\ \A m \in EntryMinutesOfDay(pl) : 0 <= m
  BY <1>1
<1>3. 0 \in EntryMinutesOfDay(pl)
  <2>1. 0 \in 0 .. MinutesInADay - 1
    BY ClockAssumption
  <2> QED
    BY <2>1 DEF EntryMinutesOfDay
<1> QED
  <2>1. 0 \in Int
    OBVIOUS
  <2>2. Sortable(EntryMinutesOfDay(pl))
    BY <1>2, <2>1, BoundedIsSortable
  <2> QED
    BY <1>3, <2>2

LEMMA FiguresAreSortable ==
  ASSUME NEW pl \in Plans
  PROVE  Sortable(OccupancyMarks(pl)) /\ OccupancyMarks(pl) # {}
<1>1. OccupancyMarks(pl) \in SUBSET Int /\ \A m \in OccupancyMarks(pl) : -1 <= m
  <2>1. \A m \in OccupancyMarks(pl) : m = NoFigure \/ m \in 0 .. FULL_BP
    BY Zenon DEF OccupancyMarks
  <2>2. -1 \in Int /\ \A m \in 0 .. FULL_BP : m \in Int /\ -1 <= m
    BY DEF FULL_BP
  <2>3. \A m \in OccupancyMarks(pl) : m \in Int /\ -1 <= m
    BY <2>1, <2>2 DEF NoFigure
  <2> QED
    BY <2>3
<1>2. OccupancyMarks(pl) # {}
  <2>1. FULL_BP \in 0 .. FULL_BP
    BY DEF FULL_BP
  <2> QED
    BY <2>1 DEF OccupancyMarks
<1> QED
  BY <1>1, <1>2, BoundedIsSortable

LEMMA WindowsAreWindows ==
  ASSUME NEW pl \in Plans, NEW w \in WindowsOf(pl)
  PROVE  w \in WindowType /\ Loads(w) /\ IsFiniteSet(w.days) /\ w.days \subseteq Int
<1>1. PICK r \in pl.rules : r.type = "time_window" /\ w = r.window
  BY DEF WindowsOf
<1>2. w \in WindowType /\ Loads(w) /\ IsFiniteSet(w.days)
  BY <1>1, ValidatorAssumption
<1> QED
  BY <1>2 DEF WindowType

LEMMA LengthsAreSortable ==
  ASSUME NEW pl \in Plans, NEW minute \in Int
  PROVE  Sortable(LengthsOf(pl, minute)) /\ LengthsOf(pl, minute) # {}
         /\ LengthsOf(pl, minute) \subseteq Nat
<1> DEFINE rates == {r \in pl.rules : r.stage = ACCUMULATE}
           limits == {l \in {LengthToLimit(w, minute) : w \in WindowsOf(pl)} : l > 0}
<1>1. \A r \in rates : /\ r.first_period \in Int /\ r.repeat_period \in Int /\ r.max \in Int
  BY ValidatorAssumption DEF NoLimit
<1>2. \A w \in WindowsOf(pl) : LengthToLimit(w, minute) \in Int
  <2> SUFFICES ASSUME NEW w \in WindowsOf(pl) PROVE LengthToLimit(w, minute) \in Int
    OBVIOUS
  <2>1. w \in WindowType
    BY WindowsAreWindows
  <2>2. w.exit_by \in Int /\ w.day_span \in {"same_day", "next_day", "any_span"}
    BY <2>1 DEF WindowType, TimesOfDay, DAY_SPAN_LIMITS
  <2>3. DAY_SPAN_LIMITS[w.day_span] \in {0, 1, Unbounded}
    BY <2>2 DEF DAY_SPAN_LIMITS
  <2>4. MinutesInADay \in Nat
    BY ClockAssumption
  <2>5. CASE DAY_SPAN_LIMITS[w.day_span] = Unbounded
    BY <2>2, <2>5 DEF LengthToLimit
  <2>6. CASE DAY_SPAN_LIMITS[w.day_span] = 0
    BY <2>2, <2>4, <2>6 DEF LengthToLimit, Unbounded
  <2>7. CASE DAY_SPAN_LIMITS[w.day_span] = 1
    BY <2>2, <2>4, <2>7 DEF LengthToLimit, Unbounded
  <2> QED
    BY <2>3, <2>5, <2>6, <2>7
<1>3. Hour \in Nat
  BY ClockAssumption DEF Hour
<1>4. \A l \in Int : Around(l) \subseteq Int
  BY DEF Around
<1>5. ASSUME NEW m \in DurationMarks(pl, minute)
      PROVE  m \in Int
  <2> DEFINE periods == UNION {{r.first_period, r.repeat_period} : r \in rates}
             ceilings == {r.max : r \in rates} \ {NoLimit}
             days == {3 * MinutesInADay : r \in {q \in rates : q.max = NoLimit}}
  <2>1. \/ m \in {0, 1, 17 * Hour, 25 * Hour, 49 * Hour}
        \/ m \in UNION {Around(l) : l \in periods \cup ceilings \cup limits}
        \/ m \in days
    BY <1>5, Zenon DEF DurationMarks
  <2>2. \A l \in periods \cup ceilings \cup limits : l \in Int
    BY <1>1, <1>2
  <2>3. CASE m \in {0, 1, 17 * Hour, 25 * Hour, 49 * Hour}
    BY <1>3, <2>3
  <2>4. CASE m \in UNION {Around(l) : l \in periods \cup ceilings \cup limits}
    <3> HIDE DEF periods, ceilings, limits
    <3>1. PICK l \in periods \cup ceilings \cup limits : m \in Around(l)
      BY <2>4
    <3> QED
      BY <1>4, <2>2, <3>1
  <2>5. CASE m \in days
    BY <2>5, ClockAssumption
  <2> QED
    BY <2>1, <2>3, <2>4, <2>5
<1>6. LengthsOf(pl, minute) \in SUBSET Int /\ \A m \in LengthsOf(pl, minute) : 0 <= m
  BY <1>5 DEF LengthsOf
<1>7. 0 \in LengthsOf(pl, minute)
  BY DEF LengthsOf, DurationMarks
<1> QED
  BY <1>6, <1>7, BoundedIsSortable

(* The dates are as many as the owner wrote down, before or after the         *)
(* reference date: what makes them sortable is that they are finitely many.  *)
LEMMA DatesAreSortable ==
  ASSUME NEW pl \in Plans
  PROVE  Sortable(EntryDates(pl)) /\ EntryDates(pl) # {}
<1> DEFINE stated(w) == IF w.kind = "days_of_week" THEN {ReferenceWeek + d : d \in w.days} ELSE w.days
           windows == WindowsOf(pl)
           rules == {r \in pl.rules : r.type = "time_window"}
           all == {stated(w) : w \in windows}
<1>1. ReferenceWeek \in Int /\ ReferenceDate \in Int
  BY ValidatorAssumption, WeekAssumption DEF ReferenceWeek
<1>2. \A w \in windows : stated(w) \subseteq Int /\ IsFiniteSet(stated(w))
  <2> SUFFICES ASSUME NEW w \in windows PROVE stated(w) \subseteq Int /\ IsFiniteSet(stated(w))
    OBVIOUS
  <2>1. IsFiniteSet(w.days) /\ w.days \subseteq Int
    BY WindowsAreWindows
  <2> DEFINE moved == {ReferenceWeek + d : d \in w.days}
             move == [d \in w.days |-> ReferenceWeek + d]
  <2>2. move \in Surjection(w.days, moved)
    BY DEF Surjection
  <2>3. IsFiniteSet(moved)
    <3> HIDE DEF moved, move
    <3> QED
      BY <2>1, <2>2, FS_Surjection
  <2>4. moved \subseteq Int
    BY <1>1, <2>1
  <2> QED
    BY <2>1, <2>3, <2>4
<1>3. IsFiniteSet(rules)
  <2>1. IsFiniteSet(pl.rules) /\ rules \subseteq pl.rules
    BY ValidatorAssumption
  <2> QED
    BY <2>1, FS_Subset
<1>4. IsFiniteSet(all)
  <2> DEFINE of == [r \in rules |-> stated(r.window)]
  <2>1. of \in Surjection(rules, all)
    <3>1. windows = {r.window : r \in rules}
      BY DEF WindowsOf
    <3>2. \A r \in rules : stated(r.window) \in all
      BY <3>1
    <3>3. \A s \in all : \E r \in rules : of[r] = s
      <4> SUFFICES ASSUME NEW s \in all PROVE \E r \in rules : of[r] = s
        OBVIOUS
      <4>1. PICK w \in windows : s = stated(w)
        OBVIOUS
      <4>2. PICK r \in rules : w = r.window
        BY <3>1
      <4> QED
        BY <4>1, <4>2
    <3> HIDE DEF all, stated, rules
    <3> QED
      BY <3>2, <3>3 DEF Surjection
  <2> HIDE DEF of, rules, all
  <2> QED
    BY <1>3, <2>1, FS_Surjection
<1>5. IsFiniteSet(UNION all)
  <2>1. \A s \in all : IsFiniteSet(s)
    BY <1>2
  <2> HIDE DEF all
  <2> QED
    BY <1>4, <2>1, FS_UNION
<1>6. EntryDates(pl) = {ReferenceDate} \cup UNION all
  BY DEF EntryDates
<1>7. IsFiniteSet(EntryDates(pl))
  <2> HIDE DEF all
  <2>1. IsFiniteSet({ReferenceDate})
    BY FS_Singleton
  <2>2. IsFiniteSet({ReferenceDate} \cup UNION all)
    BY <1>5, <2>1, FS_Union
  <2> QED
    BY <1>6, <2>2
<1>8. EntryDates(pl) \in SUBSET Int
  <2>1. \A s \in all : s \subseteq Int
    BY <1>2
  <2> HIDE DEF all
  <2> QED
    BY <1>1, <1>6, <2>1
<1> QED
  BY <1>6, <1>7, <1>8, FiniteIsSortable
-----------------------------------------------------------------------------
(* Every probe of a plan, and the order they are made in.                    *)
Probes(pl) ==
  {p \in [class : 1 .. Len(pl.class_order), date : EntryDates(pl),
          minute : EntryMinutesOfDay(pl), length : Nat, figure : OccupancyMarks(pl)] :
     p.length \in LengthsOf(pl, p.minute)}

Sooner(p, q) ==
  \/ Earlier(p, q)
  \/ /\ p.class = q.class /\ p.date = q.date /\ p.minute = q.minute /\ p.length = q.length
     /\ p.figure < q.figure

FirstFrom(pl, class, date, minute) ==
  [class |-> class, date |-> date, minute |-> minute,
   length |-> First(LengthsOf(pl, minute)), figure |-> First(OccupancyMarks(pl))]

LEMMA ProbesAreNumbers ==
  ASSUME NEW pl \in Plans, NEW p \in Probes(pl)
  PROVE  /\ p.class \in Int /\ p.date \in Int /\ p.minute \in Int /\ p.length \in Int
         /\ p.figure \in Int
         /\ p = [class |-> p.class, date |-> p.date, minute |-> p.minute, length |-> p.length,
                 figure |-> p.figure]
         /\ p.class \in 1 .. Len(pl.class_order) /\ p.date \in EntryDates(pl)
         /\ p.minute \in EntryMinutesOfDay(pl) /\ p.length \in LengthsOf(pl, p.minute)
         /\ p.figure \in OccupancyMarks(pl)
<1>1. /\ p \in [class : 1 .. Len(pl.class_order), date : EntryDates(pl),
                minute : EntryMinutesOfDay(pl), length : Nat, figure : OccupancyMarks(pl)]
      /\ p.length \in LengthsOf(pl, p.minute)
  BY DEF Probes
<1>2. /\ EntryDates(pl) \subseteq Int /\ EntryMinutesOfDay(pl) \subseteq Int
      /\ OccupancyMarks(pl) \subseteq Int
  BY DatesAreSortable, MinutesAreSortable, FiguresAreSortable DEF Sortable
<1> QED
  BY <1>1, <1>2

LEMMA ProbeMade ==
  ASSUME NEW pl \in Plans, NEW c \in 1 .. Len(pl.class_order), NEW d \in EntryDates(pl),
         NEW m \in EntryMinutesOfDay(pl), NEW l \in LengthsOf(pl, m), NEW f \in OccupancyMarks(pl)
  PROVE  [class |-> c, date |-> d, minute |-> m, length |-> l, figure |-> f] \in Probes(pl)
<1>1. m \in Int
  BY MinutesAreSortable DEF Sortable
<1>2. l \in Nat
  BY <1>1, LengthsAreSortable
<1> QED
  BY <1>2 DEF Probes

(* Two probes of one plan that agree in everything are one.                  *)
LEMMA SameProbe ==
  ASSUME NEW pl \in Plans, NEW p \in Probes(pl), NEW q \in Probes(pl),
         p.class = q.class, p.date = q.date, p.minute = q.minute, p.length = q.length,
         p.figure = q.figure
  PROVE  p = q
<1>1. p = [class |-> p.class, date |-> p.date, minute |-> p.minute, length |-> p.length,
           figure |-> p.figure]
  BY ProbesAreNumbers
<1>2. q = [class |-> q.class, date |-> q.date, minute |-> q.minute, length |-> q.length,
           figure |-> q.figure]
  BY ProbesAreNumbers
<1> QED
  BY <1>1, <1>2, Zenon

(* What is left of a sorted set after a mark, and what is not.               *)
LEMMA AfterAMark ==
  ASSUME NEW S, Sortable(S), NEW mark \in S
  PROVE  /\ After(S, mark) = {} => \A x \in S : x <= mark
         /\ After(S, mark) # {} =>
              /\ First(After(S, mark)) \in S /\ mark < First(After(S, mark))
              /\ \A x \in S : x < First(After(S, mark)) => x <= mark
<1>1. S \subseteq Int /\ After(S, mark) \subseteq S
  BY DEF Sortable, After
<1>2. After(S, mark) = {} => \A x \in S : x <= mark
  BY <1>1 DEF After
<1>3. ASSUME After(S, mark) # {}
      PROVE  /\ First(After(S, mark)) \in S /\ mark < First(After(S, mark))
             /\ \A x \in S : x < First(After(S, mark)) => x <= mark
  <2>1. /\ First(After(S, mark)) \in After(S, mark)
        /\ \A x \in After(S, mark) : First(After(S, mark)) <= x
    BY <1>1, <1>3, FirstIsFirst
  <2> DEFINE f == First(After(S, mark))
  <2>2. f \in S /\ mark < f /\ \A x \in S : x > mark => f <= x
    BY <2>1 DEF After
  <2> HIDE DEF f
  <2>3. \A x \in S : x < f => x <= mark
    BY <1>1, <2>2
  <2> QED
    BY <2>2, <2>3 DEF f
<1> QED
  BY <1>2, <1>3

(* The first probe of a class, a date and a minute, with nothing before it   *)
(* there.                                                                    *)
LEMMA FirstFromIsFirst ==
  ASSUME NEW pl \in Plans, NEW c \in 1 .. Len(pl.class_order), NEW d \in EntryDates(pl),
         NEW m \in EntryMinutesOfDay(pl)
  PROVE  /\ FirstFrom(pl, c, d, m) \in Probes(pl)
         /\ \A p \in Probes(pl) :
              (p.class = c /\ p.date = d /\ p.minute = m) => ~Sooner(p, FirstFrom(pl, c, d, m))
<1>1. m \in Int
  BY MinutesAreSortable DEF Sortable
<1>2. /\ Sortable(LengthsOf(pl, m)) /\ LengthsOf(pl, m) # {}
      /\ Sortable(OccupancyMarks(pl)) /\ OccupancyMarks(pl) # {}
  BY <1>1, LengthsAreSortable, FiguresAreSortable
<1> DEFINE l == First(LengthsOf(pl, m))
           f == First(OccupancyMarks(pl))
<1>3. l \in LengthsOf(pl, m) /\ \A x \in LengthsOf(pl, m) : l <= x
  BY <1>2, FirstIsFirst
<1>4. f \in OccupancyMarks(pl) /\ \A x \in OccupancyMarks(pl) : f <= x
  BY <1>2, FirstIsFirst
<1>5. FirstFrom(pl, c, d, m) = [class |-> c, date |-> d, minute |-> m, length |-> l, figure |-> f]
  BY DEF FirstFrom
<1> HIDE DEF l, f
<1>6. FirstFrom(pl, c, d, m) \in Probes(pl)
  BY <1>3, <1>4, <1>5, ProbeMade
<1>7. ASSUME NEW p \in Probes(pl), p.class = c, p.date = d, p.minute = m
      PROVE  ~Sooner(p, FirstFrom(pl, c, d, m))
  <2>1. /\ p.class \in Int /\ p.date \in Int /\ p.minute \in Int /\ p.length \in Int
        /\ p.figure \in Int /\ p.length \in LengthsOf(pl, m) /\ p.figure \in OccupancyMarks(pl)
    BY <1>7, ProbesAreNumbers
  <2>2. l <= p.length /\ f <= p.figure /\ l \in Int /\ f \in Int
    BY <1>2, <1>3, <1>4, <2>1 DEF Sortable
  <2> QED
    BY <1>5, <1>7, <2>1, <2>2 DEF Sooner, Earlier
<1> QED
  BY <1>6, <1>7

(* The probe the loops go on to, and that nothing lies between.              *)
Follows(pl, q, n) ==
  LET figures == After(OccupancyMarks(pl), q.figure)
      lengths == After(LengthsOf(pl, q.minute), q.length)
      minutes == After(EntryMinutesOfDay(pl), q.minute)
      dates == After(EntryDates(pl), q.date)
  IN  \/ figures # {} /\ n = [q EXCEPT !.figure = First(figures)]
      \/ /\ figures = {} /\ lengths # {}
         /\ n = [q EXCEPT !.length = First(lengths), !.figure = First(OccupancyMarks(pl))]
      \/ /\ figures = {} /\ lengths = {} /\ minutes # {}
         /\ n = FirstFrom(pl, q.class, q.date, First(minutes))
      \/ /\ figures = {} /\ lengths = {} /\ minutes = {} /\ dates # {}
         /\ n = FirstFrom(pl, q.class, First(dates), First(EntryMinutesOfDay(pl)))
      \/ /\ figures = {} /\ lengths = {} /\ minutes = {} /\ dates = {}
         /\ q.class < Len(pl.class_order)
         /\ n = FirstFrom(pl, q.class + 1, First(EntryDates(pl)), First(EntryMinutesOfDay(pl)))

(* Where every loop has ended, and that nothing is left then.                *)
NoneFollows(pl, q) ==
  /\ After(OccupancyMarks(pl), q.figure) = {}
  /\ After(LengthsOf(pl, q.minute), q.length) = {}
  /\ After(EntryMinutesOfDay(pl), q.minute) = {}
  /\ After(EntryDates(pl), q.date) = {}
  /\ q.class = Len(pl.class_order)

LEMMA NothingIsLeft ==
  ASSUME NEW pl \in Plans, NEW q \in Probes(pl), NoneFollows(pl, q), NEW p \in Probes(pl)
  PROVE  p = q \/ Sooner(p, q)
<1>1. /\ p.class \in 1 .. Len(pl.class_order) /\ p.date \in EntryDates(pl)
      /\ p.minute \in EntryMinutesOfDay(pl) /\ p.length \in LengthsOf(pl, p.minute)
      /\ p.figure \in OccupancyMarks(pl)
      /\ p.class \in Int /\ p.date \in Int /\ p.minute \in Int /\ p.length \in Int
      /\ p.figure \in Int
  BY ProbesAreNumbers
<1>2. /\ q.date \in EntryDates(pl) /\ q.minute \in EntryMinutesOfDay(pl)
      /\ q.length \in LengthsOf(pl, q.minute) /\ q.figure \in OccupancyMarks(pl)
      /\ q.class \in Int /\ q.date \in Int /\ q.minute \in Int /\ q.length \in Int
      /\ q.figure \in Int
  BY ProbesAreNumbers
<1>3. /\ Sortable(OccupancyMarks(pl)) /\ Sortable(LengthsOf(pl, q.minute))
      /\ Sortable(EntryMinutesOfDay(pl)) /\ Sortable(EntryDates(pl))
  BY <1>2, FiguresAreSortable, LengthsAreSortable, MinutesAreSortable, DatesAreSortable
<1>4. p.date <= q.date
  BY <1>1, <1>2, <1>3, AfterAMark DEF NoneFollows
<1>5. p.minute <= q.minute
  BY <1>1, <1>2, <1>3, AfterAMark DEF NoneFollows
<1>6. p.minute = q.minute => p.length <= q.length
  BY <1>1, <1>2, <1>3, AfterAMark DEF NoneFollows
<1>7. p.figure <= q.figure
  BY <1>1, <1>2, <1>3, AfterAMark DEF NoneFollows
<1>8. p.class <= q.class
  BY <1>1 DEF NoneFollows
<1>9. \/ Sooner(p, q)
      \/ /\ p.class = q.class /\ p.date = q.date /\ p.minute = q.minute
         /\ p.length = q.length /\ p.figure = q.figure
  BY <1>1, <1>2, <1>4, <1>5, <1>6, <1>7, <1>8 DEF Sooner, Earlier
<1> QED
  BY <1>9, SameProbe

LEMMA NothingIsPassedOver ==
  ASSUME NEW pl \in Plans, NEW q \in Probes(pl), NEW n, Follows(pl, q, n)
  PROVE  /\ n \in Probes(pl)
         /\ \A p \in Probes(pl) : Sooner(p, n) => p = q \/ Sooner(p, q)
<1> DEFINE figures == After(OccupancyMarks(pl), q.figure)
           lengths == After(LengthsOf(pl, q.minute), q.length)
           minutes == After(EntryMinutesOfDay(pl), q.minute)
           dates == After(EntryDates(pl), q.date)
<1>1. /\ q.class \in Int /\ q.date \in Int /\ q.minute \in Int /\ q.length \in Int
      /\ q.figure \in Int
      /\ q = [class |-> q.class, date |-> q.date, minute |-> q.minute, length |-> q.length,
              figure |-> q.figure]
      /\ q.class \in 1 .. Len(pl.class_order) /\ q.date \in EntryDates(pl)
      /\ q.minute \in EntryMinutesOfDay(pl) /\ q.length \in LengthsOf(pl, q.minute)
      /\ q.figure \in OccupancyMarks(pl)
  BY ProbesAreNumbers
<1>2. /\ Sortable(OccupancyMarks(pl)) /\ OccupancyMarks(pl) # {}
      /\ Sortable(LengthsOf(pl, q.minute)) /\ LengthsOf(pl, q.minute) # {}
      /\ Sortable(EntryMinutesOfDay(pl)) /\ EntryMinutesOfDay(pl) # {}
      /\ Sortable(EntryDates(pl)) /\ EntryDates(pl) # {}
  BY <1>1, FiguresAreSortable, LengthsAreSortable, MinutesAreSortable, DatesAreSortable
(* Every other probe, in numbers, and what is known of it where a loop ended. *)
<1>3. ASSUME NEW p \in Probes(pl)
      PROVE  /\ p.class \in Int /\ p.date \in Int /\ p.minute \in Int /\ p.length \in Int
             /\ p.figure \in Int
             /\ p.class \in 1 .. Len(pl.class_order) /\ p.date \in EntryDates(pl)
             /\ p.minute \in EntryMinutesOfDay(pl) /\ p.length \in LengthsOf(pl, p.minute)
             /\ p.figure \in OccupancyMarks(pl)
             /\ figures = {} => p.figure <= q.figure
             /\ (lengths = {} /\ p.minute = q.minute) => p.length <= q.length
             /\ minutes = {} => p.minute <= q.minute
             /\ dates = {} => p.date <= q.date
             /\ (/\ p.class = q.class /\ p.date = q.date /\ p.minute = q.minute
                 /\ p.length = q.length /\ p.figure = q.figure) => p = q
  <2>1. /\ p.class \in Int /\ p.date \in Int /\ p.minute \in Int /\ p.length \in Int
        /\ p.figure \in Int
        /\ p.class \in 1 .. Len(pl.class_order) /\ p.date \in EntryDates(pl)
        /\ p.minute \in EntryMinutesOfDay(pl) /\ p.length \in LengthsOf(pl, p.minute)
        /\ p.figure \in OccupancyMarks(pl)
    BY <1>3, ProbesAreNumbers
  <2>2. /\ figures = {} => \A x \in OccupancyMarks(pl) : x <= q.figure
        /\ lengths = {} => \A x \in LengthsOf(pl, q.minute) : x <= q.length
        /\ minutes = {} => \A x \in EntryMinutesOfDay(pl) : x <= q.minute
        /\ dates = {} => \A x \in EntryDates(pl) : x <= q.date
    BY <1>1, <1>2, AfterAMark
  <2>3. (/\ p.class = q.class /\ p.date = q.date /\ p.minute = q.minute
         /\ p.length = q.length /\ p.figure = q.figure) => p = q
    BY SameProbe
  <2> HIDE DEF figures, lengths, minutes, dates
  <2> QED
    BY <2>1, <2>2, <2>3
<1>4. CASE figures # {} /\ n = [q EXCEPT !.figure = First(figures)]
  <2> DEFINE f == First(figures)
  <2>1. f \in OccupancyMarks(pl) /\ q.figure < f /\ \A x \in OccupancyMarks(pl) : x < f => x <= q.figure
    BY <1>1, <1>2, <1>4, AfterAMark
  <2>2. n = [class |-> q.class, date |-> q.date, minute |-> q.minute, length |-> q.length,
             figure |-> f]
    BY <1>1, <1>4
  <2> HIDE DEF f
  <2>3. n \in Probes(pl)
    BY <1>1, <2>1, <2>2, ProbeMade
  <2>4. ASSUME NEW p \in Probes(pl), Sooner(p, n)
        PROVE  p = q \/ Sooner(p, q)
    <3>1. f \in Int
      BY <1>2, <2>1 DEF Sortable
    <3>2. p.figure < f => p.figure <= q.figure
      BY <1>3, <2>1
    <3> QED
      BY <1>1, <1>3, <2>2, <2>4, <3>1, <3>2 DEF Sooner, Earlier
  <2> QED
    BY <2>3, <2>4
<1>5. CASE /\ figures = {} /\ lengths # {}
           /\ n = [q EXCEPT !.length = First(lengths), !.figure = First(OccupancyMarks(pl))]
  <2> DEFINE l == First(lengths)
             f == First(OccupancyMarks(pl))
  <2>1. /\ l \in LengthsOf(pl, q.minute) /\ q.length < l
        /\ \A x \in LengthsOf(pl, q.minute) : x < l => x <= q.length
    BY <1>1, <1>2, <1>5, AfterAMark
  <2>2. f \in OccupancyMarks(pl) /\ \A x \in OccupancyMarks(pl) : f <= x
    BY <1>2, FirstIsFirst
  <2>3. n = [class |-> q.class, date |-> q.date, minute |-> q.minute, length |-> l, figure |-> f]
    BY <1>1, <1>5
  <2> HIDE DEF f, l
  <2>4. n \in Probes(pl)
    BY <1>1, <2>1, <2>2, <2>3, ProbeMade
  <2>5. ASSUME NEW p \in Probes(pl), Sooner(p, n)
        PROVE  p = q \/ Sooner(p, q)
    <3>1. f \in Int /\ l \in Int
      BY <1>2, <2>1, <2>2 DEF Sortable
    <3>2. /\ (p.minute = q.minute /\ p.length < l) => p.length <= q.length
          /\ f <= p.figure
      BY <1>3, <2>1, <2>2
    <3>3. figures = {}
      BY <1>5
    <3> HIDE DEF figures, lengths, minutes, dates
    <3> QED
      BY <1>1, <1>3, <2>3, <2>5, <3>1, <3>2, <3>3 DEF Sooner, Earlier
  <2> QED
    BY <2>4, <2>5
<1>6. CASE /\ figures = {} /\ lengths = {} /\ minutes # {}
           /\ n = FirstFrom(pl, q.class, q.date, First(minutes))
  <2> DEFINE m == First(minutes)
  <2>1. /\ m \in EntryMinutesOfDay(pl) /\ q.minute < m
        /\ \A x \in EntryMinutesOfDay(pl) : x < m => x <= q.minute
    BY <1>1, <1>2, <1>6, AfterAMark
  <2>2. /\ n.class = q.class /\ n.date = q.date /\ n.minute = m
    BY <1>6 DEF FirstFrom
  <2>3. n = FirstFrom(pl, q.class, q.date, m)
    BY <1>6
  <2>4. figures = {} /\ lengths = {}
    BY <1>6
  <2> HIDE DEF m, figures, lengths, minutes, dates
  <2>5. /\ n \in Probes(pl)
        /\ \A p \in Probes(pl) :
             (p.class = q.class /\ p.date = q.date /\ p.minute = m) => ~Sooner(p, n)
    BY <1>1, <2>1, <2>3, FirstFromIsFirst
  <2>6. ASSUME NEW p \in Probes(pl), Sooner(p, n)
        PROVE  p = q \/ Sooner(p, q)
    <3>1. m \in Int
      BY <1>2, <2>1 DEF Sortable
    <3>2. p.minute < m => p.minute <= q.minute
      BY <1>3, <2>1
    <3>3. ~(p.class = q.class /\ p.date = q.date /\ p.minute = m)
      BY <2>5, <2>6
    <3> QED
      BY <1>1, <1>3, <2>2, <2>4, <2>6, <3>1, <3>2, <3>3 DEF Sooner, Earlier
  <2> QED
    BY <2>5, <2>6
<1>7. CASE /\ figures = {} /\ lengths = {} /\ minutes = {} /\ dates # {}
           /\ n = FirstFrom(pl, q.class, First(dates), First(EntryMinutesOfDay(pl)))
  <2> DEFINE d == First(dates)
             m == First(EntryMinutesOfDay(pl))
  <2>1. /\ d \in EntryDates(pl) /\ q.date < d
        /\ \A x \in EntryDates(pl) : x < d => x <= q.date
    BY <1>1, <1>2, <1>7, AfterAMark
  <2>2. m \in EntryMinutesOfDay(pl) /\ \A x \in EntryMinutesOfDay(pl) : m <= x
    BY <1>2, FirstIsFirst
  <2>3. n = FirstFrom(pl, q.class, d, m)
    BY <1>7
  <2>4. /\ n.class = q.class /\ n.date = d /\ n.minute = m
    BY <2>3 DEF FirstFrom
  <2>5. figures = {} /\ lengths = {} /\ minutes = {}
    BY <1>7
  <2> HIDE DEF m, d, figures, lengths, minutes, dates
  <2>6. /\ n \in Probes(pl)
        /\ \A p \in Probes(pl) :
             (p.class = q.class /\ p.date = d /\ p.minute = m) => ~Sooner(p, n)
    BY <1>1, <2>1, <2>2, <2>3, FirstFromIsFirst
  <2>7. ASSUME NEW p \in Probes(pl), Sooner(p, n)
        PROVE  p = q \/ Sooner(p, q)
    <3>1. m \in Int /\ d \in Int
      BY <1>2, <2>1, <2>2 DEF Sortable
    <3>2. /\ p.date < d => p.date <= q.date
          /\ m <= p.minute
      BY <1>3, <2>1, <2>2
    <3>3. ~(p.class = q.class /\ p.date = d /\ p.minute = m)
      BY <2>6, <2>7
    <3> QED
      BY <1>1, <1>3, <2>4, <2>5, <2>7, <3>1, <3>2, <3>3 DEF Sooner, Earlier
  <2> QED
    BY <2>6, <2>7
<1>8. CASE /\ figures = {} /\ lengths = {} /\ minutes = {} /\ dates = {}
           /\ q.class < Len(pl.class_order)
           /\ n = FirstFrom(pl, q.class + 1, First(EntryDates(pl)), First(EntryMinutesOfDay(pl)))
  <2> DEFINE d == First(EntryDates(pl))
             m == First(EntryMinutesOfDay(pl))
             c == q.class + 1
  <2>1. /\ d \in EntryDates(pl) /\ \A x \in EntryDates(pl) : d <= x
    BY <1>2, FirstIsFirst
  <2>2. m \in EntryMinutesOfDay(pl) /\ \A x \in EntryMinutesOfDay(pl) : m <= x
    BY <1>2, FirstIsFirst
  <2>3. n = FirstFrom(pl, c, d, m)
    BY <1>8
  <2>4. /\ n.class = c /\ n.date = d /\ n.minute = m
    BY <2>3 DEF FirstFrom
  <2>5. figures = {} /\ lengths = {} /\ minutes = {} /\ dates = {}
    BY <1>8
  <2>6. Len(pl.class_order) \in Nat
    BY ValidatorAssumption
  <2>7. c \in 1 .. Len(pl.class_order) /\ c \in Int
    BY <1>1, <1>8, <2>6
  <2>8. \A x \in Int : x < c <=> x <= q.class
    BY <1>1
  <2> HIDE DEF m, d, c, figures, lengths, minutes, dates
  <2>9. /\ n \in Probes(pl)
        /\ \A p \in Probes(pl) :
             (p.class = c /\ p.date = d /\ p.minute = m) => ~Sooner(p, n)
    BY <2>1, <2>2, <2>3, <2>7, FirstFromIsFirst
  <2>10. ASSUME NEW p \in Probes(pl), Sooner(p, n)
         PROVE  p = q \/ Sooner(p, q)
    <3>1. m \in Int /\ d \in Int
      BY <1>2, <2>1, <2>2 DEF Sortable
    <3>2. d <= p.date /\ m <= p.minute
      BY <1>3, <2>1, <2>2
    <3>3. ~(p.class = c /\ p.date = d /\ p.minute = m)
      BY <2>9, <2>10
    <3> QED
      BY <1>1, <1>3, <2>4, <2>5, <2>7, <2>8, <2>10, <3>1, <3>2, <3>3 DEF Sooner, Earlier
  <2> QED
    BY <2>9, <2>10
<1> QED
  BY <1>4, <1>5, <1>6, <1>7, <1>8 DEF Follows
-----------------------------------------------------------------------------
(* No probe the loops have come past found anything that is not kept, and    *)
(* with each finding kept is a probe that found it, none sooner.             *)
Asking ==
  /\ plan \in Plans /\ zone \in Zones
  /\ at \in Probes(plan)
  /\ pc \in {"probing", "done"}

NothingMissed ==
  \A p \in Probes(plan) :
    (pc = "done" \/ Sooner(p, at)) => Found(plan, ProbedStay(p)) \subseteq DOMAIN seen

KeptIsFirst ==
  \A f \in DOMAIN seen :
    /\ seen[f] \in Probes(plan)
    /\ f \in Found(plan, ProbedStay(seen[f]))
    /\ \A p \in Probes(plan) : Sooner(p, seen[f]) => f \notin Found(plan, ProbedStay(p))

IInv == Asking /\ NothingMissed /\ KeptIsFirst

LEMMA ProbeFromIsFirst ==
  \A c, d, m : ProbeFrom(c, d, m) = FirstFrom(plan, c, d, m)
BY Zenon DEF ProbeFrom, FirstFrom, LengthsAt, LengthsOf

LEMMA KeptBefore ==
  ASSUME NEW found
  PROVE  /\ DOMAIN Keep(found) = DOMAIN seen \cup found
         /\ \A f \in DOMAIN seen : Keep(found)[f] = seen[f]
         /\ \A f \in found \ DOMAIN seen : Keep(found)[f] = at
BY DEF Keep

LEMMA Begins == Init => IInv
<1> SUFFICES ASSUME Init PROVE IInv
  OBVIOUS
<1> DEFINE d == First(EntryDates(plan))
           m == First(EntryMinutesOfDay(plan))
<1>1. plan \in Plans /\ zone \in Zones /\ pc = "probing" /\ seen = << >>
      /\ at = ProbeFrom(1, d, m)
  BY DEF Init
<1>2. at = FirstFrom(plan, 1, d, m)
  BY <1>1, ProbeFromIsFirst, Zenon
<1>3. /\ d \in EntryDates(plan) /\ \A x \in EntryDates(plan) : d <= x
      /\ m \in EntryMinutesOfDay(plan) /\ \A x \in EntryMinutesOfDay(plan) : m <= x
  BY <1>1, DatesAreSortable, MinutesAreSortable, FirstIsFirst
<1>4. d \in Int /\ m \in Int
  BY <1>1, <1>3, DatesAreSortable, MinutesAreSortable DEF Sortable
<1>5. 1 \in 1 .. Len(plan.class_order)
  <2>1. plan.class_order \in Seq(plan.classes) /\ plan.class_order # << >>
    BY <1>1, ValidatorAssumption
  <2>2. Len(plan.class_order) \in Nat /\ Len(plan.class_order) # 0
    BY <2>1
  <2> QED
    BY <2>2
<1> HIDE DEF d, m
<1>6. /\ at \in Probes(plan)
      /\ \A p \in Probes(plan) : (p.class = 1 /\ p.date = d /\ p.minute = m) => ~Sooner(p, at)
  BY <1>1, <1>2, <1>3, <1>5, FirstFromIsFirst
<1>7. at.class = 1 /\ at.date = d /\ at.minute = m
  BY <1>2 DEF FirstFrom
<1>8. ASSUME NEW p \in Probes(plan) PROVE ~Sooner(p, at)
  <2>1. /\ p.class \in Int /\ p.date \in Int /\ p.minute \in Int
        /\ 1 <= p.class /\ d <= p.date /\ m <= p.minute
    <3>1. p.class \in 1 .. Len(plan.class_order) /\ p.date \in EntryDates(plan)
          /\ p.minute \in EntryMinutesOfDay(plan)
          /\ p.class \in Int /\ p.date \in Int /\ p.minute \in Int
      BY <1>1, ProbesAreNumbers
    <3> QED
      BY <1>3, <3>1
  <2> QED
    BY <1>4, <1>6, <1>7, <2>1 DEF Sooner, Earlier
<1>9. Asking
  BY <1>1, <1>6 DEF Asking
<1>10. NothingMissed
  BY <1>1, <1>8 DEF NothingMissed
<1>11. KeptIsFirst
  <2>1. DOMAIN seen = {}
    BY <1>1
  <2> QED
    BY <2>1 DEF KeptIsFirst
<1> QED
  BY <1>9, <1>10, <1>11 DEF IInv

(* A probe goes on to the one that follows it, or was the last.              *)
LEMMA ProbeGoesOn ==
  ASSUME Asking, Probe
  PROVE  /\ plan' = plan /\ zone' = zone /\ pc = "probing"
         /\ \/ pc' = "probing" /\ Follows(plan, at, at')
            \/ pc' = "done" /\ at' = at /\ NoneFollows(plan, at)
<1> DEFINE figures == After(OccupancyMarks(plan), at.figure)
           lengths == After(LengthsAt(at.minute), at.length)
           minutes == After(EntryMinutesOfDay(plan), at.minute)
           dates == After(EntryDates(plan), at.date)
<1>1. plan' = plan /\ zone' = zone /\ pc = "probing"
  BY DEF Probe
<1>2. LengthsAt(at.minute) = LengthsOf(plan, at.minute)
  BY DEF LengthsAt, LengthsOf
<1>3. lengths = After(LengthsOf(plan, at.minute), at.length)
  BY <1>2
<1>4. \/ figures # {} /\ at' = [at EXCEPT !.figure = First(figures)] /\ UNCHANGED pc
      \/ /\ figures = {} /\ lengths # {}
         /\ at' = [at EXCEPT !.length = First(lengths), !.figure = First(OccupancyMarks(plan))]
         /\ UNCHANGED pc
      \/ /\ figures \cup lengths = {} /\ minutes # {}
         /\ at' = ProbeFrom(at.class, at.date, First(minutes)) /\ UNCHANGED pc
      \/ /\ figures \cup lengths \cup minutes = {} /\ dates # {}
         /\ at' = ProbeFrom(at.class, First(dates), First(EntryMinutesOfDay(plan))) /\ UNCHANGED pc
      \/ /\ figures \cup lengths \cup minutes \cup dates = {} /\ at.class < Len(plan.class_order)
         /\ at' = ProbeFrom(at.class + 1, First(EntryDates(plan)), First(EntryMinutesOfDay(plan)))
         /\ UNCHANGED pc
      \/ /\ figures \cup lengths \cup minutes \cup dates = {} /\ at.class = Len(plan.class_order)
         /\ pc' = "done" /\ UNCHANGED at
  BY Zenon DEF Probe
<1>5. \A c, d, m : ProbeFrom(c, d, m) = FirstFrom(plan, c, d, m)
  BY ProbeFromIsFirst
<1> HIDE DEF figures, lengths, minutes, dates
<1>6. /\ figures \cup lengths = {} => figures = {} /\ lengths = {}
      /\ figures \cup lengths \cup minutes = {} => figures = {} /\ lengths = {} /\ minutes = {}
      /\ figures \cup lengths \cup minutes \cup dates = {}
           => figures = {} /\ lengths = {} /\ minutes = {} /\ dates = {}
  OBVIOUS
<1>7. (pc' = pc /\ (\/ figures # {} /\ at' = [at EXCEPT !.figure = First(figures)]
      \/ /\ figures = {} /\ lengths # {}
         /\ at' = [at EXCEPT !.length = First(lengths), !.figure = First(OccupancyMarks(plan))]
      \/ /\ figures = {} /\ lengths = {} /\ minutes # {}
         /\ at' = FirstFrom(plan, at.class, at.date, First(minutes))
      \/ /\ figures = {} /\ lengths = {} /\ minutes = {} /\ dates # {}
         /\ at' = FirstFrom(plan, at.class, First(dates), First(EntryMinutesOfDay(plan)))
      \/ /\ figures = {} /\ lengths = {} /\ minutes = {} /\ dates = {}
         /\ at.class < Len(plan.class_order)
         /\ at' = FirstFrom(plan, at.class + 1, First(EntryDates(plan)),
                            First(EntryMinutesOfDay(plan)))))
      \/ /\ pc' = "done" /\ at' = at
         /\ figures = {} /\ lengths = {} /\ minutes = {} /\ dates = {}
         /\ at.class = Len(plan.class_order)
  BY <1>4, <1>5, <1>6, Zenon
<1>8. \/ pc' = pc /\ Follows(plan, at, at')
      \/ pc' = "done" /\ at' = at /\ NoneFollows(plan, at)
  BY <1>3, <1>7, Zenon DEF Follows, NoneFollows, figures, minutes, dates
<1> QED
  BY <1>1, <1>8

LEMMA ProbeKeepsIt == ASSUME IInv, Probe PROVE IInv'
<1> DEFINE found == Found(plan, ProbedStay(at))
<1>1. Asking /\ NothingMissed /\ KeptIsFirst
  BY DEF IInv
<1>2. /\ plan' = plan /\ zone' = zone /\ pc = "probing"
      /\ \/ pc' = "probing" /\ Follows(plan, at, at')
         \/ pc' = "done" /\ at' = at /\ NoneFollows(plan, at)
  BY <1>1, ProbeGoesOn
<1>3. plan \in Plans /\ at \in Probes(plan)
  BY <1>1 DEF Asking
<1>4. Asking'
  <2>1. at' \in Probes(plan)
    BY <1>2, <1>3, NothingIsPassedOver
  <2>2. plan \in Plans /\ zone \in Zones
    BY <1>1 DEF Asking
  <2> QED
    BY <1>2, <2>1, <2>2 DEF Asking
<1>5. \A p : ProbedStay(p)' = ProbedStay(p)
  BY <1>2 DEF ProbedStay
<1>6. seen' = Keep(found)
  BY DEF Probe
<1>7. /\ DOMAIN seen' = DOMAIN seen \cup found
      /\ \A f \in DOMAIN seen : seen'[f] = seen[f]
      /\ \A f \in found \ DOMAIN seen : seen'[f] = at
  <2> HIDE DEF found
  <2> QED
    BY <1>6, KeptBefore
<1>8. \A p \in Probes(plan) : Sooner(p, at) => Found(plan, ProbedStay(p)) \subseteq DOMAIN seen
  BY <1>1, <1>2 DEF NothingMissed
<1>9. NothingMissed'
  <2> SUFFICES ASSUME NEW p \in Probes(plan), pc' = "done" \/ Sooner(p, at')
               PROVE  Found(plan, ProbedStay(p)) \subseteq DOMAIN seen'
    BY <1>2, <1>5, Zenon DEF NothingMissed
  <2>1. NoneFollows(plan, at) => (p = at \/ Sooner(p, at))
    BY <1>3, NothingIsLeft
  <2>2. (Follows(plan, at, at') /\ Sooner(p, at')) => (p = at \/ Sooner(p, at))
    BY <1>3, NothingIsPassedOver
  <2>3. p = at \/ Sooner(p, at)
    BY <1>2, <2>1, <2>2, Zenon
  <2>4. p = at => Found(plan, ProbedStay(p)) = found
    OBVIOUS
  <2> HIDE DEF found
  <2> QED
    BY <1>7, <1>8, <2>3, <2>4
<1>10. KeptIsFirst'
  <2> SUFFICES ASSUME NEW f \in DOMAIN seen'
               PROVE  /\ seen'[f] \in Probes(plan)
                      /\ f \in Found(plan, ProbedStay(seen'[f]))
                      /\ \A p \in Probes(plan) :
                           Sooner(p, seen'[f]) => f \notin Found(plan, ProbedStay(p))
    BY <1>2, <1>5, Zenon DEF KeptIsFirst
  <2>1. CASE f \in DOMAIN seen
    <3>1. seen'[f] = seen[f]
      BY <1>7, <2>1
    <3> QED
      BY <1>1, <2>1, <3>1, Zenon DEF KeptIsFirst
  <2>2. CASE f \notin DOMAIN seen
    <3>1. f \in found /\ seen'[f] = at
      <4> HIDE DEF found
      <4> QED
        BY <1>7, <2>2
    <3>2. ASSUME NEW p \in Probes(plan), Sooner(p, at)
          PROVE  f \notin Found(plan, ProbedStay(p))
      BY <1>8, <2>2, <3>2
    <3> QED
      BY <1>3, <3>1, <3>2, Zenon
  <2> QED
    BY <2>1, <2>2
<1> QED
  BY <1>4, <1>9, <1>10, Zenon DEF IInv

LEMMA StepKeepsIt == ASSUME IInv, [Next]_vars PROVE IInv'
<1>1. CASE Probe
  BY <1>1, ProbeKeepsIt
<1>2. CASE UNCHANGED vars
  <2>1. plan' = plan /\ zone' = zone /\ at' = at /\ seen' = seen /\ pc' = pc
    BY <1>2 DEF vars
  <2>2. \A p : ProbedStay(p)' = ProbedStay(p)
    BY <2>1 DEF ProbedStay
  <2>3. Asking' /\ NothingMissed' /\ KeptIsFirst'
    BY <2>1, <2>2, Zenon DEF IInv, Asking, NothingMissed, KeptIsFirst
  <2> QED
    BY <2>3 DEF IInv
<1> QED
  BY <1>1, <1>2 DEF Next, Done

(* What an owner is shown is what the probes find, all of it and nothing     *)
(* else: no probe is passed over by the five loops, whatever marks a plan    *)
(* gives them, and no finding is kept that none of them has (validate_plan). *)
ReportIsWhole ==
  pc = "done" => Reported = UNION {Found(plan, ProbedStay(p)) : p \in Probes(plan)}

THEOREM ReportIsOfTheProbes == Spec => []ReportIsWhole
<1>1. IInv => ReportIsWhole
  <2> SUFFICES ASSUME IInv, pc = "done"
               PROVE  Reported = UNION {Found(plan, ProbedStay(p)) : p \in Probes(plan)}
    BY DEF ReportIsWhole
  <2>1. \A p \in Probes(plan) : Found(plan, ProbedStay(p)) \subseteq Reported
    BY DEF IInv, NothingMissed, Reported
  <2>2. \A f \in Reported : \E p \in Probes(plan) : f \in Found(plan, ProbedStay(p))
    BY Zenon DEF IInv, KeptIsFirst, Reported
  <2> QED
    BY <2>1, <2>2
<1> QED
  BY <1>1, Begins, StepKeepsIt, PTL DEF Spec

(* What is shown with a finding is the first stay, in the order the plan's   *)
(* own boundaries are probed in, that has it (validate_plan's setdefault).   *)
THEOREM FirstIsKept == Spec => []FirstProbeKept
<1>1. IInv => FirstProbeKept
  <2> SUFFICES ASSUME IInv, pc = "done", NEW f \in Reported,
                      NEW c \in 1 .. seen[f].class, NEW d \in EntryDates(plan),
                      NEW m \in EntryMinutesOfDay(plan), NEW figure \in OccupancyMarks(plan),
                      NEW l \in LengthsAt(m),
                      Earlier([class |-> c, date |-> d, minute |-> m, length |-> l,
                               figure |-> figure], seen[f])
               PROVE  f \notin Found(plan, ProbedStay([class |-> c, date |-> d, minute |-> m,
                                                       length |-> l, figure |-> figure]))
    BY Zenon DEF FirstProbeKept
  <2> DEFINE p == [class |-> c, date |-> d, minute |-> m, length |-> l, figure |-> figure]
  <2>1. plan \in Plans /\ KeptIsFirst
    BY DEF IInv, Asking
  <2>2. /\ seen[f] \in Probes(plan)
        /\ \A x \in Probes(plan) : Sooner(x, seen[f]) => f \notin Found(plan, ProbedStay(x))
    BY <2>1 DEF KeptIsFirst, Reported
  <2>3. seen[f].class \in 1 .. Len(plan.class_order)
    BY <2>1, <2>2, ProbesAreNumbers
  <2>4. Len(plan.class_order) \in Nat
    BY <2>1, ValidatorAssumption
  <2>5. c \in 1 .. Len(plan.class_order)
    BY <2>3, <2>4
  <2>6. l \in LengthsOf(plan, m)
    BY DEF LengthsAt, LengthsOf
  <2>7. p \in Probes(plan)
    BY <2>1, <2>5, <2>6, ProbeMade
  <2>8. Sooner(p, seen[f])
    BY DEF Sooner
  <2> HIDE DEF p
  <2>9. f \notin Found(plan, ProbedStay(p))
    BY <2>2, <2>7, <2>8
  <2> QED
    BY <2>9 DEF p
<1> QED
  BY <1>1, Begins, StepKeepsIt, PTL DEF Spec
-----------------------------------------------------------------------------
LEMMA WholeTimes ==
  ASSUME NEW k \in Int, NEW d \in Nat \ {0}
  PROVE  (k * d) \div d = k
<1> DEFINE n == k * d
           q == n \div d
<1>1. n \in Int /\ q \in Int /\ d * q <= n /\ n < d * q + d
  <2>1. n \in Int
    OBVIOUS
  <2> HIDE DEF n
  <2> QED
    BY <2>1
<1>2. ~(q < k)
  <2> SUFFICES ASSUME q < k PROVE FALSE
    OBVIOUS
  <2> DEFINE j == k - q
  <2>1. j \in Int /\ 1 <= j
    BY <1>1
  <2>2. d <= j * d
    <3> HIDE DEF j
    <3> QED
      BY <2>1
  <2>3. j * d = n - d * q
    <3> HIDE DEF q
    <3> QED
      BY <1>1
  <2> QED
    BY <1>1, <2>2, <2>3
<1>3. ~(q > k)
  <2> SUFFICES ASSUME q > k PROVE FALSE
    OBVIOUS
  <2> DEFINE j == q - k
  <2>1. j \in Int /\ 1 <= j
    BY <1>1
  <2>2. d <= j * d
    <3> HIDE DEF j
    <3> QED
      BY <2>1
  <2>3. j * d = d * q - n
    <3> HIDE DEF q
    <3> QED
      BY <1>1
  <2> QED
    BY <1>1, <2>2, <2>3
<1> QED
  BY <1>1, <1>2, <1>3

(* A clock that stands, and boundaries within what the engine prices: on    *)
(* another clock, or past the longest stay, ProbeProduces does not hold.     *)
Standing == \A z \in Zones : z.before = z.after
Priceable ==
  \A pl \in Plans : \A m \in EntryMinutesOfDay(pl) : \A l \in LengthsOf(pl, m) : l <= MaxStayMinutes

(* On a clock that stands the two instants an owner is shown are, read on    *)
(* the plan's clock, the stay that was asked about.                          *)
LEMMA SentAsProbed ==
  ASSUME Standing, zone \in Zones, plan \in Plans, NEW p \in Probes(plan)
  PROVE  LET s == ProbedStay(p)
         IN  /\ InstantAt(s.in) <= InstantAt(s.out)
             /\ Sent(InstantAt(s.in), InstantAt(s.out), s.class, s.occupancy) = s
<1> DEFINE in == p.date * MinutesInADay + p.minute
           off == zone.before
           out == in + p.length
           class == plan.class_order[p.class]
<1>1. /\ zone.at \in Int /\ off \in Int /\ zone.after = off
  BY ValidatorAssumption DEF Standing, ZoneType
<1>2. /\ p.date \in Int /\ p.minute \in Int /\ p.length \in Nat
  <2>1. p.date \in Int /\ p.minute \in Int
    BY ProbesAreNumbers
  <2>2. p.length \in LengthsOf(plan, p.minute)
    BY ProbesAreNumbers
  <2> QED
    BY <2>1, <2>2, LengthsAreSortable
<1>3. in \in Int /\ out \in Int
  BY <1>2, ClockAssumption
<1>4. ProbedStay(p) = [in |-> in, out |-> out, minutes |-> p.length, class |-> class,
                       occupancy |-> p.figure, entry |-> in]
  BY DEF ProbedStay, StayOf
<1>5. MinuteTicks \in Nat \ {0}
  BY ClockAssumption
<1>6. \A r \in Int : InstantAt(r) = r * MinuteTicks - off
  BY <1>1, <1>5 DEF InstantAt
<1>7. \A r \in Int : LocalMinute(zone, InstantAt(r)) = r
  <2> SUFFICES ASSUME NEW r \in Int PROVE LocalMinute(zone, InstantAt(r)) = r
    OBVIOUS
  <2> DEFINE n == r * MinuteTicks
  <2>1. n \in Int /\ n \div MinuteTicks = r
    BY <1>5, WholeTimes
  <2>2. InstantAt(r) = n - off
    BY <1>6
  <2> HIDE DEF n
  <2>3. WallClock(zone, InstantAt(r)) = n
    BY <1>1, <2>1, <2>2 DEF WallClock
  <2> QED
    BY <2>1, <2>3 DEF LocalMinute
<1>8. MinutesUntil(InstantAt(in), InstantAt(out)) = p.length /\ InstantAt(in) <= InstantAt(out)
  <2> DEFINE n == p.length * MinuteTicks
             k == (-p.length) * MinuteTicks
  <2>1. n \in Nat /\ k = -n /\ k \div MinuteTicks = -p.length
    BY <1>2, <1>5, WholeTimes
  <2>2. InstantAt(out) - InstantAt(in) = n
    <3> HIDE DEF in
    <3> QED
      BY <1>2, <1>1, <1>3, <1>5, <1>6
  <2>3. InstantAt(in) \in Int /\ InstantAt(out) \in Int
    <3> HIDE DEF in
    <3> QED
      BY <1>1, <1>3, <1>5, <1>6
  <2> HIDE DEF n, k, in, out
  <2>4. InstantAt(in) <= InstantAt(out)
    BY <2>1, <2>2, <2>3
  <2> QED
    BY <1>2, <2>1, <2>2, <2>4 DEF MinutesUntil, CeilDiv
<1> HIDE DEF in, out, class
<1>9. Sent(InstantAt(in), InstantAt(out), class, p.figure) = ProbedStay(p)
  BY <1>3, <1>4, <1>7, <1>8 DEF Sent, StayOf
<1> QED
  BY <1>4, <1>8, <1>9

(* Where the clock stands, an owner who sends the stay shown with a finding  *)
(* is refused for that finding, whatever the plan (F49, R5).                 *)
THEOREM ShownIsRefused ==
  ASSUME Standing, Priceable
  PROVE  Spec => []ProbeProduces
<1>1. IInv => ProbeProduces
  <2> SUFFICES ASSUME IInv, NEW f \in Reported
               PROVE  LET p == ProbedStay(seen[f])
                          entry == InstantAt(p.in)
                          exit == InstantAt(p.out)
                      IN  entry <= exit /\ f \in RefusedFor(Sent(entry, exit, p.class, p.occupancy))
    BY Zenon DEF ProbeProduces
  <2>1. plan \in Plans /\ zone \in Zones /\ KeptIsFirst
    BY DEF IInv, Asking
  <2>2. seen[f] \in Probes(plan) /\ f \in Found(plan, ProbedStay(seen[f]))
    BY <2>1 DEF KeptIsFirst, Reported
  <2> DEFINE s == ProbedStay(seen[f])
  <2>3. /\ InstantAt(s.in) <= InstantAt(s.out)
        /\ Sent(InstantAt(s.in), InstantAt(s.out), s.class, s.occupancy) = s
    BY <2>1, <2>2, SentAsProbed
  <2>4. ~TooLong(s)
    <3>1. /\ seen[f].length \in LengthsOf(plan, seen[f].minute) /\ seen[f].minute \in Int
          /\ seen[f].minute \in EntryMinutesOfDay(plan)
      BY <2>1, <2>2, ProbesAreNumbers
    <3>2. seen[f].length <= MaxStayMinutes /\ seen[f].length \in Nat
      BY <2>1, <3>1, LengthsAreSortable DEF Priceable
    <3>3. s.minutes = seen[f].length
      BY DEF ProbedStay, StayOf
    <3> HIDE DEF s
    <3> QED
      BY <3>2, <3>3, ValidatorAssumption DEF TooLong
  <2>5. f \in RefusedFor(s)
    <3> HIDE DEF s
    <3> QED
      BY <2>2, <2>4 DEF RefusedFor, s
  <2> HIDE DEF s
  <2> QED
    BY <2>3, <2>5 DEF s
<1> QED
  BY <1>1, Begins, StepKeepsIt, PTL DEF Spec
=============================================================================
