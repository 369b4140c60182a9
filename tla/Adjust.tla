------------------------------- MODULE Adjust -------------------------------
(***************************************************************************)
(* The ADJUST stage of one pricing pass: engine._adjusted with its inner   *)
(* run(), engine._left_after, and the two rule types it applies --         *)
(* time_window with an `adjust` effect and fill_level.                     *)
(*                                                                         *)
(* When exactly one fill rule applies and something else applies beside it *)
(* the stage prices every place the fill rule can take among the others,   *)
(* with a discount set against the charge in either of two ways, and keeps *)
(* the cheapest total. One behaviour of this module is one such call: the  *)
(* candidate orders are priced one after the other, one rule a step.       *)
(***************************************************************************)
EXTENDS AdjustRules

CONSTANTS
  AdjustRule,   \* the ADJUST rules a plan may hold
  Call          \* the calls of _adjusted that are explored

(* A call: the two parts of the ledger's total (the charge for the time and *)
(* what SURCHARGE added), whether a special priced the time, the plan's     *)
(* ADJUST rules with the place each has in the application order, one of its*)
(* own, and those of them that qualify: one fill rule at most, since a stay *)
(* two of them raise is refused before it is priced (find_conflicts).       *)
CallType ==
  [time : Nat, extras : Nat, by_special : BOOLEAN,
   rules : SUBSET AdjustRule, rank : [AdjustRule -> Nat],
   qualified : SUBSET AdjustRule]

IsCall(c) ==
  c \in [time : Nat, extras : Nat, by_special : BOOLEAN,
         rules : {c.rules}, rank : {c.rank}, qualified : {c.qualified}]

SoundCall(c) ==
  /\ IsCall(c)
  /\ IsFiniteSet(c.rules)
  /\ \A r \in c.rules : SoundAdjustment(r) /\ c.rank[r] \in Nat
  /\ \A r, q \in c.rules : c.rank[r] = c.rank[q] => r = q
  /\ \A r, q \in Fills(c) : r = q

ASSUME AdjustRuleAssumption == \A r \in AdjustRule : SoundAdjustment(r)

ASSUME CallAssumption == \A c \in Call : c \in CallType /\ SoundCall(c)

VARIABLES
  call,      \* the arguments of this call
  place,     \* index of the candidate order being priced, in Places
  left,      \* the rules of that order not applied yet
  running,   \* run(): the total so far in that order
  taken,     \* run(): what the discounts so far have taken off
  best       \* the least total of the orders priced so far, or Unpriced

adjustVars == <<call, place, left, running, taken, best>>

Unpriced == -1
-----------------------------------------------------------------------------
(* Whether r is the next rule of the order being priced: the fill rule once *)
(* its place is reached, and the lowest place in the application order      *)
(* among the others.                                                        *)
IsNext(r) ==
  LET gone == Cardinality(Others(call) \ left)
      fillsTurn == Placed(call) \in left /\ gone = Places(call)[place][1]
  IN  IF fillsTurn THEN r = Placed(call)
      ELSE /\ r # Placed(call)
           /\ \A q \in left \ {Placed(call)} : call.rank[r] <= call.rank[q]

BeginCall(c) ==
  /\ call = c
  /\ place = 1
  /\ left = c.rules
  /\ running = Total(c)
  /\ taken = 0
  /\ best = Unpriced

AdjustInit == \E c \in Call : BeginCall(c)

(* One turn of run()'s loop: one rule's lines reach the running total. *)
ApplyRule ==
  /\ place <= Len(Places(call))
  /\ \E r \in left :
       /\ IsNext(r)
       /\ LET d == Delta(r, call, running, taken, Places(call)[place][2])
          IN  /\ running' = running + d
              /\ taken' = IF d < 0 THEN taken - d ELSE taken
       /\ left' = left \ {r}
  /\ UNCHANGED <<call, place, best>>

(* An order is priced: the least total is kept, the first of a tie. *)
NextOrder ==
  /\ place <= Len(Places(call))
  /\ left = {}
  /\ best' = IF best = Unpriced \/ running < best THEN running ELSE best
  /\ place' = place + 1
  /\ left' = call.rules
  /\ running' = Total(call)
  /\ taken' = 0
  /\ UNCHANGED call

Done == place > Len(Places(call))

(* The call has returned. *)
Returned == Done /\ UNCHANGED adjustVars

AdjustNext == ApplyRule \/ NextOrder \/ Returned

AdjustSpec == AdjustInit /\ [][AdjustNext]_adjustVars
-----------------------------------------------------------------------------
(* Every variable keeps its type: the running total is a whole, never       *)
(* negative number of minor units in every order, rule after rule.          *)
TypeOK ==
  /\ call \in CallType
  /\ place \in Nat \ {0}
  /\ left \in SUBSET AdjustRule
  /\ running \in Nat
  /\ taken \in Nat
  /\ best \in Nat \cup {Unpriced}

(* Whatever has been taken off so far, the two parts the fill rule is taken *)
(* of stay within what each part charged and add up to exactly what is left *)
(* of the two together: a discount is set against the stay once, never      *)
(* twice and never partly lost (_left_after).                               *)
PartsAddUp ==
  \A r \in Fills(call), split \in {TIME_FIRST, PER_PART} :
    LET rest == LeftAfter(r, call, taken, split)
    IN  /\ rest.time \in 0 .. call.time
        /\ rest.extra \in 0 .. call.extras
        /\ rest.time + rest.extra = AtLeast(0, Total(call) - taken)

(* "Never a cent more than the cheapest order": what the call returns is    *)
(* the least total of every place of the fill rule and both ways of setting *)
(* a discount against the charge.                                           *)
CheapestOrder == Done => best = AdjustedTotal(call)

(* One rule more moves the fee its own way, though it moves where the fill  *)
(* rule is taken and which cent each part rounds to: a garage that is full  *)
(* costs the driver no less than the same stay without its fill rule, and,  *)
(* where only discounts apply beside it, one more discount costs no more.   *)
EachRuleMovesItsOwnWay ==
  Done =>
    /\ \A r \in Fills(call) : best >= AdjustedTotal(Without(call, r))
    /\ (\A r \in Beside(call) : r.direction = "discount")
         => \A r \in Beside(call) : best <= AdjustedTotal(Without(call, r))
=============================================================================
