---------------------------- MODULE AdjustRules ----------------------------
(***************************************************************************)
(* The two rule types of the ADJUST stage, as operators: a time_window     *)
(* with an `adjust` effect moves the running total it sees, and fill_level *)
(* raises what is left of the charge for the time and of the space-class   *)
(* extra (engine._left_after). Then the orders engine._adjusted tries for  *)
(* one call and the least total of them.                                   *)
(***************************************************************************)
EXTENDS Arith, Percent, SequencesExt

(* What the plan loader guarantees of an ADJUST rule (time_window._effect,  *)
(* fill_level.build): amounts are positive, and a percentage discount and   *)
(* what a full garage adds are at most the whole (MAX_INCREASE_BP).         *)
SoundWindow(r) ==
  /\ r.type = "time_window"
  /\ r.direction \in {"discount", "increase"} /\ r.kind \in {"fixed", "percent"}
  /\ r.amount \in Nat \ {0} /\ r.rounding \in {"up", "down"}
  /\ r.direction = "discount" /\ r.kind = "percent" => r.amount <= BASIS_POINTS_PER_WHOLE

SoundFill(r) ==
  /\ r.type = "fill_level"
  /\ r.percent_bp \in 1 .. BASIS_POINTS_PER_WHOLE /\ r.rounding \in {"up", "down"}
  /\ r.raises_specials \in BOOLEAN /\ r.raises_vip_extra \in BOOLEAN

SoundAdjustment(r) == SoundWindow(r) \/ SoundFill(r)

NoRule == [id |-> "none", type |-> "none"]

TIME_FIRST == "time_first"
PER_PART == "per_part"
-----------------------------------------------------------------------------
(* A fault: a fixed discount is not held to the total it is taken off. *)
MagnitudeUnclamped(r, total) ==
  IF r.kind = "percent" THEN PercentOf(total, r.amount, r.rounding) ELSE r.amount

(* time_window._magnitude: how much an adjustment moves the total it sees. *)
Magnitude(r, total) ==
  IF r.kind = "percent" THEN PercentOf(total, r.amount, r.rounding)
  ELSE IF r.direction = "discount" THEN AtLeast(0, AtMost(r.amount, total))
  ELSE r.amount

(* Which parts of the stay this fill rule raises on this pass. *)
RaisesTime(r, c) == ~c.by_special \/ r.raises_specials
RaisesExtra(r) == r.raises_vip_extra

(* Faults: a discount larger than the time charge leaves the extra whole; or  *)
(* takes the extra below nothing.                                            *)
TimeFirstLosesTheRest(c, off) ==
  [time |-> c.time - AtMost(c.time, off), extra |-> c.extras]
TimeFirstUnclamped(c, off) ==
  LET timeOff == AtMost(c.time, off)
  IN  [time |-> c.time - timeOff, extra |-> c.extras - (off - timeOff)]

(* _left_after: what is left of the time charge and of the extra once       *)
(* `off` has been taken off before the fill rule.                           *)
TimeFirst(c, off) ==
  LET timeOff == AtMost(c.time, off)
  IN  [time |-> c.time - timeOff,
       extra |-> AtLeast(0, c.extras - (off - timeOff))]

PerPart(r, c, off) ==
  LET whole == c.time + c.extras
      spread == AtMost(off, whole)
      extraShare == AtMost(c.extras, CeilDiv(spread * c.extras, whole))
      timeShare == AtMost(c.time, IF RaisesTime(r, c)
                                  THEN CeilDiv(spread * c.time, whole)
                                  ELSE (spread * c.time) \div whole)
      timeOff == IF RaisesExtra(r) /\ ~RaisesTime(r, c)
                 THEN spread - extraShare ELSE timeShare
  IN  [time |-> c.time - timeOff, extra |-> c.extras - (spread - timeOff)]

LeftAfter(r, c, off, split) ==
  IF split = TIME_FIRST \/ c.time = 0 \/ c.extras = 0
  THEN TimeFirst(c, off) ELSE PerPart(r, c, off)

(* A fault: a full garage takes its percent off instead of adding it. *)
RaiseTakenOff(r, c, off, split) ==
  -PercentOf(LeftAfter(r, c, off, split).time, r.percent_bp, r.rounding)

(* fill_level.apply: what a fill rule that qualifies adds to the total. *)
Raise(r, c, off, split) ==
  LET rest == LeftAfter(r, c, off, split)
  IN  (IF RaisesTime(r, c)
       THEN PercentOf(rest.time, r.percent_bp, r.rounding) ELSE 0)
    + (IF RaisesExtra(r) /\ rest.extra # 0
       THEN PercentOf(rest.extra, r.percent_bp, r.rounding) ELSE 0)

(* A fault: a discount is added. *)
DeltaAdds(r, c, total, off, split) ==
  IF r \notin c.qualified THEN 0
  ELSE IF r.type = "fill_level" THEN Raise(r, c, off, split) ELSE Magnitude(r, total)

(* The change one rule makes to the total: a rule that does not qualify     *)
(* speaks at zero or not at all.                                            *)
Delta(r, c, total, off, split) ==
  IF r \notin c.qualified THEN 0
  ELSE IF r.type = "fill_level" THEN Raise(r, c, off, split)
  ELSE IF r.direction = "discount" THEN -Magnitude(r, total)
  ELSE Magnitude(r, total)
-----------------------------------------------------------------------------
Fills(c) == {r \in c.rules \cap c.qualified : r.type = "fill_level"}
Beside(c) == (c.rules \cap c.qualified) \ Fills(c)

(* The fill rule whose place is tried: there is one when exactly one fill   *)
(* rule qualifies and something qualifies beside it. Otherwise the plan's   *)
(* own order is the only one priced.                                        *)
Placed(c) ==
  IF Cardinality(Fills(c)) = 1 /\ Beside(c) # {}
  THEN CHOOSE r \in Fills(c) : TRUE ELSE NoRule

Others(c) == c.rules \ {Placed(c)}

(* A fault: only the first and the last place of the fill rule are tried. *)
PlacesAtTheEnds(c) ==
  LET k == Cardinality(Others(c))
  IN  IF Placed(c) = NoRule THEN << <<k, TIME_FIRST>> >>
      ELSE << <<k, TIME_FIRST>>, <<0, TIME_FIRST>> >>

(* The candidate orders: how many of the others run before the fill rule,   *)
(* and how a discount before it is set against the two parts.               *)
Places(c) ==
  LET k == Cardinality(Others(c))
      between == [i \in 1 .. 2 * (k - 1) |->
                    <<(i + 1) \div 2, IF i % 2 = 1 THEN TIME_FIRST ELSE PER_PART>>]
  IN  IF Placed(c) = NoRule THEN << <<k, TIME_FIRST>> >>
      ELSE << <<k, TIME_FIRST>>, <<0, TIME_FIRST>>, <<k, PER_PART>> >> \o between

Total(c) == c.time + c.extras
-----------------------------------------------------------------------------
(* The reference: an order as a sequence of rules, folded whole, and the     *)
(* least total of the orders a call allows.                                  *)
InRankOrder(c, rules) ==
  CHOOSE order \in [1 .. Cardinality(rules) -> rules] :
    /\ \A r \in rules : \E i \in DOMAIN order : order[i] = r
    /\ \A i, j \in DOMAIN order : i < j => c.rank[order[i]] < c.rank[order[j]]

OrderTotal(c, order, split) ==
  LET step(s, r) == LET d == Delta(r, c, s.total, s.off, split)
                    IN  [total |-> s.total + d, off |-> s.off + AtLeast(0, -d)]
  IN  FoldLeft(step, [total |-> Total(c), off |-> 0], order).total

Without(c, r) == [c EXCEPT !.rules = @ \ {r}, !.qualified = @ \ {r}]

AdjustedTotal(c) ==
  LET others == InRankOrder(c, Others(c))
      splits(at) == IF at = 0 THEN {TIME_FIRST} ELSE {TIME_FIRST, PER_PART}
      anyPlace == UNION {{OrderTotal(c, InsertAt(others, at + 1, Placed(c)), split)
                            : split \in splits(at)} : at \in 0 .. Len(others)}
  IN  IF Placed(c) = NoRule THEN OrderTotal(c, others, TIME_FIRST)
      ELSE Min(anyPlace)
=============================================================================
