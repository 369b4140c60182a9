------------------------------ MODULE Percent ------------------------------
(***************************************************************************)
(* percent.py: the one place a percentage of an amount of money is taken.  *)
(* Every percentage in a plan -- a discount, an increase, a surcharge, the *)
(* fill rule, a tax -- goes through percent_of_minor, in whole minor units *)
(* and whole basis points.                                                 *)
(***************************************************************************)
EXTENDS Integers

BASIS_POINTS_PER_WHOLE == 10000

(* What a rounding mode adds to the whole part of a product whose remainder *)
(* over the divisor is `remainder`.                                         *)
CentFor(remainder, rounding) ==
  IF \/ rounding = "up" /\ remainder > 0
     \/ rounding = "nearest" /\ 2 * remainder >= BASIS_POINTS_PER_WHOLE
  THEN 1 ELSE 0

(* percent_of_minor. *)
PercentOf(amount, bp, rounding) ==
  (amount * bp) \div BASIS_POINTS_PER_WHOLE
    + CentFor((amount * bp) % BASIS_POINTS_PER_WHOLE, rounding)
=============================================================================
