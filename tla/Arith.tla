------------------------------- MODULE Arith -------------------------------
(* Python's min, max and ceiling division of whole numbers, as the source    *)
(* writes them: min(a, b), max(a, b) and -(-n // d).                         *)
EXTENDS Integers

AtMost(a, b) == IF a <= b THEN a ELSE b
AtLeast(a, b) == IF a >= b THEN a ELSE b
CeilDiv(n, d) == -((-n) \div d)
=============================================================================
