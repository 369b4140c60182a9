------------------------------ MODULE MCAdjust ------------------------------
(* Small instances of Adjust: two or three adjustments, a fill rule with     *)
(* each answer to what it raises, and charges of a few cents, where every    *)
(* rounding shows.                                                           *)
EXTENDS Adjust

Window(id, direction, kind, amount, rounding) ==
  [id |-> id, type |-> "time_window", direction |-> direction, kind |-> kind,
   amount |-> amount, rounding |-> rounding]
Fill(id, bp, rounding, specials, extra) ==
  [id |-> id, type |-> "fill_level", percent_bp |-> bp, rounding |-> rounding,
   raises_specials |-> specials, raises_vip_extra |-> extra]

Windows == {Window(1, "discount", "percent", 3333, "down"),
            Window(2, "discount", "fixed", 5, "down"),
            Window(3, "discount", "percent", 10000, "up"),
            Window(4, "increase", "percent", 1500, "up"),
            Window(5, "increase", "fixed", 4, "up"),
            Window(6, "discount", "percent", 1250, "up")}
FillRules == {Fill(10, 2500, "up", s, x) : s, x \in BOOLEAN}
        \cup {Fill(11, 5000, "down", s, x) : s, x \in BOOLEAN}

MCAdjustRule == Windows \cup FillRules

ById == [r \in MCAdjustRule |-> r.id]
Reversed == [r \in MCAdjustRule |-> IF r \in FillRules THEN r.id ELSE 9 - r.id]

(* The calls: up to two windows in either order, with or without one fill   *)
(* rule, one rule at most not qualifying.                                   *)
Calls(times, extras, most) ==
  {[time |-> t, extras |-> x, by_special |-> s, rules |-> ws \cup fs,
    rank |-> k, qualified |-> (ws \cup fs) \ out] :
      t \in times, x \in extras, s \in BOOLEAN,
      ws \in {w \in SUBSET Windows : Cardinality(w) <= most},
      fs \in {{}} \cup {{f} : f \in FillRules},
      k \in {ById, Reversed},
      out \in {{}} \cup {{w} : w \in Windows}}

MCCall == Calls({0, 3, 10}, {0, 2, 7}, 2)
=============================================================================
