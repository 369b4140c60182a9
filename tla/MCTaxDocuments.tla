--------------------------- MODULE MCTaxDocuments ---------------------------
(* Documents of up to two sets of up to three rules, written in either order *)
(* and with and without an offset, sound and unsound; amounts on which every *)
(* rounding shows; instants before, at, between and after.                   *)
EXTENDS Integers, Sequences

Rule(id, bp, rounding, sequence) ==
  [id |-> id, percent_bp |-> bp, rounding |-> rounding, sequence |-> sequence]

City(seq) == Rule("city", 1250, "nearest", seq)
State(seq) == Rule("state", 3333, "up", seq)
Fee(seq) == Rule("fee", 825, "down", seq)

RuleLists ==
  {<< >>, <<City(1)>>, <<City(2), State(1)>>, <<State(0), City(5)>>,
   <<Fee(2), City(3), State(1)>>, <<City(1), Fee(2), State(3)>>, <<Fee(1), State(1)>>,
   <<City(1), City(2)>>, <<Rule("city", 0, "up", 1)>>, <<Rule("city", 500, "half", 1)>>}

At(wall, offset) == [wall |-> wall, offset |-> offset]
Sets(moments, lists) == {[effective_from |-> m, rules |-> r] : m \in moments, r \in lists}

Few == {<< >>, <<City(2), State(1)>>, <<Fee(2), City(3), State(1)>>, <<City(1), City(2)>>}

Documents ==
  {<< >>} \cup {<<s>> : s \in Sets({At(5, 0)}, RuleLists)}
    \cup {<<s, t>> : s \in Sets({At(5, 0), At(3, 0)}, Few),
                     t \in Sets({At(5, 0), At(3, -2), At(4, 0)}, Few)}

Requests ==
  {[sets |-> d, subtotal |-> amount, known |-> TRUE, at |-> t] :
     d \in Documents, amount \in {0, 1, 4, 12, 100}, t \in {2, 3, 4, 5, 9}}
    \cup {[sets |-> d, subtotal |-> -1, known |-> TRUE, at |-> 5] : d \in Documents}
    \cup {[sets |-> d, subtotal |-> 4, known |-> FALSE, at |-> 5] : d \in Documents}
=============================================================================
