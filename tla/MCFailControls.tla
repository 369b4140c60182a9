--------------------------- MODULE MCFailControls ---------------------------
(* Three controls: the plant of 1 keeps the size of the file and takes the   *)
(* anchor out; the plant of 2 leaves every anchor standing; 3 has its anchor *)
(* on the line of 1, and its test catches nothing but the plant of 2. Three  *)
(* runs, one save, a clock of three seconds.                                 *)
EXTENDS FailControls

MCControls == {1, 2, 3}
MCPins == {{1, 2, 3}, {2, 3}}
MCAnchorsLeft == [c \in MCControls |-> IF c = 2 THEN MCControls ELSE {2}]
MCFailing ==
  [c \in MCControls |->
     {plants \in SUBSET MCControls : IF c = 3 THEN 2 \in plants ELSE c \in plants}]
=============================================================================
