------------------------------ MODULE MCDoors ------------------------------
(* Two connections, a bound of two bytes, a timeout of two ticks. Lengths    *)
(* that are no number, below zero, at the bound and past it; bodies shorter  *)
(* and longer than promised, cut inside their document or after it, followed *)
(* by white space or by something else; documents that are priced, refused,  *)
(* unreadable, for another runner, and one that brings its runner down. At   *)
(* the shell, three findings, two of one code about different rules, and     *)
(* documents of every runner that are not read, refused or answered.        *)
EXTENDS Doors

CONSTANTS c1, c2

NoPlan == [finds |-> {}, decisions |-> {}]
Gap(rules) == [code |-> "gap", rules |-> rules]
QuoteDocument(reads, hits) ==
  [for |-> "quote", reads |-> reads, plan |-> NoPlan, hits |-> hits, overflows |-> FALSE]
Priced == QuoteDocument("reads", {})
Bad(what) == [for |-> "no runner", reads |-> what]
NotUtf8 == Bad("not UTF-8")

(* A document of `whole` bytes, then white space as far as `spaces`, then    *)
(* something that is no part of it.                                         *)
Text(document, whole, spaces, sends) ==
  [n \in 0..sends |-> IF n = 0 THEN NullDocument
                      ELSE IF n \in whole..spaces THEN document ELSE Bad("not JSON")]

Post(route, length, sends, text) ==
  [method |-> "POST", route |-> route, sends |-> sends, text |-> text,
   length |-> [read |-> TRUE, value |-> length]]
Just(route, length, size, document) == Post(route, length, size, Text(document, size, size, size))
NoLength == [read |-> FALSE, value |-> 0]

Few ==
  {Just("quote", 2, 2, Priced), Just("quote", 1, 2, Priced), Just("quote", 2, 1, Priced),
   Just("quote", -1, 3, Priced), Just("quote", 2, 2, QuoteDocument("falls", {}))}

Shapes ==
  Few \cup
  {Just("quote", 3, 3, Priced), Just("quote", 0, 0, Priced), Just("tax", 1, 1, Priced),
   Just("nowhere", 1, 1, Priced), Just("quote", 2, 2, QuoteDocument("reads", {Gap({"x"})})),
   Just("quote", 1, 1, QuoteDocument("refused", {})),
   Post("quote", 2, 2, Text(NotUtf8, 1, 2, 2)), Post("quote", 1, 2, Text(Priced, 1, 1, 2)),
   Post("quote", 2, 3, Text(Priced, 1, 2, 3)), Post("quote", 2, 2, Text(Priced, 1, 1, 2)),
   [Just("quote", 0, 1, Priced) EXCEPT !.length = NoLength],
   [Just("health", 0, 0, Priced) EXCEPT !.method = "GET"],
   [Just("quote", 0, 0, Priced) EXCEPT !.method = "GET"]}

MCConnections == {c1, c2}
MCRequests == Shapes

Conflict == [code |-> "conflict", rules |-> {"x", "y"}]
MCFindings == {Gap({"x"}), Gap({"y"}), Conflict}
MCCodes == {"gap", "conflict"}

NoSet == [code |-> "no set in force", rules |-> {}]
TaxFor(reads, arguments, hits) ==
  [for |-> "tax", reads |-> reads, plan |-> NoPlan, arguments |-> arguments, hits |-> hits]
Load(for, reads) == [for |-> for, reads |-> reads, plan |-> NoPlan]

MCDocuments ==
  {QuoteDocument("refused", {}), QuoteDocument("falls", {}),
   [Priced EXCEPT !.overflows = TRUE],
   TaxFor("refused", TRUE, {}), TaxFor("reads", FALSE, {NoSet}), TaxFor("reads", TRUE, {NoSet}),
   TaxFor("reads", TRUE, {}), Load("validate-plan", "refused"), Load("validate-plan", "falls"),
   Load("validate-tax-sets", "refused"), Load("validate-tax-sets", "reads")}
=============================================================================
