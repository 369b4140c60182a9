------------------------------ MODULE Contract ------------------------------
(***************************************************************************)
(* contract.py: the four runners every door calls. A runner parses a       *)
(* document, asks the engine, and returns a status and a body; what it does*)
(* not catch brings the call down, whoever made it.                        *)
(*                                                                         *)
(* A document is for one runner: its keys are that runner's and no other's.*)
(* What the parsers and the engine make of it is in its fields; how they   *)
(* do is in PlanLoad, RateRules, Validator and Tax. A finding is a code    *)
(* about some rules, and an owner decides codes.                           *)
(***************************************************************************)
EXTENDS Integers, FiniteSets

ROUTES == {"quote", "validate-plan", "validate-tax-sets", "tax"}

Says(what) == [says |-> what, codes |-> {}, listed |-> {}, outstanding |-> 0, settled |-> 0]

Answer(status, body) == [status |-> status, body |-> body]

(* An exception no runner names: no status, no body. *)
Falls == Answer(0, Says("nothing"))

(* invalid_response and refusal_response. *)
Invalid == Answer(400, Says("invalid"))
Refusal(codes) == Answer(422, [Says("refused") EXCEPT !.codes = codes])

CodesOf(findings) == {f.code : f \in findings}

(* `{d["code"] for d in plan.decisions}` hashes what the loader never read. *)
DecisionsHash(plan) == "a list" \notin plan.decisions

(* A fault: a finding that was decided no longer refuses a stay. *)
RunQuoteOfUndecided(d) ==
  IF d.reads = "refused" THEN Invalid
  ELSE IF d.reads = "falls" THEN Falls
  ELSE IF CodesOf(d.hits) \ d.plan.decisions # {} THEN Refusal(CodesOf(d.hits))
  ELSE IF d.overflows THEN Falls ELSE Answer(200, Says("priced"))

(* run_quote: whatever the owner has decided, a finding refuses the stay. *)
RunQuote(d) ==
  IF d.reads = "refused" THEN Invalid
  ELSE IF d.reads = "falls" THEN Falls
  ELSE IF d.hits # {} THEN Refusal(CodesOf(d.hits))
  ELSE IF d.overflows THEN Falls ELSE Answer(200, Says("priced"))

(* undecided: matched on the code alone. *)
Undecided(plan) == {f \in plan.finds : f.code \notin plan.decisions}

Marked(plan) ==
  {[finding |-> f, decided |-> f.code \notin CodesOf(Undecided(plan))] : f \in plan.finds}

(* A fault: what is decided is off the list. *)
ListedUndecided(plan) == {m \in Marked(plan) : ~m.decided}

Listed(plan) == Marked(plan)

(* validate_response. *)
Report(plan) ==
  [says |-> "findings", codes |-> CodesOf(plan.finds), listed |-> Listed(plan),
   outstanding |-> Cardinality({m \in Listed(plan) : ~m.decided}),
   settled |-> Cardinality({m \in Listed(plan) : m.decided})]

RunValidate(d) ==
  IF d.reads = "refused" THEN Invalid
  ELSE IF d.reads = "falls" \/ ~DecisionsHash(d.plan) THEN Falls
  ELSE Answer(200, Report(d.plan))

RunValidateTaxSets(d) ==
  IF d.reads = "refused" THEN Invalid ELSE Answer(200, Says("loaded"))

(* run_tax: tax_lines judges the subtotal and the currency before it looks   *)
(* for a set in force.                                                      *)
RunTax(d) ==
  IF d.reads = "refused" \/ ~d.arguments THEN Invalid
  ELSE IF d.hits # {} THEN Refusal(CodesOf(d.hits))
  ELSE Answer(200, Says("taxed"))

(* A runner asked. _require: another runner's document is not read. *)
Run(route, d) ==
  IF d.for # route THEN Invalid
  ELSE IF route = "quote" THEN RunQuote(d)
  ELSE IF route = "validate-plan" THEN RunValidate(d)
  ELSE IF route = "tax" THEN RunTax(d)
  ELSE RunValidateTaxSets(d)
=============================================================================
