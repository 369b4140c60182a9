---------------------------- MODULE CommandLine ----------------------------
(***************************************************************************)
(* cli.py and the HTTP routes as an owner uses them: a plan is written,    *)
(* asked about (validate-plan), its findings are decided or a rule is added*)
(* for one, and stays are priced on it meanwhile, through the route, the   *)
(* command with --json and the command for a terminal.                     *)
(*                                                                         *)
(* A command leaves an exit code, which a script reads in place of what    *)
(* was printed. `before` is history, no part of the program: the first     *)
(* stay asked about since the plan's rules were last changed.              *)
(***************************************************************************)
EXTENDS Contract

CONSTANTS
  Findings,     \* the findings a plan may have: [code, rules]
  Codes,        \* what an owner may write as the code of a decision
  Documents     \* the other documents asked about, each for its runner

DOORS == {"route", "json", "terminal"}
-----------------------------------------------------------------------------
(* _cmd_validate: not 0 while any finding stands, settled or not. *)
ValidateExit(answer) ==
  IF answer.status # 200 THEN 2 ELSE IF answer.body.listed = {} THEN 0 ELSE 1

(* _cmd_quote, _cmd_tax, _cmd_validate_tax_sets: refused is 1, unread is 2.  *)
OrdinaryExit(answer) ==
  IF answer.status = 200 THEN 0 ELSE IF answer.body.says = "refused" THEN 1 ELSE 2

(* The exit of a command; the interpreter's own is 1. *)
Exit(command, door, answer) ==
  IF answer = Falls THEN 1
  ELSE IF door = "json" THEN IF answer.status = 200 THEN 0 ELSE 1
  ELSE IF command = "validate-plan" THEN ValidateExit(answer) ELSE OrdinaryExit(answer)
-----------------------------------------------------------------------------
VARIABLES
  plan,     \* [finds, decisions]: what it leaves open and what was decided
  asked,    \* the last thing asked of the plan as it is: [command, door, document, answer, exit]
  before    \* the first stay asked about on these rules: [hits, answer, priced]

vars == <<plan, asked, before>>

Nothing == [command |-> "none", door |-> "none"]

QuoteOf(hits) ==
  [for |-> "quote", reads |-> "reads", plan |-> plan, hits |-> hits, overflows |-> FALSE]
ValidationOf == [for |-> "validate-plan", reads |-> "reads", plan |-> plan]

Init ==
  /\ plan \in [finds : SUBSET Findings, decisions : {{}}]
  /\ asked = Nothing /\ before = Nothing

Ask(command, door, d) ==
  LET answer == Run(command, d)
  IN  /\ asked' = [command |-> command, door |-> door, document |-> d, answer |-> answer,
                   exit |-> IF door = "route" THEN answer.status
                            ELSE Exit(command, door, answer)]
      /\ UNCHANGED plan

Validate == \E door \in DOORS : Ask("validate-plan", door, ValidationOf) /\ UNCHANGED before

(* What a script reads off an exit code, or a caller off a status. *)
SaysPriced(exit) == exit \in {0, 200}

(* A stay meets some of what the plan leaves open, or nothing. *)
Quote ==
  \E door \in DOORS, hits \in SUBSET plan.finds :
    /\ Ask("quote", door, QuoteOf(hits))
    /\ before' = IF before = Nothing
                 THEN [hits |-> hits, answer |-> asked'.answer,
                       priced |-> SaysPriced(asked'.exit)]
                 ELSE before

AskElsewhere ==
  \E command \in ROUTES, door \in DOORS, d \in Documents :
    Ask(command, door, d) /\ UNCHANGED before

(* The owner records a decision; nothing reads its code until it is used. *)
Decide ==
  /\ \E code \in Codes \ plan.decisions : plan' = [plan EXCEPT !.decisions = @ \cup {code}]
  /\ asked' = Nothing /\ UNCHANGED before

(* The owner adds a rule that covers a finding, or one that opens another. *)
ChangeRules ==
  /\ \E finds \in SUBSET Findings : finds # plan.finds /\ plan' = [plan EXCEPT !.finds = finds]
  /\ asked' = Nothing /\ before' = Nothing

Next == Validate \/ Quote \/ AskElsewhere \/ Decide \/ ChangeRules

Spec == Init /\ [][Next]_vars
-----------------------------------------------------------------------------
PlanValidated == asked.command = "validate-plan" /\ asked.document = ValidationOf

(* A decision is an acknowledgement, never a price: while the rules stand,   *)
(* the same stay asked about again is told the same, whatever was decided    *)
(* between, and no door's exit code or status says it was priced where       *)
(* another's says it was not (F12b).                                        *)
DecisionsPriceNothing ==
  before # Nothing /\ asked.command = "quote" /\ asked.document = QuoteOf(before.hits) =>
    /\ asked.answer = before.answer
    /\ SaysPriced(asked.exit) <=> before.priced

(* However much was decided since, every finding of the plan is on the list  *)
(* a validation gives, the counts are the list's, and the command for a      *)
(* terminal exits 0 only while none stands; with --json it exits 0 on any    *)
(* plan that was read (F12).                                                *)
ClearMeansClear ==
  PlanValidated /\ asked.answer.status = 200 =>
    LET listed == asked.answer.body.listed
    IN  /\ {m.finding : m \in listed} = plan.finds
        /\ asked.answer.body.outstanding + asked.answer.body.settled = Cardinality(plan.finds)
        /\ asked.door = "terminal" => (asked.exit = 0 <=> plan.finds = {})
        /\ asked.door = "json" => asked.exit = 0
=============================================================================
