------------------------------ MODULE Runners ------------------------------
(***************************************************************************)
(* One call of contract.py, from its document to what the runner makes of  *)
(* it, for the two runners that read a document of their own kind:         *)
(* run_validate, whose plan is loaded by PlanLoad, and run_tax, whose sets *)
(* are loaded and applied by Tax. A call is for one route, and the runner  *)
(* of another sees nothing of it. The variables of a runner that is not    *)
(* called keep their first values.                                         *)
(***************************************************************************)
EXTENDS PlanLoad

CONSTANT TaxRequest   \* [sets, subtotal, known, at]

VARIABLES
  route,                                       \* whose document this call brings
  request, pc, chosen, left, lines, answer     \* those of Tax

TaxCall == INSTANCE Tax WITH Request <- TaxRequest

ASSUME TaxRequestAssumption == \A req \in TaxRequest : TaxCall!IsRequest(req)

taxVars == <<request, pc, chosen, left, lines, answer>>
callVars == <<route, vars, taxVars>>

AnyDocument == CHOOSE d \in Document : TRUE
AnyRequest == CHOOSE req \in TaxRequest : TRUE

CallInit ==
  \/ route = "validate-plan" /\ request = AnyRequest /\ Init /\ TaxCall!Init
  \/ route = "tax" /\ document = AnyDocument /\ Init /\ TaxCall!Init

(* run_validate, as far as parse_validate_request. *)
RunValidate == route = "validate-plan" /\ Next /\ UNCHANGED <<route, taxVars>>

RunTax == route = "tax" /\ TaxCall!Next /\ UNCHANGED <<route, vars>>

CallNext == RunValidate \/ RunTax

CallSpec == CallInit /\ [][CallNext]_callVars
-----------------------------------------------------------------------------
(* A tax request is answered once: refused for what stops it, or taxed with  *)
(* each rule of the set in force on the money paid, in the stated sequence,  *)
(* whatever order the lists came in (F42 to F45).                            *)
KeepsTheTaxPromise == TaxCall!Promise!Spec

(* A line is never further from the exact tax than its rounding allows, and  *)
(* the fraction goes the way the rule states, an exact half up (F41).        *)
RoundsAsStated == TaxCall!RoundsAsStated
=============================================================================
