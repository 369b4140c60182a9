------------------------------- MODULE Doors -------------------------------
(***************************************************************************)
(* The two ways in to contract.py: the service (Service), whose connections*)
(* bring documents as bytes, and an owner's session at the command line    *)
(* (CommandLine), whose plan changes between two questions. Both ask the   *)
(* runners of Contract and keep nothing in common, so a behaviour is of    *)
(* one of them and the variables of the other keep their first values.     *)
(***************************************************************************)
EXTENDS Service

CONSTANTS Findings, Codes, Documents   \* those of CommandLine

ASSUME SessionAssumption ==
  /\ IsFiniteSet(Findings)
  /\ \A f \in Findings : f.code \in Codes
  /\ \A d \in Documents : d.for \in ROUTES

VARIABLES
  door,          \* "service" or "shell"
  plan, asked, before    \* those of CommandLine

Shell == INSTANCE CommandLine

shellVars == <<plan, asked, before>>
doorVars == <<door, vars, shellVars>>

AnyRequest == CHOOSE r \in Requests : TRUE

DoorInit ==
  \/ door = "service" /\ plan = [finds |-> {}, decisions |-> {}] /\ Init /\ Shell!Init
  \/ door = "shell" /\ request = [c \in Connections |-> AnyRequest] /\ Init /\ Shell!Init

Serve == door = "service" /\ Next /\ UNCHANGED <<door, shellVars>>

AtTheShell == door = "shell" /\ Shell!Next /\ UNCHANGED <<door, vars>>

DoorNext == Serve \/ AtTheShell

DoorSpec == DoorInit /\ [][DoorNext]_doorVars
-----------------------------------------------------------------------------
(* A decision is an acknowledgement, never a price: while the rules stand,   *)
(* the same stay asked about again is told the same, whatever was decided    *)
(* between, and no door's exit code or status says it was priced where       *)
(* another's says it was not (F12b).                                        *)
DecisionsPriceNothing == Shell!DecisionsPriceNothing

(* However much was decided since, every finding of the plan is on the list  *)
(* a validation gives, the counts are the list's, and the command for a      *)
(* terminal exits 0 only while none stands; with --json it exits 0 on any    *)
(* plan that was read (F12).                                                *)
ClearMeansClear == Shell!ClearMeansClear
=============================================================================
