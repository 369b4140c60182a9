---------------------------- MODULE LoadPromise ----------------------------
(***************************************************************************)
(* What the loader of plans promises: a document is refused for something  *)
(* that is wrong with it, or, where nothing is, it is the plan it says. A  *)
(* document whose rules cannot be told apart by type is promised nothing.  *)
(***************************************************************************)
CONSTANTS
  Document,
  WrongWith(_),    \* the refusals a document deserves; {} if it is a plan
  PlanOf(_),       \* the plan a document without faults says
  Unanswerable(_)  \* whether a document may bring the loader down

VARIABLES document, verdict

Unread == [kind |-> "unread"]
Loaded(plan) == [kind |-> "loaded", plan |-> plan]
Refused(fault) == [kind |-> "refused", fault |-> fault]
Fallen == [kind |-> "fallen"]

Init == document \in Document /\ verdict = Unread

Load == WrongWith(document) = {} /\ verdict' = Loaded(PlanOf(document))
Refuse == \E fault \in WrongWith(document) : verdict' = Refused(fault)
Fall == Unanswerable(document) /\ verdict' = Fallen

Next == verdict = Unread /\ UNCHANGED document /\ (Load \/ Refuse \/ Fall)

Spec == Init /\ [][Next]_<<document, verdict>>
=============================================================================
