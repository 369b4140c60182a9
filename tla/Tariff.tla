------------------------------- MODULE Tariff -------------------------------
(***************************************************************************)
(* What a quote promises, with nothing of how it is worked out: a request  *)
(* is priced or refused, once; it is refused exactly when a finding is     *)
(* named, with those findings; and otherwise the fee is the least of what  *)
(* the ways of pricing it come to (F50, F63). A fee below zero is refused  *)
(* rather than charged.                                                    *)
(***************************************************************************)
EXTENDS Integers

CONSTANTS
  Request,       \* the quotes asked for: a stay, and the plan versions supplied
  Findings(_),   \* why a request is refused before it is priced
  Offers(_)      \* what each way of pricing a request comes to

VARIABLES
  request,
  answer         \* Unanswered, a refusal, or a fee

Unanswered == [kind |-> "unanswered"]
Refused(codes) == [kind |-> "refused", codes |-> codes]
Priced(fee) == [kind |-> "priced", fee |-> fee]

Charged(req, fee) ==
  fee \in Offers(req) /\ \A other \in Offers(req) \ {fee} : fee <= other

Init == request \in Request /\ answer = Unanswered

Refuse ==
  /\ answer = Unanswered
  /\ Findings(request) # {}
  /\ answer' = Refused(Findings(request))
  /\ UNCHANGED request

Price ==
  /\ answer = Unanswered
  /\ Findings(request) = {}
  /\ \E fee \in Offers(request) :
       /\ Charged(request, fee)
       /\ answer' = IF fee < 0 THEN Refused({"CONFLICT_NEGATIVE_TOTAL"}) ELSE Priced(fee)
  /\ UNCHANGED request

Next == Refuse \/ Price

Spec == Init /\ [][Next]_<<request, answer>>
=============================================================================
