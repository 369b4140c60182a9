----------------------------- MODULE TaxPromise -----------------------------
(***************************************************************************)
(* What a tax request is promised: one answer, which names what cannot be  *)
(* read or what the garage has not stated, or the lines that are owed. How *)
(* the lines come about is module Tax.                                     *)
(***************************************************************************)
CONSTANTS
  Request,       \* the requests made
  Stopped(_),    \* why a request is not answered with lines; {} if it is
  Owed(_, _)     \* whether these lines are what a request owes

VARIABLES request, answer

Unanswered == [kind |-> "unanswered"]
Named(reasons) == [kind |-> "named", reasons |-> reasons]
Taxed(lines) == [kind |-> "taxed", lines |-> lines]

Init == request \in Request /\ answer = Unanswered

Name ==
  /\ answer = Unanswered
  /\ Stopped(request) # {}
  /\ answer' = Named(Stopped(request))
  /\ UNCHANGED request

Tax ==
  /\ answer = Unanswered
  /\ Stopped(request) = {}
  /\ answer'.kind = "taxed"
  /\ Owed(request, answer'.lines)
  /\ answer' = Taxed(answer'.lines)
  /\ UNCHANGED request

Next == Name \/ Tax

Spec == Init /\ [][Next]_<<request, answer>>
=============================================================================
