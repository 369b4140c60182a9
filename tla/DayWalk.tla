------------------------------ MODULE DayWalk ------------------------------
(***************************************************************************)
(* The walk over a stay's days that daily_max makes, loop turn by loop     *)
(* turn: days_covered counts the days; _day_holding finds the day a part   *)
(* of the stay starts in, by a guess corrected backwards and forwards;     *)
(* days_of and pieces hand the part's days out one at a time; and          *)
(* Amounts.add tallies what each pays without keeping it. daily_max.apply  *)
(* makes the whole walk; weekly_max asks for the pieces of one week.       *)
(***************************************************************************)
EXTENDS Caps, SequencesExt

CONSTANTS
  Walk,              \* the walks that are explored
  RUNS_SPELLED_OUT   \* how many runs of equal amounts the line spells out

(* What a walk is asked: a stay, the cap and the rate, the part of the stay *)
(* to cut, whether the cap itself asks ("apply") or weekly_max ("pieces"),  *)
(* and the running total the cap is shown.                                  *)
WalkType ==
  [stay : StayType, zone : ZoneType, cap : DayCapType, rate : RateType \cup {Flat},
   asked : {"apply", "pieces"}, start : Int, end : Int, running : Nat]

WholeStay(w) == w.start = w.stay.entry /\ w.end = w.stay.exit

(* The engine asks no rule about a stay that is longer than it prices, and   *)
(* datetime takes no UTC offset of a day or more.                           *)
ASSUME WalkAssumption ==
  /\ RUNS_SPELLED_OUT \in Nat \ {0}
  /\ \A w \in Walk :
       /\ w \in WalkType
       /\ w.stay.entry <= w.start /\ w.start <= w.end /\ w.end <= w.stay.exit
       /\ w.asked = "apply" => WholeStay(w)
       /\ MinutesUntil(w.stay.entry, w.stay.exit) <= MaxStayDays * MinutesInADay
       /\ \A offset \in {w.zone.before, w.zone.after} : -DayTicks < offset /\ offset < DayTicks

NOTHING == -1
NoAmounts == [total |-> 0, smallest |-> NOTHING, runs |-> << >>, more |-> 0, more_total |-> 0]

VARIABLES
  walk,      \* what was asked
  pc,        \* where in apply and the generators the walk is
  day,       \* the index of the day in hand
  caps,      \* days_covered, so far
  handed,    \* the pieces handed out so far, in order
  amounts,   \* Amounts: the tally of what each piece pays
  fee        \* the total once apply has answered

vars == <<walk, pc, day, caps, handed, amounts, fee>>
-----------------------------------------------------------------------------
StartOf(w, index) == DayStart(w.cap, w.stay, w.zone, index)

(* Whether days_of's loop turns again, and the day it yields either way. *)
Another == walk.stay.exit > walk.stay.entry /\ StartOf(walk, day + 1) < walk.stay.exit
DayInHand == <<StartOf(walk, day), IF Another THEN StartOf(walk, day + 1) ELSE walk.stay.exit>>
(* A fault: the day after the part is handed out too. *)
InsidePartAtTheEnd == DayInHand[1] <= walk.end /\ DayInHand[2] > walk.start

InsidePart == DayInHand[1] < walk.end /\ DayInHand[2] > walk.start

(* Faults: every amount is spelled out, as a run of its own; or no run is, and *)
(* the first amount is compared with an amount that is not there.            *)
TalliedOneRunMore(a, amount) ==
  [a EXCEPT !.total = @ + amount, !.smallest = amount, !.runs = Append(@, <<amount, 1>>)]

(* Amounts.add. *)
Tallied(a, amount) ==
  LET k == Len(a.runs)
      sum == [a EXCEPT !.total = @ + amount,
                       !.smallest = IF @ = NOTHING THEN amount ELSE AtMost(@, amount)]
  IN  IF a.more = 0 /\ k > 0 /\ a.runs[k][1] = amount
      THEN [sum EXCEPT !.runs[k] = <<amount, @[2] + 1>>]
      ELSE IF a.more = 0 /\ k < RUNS_SPELLED_OUT
      THEN [sum EXCEPT !.runs = Append(@, <<amount, 1>>)]
      ELSE [sum EXCEPT !.more = @ + 1, !.more_total = @ + amount]

(* A fault: every day begins the rate afresh. *)
PaidAfresh(w, piece) == AtMost(w.cap.most, ChargedBy(w.rate, MinutesUntil(piece[1], piece[2])))

(* each_capped_day, of one piece: the charge in it, or the max if less. *)
Paid(w, piece) == AtMost(w.cap.most, ChargeIn(w.stay, w.rate, piece[1], piece[2]))

HandOut(piece) ==
  /\ handed' = Append(handed, piece)
  /\ amounts' = IF walk.rate = Flat THEN amounts ELSE Tallied(amounts, Paid(walk, piece))
-----------------------------------------------------------------------------
Init ==
  /\ walk \in Walk
  /\ pc = IF walk.asked = "apply" THEN "count" ELSE "pieces"
  /\ day = 0
  /\ caps = 0
  /\ handed = << >>
  /\ amounts = NoAmounts
  /\ fee = walk.running

(* days_covered: one turn of days_of from the entry. *)
CountDay ==
  /\ pc = "count"
  /\ caps' = caps + 1
  /\ IF Another
     THEN day' = day + 1 /\ pc' = pc
     ELSE /\ day' = 0
          /\ pc' = IF walk.rate = Flat THEN "answer" ELSE "pieces"
  /\ UNCHANGED <<walk, handed, amounts, fee>>

(* pieces: a part of zero length is one piece, and nothing is walked. *)
ZeroLength ==
  /\ pc = "pieces"
  /\ walk.end <= walk.start
  /\ HandOut(<<walk.start, walk.end>>)
  /\ pc' = "answer"
  /\ UNCHANGED <<walk, day, caps, fee>>

(* _day_holding: the guess; a part that starts at the entry is in day 0. *)
Guess ==
  /\ pc = "pieces"
  /\ walk.end > walk.start
  /\ IF walk.start <= walk.stay.entry
     THEN day' = 0 /\ pc' = "cut"
     ELSE day' = GuessedDay(walk.cap, walk.stay, walk.zone, walk.start) /\ pc' = "back"
  /\ UNCHANGED <<walk, caps, handed, amounts, fee>>

(* Faults: the guess is not corrected; or the correction never moves. *)
BackSkipped ==
  /\ pc = "back"
  /\ pc' = "forward"
  /\ UNCHANGED <<walk, day, caps, handed, amounts, fee>>
BackStuck ==
  /\ pc = "back"
  /\ pc' = IF day > 0 /\ StartOf(walk, day) > walk.start THEN pc ELSE "forward"
  /\ UNCHANGED <<walk, day, caps, handed, amounts, fee>>

Back ==
  /\ pc = "back"
  /\ IF day > 0 /\ StartOf(walk, day) > walk.start
     THEN day' = day - 1 /\ pc' = pc
     ELSE day' = day /\ pc' = "forward"
  /\ UNCHANGED <<walk, caps, handed, amounts, fee>>

Forward ==
  /\ pc = "forward"
  /\ IF StartOf(walk, day + 1) <= walk.start
     THEN day' = day + 1 /\ pc' = pc
     ELSE day' = day /\ pc' = "cut"
  /\ UNCHANGED <<walk, caps, handed, amounts, fee>>

(* pieces: the day in hand, cut down to the part, or the end of the part. *)
CutDay ==
  /\ pc = "cut"
  /\ IF InsidePart
     THEN /\ HandOut(<<AtLeast(DayInHand[1], walk.start), AtMost(DayInHand[2], walk.end)>>)
          /\ day' = IF Another THEN day + 1 ELSE day
          /\ pc' = IF Another THEN pc ELSE "answer"
     ELSE /\ pc' = "answer"
          /\ UNCHANGED <<day, handed, amounts>>
  /\ UNCHANGED <<walk, caps, fee>>

(* A fault: the max times the days, whatever each day was charged. *)
CeilingByCount == walk.cap.most * caps

Ceiling == IF walk.rate = Flat THEN walk.cap.most * caps ELSE amounts.total

(* apply: the excess comes off, or the cap was not reached. Comparing        *)
(* amounts.smallest with the max fails when no day was tallied.             *)
Answer ==
  /\ pc = "answer"
  /\ IF walk.asked = "pieces" \/ walk.running <= Ceiling
     THEN fee' = fee /\ pc' = "done"
     ELSE IF walk.rate # Flat /\ caps > 1 /\ amounts.smallest = NOTHING
     THEN fee' = fee /\ pc' = "failed"
     ELSE fee' = walk.running + (Ceiling - walk.running) /\ pc' = "done"
  /\ UNCHANGED <<walk, day, caps, handed, amounts>>

Finished == pc \in {"done", "failed"} /\ UNCHANGED vars

Step == CountDay \/ ZeroLength \/ Guess \/ Back \/ Forward \/ CutDay \/ Answer
Next == Step \/ Finished

Spec == Init /\ [][Next]_vars /\ WF_vars(Step)
-----------------------------------------------------------------------------
(* Where the pieces handed out so far have come to. *)
Reached == IF handed = << >> THEN walk.start ELSE handed[Len(handed)][2]

InOrder ==
  \A i \in 1 .. Len(handed) :
    /\ handed[i][1] = IF i = 1 THEN walk.start ELSE handed[i - 1][2]
    /\ walk.start < walk.end => handed[i][1] < handed[i][2]

Answered ==
  /\ pc \in {"answer", "done", "failed"}
  /\ walk.rate # Flat \/ walk.asked = "pieces"

(* The pieces are the part, cut: the first starts where the part starts,    *)
(* each starts where the one before it ended and is longer than nothing,    *)
(* and none is left over at the end (pieces, days_of).                      *)
PartIsCut ==
  OrdinaryZone(walk.zone) =>
    /\ InOrder
    /\ Reached <= walk.end
    /\ Answered => Reached = walk.end

(* Where no midnight is skipped the days are the dates: a calendar day's pieces lie each in one local    *)
(* date, and days_covered is how many dates the car is there in. A rolling  *)
(* piece is at most 24 hours.                                               *)
DaysAreDates ==
  LET w == walk
      dates == {LocalDate(w.zone, t) : t \in w.stay.entry .. w.stay.exit - 1}
      calendar == w.cap.boundary = "calendar_day"
  IN  (OrdinaryZone(w.zone) /\ NoMidnightSkipped(w.zone)) =>
        /\ \A i \in 1 .. Len(handed) :
             LET p == handed[i]
             IN  IF calendar
                 THEN \A t \in p[1] .. p[2] - 1 : LocalDate(w.zone, t) = LocalDate(w.zone, p[1])
                 ELSE p[2] - p[1] <= DayTicks
        /\ (pc = "done" /\ w.asked = "apply" /\ calendar)
             => caps = AtLeast(1, Cardinality(dates))

(* The day _day_holding finds is the day the part starts in, whichever way  *)
(* the date misled the guess.                                               *)
DayHoldsStart ==
  (OrdinaryZone(walk.zone) /\ pc = "cut" /\ handed = << >>) =>
    StartOf(walk, day) <= walk.start /\ walk.start < StartOf(walk, day + 1)

(* The parts a cap splits a charge into add up to the charge exactly, and   *)
(* what the days pay is never negative, no more than it and no more than    *)
(* the max a day (charge_in, each_capped_day).                              *)
SplitAddsUp ==
  (OrdinaryZone(walk.zone) /\ walk.rate # Flat) =>
    LET each == [i \in 1 .. Len(handed) |->
                   ChargeIn(walk.stay, walk.rate, handed[i][1], handed[i][2])]
        charged == SumFunction(each)
    IN  /\ charged = IF handed = << >> THEN 0
                     ELSE ChargeIn(walk.stay, walk.rate, walk.start, Reached)
        /\ amounts.total >= 0
        /\ amounts.total <= charged
        /\ amounts.total <= walk.cap.most * Len(handed)

(* The line tells what was tallied: its runs, spelled out, are the first    *)
(* amounts in order and no two neighbours are one run, the rest are counted *)
(* and summed, and the total is everything's (Amounts).                     *)
LineTellsAmounts ==
  walk.rate # Flat =>
    LET paid == [i \in 1 .. Len(handed) |-> Paid(walk, handed[i])]
        runs == amounts.runs
        long == [k \in DOMAIN runs |-> runs[k][2]]
        upTo(k) == SumFunctionOnSet(long, 1 .. k)
        spelled == upTo(Len(runs))
    IN  /\ \A k \in DOMAIN runs :
             /\ \A i \in upTo(k - 1) + 1 .. upTo(k) : paid[i] = runs[k][1]
             /\ k > 1 => runs[k][1] # runs[k - 1][1]
        /\ spelled + amounts.more = Len(handed)
        /\ amounts.more_total = SumFunctionOnSet(paid, spelled + 1 .. Len(handed))
        /\ amounts.total = SumFunction(paid)
        /\ Len(runs) <= RUNS_SPELLED_OUT
        /\ amounts.more > 0 => spelled > 0 /\ paid[spelled + 1] # paid[spelled]

(* The walk and the operators agree on the day found, the days counted, the *)
(* pieces and their sum: what the caps above it use is what the loops do.   *)
WalkIsPieces ==
  pc = "done" =>
    LET w == walk
        parts == PiecesOf(w.cap, w.stay, w.zone, w.start, w.end)
    IN  /\ w.asked = "apply" => caps = DaysCovered(w.cap, w.stay, w.zone)
        /\ (w.rate # Flat \/ w.asked = "pieces") =>
             {handed[i] : i \in 1 .. Len(handed)} = {parts[i] : i \in DOMAIN parts}
        /\ w.rate # Flat => amounts.total = DaysPay(w.cap, w.stay, w.zone, w.rate, w.start, w.end)
        /\ w.asked = "apply" =>
             fee = AtMost(w.running, DailyCeiling(w.cap, w.stay, w.zone, w.rate))

(* The cap answers every stay: no walk ends in the comparison with a        *)
(* smallest amount that is not there.                                       *)
CapAnswers == pc # "failed"

(* The walk ends: every loop of the generators runs out. *)
WalkEnds == <>(pc \in {"done", "failed"})
=============================================================================
