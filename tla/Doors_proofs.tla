-------------------------- MODULE Doors_proofs --------------------------
(***************************************************************************)
(* The doors, for any connections, callers, bounds and documents. The      *)
(* service's invariant holds of each connection by itself, so that a step  *)
(* is a step of one connection and leaves the parts of the others alone;   *)
(* the shell's says that what was last asked was answered by its runner,   *)
(* about the plan as it is.                                                *)
(***************************************************************************)
EXTENDS Doors, FiniteSetTheorems, TLAPS

(* What each variable ranges over. *)
Ranges ==
  /\ phase \in [Connections -> {"idle", "head", "body", "run", "closed"}]
  /\ request \in [Connections -> Requests]
  /\ arrived \in [Connections -> Int]
  /\ ended \in [Connections -> BOOLEAN]
  /\ quiet \in [Connections -> Int]
  /\ DOMAIN answer = Connections

(* No more arrives than was sent, and nothing before the head. *)
Arrives == \A c \in Connections : arrived[c] >= -1 /\ arrived[c] <= request[c].sends

(* A body is read of a request that was let through. *)
LetThrough ==
  \A c \in Connections :
    phase[c] \in {"body", "run"} =>
      /\ request[c].route \in ROUTES
      /\ arrived[c] >= 0
      /\ BadLength(request[c].length) = 0

(* A runner is asked once everything the read waits for has come. *)
Whole ==
  \A c \in Connections :
    phase[c] = "run" => ended[c] \/ arrived[c] >= Length(c)

IInv == Ranges /\ Arrives /\ LetThrough /\ Whole /\ AnswersWhatWasSent

USE ServiceAssumption, TextAssumption
-----------------------------------------------------------------------------
(* A length that is not refused is a number between zero and the bound. *)
LEMMA LengthInBound ==
  ASSUME NEW length, length.read => length.value \in Int, BadLength(length) = 0
  PROVE  length.value \in Int /\ length.value >= 0 /\ length.value <= MAX_BODY_BYTES
  BY DEF BadLength

(* A fee or a refusal is never given for a document that is not the runner's, *)
(* nor is a 400 nothing.                                                     *)
LEMMA RunnerAnswers ==
  ASSUME NEW route, NEW d, Told(route, d).status \in {200, 422}
  PROVE  d.for = route /\ Told(route, d) = Run(route, d)
<1>1. Error(400).status = 400 /\ Invalid.status = 400
  BY DEF Error, Invalid, Answer
<1>2. Told(route, d) # Error(400) /\ Told(route, d) # Invalid
  BY <1>1
<1>3. Told(route, d) = Run(route, d)
  BY <1>2, Zenon DEF Told
<1>4. d.for = route
  BY <1>2, <1>3, Zenon DEF Run
<1> QED
  BY <1>3, <1>4

LEMMA NothingFalls ==
  ASSUME NEW route, NEW d, Told(route, d) = Nothing
  PROVE  Run(route, d) = Falls
<1>1. Error(400).status = 400 /\ Nothing.status = 0 /\ Nothing = Falls
  BY DEF Error, Nothing, Falls, Answer
<1>2. Told(route, d) # Error(400)
  BY <1>1
<1> QED
  BY <1>1, <1>2, Zenon DEF Told
-----------------------------------------------------------------------------
(* One connection's part of the invariant. *)
Part(c) ==
  /\ arrived[c] >= -1 /\ arrived[c] <= request[c].sends
  /\ phase[c] \in {"body", "run"} =>
       request[c].route \in ROUTES /\ arrived[c] >= 0 /\ BadLength(request[c].length) = 0
  /\ phase[c] = "run" => ended[c] \/ arrived[c] >= Length(c)
  /\ AnswerIsOf(c)

LEMMA Parts == IInv <=> Ranges /\ \A c \in Connections : Part(c)
  BY DEF IInv, Arrives, LetThrough, Whole, AnswersWhatWasSent, Part

LEMMA PartsAfter ==
  ASSUME Ranges', \A c \in Connections : Part(c)'
  PROVE  IInv'
  BY DEF IInv, Arrives, LetThrough, Whole, AnswersWhatWasSent, Part

(* A connection nothing is written of. *)
Still(d) ==
  /\ phase'[d] = phase[d] /\ arrived'[d] = arrived[d] /\ ended'[d] = ended[d]
  /\ quiet'[d] = quiet[d] /\ answer'[d] = answer[d] /\ request' = request

(* AnswerIsOf, of the values it reads of one connection. *)
Fits(at, req, come, over, calm, ans, length) ==
  at = "closed" /\ req.route \in ROUTES /\ req.method = "POST"
    /\ come >= 0 /\ BadLength(req.length) = 0 =>
      LET route == req.route
          text == req.text
      IN  /\ ans # Nothing /\ ~over =>
               length <= req.sends /\ ans = Told(route, text[length])
          /\ ans.status \in {200, 422} =>
               /\ \E n \in 0..req.sends : text[n].for = route
               /\ \A n \in 0..req.sends : text[n].for \in ROUTES => ans = Run(route, text[n])
          /\ ans = Nothing =>
               \/ calm = SOCKET_TIMEOUT
               \/ \E n \in 0..req.sends : Run(route, text[n]) = Falls

LEMMA StillKeepsItsPart ==
  ASSUME NEW d \in Connections, Still(d), Part(d)
  PROVE  Part(d)'
<1>1. Length(d)' = Length(d)
  BY DEF Still, Length
<1>2. AnswerIsOf(d)'
  <2>1. AnswerIsOf(d)
    BY DEF Part
  <2>2. AnswerIsOf(d) <=> Fits(phase[d], request[d], arrived[d], ended[d], quiet[d],
                               answer[d], Length(d))
    BY DEF AnswerIsOf, Fits
  <2>3. AnswerIsOf(d)' <=> Fits(phase'[d], request'[d], arrived'[d], ended'[d], quiet'[d],
                                answer'[d], Length(d)')
    BY DEF AnswerIsOf, Fits
  <2> QED
    BY <1>1, <2>1, <2>2, <2>3, Zenon DEF Still
<1> QED
  BY <1>1, <1>2 DEF Still, Part
-----------------------------------------------------------------------------
Step(c) == Caller(c) \/ Tick(c) \/ Thread(c)

LEMMA RangesKept ==
  ASSUME NEW c \in Connections, Ranges, Step(c)
  PROVE  Ranges' /\ \A d \in Connections \ {c} : Still(d)
<1> USE DEF Ranges, Still, Set
<1>1. ASSUME NEW a, Close(c, a)
      PROVE  Ranges' /\ \A d \in Connections \ {c} : Still(d)
  BY <1>1 DEF Close
<1>2. ASSUME NEW next \in {"body", "run"}, Go(c, next)
      PROVE  Ranges' /\ \A d \in Connections \ {c} : Still(d)
  BY <1>2 DEF Go
<1>3. CASE Caller(c)
  <2>1. CASE Connect(c)
    BY <2>1 DEF Connect
  <2>2. CASE Send(c)
    BY <2>2 DEF Send
  <2>3. CASE EndSending(c)
    BY <2>3 DEF EndSending
  <2> QED
    BY <1>3, <2>1, <2>2, <2>3 DEF Caller
<1>4. CASE Tick(c)
  BY <1>4 DEF Tick
<1>5. CASE Thread(c)
  <2>1. (\E a : Close(c, a)) \/ Go(c, "body") \/ Go(c, "run")
    BY <1>5 DEF Thread, NoRequest, Health, NoSuchRoute, RefuseLength, ReadBody, BodyHasCome,
                TimeOut, Respond
  <2> QED
    BY <2>1, <1>1, <1>2
<1> QED
  BY <1>3, <1>4, <1>5 DEF Step

(* What its own connection's part becomes when a thread says `a`.            *)
LEMMA PartAfterClose ==
  ASSUME NEW c \in Connections, NEW a, Ranges, Part(c), Close(c, a), AnswerIsOf(c)'
  PROVE  Part(c)'
  BY DEF Ranges, Part, Close, Set

(* An answer given before a body is asked for is none to a request that was  *)
(* let through.                                                             *)
LEMMA NotLetThrough ==
  ASSUME NEW c \in Connections, NEW a, Ranges, Close(c, a),
         \/ arrived[c] < 0 \/ request[c].method # "POST" \/ request[c].route \notin ROUTES
         \/ BadLength(request[c].length) # 0
  PROVE  AnswerIsOf(c)'
<1>1. request'[c] = request[c] /\ arrived'[c] = arrived[c]
  BY DEF Close
<1>2. ~(/\ request'[c].route \in ROUTES /\ request'[c].method = "POST"
        /\ arrived'[c] >= 0 /\ BadLength(request'[c].length) = 0)
  BY <1>1 DEF Ranges
<1> QED
  BY <1>2, Zenon DEF AnswerIsOf

LEMMA TimeOutSaysNothing ==
  ASSUME NEW c \in Connections, Ranges, TimeOut(c)
  PROVE  AnswerIsOf(c)'
<1>1. answer'[c] = Nothing /\ quiet'[c] = SOCKET_TIMEOUT
  BY DEF TimeOut, Close, Set, TooQuiet, Ranges
<1>2. Nothing.status = 0
  BY DEF Nothing, Answer
<1> QED
  BY <1>1, <1>2 DEF AnswerIsOf

(* A runner asked about the bytes that were read: all that were promised, or  *)
(* fewer where the caller closed its side; and the one document that any     *)
(* number of its bytes make, if it is the runner's that it answers.          *)
LEMMA RespondAnswersTheBody ==
  ASSUME NEW c \in Connections, Ranges, Part(c), Respond(c)
  PROVE  AnswerIsOf(c)'
<1> DEFINE text == request[c].text
           route == request[c].route
           held == Held(c)
<1>1. /\ phase[c] = "run" /\ request[c] \in Requests /\ arrived[c] \in Int
      /\ arrived[c] <= request[c].sends /\ request[c].sends \in Nat
      /\ request[c].route \in ROUTES /\ arrived[c] >= 0
      /\ Length(c) \in Int /\ Length(c) >= 0
      /\ ended[c] \/ arrived[c] >= Length(c)
  <2>1. phase[c] = "run" /\ request[c] \in Requests
    BY DEF Respond, Ranges
  <2>2. Length(c) \in Int /\ Length(c) >= 0
    BY <2>1, LengthInBound DEF Part, Length
  <2> QED
    BY <2>1, <2>2 DEF Part, Ranges
<1>2. /\ held \in 0..request[c].sends
      /\ ~ended[c] => held = Length(c)
  BY <1>1 DEF Held, AtMost
<1>3. /\ request'[c] = request[c] /\ arrived'[c] = arrived[c] /\ ended'[c] = ended[c]
      /\ Length(c)' = Length(c)
  BY DEF Respond, Close, Length
<1>4. answer'[c] = Told(route, text[held])
  BY DEF Respond, Close, Set, Ranges, Document
<1> HIDE DEF held
<1>5. ASSUME answer'[c] # Nothing, ~ended[c]
      PROVE  Length(c) <= request[c].sends /\ answer'[c] = Told(route, text[Length(c)])
  BY <1>1, <1>2, <1>4, <1>5
<1>6. ASSUME answer'[c].status \in {200, 422}
      PROVE  /\ \E n \in 0..request[c].sends : text[n].for = route
             /\ \A n \in 0..request[c].sends :
                  text[n].for \in ROUTES => answer'[c] = Run(route, text[n])
  <2>1. text[held].for = route /\ answer'[c] = Run(route, text[held])
    BY <1>4, <1>6, RunnerAnswers
  <2>2. ASSUME NEW n \in 0..request[c].sends, text[n].for \in ROUTES
        PROVE  answer'[c] = Run(route, text[n])
    <3>1. text[n] = text[held]
      BY <1>1, <1>2, <2>1, <2>2
    <3> QED
      BY <2>1, <3>1
  <2> QED
    BY <1>2, <2>1, <2>2
<1>7. ASSUME answer'[c] = Nothing
      PROVE  \E n \in 0..request[c].sends : Run(route, text[n]) = Falls
  BY <1>2, <1>4, <1>7, NothingFalls
<1>8. Fits(phase'[c], request[c], arrived[c], ended[c], quiet'[c], answer'[c], Length(c))
  <2>1. answer'[c] # Nothing /\ ~ended[c] =>
          Length(c) <= request[c].sends /\ answer'[c] = Told(route, text[Length(c)])
    BY <1>5
  <2>2. answer'[c].status \in {200, 422} =>
          /\ \E n \in 0..request[c].sends : text[n].for = route
          /\ \A n \in 0..request[c].sends :
               text[n].for \in ROUTES => answer'[c] = Run(route, text[n])
    BY <1>6
  <2>3. answer'[c] = Nothing =>
          \E n \in 0..request[c].sends : Run(route, text[n]) = Falls
    BY <1>7
  <2> QED
    BY <2>1, <2>2, <2>3, ZenonT(30) DEF Fits
<1>9. Fits(phase'[c], request'[c], arrived'[c], ended'[c], quiet'[c], answer'[c], Length(c)')
  BY <1>3, <1>8
<1>10. AnswerIsOf(c)' <=> Fits(phase'[c], request'[c], arrived'[c], ended'[c], quiet'[c],
                              answer'[c], Length(c)')
  BY DEF AnswerIsOf, Fits
<1> QED
  BY <1>9, <1>10
-----------------------------------------------------------------------------
(* A step that leaves a connection open keeps its part. *)
LEMMA PartWhileOpen ==
  ASSUME NEW c \in Connections, Ranges, Part(c), Step(c), phase'[c] # "closed",
         phase[c] # "closed"
  PROVE  Part(c)'
<1> USE DEF Ranges, Part, Length, Set
<1>0. AnswerIsOf(c)'
  BY Zenon DEF AnswerIsOf
<1>1. request[c] \in Requests
  OBVIOUS
<1>2. CASE Connect(c)
  BY <1>0, <1>2 DEF Connect
<1>3. CASE Send(c)
  BY <1>0, <1>1, <1>3 DEF Send
<1>4. CASE EndSending(c)
  BY <1>0, <1>4 DEF EndSending
<1>5. CASE Tick(c)
  BY <1>0, <1>5 DEF Tick
<1>6. ASSUME NEW a, Close(c, a)
      PROVE  FALSE
  BY <1>6 DEF Close
<1>7. CASE ReadBody(c)
  <2>1. /\ phase[c] = "head" /\ arrived[c] >= 0 /\ request[c].route \in ROUTES
        /\ BadLength(request[c].length) = 0
    BY <1>7 DEF ReadBody, Posts, HeadHasCome
  <2>2. phase'[c] = (IF Length(c) = 0 THEN "run" ELSE "body")
        /\ UNCHANGED <<request, arrived, ended, quiet, answer>>
    BY <1>7 DEF ReadBody, Go
  <2> QED
    BY <1>0, <2>1, <2>2
<1>8. CASE BodyHasCome(c)
  <2>1. phase[c] = "body" /\ (ended[c] \/ arrived[c] >= Length(c))
    BY <1>8 DEF BodyHasCome, Come, HeadIsThere
  <2>2. phase'[c] = "run" /\ UNCHANGED <<request, arrived, ended, quiet, answer>>
    BY <1>8 DEF BodyHasCome, Go
  <2> QED
    BY <1>0, <2>1, <2>2
<1>9. CASE Thread(c)
  <2>1. (\E a : Close(c, a)) \/ ReadBody(c) \/ BodyHasCome(c)
    BY <1>9 DEF Thread, NoRequest, Health, NoSuchRoute, RefuseLength, TimeOut, Respond
  <2> QED
    BY <2>1, <1>6, <1>7, <1>8
<1> QED
  BY <1>2, <1>3, <1>4, <1>5, <1>9 DEF Step, Caller

(* So does the step that closes it. *)
LEMMA PartOfClosing ==
  ASSUME NEW c \in Connections, Ranges, Part(c), Thread(c), phase'[c] = "closed"
  PROVE  Part(c)'
<1>1. CASE NoRequest(c)
  BY <1>1, NotLetThrough, PartAfterClose DEF NoRequest
<1>2. CASE Health(c)
  BY <1>2, NotLetThrough, PartAfterClose DEF Health
<1>3. CASE NoSuchRoute(c)
  BY <1>3, NotLetThrough, PartAfterClose DEF NoSuchRoute
<1>4. CASE RefuseLength(c)
  BY <1>4, NotLetThrough, PartAfterClose DEF RefuseLength
<1>5. CASE TimeOut(c)
  BY <1>5, TimeOutSaysNothing, PartAfterClose DEF TimeOut
<1>6. CASE Respond(c)
  BY <1>6, RespondAnswersTheBody, PartAfterClose DEF Respond
<1>7. ~ReadBody(c) /\ ~BodyHasCome(c)
  BY DEF ReadBody, BodyHasCome, Go, Set, Ranges
<1> QED
  BY <1>1, <1>2, <1>3, <1>4, <1>5, <1>6, <1>7 DEF Thread

LEMMA InitEstablishes == Init => IInv
<1> SUFFICES ASSUME Init
    PROVE  Ranges /\ \A c \in Connections : Part(c)
  BY Parts
<1>1. Ranges
  BY DEF Init, Ranges, Nothing
<1>2. ASSUME NEW c \in Connections
      PROVE  Part(c)
  <2>1. phase[c] = "idle" /\ arrived[c] = -1 /\ request[c] \in Requests
    BY DEF Init
  <2>2. AnswerIsOf(c)
    BY <2>1, Zenon DEF AnswerIsOf
  <2> QED
    BY <2>1, <2>2 DEF Part
<1> QED
  BY <1>1, <1>2

LEMMA StepKeeps == IInv /\ [Next]_vars => IInv'
<1> SUFFICES ASSUME IInv, [Next]_vars
    PROVE  IInv'
  OBVIOUS
<1>1. ASSUME NEW c \in Connections, Step(c)
      PROVE  IInv'
  <2>1. Ranges /\ \A d \in Connections : Part(d)
    BY Parts
  <2>2. Ranges' /\ \A d \in Connections \ {c} : Still(d)
    BY <1>1, <2>1, RangesKept
  <2>3. Part(c)'
    <3>1. phase[c] # "closed" /\ (Thread(c) \/ phase'[c] # "closed")
      <4>1. CASE Connect(c)
        BY <2>1, <4>1 DEF Connect, Set, Ranges
      <4>2. CASE Send(c) \/ EndSending(c) \/ Tick(c)
        BY <4>2 DEF Send, EndSending, Tick
      <4>3. CASE Thread(c)
        BY <4>3 DEF Thread, NoRequest, Health, NoSuchRoute, RefuseLength, ReadBody, BodyHasCome,
                    TimeOut, Respond, Posts, HeadHasCome
      <4> QED
        BY <1>1, <4>1, <4>2, <4>3 DEF Step, Caller
    <3> QED
      BY <1>1, <2>1, <3>1, PartWhileOpen, PartOfClosing
  <2>4. \A d \in Connections \ {c} : Part(d)'
    BY <2>1, <2>2, StillKeepsItsPart
  <2>5. \A d \in Connections : Part(d)'
    BY <2>3, <2>4
  <2> QED
    BY <2>2, <2>5, PartsAfter
<1>2. ASSUME UNCHANGED vars
      PROVE  IInv'
  <2>1. Ranges /\ \A d \in Connections : Part(d)
    BY Parts
  <2>2. Ranges' /\ \A d \in Connections : Still(d)
    BY <1>2, <2>1 DEF vars, Ranges, Still
  <2> QED
    BY <2>1, <2>2, StillKeepsItsPart, PartsAfter
<1> QED
  BY <1>1, <1>2 DEF Next, AllClosed, Step

(* Every step of a door is one of the service, or leaves it alone.            *)
LEMMA ServiceAtTheDoor == DoorSpec => []IInv
<1>1. DoorInit => Init
  BY DEF DoorInit
<1>2. [DoorNext]_doorVars => [Next]_vars
  BY DEF DoorNext, Serve, AtTheShell, doorVars
<1> QED
  BY <1>1, <1>2, InitEstablishes, StepKeeps, PTL DEF DoorSpec

(* A body is read within a bound: no thread ever holds more of it, whatever  *)
(* length a caller writes and however much it sends (F58).                  *)
THEOREM BoundedRead == DoorSpec => []ReadsWithinItsBound
<1>1. IInv => ReadsWithinItsBound
  <2> SUFFICES ASSUME IInv, NEW c \in Connections, phase[c] \in {"body", "run"}
      PROVE  Held(c) <= MAX_BODY_BYTES
    BY DEF ReadsWithinItsBound
  <2>1. request[c] \in Requests /\ BadLength(request[c].length) = 0 /\ arrived[c] \in Int
    BY DEF IInv, Ranges, LetThrough
  <2>2. Length(c) \in Int /\ Length(c) >= 0 /\ Length(c) <= MAX_BODY_BYTES
    BY <2>1, LengthInBound DEF Length
  <2> QED
    BY <2>1, <2>2 DEF Held, AtMost
<1> QED
  BY <1>1, ServiceAtTheDoor, PTL

(* However slowly a body comes, its caller is answered on every byte it      *)
(* promised and none past them, unless it closed its side first; and however *)
(* a body is cut, a fee or a refusal is the answer to the one document that  *)
(* was sent (F16, F58).                                                     *)
THEOREM AnsweredWhole == DoorSpec => []AnswersWhatWasSent
<1>1. IInv => AnswersWhatWasSent
  BY DEF IInv
<1> QED
  BY <1>1, ServiceAtTheDoor, PTL
-----------------------------------------------------------------------------
AskedOf(command, opening, d) ==
  [command |-> command, door |-> opening, document |-> d, answer |-> Shell!Run(command, d),
   exit |-> IF opening = "route" THEN Shell!Run(command, d).status
            ELSE Shell!Exit(command, opening, Shell!Run(command, d))]

StayOf(p, hits) ==
  [for |-> "quote", reads |-> "reads", plan |-> p, hits |-> hits, overflows |-> FALSE]

(* A stay as it was answered at a door, whatever was decided when it was.    *)
BeforeOf(opening, p, hits) ==
  LET was == AskedOf("quote", opening, StayOf(p, hits))
  IN  [hits |-> hits, answer |-> was.answer, priced |-> Shell!SaysPriced(was.exit)]

PlanRanges == plan \in [finds : SUBSET Findings, decisions : SUBSET Codes]

(* What was asked was answered by the runner, and a new plan forgets it.      *)
AskedWasAnswered ==
  \/ asked = Shell!Nothing
  \/ \E command \in Shell!ROUTES, opening \in Shell!DOORS :
       \E d : asked = AskedOf(command, opening, d)

(* So was the stay asked about first, with the decisions of its day.         *)
BeforeWasAnswered ==
  \/ before = Shell!Nothing
  \/ \E opening \in Shell!DOORS : \E p, hits : before = BeforeOf(opening, p, hits)

ShellInv == PlanRanges /\ AskedWasAnswered /\ BeforeWasAnswered

LEMMA ShellStepKeeps == ShellInv /\ [Shell!Next]_shellVars => ShellInv'
<1> SUFFICES ASSUME ShellInv, [Shell!Next]_shellVars
    PROVE  ShellInv'
  OBVIOUS
<1> USE DEF ShellInv
<1>1. ASSUME NEW command \in Shell!ROUTES, NEW opening \in Shell!DOORS, NEW d,
             Shell!Ask(command, opening, d)
      PROVE  AskedWasAnswered' /\ PlanRanges' /\ asked' = AskedOf(command, opening, d)
  BY <1>1 DEF AskedWasAnswered, PlanRanges, AskedOf, Shell!Ask
<1>2. CASE Shell!Validate
  BY <1>1, <1>2 DEF Shell!Validate, Shell!ROUTES, BeforeWasAnswered
<1>3. CASE Shell!Quote
  <2>1. PICK opening \in Shell!DOORS, hits \in SUBSET plan.finds :
          /\ Shell!Ask("quote", opening, StayOf(plan, hits))
          /\ before' = IF before = Shell!Nothing
                       THEN [hits |-> hits, answer |-> asked'.answer,
                             priced |-> Shell!SaysPriced(asked'.exit)]
                       ELSE before
    BY <1>3 DEF Shell!Quote, Shell!QuoteOf, StayOf
  <2>2. /\ AskedWasAnswered' /\ PlanRanges'
        /\ asked' = AskedOf("quote", opening, StayOf(plan, hits))
    BY <1>1, <2>1 DEF Shell!ROUTES
  <2>3. BeforeWasAnswered'
    <3>1. CASE before = Shell!Nothing
      <4>1. before' = BeforeOf(opening, plan, hits)
        BY <2>1, <2>2, <3>1 DEF BeforeOf
      <4> QED
        BY <4>1 DEF BeforeWasAnswered
    <3>2. CASE before # Shell!Nothing
      BY <2>1, <3>2 DEF BeforeWasAnswered
    <3> QED
      BY <3>1, <3>2
  <2> QED
    BY <2>2, <2>3
<1>4. CASE Shell!AskElsewhere
  BY <1>1, <1>4 DEF Shell!AskElsewhere, BeforeWasAnswered
<1>5. CASE Shell!Decide
  <2>1. PICK code \in Codes : plan' = [plan EXCEPT !.decisions = @ \cup {code}]
    BY <1>5 DEF Shell!Decide
  <2>2. PlanRanges'
    BY <2>1 DEF PlanRanges
  <2> QED
    BY <1>5, <2>2 DEF AskedWasAnswered, BeforeWasAnswered, Shell!Decide
<1>6. CASE Shell!ChangeRules
  <2>1. PICK finds \in SUBSET Findings : plan' = [plan EXCEPT !.finds = finds]
    BY <1>6 DEF Shell!ChangeRules
  <2>2. PlanRanges'
    BY <2>1 DEF PlanRanges
  <2> QED
    BY <1>6, <2>2 DEF AskedWasAnswered, BeforeWasAnswered, Shell!ChangeRules
<1>7. CASE UNCHANGED shellVars
  BY <1>7 DEF PlanRanges, AskedWasAnswered, BeforeWasAnswered, shellVars
<1> QED
  BY <1>2, <1>3, <1>4, <1>5, <1>6, <1>7 DEF Shell!Next

LEMMA ShellAtTheDoor == DoorSpec => []ShellInv
<1>1. DoorInit => ShellInv
  <2> SUFFICES ASSUME Shell!Init
      PROVE  ShellInv
    BY DEF DoorInit
  <2> QED
    BY DEF Shell!Init, ShellInv, PlanRanges, AskedWasAnswered, BeforeWasAnswered
<1>2. [DoorNext]_doorVars => [Shell!Next]_shellVars
  BY DEF DoorNext, Serve, AtTheShell, doorVars
<1> QED
  BY <1>1, <1>2, ShellStepKeeps, PTL DEF DoorSpec

(* What a stay is told is decided by what it meets, and not by the plan's    *)
(* decisions; and every door's exit says so alike.                          *)
LEMMA StayAnswered ==
  ASSUME NEW opening \in Shell!DOORS, NEW p, NEW hits
  PROVE  LET was == AskedOf("quote", opening, StayOf(p, hits))
         IN  /\ was.answer = IF hits # {} THEN Shell!Refusal(Shell!CodesOf(hits))
                             ELSE Shell!Answer(200, Shell!Says("priced"))
             /\ Shell!SaysPriced(was.exit) <=> hits = {}
<1> DEFINE d == StayOf(p, hits)
           answer1 == Shell!Run("quote", d)
<1>1. answer1 = IF hits # {} THEN Shell!Refusal(Shell!CodesOf(hits))
                ELSE Shell!Answer(200, Shell!Says("priced"))
  BY DEF StayOf, Shell!Run, Shell!RunQuote
<1>2. answer1.status = IF hits # {} THEN 422 ELSE 200
  BY <1>1 DEF Shell!Refusal, Shell!Answer
<1>3. hits # {} => answer1.body.says = "refused"
  BY <1>1 DEF Shell!Refusal, Shell!Answer, Shell!Says
<1>4. answer1 # Shell!Falls
  BY <1>2 DEF Shell!Falls, Shell!Answer
<1> HIDE DEF answer1
<1>5. Shell!Exit("quote", opening, answer1) = IF hits # {} THEN 1 ELSE 0
  BY <1>2, <1>3, <1>4 DEF Shell!Exit, Shell!OrdinaryExit
<1> QED
  BY <1>1, <1>2, <1>5 DEF AskedOf, Shell!SaysPriced, answer1

(* A decision is an acknowledgement, never a price: while the rules stand,   *)
(* the same stay asked about again is told the same, whatever was decided    *)
(* between, and no door's exit code or status says it was priced where       *)
(* another's says it was not (F12b).                                        *)
THEOREM NoDecisionPrices == DoorSpec => []DecisionsPriceNothing
<1>1. ShellInv => DecisionsPriceNothing
  <2> SUFFICES ASSUME ShellInv, before # Shell!Nothing, asked.command = "quote",
                      asked.document = Shell!QuoteOf(before.hits)
      PROVE  /\ asked.answer = before.answer
             /\ Shell!SaysPriced(asked.exit) <=> before.priced
    BY DEF DecisionsPriceNothing, Shell!DecisionsPriceNothing
  <2>1. PICK command, opening, d :
          /\ command \in Shell!ROUTES /\ opening \in Shell!DOORS
          /\ asked = AskedOf(command, opening, d)
    <3>1. Shell!Nothing.command # "quote"
      BY DEF Shell!Nothing
    <3> QED
      BY <3>1 DEF ShellInv, AskedWasAnswered
  <2>2. PICK opened \in Shell!DOORS : \E p, hits : before = BeforeOf(opened, p, hits)
    BY DEF ShellInv, BeforeWasAnswered
  <2>3. PICK p, hits : before = BeforeOf(opened, p, hits)
    BY <2>2
  <2>4. before.hits = hits
    BY <2>3 DEF BeforeOf
  <2>5. asked = AskedOf("quote", opening, StayOf(plan, hits))
    BY <2>1, <2>4 DEF AskedOf, Shell!QuoteOf, StayOf
  <2> QED
    BY <2>1, <2>3, <2>5, StayAnswered DEF BeforeOf
<1> QED
  BY <1>1, ShellAtTheDoor, PTL
-----------------------------------------------------------------------------
(* Each finding is marked once, so what is outstanding and what is settled   *)
(* are a partition of as many.                                              *)
LEMMA MarkedOnce ==
  ASSUME NEW p, IsFiniteSet(p.finds)
  PROVE  /\ {m.finding : m \in Shell!Marked(p)} = p.finds
         /\ IsFiniteSet(Shell!Marked(p)) /\ Cardinality(Shell!Marked(p)) = Cardinality(p.finds)
<1> DEFINE mark == [f \in p.finds |-> [finding |-> f, decided |-> f.code \notin Shell!CodesOf(Shell!Undecided(p))]]
<1>1. mark \in Surjection(p.finds, Shell!Marked(p))
  BY DEF Shell!Marked, Surjection
<1>2. \A f, g \in p.finds : mark[f] = mark[g] => f = g
  OBVIOUS
<1>3. mark \in Bijection(p.finds, Shell!Marked(p))
  BY <1>1, <1>2 DEF Bijection, Injection, IsInjective, Surjection
<1>4. \A m \in Shell!Marked(p) : m.finding \in p.finds
  BY DEF Shell!Marked
<1>5. ASSUME NEW f \in p.finds
      PROVE  mark[f] \in Shell!Marked(p) /\ mark[f].finding = f
  <2>1. mark[f] \in Shell!Marked(p)
    BY <1>1 DEF Surjection
  <2> QED
    BY <2>1
<1> HIDE DEF mark
<1>6. {m.finding : m \in Shell!Marked(p)} = p.finds
  <2>1. \A f \in p.finds : \E m \in Shell!Marked(p) : m.finding = f
    BY <1>5
  <2> QED
    BY <1>4, <2>1
<1>7. ExistsBijection(p.finds, Shell!Marked(p))
  BY <1>3, Zenon DEF ExistsBijection
<1> QED
  BY <1>6, <1>7, FS_Bijection

LEMMA SameCardinality == \A S : Shell!Cardinality(S) = Cardinality(S)
BY DEF Shell!Cardinality, Cardinality

LEMMA CountsAreTheLists ==
  ASSUME NEW p, IsFiniteSet(p.finds)
  PROVE  Shell!Report(p).outstanding + Shell!Report(p).settled = Cardinality(p.finds)
<1> DEFINE open == {m \in Shell!Marked(p) : ~m.decided}
           shut == {m \in Shell!Marked(p) : m.decided}
<1>1. IsFiniteSet(Shell!Marked(p)) /\ Cardinality(Shell!Marked(p)) = Cardinality(p.finds)
  BY MarkedOnce
<1>2. Shell!Report(p).outstanding = Cardinality(open) /\ Shell!Report(p).settled = Cardinality(shut)
  BY SameCardinality DEF Shell!Report, Shell!Listed
<1>3. open \cup shut = Shell!Marked(p) /\ open \cap shut = {}
  OBVIOUS
<1>4. IsFiniteSet(open) /\ IsFiniteSet(shut)
  BY <1>1, FS_Subset
<1> HIDE DEF open, shut
<1>5. Cardinality(Shell!Marked(p)) = Cardinality(open) + Cardinality(shut) - Cardinality({})
  BY <1>3, <1>4, FS_Union
<1>6. Cardinality(open) \in Nat /\ Cardinality(shut) \in Nat /\ Cardinality({}) = 0
  BY <1>4, FS_CardinalityType, FS_EmptySet
<1> QED
  BY <1>1, <1>2, <1>5, <1>6

(* However much was decided since, every finding of the plan is on the list  *)
(* a validation gives, the counts are the list's, and the command for a      *)
(* terminal exits 0 only while none stands; with --json it exits 0 on any    *)
(* plan that was read (F12).                                                *)
THEOREM ClearIsClear == DoorSpec => []ClearMeansClear
<1>1. ShellInv => ClearMeansClear
  <2> DEFINE body == asked.answer.body
  <2> SUFFICES ASSUME ShellInv, Shell!PlanValidated, asked.answer.status = 200
      PROVE  /\ {m.finding : m \in body.listed} = plan.finds
             /\ body.outstanding + body.settled = Cardinality(plan.finds)
             /\ asked.door = "terminal" => (asked.exit = 0 <=> plan.finds = {})
             /\ asked.door = "json" => asked.exit = 0
    BY SameCardinality, Zenon DEF ClearMeansClear, Shell!ClearMeansClear
  <2>1. PICK command, opening, d :
          /\ command \in Shell!ROUTES /\ opening \in Shell!DOORS
          /\ asked = AskedOf(command, opening, d)
    <3>1. Shell!Nothing.command # "validate-plan"
      BY DEF Shell!Nothing
    <3> QED
      BY <3>1 DEF ShellInv, AskedWasAnswered, Shell!PlanValidated
  <2>2. command = "validate-plan" /\ d = Shell!ValidationOf
    BY <2>1 DEF AskedOf, Shell!PlanValidated
  <2>3. d.for = "validate-plan" /\ d.plan = plan /\ d.reads = "reads"
    BY <2>2 DEF Shell!ValidationOf
  <2>4. asked.answer = Shell!Run(command, d) /\ asked.door = opening
    BY <2>1 DEF AskedOf
  <2>5. Shell!Falls.status # 200
    BY DEF Shell!Falls, Shell!Answer
  <2>6. asked.answer = Shell!Answer(200, Shell!Report(plan))
    BY <2>2, <2>3, <2>4, <2>5 DEF Shell!Run, Shell!RunValidate
  <2>7. asked.answer.status = 200 /\ body = Shell!Report(plan)
    BY <2>6 DEF Shell!Answer
  <2>8. IsFiniteSet(plan.finds)
    BY FS_Subset, SessionAssumption DEF ShellInv, PlanRanges
  <2>9. body.listed = Shell!Marked(plan)
    BY <2>7 DEF Shell!Report, Shell!Listed
  <2>10. {m.finding : m \in Shell!Marked(plan)} = plan.finds
    BY <2>8, MarkedOnce
  <2>11. Shell!Marked(plan) = {} <=> plan.finds = {}
    BY <2>10 DEF Shell!Marked
  <2>12. ASSUME opening = "terminal"
         PROVE  asked.exit = 0 <=> plan.finds = {}
    <3>1. asked.exit = Shell!Exit(command, opening, asked.answer)
      BY <2>1, <2>4, <2>12 DEF AskedOf
    <3>2. asked.answer # Shell!Falls
      BY <2>7 DEF Shell!Falls, Shell!Answer
    <3>3. asked.exit = Shell!ValidateExit(asked.answer)
      BY <2>2, <2>12, <3>1, <3>2 DEF Shell!Exit
    <3> QED
      BY <2>7, <2>9, <2>11, <3>3 DEF Shell!ValidateExit
  <2>13. ASSUME opening = "json"
         PROVE  asked.exit = 0
    <3>1. asked.exit = Shell!Exit(command, opening, asked.answer)
      BY <2>1, <2>4, <2>13 DEF AskedOf
    <3>2. asked.answer # Shell!Falls
      BY <2>7 DEF Shell!Falls, Shell!Answer
    <3> QED
      BY <2>7, <2>13, <3>1, <3>2 DEF Shell!Exit
  <2> HIDE DEF body
  <2> QED
    BY <2>4, <2>7, <2>8, <2>9, <2>10, <2>12, <2>13, CountsAreTheLists
<1> QED
  BY <1>1, ShellAtTheDoor, PTL
=============================================================================
