------------------------------ MODULE Service ------------------------------
(***************************************************************************)
(* service.py: the HTTP door. A thread per connection reads the head of    *)
(* one request, decides its length, reads its body, asks a runner of       *)
(* Contract and answers, or goes without a word: HTTP/1.0, one request to  *)
(* a connection.                                                           *)
(*                                                                         *)
(* A caller sends at its own pace, may promise more or less than it sends, *)
(* may stop, and may close its side at any moment. Time passes for a       *)
(* thread that waits: `quiet` counts it since anything arrived.            *)
(***************************************************************************)
EXTENDS Contract, Arith

CONSTANTS
  Connections,
  Requests,         \* [method, route, length, sends, text]; text[n]: its first n bytes
  MAX_BODY_BYTES,
  SOCKET_TIMEOUT    \* in ticks of the clock

ASSUME ServiceAssumption ==
  /\ MAX_BODY_BYTES \in Nat \ {0} /\ SOCKET_TIMEOUT \in Nat \ {0}
  /\ \A r \in Requests : r.sends \in Nat /\ (r.length.read => r.length.value \in Int)

(* What no bytes are to the service: null, which is no runner's document. *)
NullDocument == [for |-> "no runner", reads |-> "reads"]

(* Of UTF-8 and JSON. A runner's document is an object: it is whole from its *)
(* closing brace on, bytes before that are no document, and after it only    *)
(* white space leaves it one. So however a text is cut there is one document *)
(* of a runner's in it, or none.                                             *)
ASSUME TextAssumption ==
  \A r \in Requests :
    /\ r.text[0] = NullDocument
    /\ \A m, n \in 0..r.sends :
         r.text[m].for \in ROUTES /\ r.text[n].for \in ROUTES => r.text[m] = r.text[n]
-----------------------------------------------------------------------------
VARIABLES
  phase,     \* of each connection: "idle", "head", "body", "run" or "closed"
  request,   \* what its caller sends
  arrived,   \* bytes of the body that have arrived; -1 before the head has
  ended,     \* whether its caller has closed its side
  quiet,     \* ticks the thread has waited since anything arrived
  answer     \* what was answered; Nothing until it is

vars == <<phase, request, arrived, ended, quiet, answer>>

Nothing == Answer(0, Says("nothing"))
Error(status) == Answer(status, Says("error"))

Init ==
  /\ phase = [c \in Connections |-> "idle"]
  /\ request \in [Connections -> Requests]
  /\ arrived = [c \in Connections |-> -1]
  /\ ended = [c \in Connections |-> FALSE]
  /\ quiet = [c \in Connections |-> 0]
  /\ answer = [c \in Connections |-> Nothing]

Set(f, c, value) == [f EXCEPT ![c] = value]
Length(c) == request[c].length.value

HeadIsThere(c) == phase[c] = "head" /\ (arrived[c] >= 0 \/ ended[c])

(* A fault: whatever has arrived is the body, as one recv would have it. *)
ComeAtOnce(c) == HeadIsThere(c) \/ (phase[c] = "body" /\ (ended[c] \/ arrived[c] > 0))

(* Everything rfile.read(length) waits for has come, or nothing more will. *)
Come(c) ==
  \/ HeadIsThere(c)
  \/ phase[c] = "body" /\ (ended[c] \/ (Length(c) >= 0 /\ arrived[c] >= Length(c)))

(* The bytes of the body the thread holds: a negative length reads to the    *)
(* end of the connection.                                                   *)
Held(c) == IF Length(c) < 0 THEN arrived[c] ELSE AtMost(arrived[c], Length(c))

(* A fault: one thread serves every connection, one after another. *)
ThreadOfServer(c) == "the server's"

(* ThreadingHTTPServer: every connection has a thread of its own. *)
ThreadOf(c) == c

(* A thread that is at another connection's body is not there for this one.  *)
Free(c) ==
  \A d \in Connections \ {c} : ThreadOf(d) = ThreadOf(c) => phase[d] \notin {"body", "run"}
-----------------------------------------------------------------------------
(* The caller. *)
Connect(c) ==
  /\ phase[c] = "idle"
  /\ phase' = Set(phase, c, "head")
  /\ UNCHANGED <<request, arrived, ended, quiet, answer>>

Send(c) ==
  /\ phase[c] \in {"head", "body"} /\ ~ended[c] /\ arrived[c] < request[c].sends
  /\ arrived' = Set(arrived, c, arrived[c] + 1)
  /\ quiet' = Set(quiet, c, 0)
  /\ UNCHANGED <<phase, request, ended, answer>>

EndSending(c) ==
  /\ phase[c] \in {"head", "body"} /\ ~ended[c]
  /\ ended' = Set(ended, c, TRUE)
  /\ UNCHANGED <<phase, request, arrived, quiet, answer>>

(* The clock. *)
Tick(c) ==
  /\ phase[c] \in {"head", "body"} /\ ~Come(c) /\ quiet[c] < SOCKET_TIMEOUT
  /\ quiet' = Set(quiet, c, quiet[c] + 1)
  /\ UNCHANGED <<phase, request, arrived, ended, answer>>
-----------------------------------------------------------------------------
(* The thread. *)
Close(c, a) ==
  /\ phase' = Set(phase, c, "closed") /\ answer' = Set(answer, c, a)
  /\ UNCHANGED <<request, arrived, ended, quiet>>

Go(c, next) ==
  /\ phase' = Set(phase, c, next)
  /\ UNCHANGED <<request, arrived, ended, quiet, answer>>

HeadHasCome(c) == phase[c] = "head" /\ arrived[c] >= 0 /\ Free(c)
Posts(c) == HeadHasCome(c) /\ request[c].method = "POST"

(* handle_one_request: the caller left before a request was there. *)
NoRequest(c) == phase[c] = "head" /\ arrived[c] < 0 /\ ended[c] /\ Close(c, Nothing)

(* do_GET. *)
Health(c) ==
  /\ HeadHasCome(c) /\ request[c].method = "GET"
  /\ Close(c, IF request[c].route = "health" THEN Answer(200, Says("health")) ELSE Error(404))

NoSuchRoute(c) == Posts(c) /\ request[c].route \notin ROUTES /\ Close(c, Error(404))

(* A fault: a length below zero is within the bound, as it was before F58. *)
BadLengthUnsigned(length) ==
  IF ~length.read THEN 400 ELSE IF length.value > MAX_BODY_BYTES THEN 413 ELSE 0

(* Why a length is refused; 0 if it is not. *)
BadLength(length) ==
  IF ~length.read \/ length.value < 0 THEN 400
  ELSE IF length.value > MAX_BODY_BYTES THEN 413 ELSE 0

RefuseLength(c) ==
  /\ Posts(c) /\ request[c].route \in ROUTES /\ BadLength(request[c].length) # 0
  /\ Close(c, Error(BadLength(request[c].length)))

ReadBody(c) ==
  /\ Posts(c) /\ request[c].route \in ROUTES /\ BadLength(request[c].length) = 0
  /\ Go(c, IF Length(c) = 0 THEN "run" ELSE "body")

BodyHasCome(c) == phase[c] = "body" /\ Come(c) /\ Go(c, "run")

(* A fault: a connection has no timeout, as it was before F58. *)
NeverTooQuiet(c) == FALSE

TooQuiet(c) == ~Come(c) /\ quiet[c] = SOCKET_TIMEOUT

(* A read that times out ends the request: nothing is answered. *)
TimeOut(c) == phase[c] \in {"head", "body"} /\ TooQuiet(c) /\ Close(c, Nothing)

(* What the decoder and json.loads make of the bytes that were read, which   *)
(* may be fewer than were promised, or than were sent.                      *)
Document(c) == request[c].text[Held(c)]

(* The door's own 400, or the runner's answer. *)
Told(route, d) ==
  IF d.reads \in {"not UTF-8", "not JSON"} THEN Error(400) ELSE Run(route, d)

(* Where a runner falls, the thread ends and nothing is said. *)
Respond(c) == phase[c] = "run" /\ Close(c, Told(request[c].route, Document(c)))

Thread(c) ==
  \/ NoRequest(c) \/ Health(c) \/ NoSuchRoute(c) \/ RefuseLength(c)
  \/ ReadBody(c) \/ BodyHasCome(c) \/ TimeOut(c) \/ Respond(c)

Caller(c) == Connect(c) \/ Send(c) \/ EndSending(c)

AllClosed == (\A c \in Connections : phase[c] = "closed") /\ UNCHANGED vars

Next == (\E c \in Connections : Caller(c) \/ Tick(c) \/ Thread(c)) \/ AllClosed

Spec == Init /\ [][Next]_vars

(* The thread of one connection is run while it can go on, and time passes   *)
(* for it. Nothing is asked of the callers, nor of any other thread.         *)
Fair(c) == WF_vars(Thread(c)) /\ WF_vars(Tick(c))
-----------------------------------------------------------------------------
(* A body is read within a bound: whatever length a caller writes, a thread  *)
(* holds no more of the body than the bound, however much arrives (F58).     *)
ReadsWithinItsBound ==
  \A c \in Connections : phase[c] \in {"body", "run"} => Held(c) <= MAX_BODY_BYTES

(* What a connection closed on a request that was let through was told.     *)
AnswerIsOf(c) ==
  phase[c] = "closed" /\ request[c].route \in ROUTES /\ request[c].method = "POST"
    /\ arrived[c] >= 0 /\ BadLength(request[c].length) = 0 =>
      LET route == request[c].route
          text == request[c].text
      IN  /\ answer[c] # Nothing /\ ~ended[c] =>
               Length(c) <= request[c].sends /\ answer[c] = Told(route, text[Length(c)])
          /\ answer[c].status \in {200, 422} =>
               /\ \E n \in 0..request[c].sends : text[n].for = route
               /\ \A n \in 0..request[c].sends :
                    text[n].for \in ROUTES => answer[c] = Run(route, text[n])
          /\ answer[c] = Nothing =>
               \/ quiet[c] = SOCKET_TIMEOUT
               \/ \E n \in 0..request[c].sends : Run(route, text[n]) = Falls

(* However slowly a body comes, its caller is answered on every byte it      *)
(* promised and none past them, unless it closed its side first; and however *)
(* a body is cut, a fee or a refusal is the answer to the one document that  *)
(* was sent. Nothing is said only to a caller that stopped, or where a       *)
(* runner fell (F16, F58).                                                  *)
AnswersWhatWasSent == \A c \in Connections : AnswerIsOf(c)

(* Whatever its caller does or stops doing, a connection that was made is    *)
(* closed (F58), and waits for nobody: its own thread and the clock are all  *)
(* that need run, wherever the threads of the others are stopped.           *)
EveryConnectionEnds ==
  \A c \in Connections : Fair(c) => (phase[c] = "head" ~> phase[c] = "closed")
=============================================================================
