-------------------------------- MODULE Tax --------------------------------
(***************************************************************************)
(* tax.py behind /v1/tax: the garage's tax sets are loaded, the set in     *)
(* force at an instant is chosen, and each of its rules adds a line, a     *)
(* percentage of the one subtotal, in the sequence the rules state.        *)
(*                                                                         *)
(* A set takes effect at an instant, written with an offset: two spellings *)
(* of one instant are one instant. A list of rules keeps the order it was  *)
(* written in, which must decide nothing.                                  *)
(***************************************************************************)
EXTENDS Percent, Sequences

CONSTANT Request   \* [sets, subtotal, known, at]: known if its currency is

TAX_ROUNDINGS == {"up", "down", "nearest"}

TaxRule == [id : STRING, percent_bp : Int, rounding : STRING, sequence : Int]
TaxSet == [effective_from : [wall : Int, offset : Int], rules : Seq(TaxRule)]

(* What a document can hold where it is a request at all. *)
IsRequest(req) ==
  /\ req.sets \in Seq(TaxSet) /\ req.subtotal \in Int /\ req.at \in Int
  /\ req.known \in BOOLEAN
-----------------------------------------------------------------------------
(* parse_instant: an offset-aware instant. *)
Instant(written) == written.wall - written.offset

(* _rule: what is wrong with a rule. *)
SoundRule(r) ==
  r.percent_bp > 0 /\ r.rounding \in TAX_ROUNDINGS /\ r.sequence >= 0

(* _set: its rules are sound, and no two share an id or a sequence. *)
SoundSet(s) ==
  /\ \A i \in DOMAIN s.rules : SoundRule(s.rules[i])
  /\ \A i, j \in DOMAIN s.rules :
       i # j => s.rules[i].id # s.rules[j].id /\ s.rules[i].sequence # s.rules[j].sequence

(* load_tax_sets. *)
Loads(sets) ==
  /\ sets # << >>
  /\ \A i \in DOMAIN sets : SoundSet(sets[i])
  /\ \A i, j \in DOMAIN sets :
       i # j => Instant(sets[i].effective_from) # Instant(sets[j].effective_from)

(* tax_lines judges its own arguments. *)
Readable(req) == Loads(req.sets) /\ req.subtotal >= 0 /\ req.known

InForce(sets, at) == {i \in DOMAIN sets : Instant(sets[i].effective_from) <= at}

(* select_tax_set: the one that took effect last. *)
Chosen(sets, at, i) ==
  /\ i \in InForce(sets, at)
  /\ \A j \in InForce(sets, at) :
       Instant(sets[j].effective_from) <= Instant(sets[i].effective_from)

(* _tax_line. *)
LineOf(r, subtotal) == [rule |-> r.id, delta |-> PercentOf(subtotal, r.percent_bp, r.rounding)]
-----------------------------------------------------------------------------
VARIABLES
  request,
  pc,       \* "load", "select", "tax" or "answered"
  chosen,   \* the index of the set in force; 0 until it is selected
  left,     \* the indexes of its rules that have no line yet
  lines,
  answer

vars == <<request, pc, chosen, left, lines, answer>>

Unanswered == [kind |-> "unanswered"]
Named(reasons) == [kind |-> "named", reasons |-> reasons]
Taxed(ls) == [kind |-> "taxed", lines |-> ls]

rules == request.sets[chosen].rules

Init ==
  /\ request \in Request
  /\ pc = "load" /\ chosen = 0 /\ left = {} /\ lines = << >>
  /\ answer = Unanswered

Answer(a) == answer' = a /\ pc' = "answered" /\ UNCHANGED <<request, lines>>

(* run_tax: 400, whether the document or an argument of tax_lines is refused. *)
RefuseUnreadable ==
  /\ pc = "load" /\ ~Readable(request)
  /\ Answer(Named({"invalid"}))
  /\ UNCHANGED <<chosen, left>>

Load ==
  /\ pc = "load" /\ Readable(request)
  /\ pc' = "select"
  /\ UNCHANGED <<request, chosen, left, lines, answer>>

(* An instant before every set is refused, whatever the subtotal. *)
RefuseUnstated ==
  /\ pc = "select" /\ InForce(request.sets, request.at) = {}
  /\ Answer(Named({"GAP_NO_TAX_SET_IN_FORCE"}))
  /\ UNCHANGED <<chosen, left>>

(* A subtotal of zero has no lines. *)
Select ==
  /\ pc = "select"
  /\ \E i \in DOMAIN request.sets :
       /\ Chosen(request.sets, request.at, i)
       /\ chosen' = i
       /\ left' = IF request.subtotal = 0 THEN {} ELSE DOMAIN request.sets[i].rules
  /\ pc' = "tax"
  /\ UNCHANGED <<request, lines, answer>>

(* A fault: the rules answer in the order they were listed. *)
IsNextListed(i) == \A j \in left : i <= j

IsNext(i) == \A j \in left : rules[i].sequence <= rules[j].sequence

(* A fault: a tax is taken of the taxes before it too. *)
BaseWithTaxes == request.subtotal + (IF lines = << >> THEN 0 ELSE lines[Len(lines)].delta)

Base == request.subtotal

TaxOne ==
  /\ pc = "tax"
  /\ \E i \in left :
       /\ IsNext(i)
       /\ lines' = Append(lines, LineOf(rules[i], Base))
       /\ left' = left \ {i}
  /\ UNCHANGED <<request, pc, chosen, answer>>

Return ==
  /\ pc = "tax" /\ left = {}
  /\ Answer(Taxed(lines))
  /\ UNCHANGED <<chosen, left>>

Done == pc = "answered" /\ UNCHANGED vars

Step == RefuseUnreadable \/ Load \/ RefuseUnstated \/ Select \/ TaxOne \/ Return

Next == Step \/ Done

Spec == Init /\ [][Next]_vars
-----------------------------------------------------------------------------
(* Why a request has no lines: it cannot be read, or no set covers the       *)
(* instant, however little was paid.                                        *)
Stopped(req) ==
  IF ~Readable(req) THEN {"invalid"}
  ELSE IF \A i \in DOMAIN req.sets : req.at < Instant(req.sets[i].effective_from)
  THEN {"GAP_NO_TAX_SET_IN_FORCE"} ELSE {}

(* What is owed: nothing on nothing; otherwise one line for each rule of the *)
(* latest set, each of the subtotal, ordered as the rules' sequences are.    *)
Owed(req, ls) ==
  \E s \in DOMAIN req.sets :
    LET stated == req.sets[s].rules
    IN  /\ Instant(req.sets[s].effective_from) <= req.at
        /\ \A t \in DOMAIN req.sets :
             Instant(req.sets[t].effective_from) <= req.at
               => Instant(req.sets[t].effective_from) <= Instant(req.sets[s].effective_from)
        /\ req.subtotal = 0 => ls = << >>
        /\ req.subtotal # 0 =>
             \E place \in [DOMAIN ls -> DOMAIN stated] :
               /\ \A i \in DOMAIN stated : \E k \in DOMAIN ls : place[k] = i
               /\ \A k \in DOMAIN ls : ls[k] = LineOf(stated[place[k]], req.subtotal)
               /\ \A k, l \in DOMAIN ls :
                    k < l => stated[place[k]].sequence < stated[place[l]].sequence

Promise == INSTANCE TaxPromise WITH
  Request <- Request, Stopped <- Stopped, Owed <- Owed, request <- request, answer <- answer

(* A line is never further from the exact tax than its rounding allows, and  *)
(* the fraction goes the way the rule states, an exact half up (F41).        *)
RoundsAsStated ==
  pc = "answered" =>
    \A k \in DOMAIN lines :
      \E i \in DOMAIN rules :
        LET exact == request.subtotal * rules[i].percent_bp
            over == lines[k].delta * BASIS_POINTS_PER_WHOLE - exact
        IN  /\ lines[k].rule = rules[i].id
            /\ rules[i].rounding = "up" => over >= 0 /\ over < BASIS_POINTS_PER_WHOLE
            /\ rules[i].rounding = "down" => over <= 0 /\ -over < BASIS_POINTS_PER_WHOLE
            /\ rules[i].rounding = "nearest" =>
                 2 * over <= BASIS_POINTS_PER_WHOLE /\ -2 * over < BASIS_POINTS_PER_WHOLE
=============================================================================
