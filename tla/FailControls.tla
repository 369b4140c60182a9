---------------------------- MODULE FailControls ----------------------------
(***************************************************************************)
(* scripts/fail_controls.py with tests/plant.py: each control runs a test, *)
(* plants the defect the test is there for in a source file, runs the test *)
(* again and puts the file back. A control that fires proves that its test *)
(* can fail.                                                               *)
(*                                                                         *)
(* One source file of src/ carries every control's anchor. A test is a     *)
(* fresh interpreter, which takes the cached bytecode of the file for the  *)
(* file where the stamp, in whole seconds, and the size agree. The run may *)
(* be interrupted, or killed between any two steps, and started again;     *)
(* another session saves its own work in the file. An interrupt that lands *)
(* in the restore itself leaves what a kill there leaves.                  *)
(*                                                                         *)
(* What a plant leaves of the anchors is a parameter. Most take their own  *)
(* out, and with it those that share the line. Some (F6, F7, F23, F24 and  *)
(* seven more) put their line beside the anchor, and every anchor stands as*)
(* before: such a plant can go in twice, and others on top of it.          *)
(*                                                                         *)
(* A plant under tests/ (F14) is outside the part about bytecode: pytest   *)
(* keeps its own of a conftest.py, which _write does not delete. What is   *)
(* planted there is longer than what it replaces.                          *)
(***************************************************************************)
EXTENDS Integers, FiniteSets, Functions

CONSTANTS
  CONTROLS,         \* ids
  Pins,             \* the sets of ids fail_controls.ids may record
  SizePreserving,   \* the controls whose plant keeps the size of the file
  AnchorsLeft,      \* of a control: the anchors that stand with its plant in
  Failing,          \* of a control: the sets of plants its test fails on
  LastSecond,       \* the clock stops here
  MaxEdits,         \* how often the other session saves
  MaxRuns           \* how often the script is started

ASSUME FailControlsAssumption ==
  /\ IsFiniteSet(CONTROLS) /\ CONTROLS \subseteq Nat \ {0} /\ Pins \subseteq SUBSET CONTROLS
  /\ AnchorsLeft \in [CONTROLS -> SUBSET CONTROLS]
  /\ Failing \in [CONTROLS -> SUBSET SUBSET CONTROLS]
  /\ SizePreserving \subseteq {c \in CONTROLS : c \notin AnchorsLeft[c]}
  /\ LastSecond \in Nat /\ MaxEdits \in Nat /\ MaxRuns \in Nat

NoPlants == [c \in CONTROLS |-> 0]
PlantsIn(text) == {c \in CONTROLS : text.plants[c] > 0}

SizeOf(text) ==
  text.edit + (MaxEdits + 1) * FoldFunctionOnSet(+, 0, text.plants, CONTROLS \ SizePreserving)

(* A plant goes in on top of what the text has; nothing else of it changes.  *)
WithPlant(control, text) == [edit |-> text.edit, plants |-> [text.plants EXCEPT ![control] = @ + 1]]

Passes(control, text) == PlantsIn(text) \notin Failing[control]

(* How often the anchor of a control is in the text.                         *)
AnchorsOf(control, text) ==
  IF \A planted \in PlantsIn(text) : control \in AnchorsLeft[planted] THEN 1 ELSE 0
-----------------------------------------------------------------------------
VARIABLES
  file,      \* [text, stamp]
  cache,     \* the bytecode: [text, stamp, size], or NoCache
  clock,     \* in seconds
  pc,        \* where the script is
  wanted,    \* the controls it has still to run; the first of them is running
  original,  \* the text planted() read
  writes,    \* _writes of the process
  results,   \* what this run said of each control
  runs, edits, disturbed,
  ground,    \* history: of a control, the plants its own was put on top of
  found      \* history: the plants in the file that are not of this run

vars ==
  <<file, cache, clock, pc, wanted, original, writes, results, runs, edits, disturbed,
    ground, found>>

script == <<pc, wanted, original, writes, results, disturbed, ground>>

Pristine == [edit |-> 0, plants |-> NoPlants]
NoCache == [text |-> Pristine, stamp |-> -1, size |-> -1]
Ended == {"ended", "killed"}

Init ==
  /\ file = [text |-> Pristine, stamp |-> 0]
  /\ cache = NoCache
  /\ clock = 0 /\ pc = "ended" /\ wanted = {} /\ original = file.text
  /\ writes = 0 /\ results = [c \in CONTROLS |-> "none"]
  /\ runs = 0 /\ edits = 0 /\ disturbed = FALSE
  /\ ground = [c \in CONTROLS |-> {}] /\ found = NoPlants

(* The controls run in the order of their ids. *)
IsFirst(c) == c \in wanted /\ \A d \in wanted : c <= d

(* What an interpreter started now imports, and the cache it leaves. *)
CacheHolds == cache.stamp = file.stamp /\ cache.size = SizeOf(file.text)
Imported == IF CacheHolds THEN cache.text ELSE file.text
Import ==
  cache' = IF CacheHolds THEN cache
           ELSE [text |-> file.text, stamp |-> file.stamp, size |-> SizeOf(file.text)]
-----------------------------------------------------------------------------
(* A fault: only the anchors of the controls asked for are counted. *)
AnchorsLiveOf(asked) == \A c \in asked : AnchorsOf(c, file.text) = 1

(* check_anchors: of every control, whichever were asked for. *)
AnchorsLive(asked) == \A c \in CONTROLS : AnchorsOf(c, file.text) = 1

(* main: the pin and the anchors first, and nothing is run where either is   *)
(* out. The counter of writes is the process's own.                         *)
Start(asked, pinned) ==
  /\ pc \in Ended /\ runs < MaxRuns
  /\ runs' = runs + 1 /\ writes' = 0
  /\ results' = [c \in CONTROLS |-> "none"] /\ ground' = [c \in CONTROLS |-> {}]
  /\ found' = file.text.plants
  /\ IF pinned = CONTROLS /\ AnchorsLive(asked)
     THEN pc' = "green" /\ wanted' = asked
     ELSE pc' = "ended" /\ wanted' = {}
  /\ UNCHANGED <<file, cache, clock, original, edits, disturbed>>

Say(c, what) ==
  /\ results' = [results EXCEPT ![c] = what]
  /\ wanted' = wanted \ {c}
  /\ pc' = IF wanted = {c} THEN "ended" ELSE "green"

(* run_control: a test that fails before anything is planted measures nothing. *)
GreenRun ==
  /\ pc = "green"
  /\ \E c \in wanted :
       /\ IsFirst(c)
       /\ IF Passes(c, Imported) THEN pc' = "plant" /\ UNCHANGED <<wanted, results>>
          ELSE Say(c, "unmeasured")
  /\ Import
  /\ UNCHANGED <<file, clock, original, writes, runs, edits, disturbed, ground, found>>

(* _write, first its text and then its stamp. *)
WriteText(text) == file' = [text |-> text, stamp |-> clock]

(* A fault: the stamp is advanced, and the bytecode left where it is. *)
FreshStampedOnly == file' = [file EXCEPT !.stamp = clock + writes + 1] /\ UNCHANGED cache

(* The stamp goes past every one this process has made, and the bytecode is  *)
(* deleted.                                                                 *)
Fresh == file' = [file EXCEPT !.stamp = clock + writes + 1] /\ cache' = NoCache

(* planted(): the anchor once in the file, or nothing is written and the     *)
(* script ends in the assertion.                                            *)
Plant ==
  /\ pc = "plant"
  /\ \E c \in wanted :
       /\ IsFirst(c)
       /\ IF AnchorsOf(c, file.text) = 1
          THEN /\ original' = file.text /\ pc' = "planting"
               /\ WriteText(WithPlant(c, file.text))
               /\ ground' = [ground EXCEPT ![c] = PlantsIn(file.text)]
          ELSE pc' = "ended" /\ UNCHANGED <<original, file, ground>>
  /\ UNCHANGED <<cache, clock, wanted, writes, results, runs, edits, disturbed, found>>

StampPlant ==
  /\ pc = "planting" /\ Fresh /\ writes' = writes + 1 /\ pc' = "red"
  /\ UNCHANGED <<clock, wanted, original, results, runs, edits, disturbed, ground, found>>

(* The test with its subject broken; the file is put back whatever it says.  *)
RedRun ==
  /\ pc = "red"
  /\ \E c \in wanted :
       /\ IsFirst(c)
       /\ pc' = IF Passes(c, Imported) THEN "restore: not a control" ELSE "restore: fired"
  /\ Import
  /\ UNCHANGED <<file, clock, wanted, original, writes, results, runs, edits, disturbed, ground,
                 found>>

(* A fault: the file is put back where the test came to an end. *)
InterruptLeaving ==
  /\ pc \in {"planting", "red"} /\ pc' = "ended"
  /\ UNCHANGED <<file, cache, clock, wanted, original, writes, results, runs, edits, disturbed,
                 ground, found>>

(* An interrupt in the `with`: the `finally` runs all the same. *)
Interrupt ==
  /\ pc \in {"planting", "red"} /\ pc' = "restore: interrupted"
  /\ UNCHANGED <<file, cache, clock, wanted, original, writes, results, runs, edits, disturbed,
                 ground, found>>

Restoring == {"restore: not a control", "restore: fired", "restore: interrupted"}
Then ==
  [p \in Restoring |-> IF p = "restore: fired" THEN "fired"
                       ELSE IF p = "restore: interrupted" THEN "interrupted"
                       ELSE "not a control"]

Restore ==
  /\ pc \in Restoring /\ WriteText(original) /\ pc' = Then[pc]
  /\ UNCHANGED <<cache, clock, wanted, original, writes, results, runs, edits, disturbed, ground,
                 found>>

(* The stamp of the restore, its bytes read back, and what the run says.     *)
StampRestore ==
  /\ pc \in {"fired", "not a control", "interrupted"}
  /\ Fresh /\ writes' = writes + 1
  /\ IF pc = "interrupted" \/ file.text # original
     THEN pc' = "ended" /\ UNCHANGED <<wanted, results>>
     ELSE \E c \in wanted : IsFirst(c) /\ Say(c, pc)
  /\ UNCHANGED <<clock, original, runs, edits, disturbed, ground, found>>

(* Nothing of the script runs after a kill. *)
Kill ==
  /\ pc \notin Ended /\ pc' = "killed"
  /\ UNCHANGED <<file, cache, clock, wanted, original, writes, results, runs, edits, disturbed,
                 ground, found>>

Script ==
  \/ GreenRun \/ Plant \/ StampPlant \/ RedRun \/ Interrupt \/ Restore \/ StampRestore
-----------------------------------------------------------------------------
Tick ==
  /\ clock < LastSecond /\ clock' = clock + 1
  /\ UNCHANGED <<file, cache, runs, edits, found>> /\ UNCHANGED script

(* From the read of the file to its restore, what anyone else saves is lost.  *)
PlantWindow == {"planting", "red", "fired", "not a control", "interrupted"} \cup Restoring

(* The other session saves the file it has open, which is never the planted  *)
(* one.                                                                     *)
Edit ==
  /\ edits < MaxEdits
  /\ edits' = edits + 1
  /\ file' = [text |-> [edit |-> edits + 1, plants |-> NoPlants], stamp |-> clock]
  /\ found' = NoPlants
  /\ disturbed' = (disturbed \/ pc \in PlantWindow)
  /\ UNCHANGED <<cache, clock, pc, wanted, original, writes, results, runs, ground>>

(* The other session takes leftover plants out by hand, all or some. *)
TakeOut ==
  /\ pc \in Ended
  /\ \E out \in (SUBSET PlantsIn(file.text)) \ {{}} :
       WriteText([edit |-> file.text.edit,
                  plants |-> [c \in CONTROLS |-> IF c \in out THEN 0 ELSE file.text.plants[c]]])
  /\ found' = file'.text.plants
  /\ UNCHANGED <<cache, clock, runs, edits>> /\ UNCHANGED script

Stop == pc \in Ended /\ runs = MaxRuns /\ UNCHANGED vars

Next ==
  \/ \E asked \in (SUBSET CONTROLS) \ {{}}, pinned \in Pins : Start(asked, pinned)
  \/ Script \/ Kill \/ Tick \/ Edit \/ TakeOut \/ Stop

Spec == Init /\ [][Next]_vars
-----------------------------------------------------------------------------
(* A control is said to fire, or not to be one, only by what its test does   *)
(* on the file with its plant in it: never by what it does on bytecode of    *)
(* another text, in this process or after any that was killed (plant.py).    *)
ResultIsTheTruth ==
  ~disturbed =>
    \A c \in CONTROLS :
      /\ results[c] = "fired" => ground[c] \cup {c} \in Failing[c]
      /\ results[c] = "not a control" => ground[c] \cup {c} \notin Failing[c]

(* However a run ends short of a kill, what it planted is out again, and the *)
(* file holds what it held before: the work of the other session, and any    *)
(* plant a killed run left that nobody took out.                             *)
TreeIsPutBack ==
  pc = "ended" /\ ~disturbed => file.text = [edit |-> edits, plants |-> found]

(* The plants that leave every anchor standing. *)
KeepsTheAnchors == {c \in CONTROLS : AnchorsLeft[c] = CONTROLS}

(* A run measures a control on top of a plant that a killed run left only    *)
(* where that plant left every anchor standing: any other is noticed before  *)
(* a test is run, and nothing is said of any control.                        *)
LeftoverIsNoticed ==
  ~disturbed =>
    \A c \in CONTROLS :
      results[c] \in {"fired", "not a control"} => ground[c] \subseteq KeepsTheAnchors
=============================================================================
