------------------------ MODULE FailControls_proofs ------------------------
(***************************************************************************)
(* What a fail-control says and what it leaves, for any controls, pins,    *)
(* clock, saves and kills, whatever a plant leaves of the anchors. The     *)
(* invariant follows one plant from the read of the file to its restore: as*)
(* long as nobody saves in between, the text that was read, the plants on  *)
(* top of it and the bytecode are known.                                   *)
(***************************************************************************)
EXTENDS FailControls, TLAPS

Text == [edit : Nat, plants : [CONTROLS -> Nat]]
Said == {"fired", "not a control", "interrupted"}
Verdicts == {"none", "unmeasured"} \cup Said

Ranges ==
  /\ file \in [text : Text, stamp : Nat] /\ original \in Text
  /\ clock \in Nat /\ writes \in Nat /\ edits \in Nat
  /\ wanted \subseteq CONTROLS
  /\ results \in [CONTROLS -> Verdicts]
  /\ ground \in [CONTROLS -> SUBSET CONTROLS]
  /\ disturbed \in BOOLEAN
  /\ pc \in {"green", "plant", "planting", "red"} \cup Restoring \cup Said \cup Ended

(* The test of c fails on the file with the plant of c on top.              *)
Fails(c) == ground[c] \cup {c} \in Failing[c]

(* The controls that are running are the first of those wanted: one.        *)
FirstFails == \A c \in wanted : IsFirst(c) => Fails(c)
FirstPasses == \A c \in wanted : IsFirst(c) => ~Fails(c)

(* The plant of the control that is running is on top of what was found.    *)
OneMoreThanFound ==
  \E c \in wanted :
    /\ IsFirst(c)
    /\ file.text.plants = [found EXCEPT ![c] = @ + 1]
    /\ ground[c] = {d \in CONTROLS : found[d] > 0}

Undisturbed ==
  /\ file.text.edit = edits
  /\ pc \in PlantWindow => original.edit = edits /\ original.plants = found
  /\ pc \in {"green", "plant", "ended"} \cup Said => file.text.plants = found
  /\ pc \in {"planting", "red"} => OneMoreThanFound
  /\ pc = "red" => cache = NoCache
  /\ pc \in {"green", "plant"} \cup PlantWindow =>
       \A d \in CONTROLS : found[d] > 0 => d \in KeepsTheAnchors
  /\ pc \in {"restore: fired", "fired"} => FirstFails
  /\ pc \in {"restore: not a control", "not a control"} => FirstPasses
  /\ \A c \in wanted : results[c] = "none"
  /\ \A c \in CONTROLS :
       /\ ground[c] \subseteq KeepsTheAnchors
       /\ results[c] = "fired" => Fails(c)
       /\ results[c] = "not a control" => ~Fails(c)

IInv == Ranges /\ (~disturbed => Undisturbed)
-----------------------------------------------------------------------------
LEMMA ControlsAreIds == CONTROLS \subseteq Nat \ {0}
BY FailControlsAssumption

LEMMA NoPlantsAreCounts ==
  NoPlants \in [CONTROLS -> Nat] /\ \A c \in CONTROLS : ~(NoPlants[c] > 0)
BY DEF NoPlants

LEMMA OneIsFirst ==
  ASSUME wanted \subseteq CONTROLS, NEW c \in wanted, IsFirst(c), NEW d \in wanted, IsFirst(d)
  PROVE  c = d
<1>1. c \in Nat /\ d \in Nat /\ c <= d /\ d <= c
  BY ControlsAreIds DEF IsFirst
<1> QED
  BY <1>1

LEMMA SayKeepsTheRestUnsaid ==
  ASSUME results \in [CONTROLS -> Verdicts], wanted \subseteq CONTROLS,
         \A d \in wanted : results[d] = "none",
         NEW c \in CONTROLS, NEW what, Say(c, what)
  PROVE  \A d \in wanted' : results'[d] = "none"
BY DEF Say

LEMMA InitEstablishes == Init => IInv
<1> SUFFICES ASSUME Init
    PROVE  IInv
  OBVIOUS
<1> USE DEF Init
<1>1. file \in [text : Text, stamp : Nat] /\ original \in Text
  BY NoPlantsAreCounts DEF Text, Pristine
<1>2. results \in [CONTROLS -> Verdicts] /\ ground \in [CONTROLS -> SUBSET CONTROLS]
  BY DEF Verdicts
<1>3. Ranges
  BY <1>1, <1>2 DEF Ranges, Ended
<1>4. pc = "ended" /\ wanted = {} /\ file.text.plants = found /\ file.text.edit = edits
  BY DEF Pristine
<1>5. \A c \in CONTROLS : results[c] = "none" /\ ground[c] = {}
  OBVIOUS
<1>6. Undisturbed
  BY <1>4, <1>5 DEF Undisturbed, PlantWindow, Restoring, Said
<1> QED
  BY <1>3, <1>6 DEF IInv

LEMMA SaidOfOne ==
  ASSUME results \in [CONTROLS -> Verdicts], NEW c \in CONTROLS, NEW what \in Verdicts,
         Say(c, what)
  PROVE  results' \in [CONTROLS -> Verdicts]
BY DEF Say

(* What the actions write is a text at a time, and what they say is said. *)
LEMMA RangesKept == Ranges /\ [Next]_vars => Ranges'
<1> SUFFICES ASSUME Ranges, [Next]_vars
    PROVE  Ranges'
  OBVIOUS
<1> USE DEF Ranges
<1>1. ASSUME NEW asked \in (SUBSET CONTROLS) \ {{}}, NEW pinned \in Pins, Start(asked, pinned)
      PROVE  Ranges'
  <2>1. wanted' \subseteq CONTROLS /\ pc' \in {"green", "ended"}
    BY <1>1 DEF Start
  <2>2. results' \in [CONTROLS -> Verdicts] /\ ground' \in [CONTROLS -> SUBSET CONTROLS]
    BY <1>1 DEF Start, Verdicts
  <2> QED
    BY <1>1, <2>1, <2>2 DEF Start, Ended
<1>2. CASE GreenRun
  <2>1. PICK c \in wanted :
          IF Passes(c, Imported) THEN pc' = "plant" /\ UNCHANGED <<wanted, results>>
          ELSE Say(c, "unmeasured")
    BY <1>2 DEF GreenRun
  <2>2. wanted' \subseteq CONTROLS /\ pc' \in {"green", "plant", "ended"}
    BY <2>1 DEF Say
  <2>3. results' \in [CONTROLS -> Verdicts]
    <3>1. CASE UNCHANGED results
      BY <3>1
    <3>2. CASE Say(c, "unmeasured")
      BY <3>2, SaidOfOne DEF Verdicts
    <3> QED
      BY <2>1, <3>1, <3>2
  <2> QED
    BY <1>2, <2>2, <2>3 DEF GreenRun, Ended
<1>3. CASE Plant
  <2>1. PICK c \in wanted :
          IF AnchorsOf(c, file.text) = 1
          THEN /\ original' = file.text /\ pc' = "planting"
               /\ WriteText(WithPlant(c, file.text))
               /\ ground' = [ground EXCEPT ![c] = PlantsIn(file.text)]
          ELSE pc' = "ended" /\ UNCHANGED <<original, file, ground>>
    BY <1>3 DEF Plant
  <2>2. file.text \in Text /\ WithPlant(c, file.text) \in Text
    BY DEF Text, WithPlant
  <2>3. /\ original' \in Text /\ file' \in [text : Text, stamp : Nat] /\ pc' \in {"planting", "ended"}
        /\ ground' \in [CONTROLS -> SUBSET CONTROLS]
    BY <2>1, <2>2 DEF WriteText, PlantsIn
  <2> QED
    BY <1>3, <2>3 DEF Plant, Ended
<1>4. CASE StampPlant
  <2>1. file' \in [text : Text, stamp : Nat]
    BY <1>4 DEF StampPlant, Fresh
  <2> QED
    BY <1>4, <2>1 DEF StampPlant
<1>5. CASE RedRun
  BY <1>5 DEF RedRun, Restoring
<1>6. CASE Interrupt
  BY <1>6 DEF Interrupt, Restoring
<1>7. CASE Restore
  <2>1. file' \in [text : Text, stamp : Nat] /\ pc' \in Said
    BY <1>7 DEF Restore, WriteText, Then, Restoring, Said
  <2> QED
    BY <1>7, <2>1 DEF Restore
<1>8. CASE StampRestore
  <2>1. Fresh /\ writes' = writes + 1 /\ UNCHANGED <<clock, original, runs, edits, disturbed, ground>>
    BY <1>8 DEF StampRestore
  <2>2. file' \in [text : Text, stamp : Nat]
    BY <2>1 DEF Fresh
  <2>3. /\ wanted' \subseteq CONTROLS /\ pc' \in {"green", "ended"}
        /\ results' \in [CONTROLS -> Verdicts]
    <3>1. CASE pc' = "ended" /\ UNCHANGED <<wanted, results>>
      BY <3>1
    <3>2. CASE \E c \in wanted : Say(c, pc)
      <4>1. PICK c \in wanted : Say(c, pc)
        BY <3>2
      <4>2. pc \in Verdicts
        BY <1>8 DEF StampRestore, Verdicts, Said
      <4>3. results' \in [CONTROLS -> Verdicts]
        BY <4>1, <4>2, SaidOfOne
      <4> QED
        BY <4>1, <4>3 DEF Say
    <3> QED
      BY <1>8, <3>1, <3>2 DEF StampRestore
  <2> QED
    BY <2>1, <2>2, <2>3 DEF Ended
<1>9. CASE Kill
  BY <1>9 DEF Kill, Ended
<1>10. CASE Tick
  BY <1>10 DEF Tick, script
<1>11. CASE Edit
  <2>1. file' \in [text : Text, stamp : Nat]
    BY <1>11, NoPlantsAreCounts DEF Edit, Text
  <2> QED
    BY <1>11, <2>1 DEF Edit
<1>12. CASE TakeOut
  <2>1. PICK out \in SUBSET PlantsIn(file.text) :
          WriteText([edit |-> file.text.edit,
                     plants |-> [c \in CONTROLS |-> IF c \in out THEN 0 ELSE file.text.plants[c]]])
    BY <1>12 DEF TakeOut
  <2>2. [c \in CONTROLS |-> IF c \in out THEN 0 ELSE file.text.plants[c]] \in [CONTROLS -> Nat]
    BY DEF Text
  <2>3. file' \in [text : Text, stamp : Nat]
    BY <2>1, <2>2 DEF Text, WriteText
  <2> QED
    BY <1>12, <2>3 DEF TakeOut, script
<1>13. CASE Stop \/ UNCHANGED vars
  BY <1>13 DEF Stop, vars
<1> QED
  BY <1>1, <1>2, <1>3, <1>4, <1>5, <1>6, <1>7, <1>8, <1>9, <1>10, <1>11, <1>12, <1>13
     DEF Next, Script

(* Bytecode that was deleted is not taken for the file. *)
LEMMA PlantIsLoaded ==
  ASSUME Ranges, cache = NoCache
  PROVE  Imported = file.text
BY DEF Ranges, Imported, CacheHolds, NoCache

LEMMA UndisturbedKept == IInv /\ [Next]_vars /\ ~disturbed' => Undisturbed'
<1> SUFFICES ASSUME IInv, [Next]_vars, ~disturbed'
    PROVE  Undisturbed'
  OBVIOUS
<1> USE DEF PlantWindow, Restoring, Said, Ended
<1>1. Ranges /\ Ranges'
  BY RangesKept DEF IInv
<1>2. ~disturbed
  BY <1>1 DEF Ranges, Next, Script, Start, GreenRun, Plant, StampPlant, RedRun, Interrupt, Restore,
              StampRestore, Kill, Tick, Edit, TakeOut, Stop, script, vars
<1>3. Undisturbed
  BY <1>2 DEF IInv
<1>4. /\ wanted \subseteq CONTROLS /\ file \in [text : Text, stamp : Nat] /\ edits \in Nat
      /\ results \in [CONTROLS -> Verdicts] /\ ground \in [CONTROLS -> SUBSET CONTROLS]
  BY <1>1 DEF Ranges
<1>5. ASSUME NEW asked \in (SUBSET CONTROLS) \ {{}}, NEW pinned \in Pins, Start(asked, pinned)
      PROVE  Undisturbed'
  <2>1. /\ file' = file /\ edits' = edits /\ found' = file.text.plants
        /\ pc' \in {"green", "ended"} /\ wanted' \subseteq CONTROLS
        /\ \A c \in CONTROLS : results'[c] = "none" /\ ground'[c] = {}
    BY <1>5 DEF Start
  <2>2. pc' = "green" => \A d \in CONTROLS : found'[d] > 0 => d \in KeepsTheAnchors
    <3>1. SUFFICES ASSUME pc' = "green", NEW d \in CONTROLS, found'[d] > 0
          PROVE  d \in KeepsTheAnchors
      OBVIOUS
    <3>2. \A c \in CONTROLS : AnchorsOf(c, file.text) = 1
      BY <1>5, <3>1 DEF Start, AnchorsLive
    <3>3. d \in PlantsIn(file.text)
      BY <2>1, <3>1 DEF PlantsIn
    <3>4. \A c \in CONTROLS : c \in AnchorsLeft[d]
      BY <3>2, <3>3 DEF AnchorsOf
    <3>5. AnchorsLeft[d] \subseteq CONTROLS
      BY FailControlsAssumption
    <3> QED
      BY <3>4, <3>5 DEF KeepsTheAnchors
  <2> QED
    BY <1>3, <2>1, <2>2 DEF Undisturbed
<1>6. CASE GreenRun
  <2>1. pc = "green" /\ UNCHANGED <<file, edits, original, found, ground>>
    BY <1>6 DEF GreenRun
  <2>2. pc' \in {"green", "plant", "ended"}
    BY <1>6 DEF GreenRun, Say
  <2>3. ASSUME NEW c \in CONTROLS
        PROVE  results'[c] \in {results[c], "unmeasured"}
    BY <1>4, <1>6 DEF GreenRun, Say
  <2>4. \A c \in CONTROLS : (results'[c] = "fired" => Fails(c)')
                               /\ (results'[c] = "not a control" => ~Fails(c)')
    BY <1>3, <2>1, <2>3 DEF Undisturbed, Fails
  <2>5. \A c \in wanted' : results'[c] = "none"
    <3>1. CASE UNCHANGED <<wanted, results>>
      BY <1>3, <3>1 DEF Undisturbed
    <3>2. CASE \E c \in wanted : Say(c, "unmeasured")
      BY <1>3, <1>4, <3>2, SayKeepsTheRestUnsaid DEF Undisturbed
    <3> QED
      BY <1>6, <3>1, <3>2 DEF GreenRun
  <2> QED
    BY <1>3, <2>1, <2>2, <2>4, <2>5 DEF Undisturbed
<1>7. CASE Plant
  <2>1. PICK c \in wanted :
          /\ IsFirst(c)
          /\ IF AnchorsOf(c, file.text) = 1
             THEN /\ original' = file.text /\ pc' = "planting"
                  /\ WriteText(WithPlant(c, file.text))
                  /\ ground' = [ground EXCEPT ![c] = PlantsIn(file.text)]
             ELSE pc' = "ended" /\ UNCHANGED <<original, file, ground>>
    BY <1>7 DEF Plant
  <2>2. /\ pc = "plant" /\ UNCHANGED <<wanted, writes, results, edits, found>>
        /\ file.text.plants = found /\ file.text.edit = edits
        /\ \A d \in CONTROLS : found[d] > 0 => d \in KeepsTheAnchors
    BY <1>3, <1>7 DEF Plant, Undisturbed
  <2>3. CASE pc' = "ended"
    <3>1. file' = file /\ ground' = ground
      BY <2>1, <2>3
    <3>2. \A d \in CONTROLS : Fails(d)' = Fails(d)
      BY <3>1 DEF Fails
    <3> QED
      BY <1>3, <2>2, <2>3, <3>1, <3>2 DEF Undisturbed
  <2>4. CASE pc' = "planting"
    <3>1. /\ file'.text.plants = [found EXCEPT ![c] = @ + 1] /\ file'.text.edit = edits
          /\ original'.plants = found /\ original'.edit = edits
      BY <1>4, <2>1, <2>2, <2>4 DEF WriteText, WithPlant
    <3>2. ground' = [ground EXCEPT ![c] = {d \in CONTROLS : found[d] > 0}]
      BY <2>1, <2>2, <2>4 DEF PlantsIn
    <3>3. IsFirst(c)'
      BY <2>1, <2>2 DEF IsFirst
    <3>4. OneMoreThanFound'
      BY <1>4, <2>2, <3>1, <3>2, <3>3 DEF OneMoreThanFound
    <3>5. \A d \in CONTROLS : ground'[d] \subseteq KeepsTheAnchors
      BY <1>3, <1>4, <2>2, <3>2 DEF Undisturbed
    <3>6. ASSUME NEW d \in CONTROLS
          PROVE  /\ results'[d] = "fired" => Fails(d)'
                 /\ results'[d] = "not a control" => ~Fails(d)'
      <4>1. results[c] = "none"
        BY <1>3, <2>1 DEF Undisturbed
      <4>2. CASE d = c
        BY <2>2, <4>1, <4>2
      <4>3. CASE d # c
        <5>1. ground'[d] = ground[d]
          BY <1>4, <3>2, <4>3
        <5> QED
          BY <1>3, <2>2, <5>1 DEF Undisturbed, Fails
      <4> QED
        BY <4>2, <4>3
    <3> QED
      BY <1>3, <2>2, <2>4, <3>1, <3>4, <3>5, <3>6 DEF Undisturbed
  <2> QED
    BY <2>1, <2>3, <2>4
<1>8. CASE StampPlant
  <2>1. /\ pc = "planting" /\ pc' = "red"
        /\ UNCHANGED <<wanted, original, results, edits, found, ground>>
        /\ file'.text = file.text /\ cache' = NoCache
    BY <1>4, <1>8 DEF StampPlant, Fresh
  <2>2. OneMoreThanFound' = OneMoreThanFound /\ \A c \in CONTROLS : Fails(c)' = Fails(c)
    BY <2>1 DEF OneMoreThanFound, IsFirst, Fails
  <2> QED
    BY <1>3, <2>1, <2>2 DEF Undisturbed
<1>9. CASE RedRun
  <2>1. PICK c \in wanted :
          /\ IsFirst(c)
          /\ pc' = IF Passes(c, Imported) THEN "restore: not a control" ELSE "restore: fired"
    BY <1>9 DEF RedRun
  <2>2. /\ pc = "red" /\ UNCHANGED <<file, wanted, original, results, edits, found, ground>>
    BY <1>9 DEF RedRun
  <2>3. OneMoreThanFound /\ Imported = file.text
    BY <1>1, <1>3, <2>2, PlantIsLoaded DEF Undisturbed
  <2>4. /\ file.text.plants = [found EXCEPT ![c] = @ + 1]
        /\ ground[c] = {d \in CONTROLS : found[d] > 0}
    BY <1>4, <2>1, <2>3, OneIsFirst DEF OneMoreThanFound
  <2>5. PlantsIn(file.text) = ground[c] \cup {c}
    <3>1. found \in [CONTROLS -> Nat]
      BY <1>1, <1>3, <2>2 DEF Undisturbed, Ranges, Text
    <3>2. file.text.plants[c] = found[c] + 1
      BY <1>4, <2>4, <3>1
    <3>3. \A d \in CONTROLS \ {c} : file.text.plants[d] = found[d]
      BY <1>4, <2>4, <3>1
    <3> QED
      BY <1>4, <2>4, <3>1, <3>2, <3>3 DEF PlantsIn
  <2>6. Passes(c, Imported) <=> ~Fails(c)
    BY <2>3, <2>5 DEF Passes, Fails
  <2>7. \A d \in wanted : IsFirst(d) => d = c
    BY <1>4, <2>1, OneIsFirst
  <2>8. /\ pc' = "restore: fired" => FirstFails
        /\ pc' = "restore: not a control" => FirstPasses
    BY <2>1, <2>6, <2>7 DEF FirstFails, FirstPasses
  <2>9. /\ FirstFails' = FirstFails /\ FirstPasses' = FirstPasses
        /\ \A d \in CONTROLS : Fails(d)' = Fails(d)
    BY <2>2 DEF FirstFails, FirstPasses, IsFirst, Fails
  <2> QED
    BY <1>3, <2>1, <2>2, <2>8, <2>9 DEF Undisturbed
<1>10. CASE Interrupt
  <2>1. /\ pc \in {"planting", "red"} /\ pc' = "restore: interrupted"
        /\ UNCHANGED <<file, original, wanted, results, edits, found, ground>>
    BY <1>10 DEF Interrupt
  <2>2. \A c \in CONTROLS : Fails(c)' = Fails(c)
    BY <2>1 DEF Fails
  <2> QED
    BY <1>3, <2>1, <2>2 DEF Undisturbed
<1>11. CASE Restore
  <2>1. /\ pc \in Restoring /\ file'.text = original
        /\ UNCHANGED <<wanted, original, results, edits, found, ground>>
    BY <1>11 DEF Restore, WriteText
  <2>2. /\ pc = "restore: fired" => pc' = "fired"
        /\ pc = "restore: not a control" => pc' = "not a control"
        /\ pc = "restore: interrupted" => pc' = "interrupted"
    BY <1>11 DEF Restore, Then
  <2>3. original.edit = edits /\ original.plants = found
    BY <1>3, <2>1 DEF Undisturbed
  <2>4. /\ FirstFails' = FirstFails /\ FirstPasses' = FirstPasses
        /\ \A d \in CONTROLS : Fails(d)' = Fails(d)
    BY <2>1 DEF FirstFails, FirstPasses, IsFirst, Fails
  <2> QED
    BY <1>3, <2>1, <2>2, <2>3, <2>4 DEF Undisturbed
<1>12. CASE StampRestore
  <2>1. /\ pc \in Said /\ UNCHANGED <<original, edits, found, ground>> /\ file'.text = file.text
    BY <1>4, <1>12 DEF StampRestore, Fresh
  <2>2. file.text.plants = found
    BY <1>3, <2>1 DEF Undisturbed
  <2>3. pc' \in {"green", "ended"}
    BY <1>12 DEF StampRestore, Say
  <2>4. ASSUME NEW c \in CONTROLS
        PROVE  /\ results'[c] = "fired" => Fails(c)'
               /\ results'[c] = "not a control" => ~Fails(c)'
    <3>1. CASE results' = results
      BY <1>3, <2>1, <3>1 DEF Undisturbed, Fails
    <3>2. CASE results' # results
      <4>1. PICK d \in wanted : IsFirst(d) /\ Say(d, pc)
        BY <1>12, <3>2 DEF StampRestore
      <4>2. pc \in {"fired", "not a control"}
        BY <1>12, <3>2 DEF StampRestore
      <4>3. /\ pc = "fired" => Fails(d)
            /\ pc = "not a control" => ~Fails(d)
        BY <1>3, <4>1, <4>2 DEF Undisturbed, FirstFails, FirstPasses
      <4>4. results'[c] = IF c = d THEN pc ELSE results[c]
        BY <1>4, <4>1 DEF Say
      <4>5. Fails(c)' = Fails(c)
        BY <2>1 DEF Fails
      <4> QED
        BY <1>3, <4>2, <4>3, <4>4, <4>5 DEF Undisturbed
    <3> QED
      BY <3>1, <3>2
  <2>5. \A c \in wanted' : results'[c] = "none"
    <3>1. CASE UNCHANGED <<wanted, results>>
      BY <1>3, <3>1 DEF Undisturbed
    <3>2. CASE \E c \in wanted : Say(c, pc)
      BY <1>3, <1>4, <3>2, SayKeepsTheRestUnsaid DEF Undisturbed
    <3> QED
      BY <1>12, <3>1, <3>2 DEF StampRestore
  <2> QED
    BY <1>3, <2>1, <2>2, <2>3, <2>4, <2>5 DEF Undisturbed
<1>13. CASE Kill
  <2>1. pc' = "killed" /\ UNCHANGED <<file, wanted, results, edits, ground>>
    BY <1>13 DEF Kill
  <2>2. \A c \in CONTROLS : Fails(c)' = Fails(c)
    BY <2>1 DEF Fails
  <2> QED
    BY <1>3, <2>1, <2>2 DEF Undisturbed
<1>14. CASE Tick \/ Stop \/ UNCHANGED vars
  <2>1. UNCHANGED <<file, cache, pc, wanted, original, writes, results, edits, found, ground>>
    BY <1>14 DEF Tick, Stop, script, vars
  <2>2. /\ FirstFails' = FirstFails /\ FirstPasses' = FirstPasses
        /\ OneMoreThanFound' = OneMoreThanFound
        /\ \A c \in CONTROLS : Fails(c)' = Fails(c)
    BY <2>1 DEF FirstFails, FirstPasses, OneMoreThanFound, IsFirst, Fails
  <2> QED
    BY <1>3, <2>1, <2>2 DEF Undisturbed
<1>15. CASE Edit
  <2>1. /\ pc \notin PlantWindow /\ UNCHANGED <<pc, wanted, writes, results, ground>>
        /\ file'.text.edit = edits' /\ file'.text.plants = NoPlants /\ found' = NoPlants
    BY <1>1, <1>15 DEF Edit, Ranges
  <2>2. \A c \in CONTROLS : Fails(c)' = Fails(c)
    BY <2>1 DEF Fails
  <2>3. \A c \in CONTROLS : found'[c] > 0 => c \in KeepsTheAnchors
    <3>1. found' = NoPlants
      BY <2>1
    <3> QED
      BY <3>1, NoPlantsAreCounts
  <2>4. \A c \in CONTROLS : /\ ground'[c] \subseteq KeepsTheAnchors
                            /\ results'[c] = "fired" => Fails(c)'
                            /\ results'[c] = "not a control" => ~Fails(c)'
    BY <1>3, <2>1, <2>2 DEF Undisturbed
  <2>5. \A c \in wanted' : results'[c] = "none"
    BY <1>3, <2>1 DEF Undisturbed
  <2>6. file'.text.plants = found' /\ pc' \notin PlantWindow
    BY <2>1
  <2> QED
    BY <2>1, <2>3, <2>4, <2>5, <2>6 DEF Undisturbed
<1>16. CASE TakeOut
  <2>1. /\ pc \in Ended /\ pc' = pc /\ UNCHANGED <<wanted, results, edits, ground>>
        /\ found' = file'.text.plants /\ file'.text.edit = file.text.edit
    BY <1>16 DEF TakeOut, WriteText, script
  <2>2. \A c \in CONTROLS : Fails(c)' = Fails(c)
    BY <2>1 DEF Fails
  <2> QED
    BY <1>3, <2>1, <2>2 DEF Undisturbed
<1> QED
  BY <1>5, <1>6, <1>7, <1>8, <1>9, <1>10, <1>11, <1>12, <1>13, <1>14, <1>15, <1>16
     DEF Next, Script

LEMMA StepKeeps == IInv /\ [Next]_vars => IInv'
BY RangesKept, UndisturbedKept DEF IInv
-----------------------------------------------------------------------------
(* A control is said to fire, or not to be one, only by what its test does   *)
(* on the file with its plant in it: never by what it does on bytecode of    *)
(* another text, in this process or after any that was killed (plant.py).    *)
THEOREM NothingIsSaidOfAnotherText == Spec => []ResultIsTheTruth
<1>1. IInv => ResultIsTheTruth
  BY DEF IInv, Undisturbed, Fails, ResultIsTheTruth
<1> QED
  BY <1>1, InitEstablishes, StepKeeps, PTL DEF Spec

(* However a run ends short of a kill, what it planted is out again, and the *)
(* file holds what it held before: the work of the other session, and any    *)
(* plant a killed run left that nobody took out.                             *)
THEOREM PutBack == Spec => []TreeIsPutBack
<1>1. IInv => TreeIsPutBack
  BY DEF IInv, Ranges, Text, Undisturbed, TreeIsPutBack
<1> QED
  BY <1>1, InitEstablishes, StepKeeps, PTL DEF Spec

(* A run measures a control on top of a plant that a killed run left only    *)
(* where that plant left every anchor standing: any other is noticed before  *)
(* a test is run, and nothing is said of any control.                        *)
THEOREM LeftoverStopsTheRun == Spec => []LeftoverIsNoticed
<1>1. IInv => LeftoverIsNoticed
  BY DEF IInv, Undisturbed, LeftoverIsNoticed
<1> QED
  BY <1>1, InitEstablishes, StepKeeps, PTL DEF Spec
=============================================================================
