# The rate engine, specified

`rate_engine` prices a parking stay. It is a calculator: one call takes a plan
(or several versions of one), a stay and perhaps how full the garage was, and
gives back a fee with a receipt that explains it, or a refusal that names what
is missing. Nothing is stored and nothing is shared between calls. What is hard
here is of three kinds:

* arithmetic spread over steps: a stay is cut at midnights that clock changes
  move, every cut is rounded to minutes and cents, several caps and adjustments
  act on one running total in an order that matters, and the whole is done once
  for each way the stay could be priced;
* what a plan promises before any stay is priced: the loader that refuses it,
  the validator that probes it, and the owner who reads what they say, decides
  and asks again;
* the two places that do run beside others: the HTTP service, whose callers
  stall, lie about lengths and leave, and `scripts/fail_controls.py`, which
  writes defects into the source tree and may be killed with one in it.

Each of these is a loop, a pipeline or a conversation whose steps are actions
here.

Sources are under `src/src/rate_engine/`; the `F..` numbers are the guarantees
the repository's tests pin.

## The system

| component | state during a call | operations | what makes it correct | here |
|---|---|---|---|---|
| `engine.py`, quote | plan, pass, base, ledger, fees compared | `select_plan`, `find_gaps`, `find_conflicts`, `_priced`, `_the_cheapest_way` | priced or refused once; the fee is the least of every way; the receipt answers for each rate | `RateRules`, `Tariff`, `Engine` |
| `engine.py`, ADJUST | candidate order, running total, discount taken | `_adjusted`, its `run()`, `_left_after` | never a cent above the cheapest order; no cent taken twice or lost | `AdjustRules`, `Adjust` |
| `rules/daily_max.py` | day in hand, pieces, `Amounts` | `days_of`, `_day_holding`, `pieces`, `each_capped_day`, `apply` | the days cut the stay whole; a charge is split without remainder | `Clock`, `Caps`, `DayWalk` |
| `rules/weekly_max.py` | week in hand, `Amounts` | `weeks_of`, `week_ceilings`, `apply` | the caps leave the lowest ceiling; longer is never cheaper | `Caps`, `CapStage` |
| `rules/increment.py` | none | `qualifies`, `_charges`, `charged_by` | its accrual is the sum of its lines | `Caps` |
| `rules/fill_level.py`, `space_surcharge.py`, `grace.py`, `percent.py` | none | `qualifies`, `apply` | taken of the charge for the time, rounded once | `AdjustRules`, `RateRules`, `Percent` |
| `rules/time_window.py`, `wallclock.py` | none | `_failures`, `_exit_limit`, `_exit_failure`, `_magnitude`, `apply`, `local_minute` | all conditions hold or none count; what a receipt prints decides them; no window that loads is dead | `Windows`, `WindowCheck`; the adjustment in `AdjustRules` |
| `plan.py`, `rules/__init__.py`, every `build` | how far the document is read, the rules built | `load_plan`, `build_rule`, `common_fields`, `_check_stated_orders` | refused for a fault it has, or loaded with no choice left unstated | `RuleBuilders`, `LoadPromise`, `PlanLoad` |
| `validator.py` | the loops' places, findings seen | `probe_stays`, `validate_plan`, the marks | every finding a stay at a boundary can meet is shown, with the first probe that gives it | `Validator` |
| `tax.py` | rules still to answer, lines | `load_tax_sets`, `select_tax_set`, `tax_lines` | each tax is of the one subtotal, in the stated sequence, from the one set in force | `TaxPromise`, `Tax` |
| `contract.py` | none | `run_quote`, `run_validate`, `run_validate_tax_sets`, `run_tax` | a status for each outcome; what falls brings the call down | `Contract`, `Runners` |
| `cli.py` | the plan file an owner changes between commands | the four commands, `--json` or for a terminal | an exit code says what the answer says | `CommandLine`, `Doors` |
| `service.py` | a thread and a socket for each connection | `do_GET`, `do_POST`, the timeout | bounded reads, whole bodies, nobody waits, every connection ends | `Service`, `Doors` |
| `scripts/fail_controls.py`, `tests/plant.py` | a source file, its bytecode, the pin | `main`, `run_control`, `planted`, `_write` | a result is of the source it names; the tree is put back | `FailControls` |
| `money.py`, `currency.py`, `findings.py`, `breakdown.py` | none | formatting, JSON | pure | where a loader asks them |

How they meet: `quote` asks every rule once whether it qualifies (`_Qualified`)
and then runs `_priced` once for each way. A pass hands each stage's rules the
ledger's running total; a rule answers with lines and can never set the total.
At CAP a cap is also told `charged_by`, how the base's charge built up minute
by minute; `weekly_max` reads the days `daily_max` cuts. At ADJUST the fill
rule is told the time charge, the surcharges and whether a special priced the
time. `validate_plan` asks the engine's own two questions (`find_gaps`,
`find_conflicts`) about stays it makes up; it holds no opinion of its own. The
service and the command line both call the four runners of `contract.py` and
share nothing else. PROJECT.json lists the hazards of all this at their lines.

## The modules

**`Arith`, `Percent`** are the whole-number helpers the source writes out:
`min`, `max`, ceiling division, and `percent_of_minor` with its rounding modes.

**`AdjustRules`, `Adjust`** are the ADJUST stage. `AdjustRules` has the two rule
types of the stage as operators: what a discount or an increase moves
(`Magnitude`), what is left of the time charge and of the space-class extra
after a discount (`TimeFirst`, `PerPart`), what the fill rule adds to it
(`Raise`), and the candidate orders (`Places`). `Adjust` is the loop of
`_adjusted`: `ApplyRule` is one turn of `run()`, `NextOrder` keeps the cheapest
order and starts the next. The reference it is compared with (`AdjustedTotal`)
folds every order whole and takes the least; it shares `Delta` with the machine
and none of the loop, and it does not use `Places`.

**`Clock`** is time. An instant is a number of ticks, a minute is several ticks,
so that part-minutes exist; a zone keeps one change of its offset. `WallClock`,
`LocalDate` and `Midnight` stand for `zoneinfo` and `datetime` (external),
`fold=0` included. `OrdinaryZone` says which zones have dates that follow one
another.

**`Caps`** has what the two caps compute, as operators: `DaysOf`, `PiecesOf`,
`DailyCeiling`, `WeeksOf`, `WeekCeiling`, and `ChargeIn`, what a stretch of the
stay was charged. A walk is a function from day indexes to `<<start, end>>`.

**`DayWalk`** is the daily max as its generators run it, loop turn by loop turn:
`CountDay` is `days_covered`; `Guess`, `Back` and `Forward` are `_day_holding`;
`CutDay` is a turn of `days_of` inside `pieces`; `Tallied` is `Amounts.add`;
`Answer` is the end of `apply`, including the comparison that fails when no day
was tallied (`pc = "failed"`). `WalkIsPieces` shows that the machine computes
what the operators of `Caps` say, so the modules above use the operators.

**`CapStage`** is the CAP stage of one pass: caps in ascending id
(`_in_application_order`), `ApplyDaily` in one step, a weekly max one week a
step (`TallyWeek`) and then its answer (`ApplyWeekly`).

**`RateRules`** is what the engine knows of rules, plans and stays: the traits a
type declares, who qualifies, the gaps and conflicts, and what each stage does
to a total (`AtCap`, `AtSurcharge`, `AtAdjust`). What a base charges for a stay
and the ceiling a cap has for it are data here, chosen freely: `Caps` and
`CapStage` are about those figures, and the pipeline must be right for any.

**`Tariff`** is the abstract specification, what a quote promises: refused with
exactly the findings there are, or charged the least of what the ways of
pricing it come to. Its `Findings` and `Offers` are constants, given their
meaning in `RateRules`. **`Engine`** is `quote` itself: `RefuseTooLong`, `RefuseSelection`,
`SelectPlan`, `RefuseBlocked`, then a pass for each way (`Begin`, one action
for each stage, `KeepFee`), then `PriceCheapest` and `Answer`. A pass carries
the verdict lines of its receipt. `KeepsThePromise` is the refinement: the
`request` and `answer` of `Engine` behave as `Tariff` allows. Where the code
goes through a plan's rules in the order of the caller's array, `Engine` takes
any order: the promise holds for each.

**`Windows`** has a time window's conditions as the code reads them, each off a
local reading truncated to the minute, and `Loads`, which windows the builder
takes. **`WindowCheck`** asks one window about one car again and again while the
car stays, a condition at a time: `CheckDay`, `CheckEntry`, `CheckExit`,
`CheckCeiling`, then `AskLater`. `Inside` is the reference: the window as a
stretch of local time.

**`Validator`** is `probe_stays` and `validate_plan`, one probe a step in the
order of the nested loops, each probe asked the engine's questions
(`RateRules`) with its windows' conditions (`Windows`). `EveryFindingShown`
compares what is reported with every stay of up to `LongestStay` minutes.

**`RuleBuilders`** is what each rule type's `build` demands. **`PlanLoad`** is
`load_plan`, one check a step (`Check`) and one rule a step (`BuildRule`,
`RefuseRule`, `FallOnRule`); **`LoadPromise`** is its abstract specification: a
document is refused for some fault it has, or loads as it stands, and only a
rule whose type has no hash may bring the loader down. `WrongWith` gives the
promise its meaning and reads the document itself, one name at a time, where
the loader compares whole sets.

**`Tax`** is the tax endpoint's work: `Load`, `Select` the set in force, one rule
a step (`TaxOne`); **`TaxPromise`** what it owes. `Owed` states the lines as an
order-preserving match with the rules and does not run through them.

**`Contract`** has the four runners as operators from a document to a status and
a body. How a document is read is a field of it here; how it comes to be read
so is in `PlanLoad`, `RateRules`, `Validator` and `Tax`. **`Runners`** puts the
two machines of the documents side by side, **`Doors`** the two ways in. Each is
a disjoint union: a behaviour is a behaviour of one of the two, and the other's
variables stay as they began. They are put together because a call goes one
way and the two ways share the operators of `Contract`, not because they
interact: in the code they share nothing.

**`Service`** is the HTTP door: `Connect`, `Send` and `EndSending` are the
caller's, `Tick` is time for a thread that waits, and the disjuncts of `Thread`
are what `Handler` does: `NoRequest`, `Health`, `NoSuchRoute`, `RefuseLength`,
`ReadBody`, `BodyHasCome`, `TimeOut`, `Respond`. The read is
`rfile.read(length)`: `Come` is when it returns, `Held` how many bytes it
returns: all that was promised, fewer than were sent, or short because the caller
left. A request's `text` says what the decoder and the parser make of each of
its starts, and `Document` is the start that was read: nothing else is asked of
its length, so a document that is cut after its closing brace, or that its caller
leaves white space short, is priced, as the code prices it. That a text has one
document in it at most is `TextAssumption`, a fact about JSON objects.
**`CommandLine`** is an owner's session: `Validate`, `Quote`, `AskElsewhere`
through each door, `Decide` and `ChangeRules` between them. `before` is history:
the first stay asked about since the rules changed.

**`FailControls`** is a run of the script over one source file: the pin and the
anchors (`Start`), the test on the tree as it is (`GreenRun`), `Plant`,
`StampPlant`, `RedRun`, `Restore`, `StampRestore`; `Interrupt` is Ctrl-C,
`Kill` stops it between any two steps, `Start` may come again, `Edit` and
`TakeOut` are another session's. A text is written and stamped in two steps, as
in the code, and Python's own rule (size and whole seconds) decides whether the
bytecode is taken for it. Which anchors stand with a plant in the file, whether it
keeps the file's size, and which tests fail on it are parameters (`AnchorsLeft`,
`SizePreserving`, `Failing`); the file counts the plants in it, since one that
leaves its anchor can be put in twice. `ground` and `found` are history.

Each `MC` module is a small instance; `Adjust_proofs`, `Caps_proofs`,
`Engine_proofs`, `Doors_proofs`, `Runners_proofs`, `WindowCheck_proofs`,
`Validator_proofs` and `FailControls_proofs` are the proofs. An operator whose comment begins "A fault" is
not part of the model: it is a version of the definition after it with a
plausible mistake in it, and PROJECT.json pairs each with the property that
must then fail.

## The runs

| run | instance | shows |
|---|---|---|
| `adjust` | up to two windows of six (percent and fixed, discounts and an increase, both roundings), one fill rule or none of each kind, both orders, charges of 0 to 10 cents | the charge is the least of all orders, parts add up to the cent, one rule more moves the fee its own way |
| `day_walk` | days of four minutes of two ticks, stays to three days, six ordinary zones and one where a date is lived twice, two rates and a flat price, a line of two runs | the pieces cut the part whole and are the local dates, the day guessed is corrected, the split adds up, the line tells the tally, the machine is the operators, and it ends |
| `cap_stage` | weeks of two days of three minutes, stays to five days, daily and weekly caps of each boundary in either order, two of one kind, three zones | the lowest ceiling stands; a minute more never costs less; what daily maxes leave of a rate is not below the ceiling of a weekly max their days nest in |
| `engine` | every set of up to five of seven bases under two dressings, and four sets under every dressing, with stays of each kind; four plan versions about the entry | the refinement, and what the receipt says |
| `windows` | days of three minutes of two ticks, every pair of entry limits, every exit limit and span, on a weekday and on dates, with and without a ceiling; clocks that stand, go back inside a day, go forward over a midnight | a window applies exactly inside its stretch, a bounded one once lost stays lost, what is printed decides, no window that loads is dead |
| `validator` | days of 48 minutes, weeks of three days, every ordered pair of nine discounts, eight plans with gaps, specials and fill rules; stays to two days | every finding of these plans is shown, with the first probe that gives it, and the engine gives it for the stay shown |
| `runners` | a sound plan document broken in one field and in two, every rule type sound and unsound, every order of up to four names; tax documents of up to two sets of up to three rules in both spellings and orders | both loaders keep their promise; every choice is stated; a tax line is as near as its rounding says |
| `doors` | two connections, a bound of two bytes, a timeout of two ticks, eighteen kinds of request, bodies cut inside their document and after it among them; an owner with three findings, two of one code | bounded; answered on what was promised; ended, whatever the other connection's thread does; a decision prices nothing; a terminal exit 0 only where no finding stands |
| `fail_controls` | three controls (a plant that keeps the size of the file, one that leaves every anchor, one with its anchor on another's line), three seconds, one foreign save, three runs | a result is of the planted file, what a run planted is out again, a leftover that takes an anchor out stops the next run |
| `twice_lived_date` | America/St_Johns to 2011 in small | violated: see findings |
| `clock_change_probe` | a ceiling of thirty hours, probed over a missing hour | violated: see findings |
| `between_windows` | a special of the morning, one of the afternoon, and no time-based rate | violated: see findings |

**Why the bounds are enough.** The engine compares instants and amounts and
never counts beyond a stay, so what matters is that every order of the
boundaries occurs: an entry and an exit on, just before and just after a
midnight, a clock change before, at and after one, a first day, a middle day
and a last day, a week of more than one day. A day of four minutes has these
(two ticks a minute give the part-minute). For the money, charges are a few
cents and percentages such as 33.33% so that every rounding shows; two
adjustments and a fill rule give every place the code tries but the third
between, which the reference covers by the same definition. For the pipeline,
two of each kind of base give ties on fee and on charge. `MaxStayDays` is in
the code (90) and bounds the walks; 4 and 5 here. Five bases of seven is a
bound on states only. An hour of the validator is two minutes, so that "a
minute before", "at" and "a minute after" a boundary are three stays and a day
can be searched whole; `LongestStay` passes two midnights, more than any bounded
window reaches. A body of three bytes against a bound of two is past, at and
below it; two ticks of silence tell a slow caller from one that stopped; two
connections are what it takes for one to wait for another. Three controls and
three runs are what it takes for the bytecode or the plant of a killed run to be
met by the next, and for two plants to be left one on the other; three seconds let a stamp be in the past, the present and the
future of the clock.

`windows` ends when the car has been asked about to `LastTick`, which is a bound
of the model, so that run alone does not check for deadlock.

**Fairness.** `DayWalk` has weak fairness of its steps: one loop in one thread
that nothing blocks, so a step that can be taken is taken (`WalkEnds`).
`DoorSpec` states none: `EveryConnectionEnds` says of each connection that it
ends if its own thread and its own clock are run (`Fair(c)`): threads are the
operating system's and a socket's timeout is its clock's. Nothing is asked of a
caller, who may stop at any byte, nor of the thread of another connection, which
may be stopped at any point of its request: that a connection ends all the same
is the timeout's doing, and that of a thread for each connection. `ThreadOf` says
which thread serves a connection; with one for all of them (`ThreadOfServer`, a
fault) the property fails, behind a body that its caller does not send. The other specifications state
no fairness: that they end follows from the deadlock check (only a finished
call stutters) and from steps that all move forward, and is not stated as a
temporal property.

**Refinement.** `KeepsThePromise` (`Engine` implements `Tariff`),
`KeepsTheLoadPromise` (`PlanLoad` implements `LoadPromise`) and
`KeepsTheTaxPromise` (`Tax` implements `TaxPromise`). Each abstract
specification is one step from question to answer and knows none of the order
the detailed one works in.

## What the runs found

* **A date lived twice** (`twice_lived_date`). Where the clocks go back over a
  midnight (St. John's until 2011, at 00:01), an entry in the second half of the
  repeated date has a next midnight that lies before it. `days_covered` counts
  that day, `pieces` hands nothing out, and `apply` compares `None` with the max.
  The real engine stops with a `TypeError` there.
* **A probe over a clock change** (`clock_change_probe`). A probe's length is the
  difference of two readings of one wall clock; the two instants the owner is
  shown are an hour nearer, or further apart, where the clocks change between
  them. A New York plan with a ceiling of 7800 minutes is reported to have a
  gap on a stay from 3 March 00:00 to 8 March 10:01, and `quote` prices exactly
  that stay: it is 7741 minutes. F49 says that the stay shown produces the
  finding. `ProbeProduces` holds in `validator`, on a clock that stands.
* **The hours between two windows** (`between_windows`). The entry minutes that
  are probed are the first two and the last two inside each window, 0:00 and
  7:00 (`validator.py:83`); the minutes on the other side of a limit are not,
  though F19 says "each side of each". A plan with a special from 00:00 to 08:00,
  another from 17:00 to 23:59 and no time-based rate validates clean, and the
  real engine refuses a stay that enters at noon: nothing prices it. The same is
  so, in the real engine, of three more things a plan states: a day no window
  names (a special on Tuesdays and no rate), the `minutes` of a grace that is
  longer than every ceiling, and the ceiling of a special's own rate. So
  `EveryFindingShown` is a property of the plans of the run `validator`, which
  leave none of these open, and not of every plan.

Met while modelling, in the model, and without a run of their own:

* **A split day.** The docstring of `weekly_max.apply` (`rules/weekly_max.py:207`)
  says a daily cap that has run leaves a total at or above the weekly ceiling. Two
  things make it leave one below. A calendar daily max beside a rolling weekly
  one: the day a week ends in is capped once in each week. And a flat base (a
  price for the whole stay) that is itself below both ceilings: 30 where the days
  come to 45 and so do the weeks. The fee is right in both. `NestedCapsCompose`
  says where the sentence is true: of a rate, and where the days nest in the weeks.
* **A plant that leaves its anchor.** `check_anchors` and `planted()`'s own count
  stop a run while a killed run's plant is in the file, if it took an anchor out.
  Most of the 173 plants do. Eleven put their line beside the anchor and leave
  every anchor standing once: F6, F7, F23, F24, F48/tie-refused-again,
  F50/partly-dead-window-refused, F50/stated-order-replaces,
  F51/below-threshold-applied, F54/specials-defaulted, F54/vip-extra-defaulted,
  F59/base-is-the-time-based-rate. Left behind by a killed run, such a plant is not
  noticed: the next run measures other controls on top of it, and puts the file
  back with it still in (where a test fails on it, that control is UNMEASURED).
  `LeftoverIsNoticed` leaves these out by name (`KeepsTheAnchors`), and
  `TreeIsPutBack` says that a run takes out what it planted, not what it found.
  None of the 173 plants keeps the size of its file today.
* **A limit probed on one day only.** The validator probes the exit limit of a
  window without a last day (`any_span`) on the date of entry
  (`validator.py:177`). A discount from 05:00 to 22:00, out by 06:00 on any day,
  and one from 20:00 to 22:00, out by 23:00 the next day, both apply to a stay
  from 20:00 to 03:00: `quote` refuses it for the conflict, and no probe shows
  it (guarantee F19 in `tests/_guarantees.py:126` says it is found).
  `EveryFindingShown` leaves such stays out by name, in `LimitsAreProbed`.
* **A skipped date.** Where the clocks go forward a whole day (Apia, 30 December
  2011), a day of zero length is counted, against the docstring of `days_of`
  (`rules/daily_max.py:166`). The fee is right, the line says a day too many.
* **The longest stay.** A plan whose ceiling is the longest stay the engine
  takes is probed a minute past it: the validator says
  `GAP_STAY_EXCEEDS_MAX_DURATION`, `quote` says `GAP_STAY_LONGER_THAN_MAX_STAY`
  (`validator.py:268`; its docstring promises the same questions). The ceilings
  of the `validator` run are below it.
* **A list for a rule's type** is a `TypeError` out of `load_plan`
  (`rules/__init__.py:270`), where F16 (`tests/_guarantees.py:100`) has a refusal.
  `LoadPromise` allows it by name (`Fall`).
* **A list for a decision's code** loads, prices, and brings `run_validate` down
  (`validator.py:283`), since only the keys of a decision are read.
  `AnswersWhatWasSent` allows a connection no answer where a runner falls.

## The proofs

The theorems hold for every value of the constants: any rules the loader
accepts, any requests, callers and saves, any length of day and minute.

**The ADJUST stage** (`Adjust_proofs`). `TypeCorrect` and `DiscountSetOnce` are
arithmetic: a discount is held to the total it sees, a percentage of at most the
whole lies between 0 and what it is taken of, and two rounded shares of one
amount leave parts that add up. `CheapestOfAllOrders` is about the loop. Its
invariant `OrderInv` has two halves: the order in hand is *underway* (`Progress`:
for some n, what is left is the order less its first n rules, and the running
total is what the reference has after n turns), and the best so far is the least
of the orders before it (`LeastSoFar`). `OrderUnfolds` opens the reference's fold
turn by turn, `NextIs` shows that the rule the machine picks by rank is the one
that stands next, and `PlacesAre` that the places the code lists are all there
are. `OneRuleMore` is `EachRuleMovesItsOwnWay`. Two orders that differ by one
rule are run side by side (`Abreast`). Without the fill rule nothing raises the
total, and a discount or an increase of more is never less, to the cent
(`WindowKeepsOrder`). With one discount more, total and discount taken add up to
the same in both until the fill rule comes; it then adds no more where more is
taken off (`RaiseShrinks`, which needs that each rounded share grows, and by no
more than the discount does). `DiscountCostsNoMore` finds for each order of the
shorter call the order of the longer one that becomes it. The proof needed that
one fill rule at most qualifies, now part of `CallAssumption`: were two
priced, a discount taken before the second could be worth more than the first
raises. `quote` refuses such a stay (`find_conflicts`).

**The day walk** (`Caps_proofs`). The centre of `NothingLost`, `RightDay` and
`DaysAreTheDates` is `StartsIncrease`: in an ordinary zone the start of each day
is after the one before, from `MidnightsIncrease` by the cases of a clock change.
`IInv` says where each loop stands (`Finding`, `Cutting`); `PartIsCut` alone is
not inductive, for it does not say which day is in hand. `DatedInv` adds that
each piece lies in the day counted for it. `ChargeIsSplit` and `TallyIsTold` hold
in any zone: a rate's charge up to an instant only grows and the pieces follow
one another, so their charges telescope (`MoneyInv`); and the line's runs are
kept related to the days tallied by which start of each run has been told
(`ToldInv`). `WalkIsPieces` needs two more facts: that the loop over a part passes no
day that meets it (`LoopInv`), and that whatever day is guessed first, the walk
ends up at the one the operators find, since an offset is less than a day and a
stay has at most `MaxStayDays` (the two last conjuncts of `WalkAssumption`).

**The CAP stage** (also `Caps_proofs`). `LowestCeilingStands` is inductive once
the weekly max's own loop is in it: `StageInv` says that the running total is the
least the caps asked so far allow and that `weeks` tallies the first weeks of the
cap being asked. `LongerNeverCheaper` compares two calls, one with a later exit,
and needs no machine: a day's or a week's ceiling is a sum over the cuts of the
stay, where the last cut grows and new ones follow, none of them negative
(`CutSumGrows`), each term capped before it is added (`CeilingGrows`), and the
least of ceilings that each grow has grown (`MinGrows`). A clock change is in it
only through `Rising`: in an ordinary zone the starts of the days go up.
`NestedCapsCompose` is about the running total: with only daily maxes behind it,
that total is the least of the base and their ceilings (`StageInv`). A daily
ceiling regroups by week (`WeeksAreDays`: a sum over weeks of sums over days), and
each week is held to no more than its days (`NestedWeeks`); and no ceiling of a
weekly max is above the charge of a rate, since each week is held to no more than
was charged in it (`WeeksWithinTheBase`).

**The engine** (`Engine_proofs`). `FinalPass`, `BaseCapped` and the refinement
`Implements` rest on `IInv`: the plan in hand is the one in force, nothing
blocks it once it is priced, a fee kept is the fee of the way it is kept for, the
base of a pass competes, and the ledger at each stage is the tariff's own figure
(`PassIsTheWay`). `LInv` is about the receipt: only ways' fees are kept, a stay
priced once has one way or a terminal rule, the final pass is of the way charged,
and the receipt has exactly the lines of the stages behind it. From it
`EveryRateAnswered` (one verdict for each rate) and `HonestComparison`.
`NeverDearer` compares a plan with the same plan less one rate: the other ways
come to what they did (`PlanWithout`), so the least of fewer is no less.
`FullCostsMore` rests on the proofs of the ADJUST stage, which is why the module
extends `Adjust_proofs` (it uses that module's lemmas, not its machine). A stay
that nothing blocks hands ADJUST a sound call (`CallIsSound`): ids and the stated
order give each rule a place, and two fill rules that qualify would have blocked
it. The plan without its fill rules hands over the same call without them
(`UnfilledCall`), since nothing before ADJUST looks at a fill rule. There
`FillsCostNoLess` takes them out one by one: the one that qualifies leaves a
total no higher in every order (`FullCostsNoLess`), those that do not qualify
cost nothing. It takes the total of the fee to be a natural number, which is
proved of every way (`FeeIsNat`) from what the loader lets through.
`Implements` says that what is answered is right. That something always is (a
way with the least fee can be taken) is left to the deadlock check of `engine`.

**A window** (`WindowCheck_proofs`). The lemmas are of a reading, a date and a
time of day: that a minute is before a limit of a later date, and that an exit
day's number of days after entry is the span. `Looked` says which conditions have
been looked at, `Remembered` that the answer a tick ago was of the stay that
ended then. From them `ExactlyInside`, `LostForGood`, `WhatIsPrintedDecides`. That
a window which loads holds for some stay on each of its days (`EveryWindowCanApply`)
is a construction: the car that enters at the first minute let in and leaves in
the same minute meets every limit.

**The validator** (`Validator_proofs`). A probe is a place in five nested loops;
`Follows` orders the places and the machine's step is the next of them, which
needs that the marks of each loop can be sorted (`Sortable`). `NothingMissed`
says that what any sooner probe finds is kept, `KeptIsFirst` that what is kept
with a finding is the first probe that finds it. Where all five loops have ended,
every other probe is sooner (`NothingIsLeft`), so `ReportIsOfTheProbes`: the
report is what the probes find, all of it and no more. `ShownIsRefused` has two
hypotheses, on purpose: `Standing` (no clock change) and `Priceable` (no boundary
past the longest stay). Without the first, `clock_change_probe` violates the
property; without the second, "The longest stay" above does.

**The runners** (`Runners_proofs`). `LoadInv` keeps what the checks that passed
have found out, and that no rule is built after them; from it `NoChoiceLeft` and
the refinement `LoadIsPromised`, whose heart is that each check of the loader,
which compares whole sets, finds a fault exactly where `WrongWith` finds one name
by name. `TaxInv` keeps for each line the place of its rule in the list: the
places are of the rules that have answered, their sequences rise, and all lie
before those still to answer. From it `TaxIsPromised` and `RoundsExactly`.

**The doors** (`Doors_proofs`). The service's invariant is a conjunction over
connections (`Part`): a body that is being read is of a request whose length was
let through, and what a closed connection was told is what its door or runner says
of the bytes that were held. A step moves one connection and leaves the others
their part, so that `BoundedRead` and `AnsweredWhole` are of any number of them.
`ShellInv` says that what was asked last was answered by its runner and about the
plan as it is, and that the first stay of these rules was: `NoDecisionPrices` and
`ClearIsClear`.

**Fail controls** (`FailControls_proofs`). `IInv` follows one plant from the read
of the file to its restore, as long as no other session saves (`Undisturbed`):
the text that was read, that the text that is planted is what was found and one
plant more (`OneMoreThanFound`), that what was found leaves every anchor, and that
no bytecode of another text is left when the test runs. From it
`NothingIsSaidOfAnotherText`, `PutBack` and `LeftoverStopsTheRun`, through any
kill, interrupt and clock and whatever a plant leaves of the anchors.

Assumptions: the named ASSUMEs of the modules the proofs rest on, each what the
loader, `quote`, the caller's types or the module's own constants see to before
the code modelled runs. `AdjustRuleAssumption`: amounts are positive, a discount
is at most 100%. `CallAssumption`: finitely many rules, a rank of its own for
each, one fill rule at most that qualifies. `ClockAssumption`, `WeekAssumption`,
`CapsAssumption`, `WalkAssumption`: minutes, days and weeks have a length, a
part lies in its stay, a stay is no longer than the engine prices and an offset
is less than a day (what `datetime` allows). `CapCallAssumption`: the charge that
is capped is the rate's own, and ids name one cap. `RequestAssumption`: of a
plan that loads, it is finite, ids name one rule, a stated order places every
rule of its stage, prices, ceilings and surcharges are whole and not negative,
an adjustment is as in `AdjustRuleAssumption`. `DocumentAssumption`,
`TaxRequestAssumption`: what JSON can hold. `TextAssumption`: an empty body is no
runner's document, and one text has at most one document in its starts.
`FailControlsAssumption`: a plant that leaves its own anchor is longer than what it
replaces. `ServiceAssumption`, `SessionAssumption`,
`WindowCheckAssumption`, `ValidatorAssumption`: the constants are of their kinds.
TLC evaluates them, and those of the other modules, on every run.

Sets and sequences are reasoned about by induction said of a set of numbers
(`Induction`, `SubsetInduction`), from the library's well-founded order; a sum
or a fold of the library is unfolded from its own definition.

Only model-checked: `WalkEnds` and `EveryConnectionEnds`, which speak of fairness;
and `EveryFindingShown`, which is not so of every plan (`between_windows`). What is
so of every plan is proved: `ReportIsOfTheProbes` and `FirstIsKept`.

## What is left out

Not modelled: the wording of lines, JSON, the formatting of money and the table
of currency exponents; `_lines_of` and `_assert_ledger_is_the_fee`, which no
registered rule type can make fail; the checks of `register()`, which run once,
at import, on the package's own types; `scripts/generate_contract.py`, which
renders a document from constants in no order that matters; the checks of
commits in `.github/scripts`, one pass each over names and texts; the texts of the plants
(what each does to the anchors, the size and the tests is a parameter), the choice
of controls by guarantee and the bytecode pytest keeps of `tests/conftest.py` (F14,
whose plant changes the size) in `fail_controls.py`; option parsing
and printing in `cli.py`; `http.server` and the socket, of which only what
`service.py` relies on is here (external in PROJECT.json). The last
representable date (`datetime.max`) is not modelled: instants are unbounded
integers.
