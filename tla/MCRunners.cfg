CONSTANTS
  MinuteTicks = 1
  MinutesInADay = 3
  DaysInAWeek = 2
  Document <- MCDocument
  TaxRequest <- MCTaxRequest
SPECIFICATION CallSpec
INVARIANTS EveryChoiceIsStated RoundsAsStated
PROPERTIES KeepsTheLoadPromise KeepsTheTaxPromise
