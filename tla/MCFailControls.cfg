CONSTANTS
  CONTROLS <- MCControls
  Pins <- MCPins
  SizePreserving = {1}
  AnchorsLeft <- MCAnchorsLeft
  Failing <- MCFailing
  LastSecond = 3
  MaxEdits = 1
  MaxRuns = 3
SPECIFICATION Spec
INVARIANTS ResultIsTheTruth TreeIsPutBack LeftoverIsNoticed
