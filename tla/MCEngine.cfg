CONSTANTS
  MaxStayMinutes = 10
  Request <- MCRequest
SPECIFICATION Spec
INVARIANTS FinalPassIsTheTrial ReceiptAnswersEveryRate ComparisonIsHonest MoreWaysNeverDearer FullNeverCheaper
PROPERTIES KeepsThePromise
