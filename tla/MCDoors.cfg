CONSTANTS
  c1 = c1
  c2 = c2
  Connections <- MCConnections
  Requests <- MCRequests
  MAX_BODY_BYTES = 2
  SOCKET_TIMEOUT = 2
  Findings <- MCFindings
  Codes <- MCCodes
  Documents <- MCDocuments
SPECIFICATION DoorSpec
INVARIANTS ReadsWithinItsBound AnswersWhatWasSent DecisionsPriceNothing ClearMeansClear
PROPERTIES EveryConnectionEnds
