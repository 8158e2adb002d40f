SPECIFICATION FairSpec
CONSTANTS
  Requests = {r1}
  Confirmable = {r1}
  Blocking = {r1}
  Timed = {}
  Receivers = {v1}
  Blocks = 1
  MaxTransactions = 1
  MAX_RETRANSMIT = 2
  None = None
INVARIANTS NoneMeansGivenUp
PROPERTIES
  AnswerIsNotReplaced
  CallReturns
  ReceiverWaitEnds
  StopWakesWaiters
\* A client that has been stopped stops.
CHECK_DEADLOCK FALSE
