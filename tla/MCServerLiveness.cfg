SPECIFICATION UndisturbedSpec
CONSTANTS
  Exchanges = {c1}
  Confirmable = {c1}
  MAX_RETRANSMIT = 1
  None = None
PROPERTIES
  ListenerReturns
  RunEnds
\* A server whose listener has died stops.
CHECK_DEADLOCK FALSE
