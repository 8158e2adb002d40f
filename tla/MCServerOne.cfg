SPECIFICATION Spec
CONSTANTS
  Exchanges = {c1}
  Confirmable = {c1}
  MAX_RETRANSMIT = 2
  None = None
INVARIANTS
  TypeOK
  RerunOnlyWhenCompleted
  RunAvailable
  SeparateAnswerIsAnnounced
PROPERTIES
  NoRetransmissionAfterEvent
  ImplementsExchange
\* A closed server, or one whose listener has died, stops.
CHECK_DEADLOCK FALSE
