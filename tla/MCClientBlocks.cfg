SPECIFICATION TransferSpec
CONSTANTS
  Requests = {r1}
  Confirmable = {r1}
  Blocking = {r1}
  Timed = {}
  Receivers = {v1}
  Blocks = 2
  MaxTransactions = 3
  MAX_RETRANSMIT = 1
  None = None
INVARIANTS
  TypeOK
  EventsOfRunningRetransmissions
\* A client that has been stopped stops.
CHECK_DEADLOCK FALSE
