SPECIFICATION FairSpec
CONSTANTS
  a = a
  b = b
  Clients = {a, b}
  Confirmable = {}
  Requests <- Crossing
  MaxNotes = 3
  MaxRetransmit = 1
  Serial = FALSE
  None = None
PROPERTY NotifyEnds
\* A server that has handled all requests waits.
CHECK_DEADLOCK FALSE
