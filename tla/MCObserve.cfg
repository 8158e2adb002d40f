SPECIFICATION Spec
CONSTANTS
  a = a
  b = b
  Clients = {a, b}
  Confirmable = {a}
  Requests <- Regular
  MaxNotes = 3
  MaxRetransmit = 2
  Serial = TRUE
  None = None
INVARIANTS LatestIsNotified
PROPERTIES NotificationsInOrder GiveUpOnSilentOnly
\* A server that has handled all requests waits.
CHECK_DEADLOCK FALSE
