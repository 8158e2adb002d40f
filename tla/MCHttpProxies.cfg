SPECIFICATION Spec
CONSTANTS
  CoapRequests <- MCRequests
  Datagrams <- MCDatagrams
  HttpRequests <- MCHttp
  CoapAnswers <- MCAnswers
  Statuses <- MCStatuses
INVARIANTS ArrivesAsSet ClassIsKept
\* A request is handled once.
CHECK_DEADLOCK FALSE
