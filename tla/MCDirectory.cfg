SPECIFICATION Spec
CONSTANTS
  Scripts <- MCScripts
  Resources <- MCResources
  Segments <- MCSegments
  MaxWorkers = 2
  MinLifetime = 1
  MaxLifetime = 3
  DefaultLifetime = 2
  MaxTime = 2
INVARIANTS  LastWriteStands IfMatchOnce LocationsDiffer
PROPERTY ExpiredGoes
\* A server that has handled all requests waits.
CHECK_DEADLOCK FALSE
