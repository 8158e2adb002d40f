SPECIFICATION Spec
CONSTANTS
  Ports = {40000}
  N = 2
  W = 4
  Tokens = {ab, cd}
  None = None
INVARIANTS
  TypeOK
  MistakenForLaterOnly
  AcknowledgedWasRun
  SettledWasConfirmed
  RunAgainOnlyIfReplaced
\* A server that has received everything waits.
CHECK_DEADLOCK FALSE
