SPECIFICATION Spec
CONSTANTS
  Calls <- AllCalls
  Together <- UploadPairs
  Repeats <- Repeated
  MaxPayload = 2
  MaxSent = 4
  InitialLength = 3
  None = None
INVARIANTS DownloadsAreWhole
PROPERTY ImplementsTransfer
\* A client that has made its calls stops.
CHECK_DEADLOCK FALSE
