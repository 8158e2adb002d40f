SPECIFICATION FairSpec
CONSTANTS
  a = a
  Tokens = {a}
  Calls <- Competing
  Patient = TRUE
  MaxVersion = 1
  MaxRetransmit = 1
  Receiver = Receiver
  None = None
INVARIANTS
  CallbackOnlyRegistered
  AnsweredCancelDeletes
  SpinsOnlyForContexts
 
\* When all calls are over, the client waits.
CHECK_DEADLOCK FALSE
