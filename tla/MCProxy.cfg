SPECIFICATION Spec
CONSTANTS
  Uris <- MCUris
  Scripts <- MCScripts
  Changing <- MCChanging
  CacheSize = 1
  MaxAge = 1
  MaxThreads = 2
  MaxEpoch = 2
  MaxTime = 1
  MaxRetransmit = 1
 
PROPERTIES WrittenIsSeen HitIsCoherent AckOfItsRequest
\* A proxy that has handled all requests, or whose listener has died, stops.
CHECK_DEADLOCK FALSE
