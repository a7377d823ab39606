\* release_cb running the timers' deferred handlers, as the spec requires.
CONSTANTS
  ServiceDeferred = TRUE
  BacklogLimit = 2
SPECIFICATION Spec
INVARIANT TypeOK
INVARIANT RefCountExact
PROPERTY SocketFreed
\* The socket may be freed: user gone, no reference left, nothing runs.
CHECK_DEADLOCK FALSE
