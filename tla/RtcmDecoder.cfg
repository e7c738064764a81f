\* Two streams, two chunks each: enough for two senders to race on the decode
\* handle while the loop drains an earlier chunk.
SPECIFICATION Spec
CONSTANTS
  Source = {s1, s2}
  closer = closer
  MaxCalls = 2
INVARIANTS IInv BlockedOnlyWhenEmpty
PROPERTIES ImplementsChannel CloseReturns
\* the server stops when its threads have ended
CHECK_DEADLOCK FALSE
