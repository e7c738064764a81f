\* One client that may lose two connections in a row: the third attempt finds the raw
\* file of the first closed and that of the second still being opened.
SPECIFICATION Spec
CONSTANT MaxConn = 3
INVARIANTS IInv RetryInHand CrashExcused
PROPERTY Retries
\* the client ends when it is deleted or freed memory is used
CHECK_DEADLOCK FALSE
