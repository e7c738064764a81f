\* Two runs: the second meets what the first has left.
SPECIFICATION Spec
CONSTANT MaxRuns = 2
INVARIANTS StopsClean CrashExcused
PROPERTY StopReturns
\* the server is stopped, or has crashed
CHECK_DEADLOCK FALSE
