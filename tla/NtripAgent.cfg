\* Two rovers, one of which may get the memory of the other; two mount points
\* and the nearest.
SPECIFICATION Spec
CONSTANTS
  Conn = {1, 2}
  Mount = {"a", "b"}
  Near = "near"
  User = {"u"}
  MaxChunk = 2
  MaxMove = 2
  MaxAsk = 2
INVARIANTS RoversServed NoGaps Awake CrashExcused
\* the program may end
CHECK_DEADLOCK FALSE
