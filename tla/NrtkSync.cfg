\* Two stations of the file, to which a third may come, and two epochs of each
\* station; baselines by hand for an edge that is there and for one that comes with
\* the third station.  MaxWork leaves room for two requests beside two epochs (one of
\* each station, or two of one), for one beside four, and for all six without one.
SPECIFICATION SyncSpec
CONSTANTS
  Srcid = {1, 2, 3}
  Triangulation <- MCTriangulation
  FromFile = {1, 2}
  Manual <- MCManual
  MaxTime = 2
  MaxReq = 2
  MaxWork = 6
  MaxBl = 5
INVARIANTS NetworkServed CrashExcused Synchronised
PROPERTY EpochsForward
\* a crash is the end
CHECK_DEADLOCK FALSE
