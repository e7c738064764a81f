\* One engine and two stations: baselines in both directions, one of which is
\* removed and asked for again, over two epochs.
SPECIFICATION Spec
CONSTANTS
  Srcid = {1, 2}
  MaxTime = 2
  MaxAdd = 2
  MaxDel = 2
INVARIANTS BaselinesSound EpochsInOrder FreedWhenDone
PROPERTIES LastEpochSolved WaitEnds
\* the engine ends when it is closed or crashes
CHECK_DEADLOCK FALSE
