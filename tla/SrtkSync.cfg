\* One baseline and two epochs are enough.
SPECIFICATION Spec
CONSTANTS
  Srcid = {1, 2}
  MaxTime = 2
  MaxAdd = 1
  MaxDel = 0
INVARIANT TasksSynchronised
CHECK_DEADLOCK FALSE
