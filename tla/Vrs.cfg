\* Five srcids, four stations at a time: a station leaves and another comes, so
\* that the triangle and the master of a virtual station change.
SPECIFICATION Spec
CONSTANTS
  Srcid = {1, 2, 3, 4, 5}
  Triangulation <- MCTriangulation
  Vsta = {p}
  None = None
  MaxVertex = 4
  Manual <- MCManual
  MaxQueue = 2
INVARIANTS
  TypeOK MasterKnows TriangleIsCurrent Interpolates Forgotten CrashExcused
\* the program may end
CHECK_DEADLOCK FALSE
