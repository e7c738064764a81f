\* Five srcids, at most four stations at a time: stations leave and others
\* come, the network shrinks below three stations and grows again.
SPECIFICATION Spec
CONSTANTS
  Srcid = {1, 2, 3, 4, 5}
  Triangulation <- MCTriangulation
  MaxVertex = 4
  MaxManual = 2
INVARIANTS IInv TrianglePointers BaselinesFollowEdges
\* a crash is the end
CHECK_DEADLOCK FALSE
