\* Four nodes, so that the ring has a head, a tail and cells between them while
\* an insertion and a removal are under way.
SPECIFICATION RingSpec
CONSTANTS
  Node = {n1, n2, n3, n4}
  sentinel = sentinel
  nobody = nobody
INVARIANT RingSound
PROPERTY RingIsChannel
\* the run ends when all nodes have been queued and taken
CHECK_DEADLOCK FALSE
