CONSTANTS
  Streams = {s1, s2}
  Families = {"iode", "toe", "glo"}
  MaxIssue = 5
  IodeMod = 3
SPECIFICATION Spec
INVARIANTS TypeOK KeptNewest
PROPERTY Recovers
