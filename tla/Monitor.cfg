\* Two connections and two sources; as many results and questions as
\* connections, so that any of them can wait while another is deleted.
SPECIFICATION Spec
CONSTANTS
  Conn = {1, 2}
  Source = {"a", "b"}
  MaxReport = 2
  MaxAsk = 1
INVARIANTS
  TypeOK Subscribed OnlyItsSource DeletedOnce Awake CrashExcused

\* the program may end
CHECK_DEADLOCK FALSE
