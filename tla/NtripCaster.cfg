\* One source in the file and one caster for it, which has room for one; a further
\* caster, a further source and a virtual station can come.
SPECIFICATION Spec
CONSTANTS
  FileNames = {"a"}
  NetNames = {"x"}
  VrsNames = {"v"}
  MaxSrcs = 1
  MaxId = 3
  MaxDel = 1
INVARIANTS SourcesSound TablesAgree Settled CrashExcused
PROPERTY Handled
\* the program may end
CHECK_DEADLOCK FALSE
