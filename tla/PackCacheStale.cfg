SPECIFICATION Spec
CONSTANTS
  Procs = {p1}
  Threads = {t1}
  Layouts = {km4}
  Inodes = {1, 2, 3}
  NTasks = 2
  Parts <- MCParts
  Bytes <- MCBytes
  Cap = 2
  Modes <- MCPlain
  None = None
  Returned = Returned
  MaxVersion = 2
  MaxLoads = 2
  MaxFaults = 0
INVARIANT NeverSomethingElse
CHECK_DEADLOCK FALSE
