SPECIFICATION Spec
CONSTANTS
  Procs = {p1, p2}
  Threads = {t1, t2}
  Layouts = {km4, col}
  Inodes = {1, 2, 3}
  NTasks = 2
  Parts <- MCParts
  Bytes <- MCBytes
  Cap = 2
  Modes <- MCModes
  None = None
  Returned = Returned
  MaxVersion = 2
  MaxLoads = 2
  MaxFaults = 1
INVARIANTS LoadsOwnModel NameComplete HostBounded NeverStuck
CHECK_DEADLOCK FALSE
SYMMETRY MCSymmetry
