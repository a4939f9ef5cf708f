CONSTANTS
  Tabs = {t1, t2}
  Requests = {r1, r2}
  None = None
  MaxPolls = 2
  MaxProcesses = 3
SPECIFICATION Spec
INVARIANT CopyKept
PROPERTY RestartEnds
CHECK_DEADLOCK FALSE
