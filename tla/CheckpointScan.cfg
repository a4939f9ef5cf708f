\* Three units, so that two saves can be pending while a third unit scans, and
\* three scans: one interrupted, one resumed and interrupted, one resumed again.
SPECIFICATION FanOutFairSpec
CONSTANTS
  Unit = {"u1", "u2", "u3"}
  NoUnit = "none"
  Workers = 2
  MaxScans = 3
INVARIANTS CountedOnce SkipsOnlyCompleted
PROPERTIES FileSpec ScanEnds
\* The bound on the scans stops a behaviour.
CHECK_DEADLOCK FALSE
