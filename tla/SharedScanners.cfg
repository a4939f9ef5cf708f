\* Two sessions whose scans overlap or not, every provider, two jobs each.
SPECIFICATION SharedSpec
CONSTANTS
  Sess = {"s1", "s2"}
  NoSess = "none"
  Kind = {"nios", "wapi", "ad", "ad2"}
  MaxJobs = 2
INVARIANTS FailureAttachesNothing OwnResults
\* Every session scans once.
CHECK_DEADLOCK FALSE
