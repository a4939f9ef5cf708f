SPECIFICATION Spec
CONSTANTS
  Fields = {"activeIPs"}
  Own = "own"
  GridKey = "grid"
  Scans <- MCScans
  UserCounts = {20000}
  Edits <- MCEdits
  Typed = {"k1"}
  Tiers = {"XL"}
  Selectable = {"site"}
  MaxClones = 1
  Hasty = FALSE
  MaxChanges = 4
  Most <- MCMost
INVARIANTS UnsavedPending DerivedCurrent
PROPERTIES ImportKeeps
CHECK_DEADLOCK FALSE
