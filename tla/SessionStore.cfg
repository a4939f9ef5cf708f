\* Two handlers, a session and the one that follows it, the primary and two
\* additional forests; two structs are enough to replace one under a clone, or to
\* lose one of two forests validated at once.
SPECIFICATION StoreSpec
CONSTANTS
  MaxSessions = 2
  MaxRuns = 2
  Handler = {h1, h2}
  Starters = {h1}
  Provider = {"ad"}
  AD = "ad"
  MaxForests = 2
  MaxCreds = 2
INVARIANTS ScanUsesStored KeptInOneSession
PROPERTY CloneIsolated
\* The bounds on sessions and structs stop a behaviour.
CHECK_DEADLOCK FALSE
