SPECIFICATION Spec
CONSTANTS
  Providers = {"nios", "microsoft"}
  Outcomes <- MCOutcomes
  Samples <- MCSamples
  Counts = {30000}
  Typed = {"qps"}
  Buffers = {0}
  MaxScans = 2
  MaxEdits = 2
INVARIANTS EditsOnTheirRows ScreensAgree HybridWithinTotal WorkbookAgrees
PROPERTIES LoadShowsSaved
CHECK_DEADLOCK FALSE
