CONSTANTS
  Above <- MCAbove
  Documents <- MCDocuments
  Percents = {0, 10}
  Counts = {0, 100}
  Queries = {26}
  Switched = {"csp", "dns"}
  Tuned = {"mgmt", "security"}
  Folded = {"security"}
  MaxEdits = 4
SPECIFICATION ReportSpec
INVARIANTS AssetsFromTheirSource SettingsAsShown PartsCoverTotals
CHECK_DEADLOCK FALSE
