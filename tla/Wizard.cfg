\* Two providers, two calls of startScan.
SPECIFICATION FairSpec
CONSTANTS
  Provider = {"aws", "nios"}
  Snapshots = {{"nios"}}
  MaxAttempts = 2
INVARIANT OneScanShown
PROPERTIES PollingStops ServedOrError
