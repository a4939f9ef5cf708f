SPECIFICATION FairSpec
CONSTANTS
  Starter = {"h1", "h2"}
  Provider = {"ad", "bluecat"}
  AD = "ad"
  Registered = {"ad"}
  Reporting = {"ad"}
  MaxForests = 1
  MaxRacing = 1
  NoJob = NoJob
INVARIANTS Accounted ResultsWhole NoEventLost
PROPERTIES ClientServed ContractSpec
