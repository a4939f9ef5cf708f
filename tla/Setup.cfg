SPECIFICATION Spec
CONSTANTS
  Providers = {"nios", "microsoft"}
  Methods <- MCMethods
  Sources <- MCSources
  Discovered = {"dc2"}
  MaxForests = 2
  Removable = FALSE
  Excludable = TRUE
  MaxChanges = 5
INVARIANTS SelectionSent  
