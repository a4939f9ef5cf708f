\* An upload of each kind and two scans that may name the same tokens.  An entry
\* has expired as soon as time has passed.
SPECIFICATION FairSpec
CONSTANTS
  NIOS = {"n"}
  QPS = {"q"}
  EfficientIP = {"e"}
  None = "none"
  Scan = {"s1", "s2"}
  TTL = 0
INVARIANTS FileThere Owned
PROPERTY Removed
