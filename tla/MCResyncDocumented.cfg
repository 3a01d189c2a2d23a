\* The documented resynchronisation, with one item.
CONSTANTS
  i1 = i1
  Item = {i1}
  PageLimit = 1
  MaxVersion = 3
  MaxLost = 1
  MaxTrimmed = 0
SPECIFICATION Spec
CHECK_DEADLOCK FALSE
INVARIANTS
  ResyncIsComplete
