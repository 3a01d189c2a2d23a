\* Two items of two writes each, one item per page, two lost connections, and
\* retention free to delete every event at any moment.  At rest, with every write
\* made and every event received, nothing is left to do.
CONSTANTS
  i1 = i1  i2 = i2
  Item = {i1, i2}
  PageLimit = 1
  MaxVersion = 2
  MaxLost = 2
  MaxTrimmed = 4
SPECIFICATION Spec
CHECK_DEADLOCK FALSE
SYMMETRY Symmetry
INVARIANTS
  TypeOK
  OnlyTheWindowIsMissed
