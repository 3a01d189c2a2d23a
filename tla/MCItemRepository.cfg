\* Three requests on two items of two columns: every interleaving of
\* creations, partial updates and deletions, with and without a version.
CONSTANTS
  i1 = i1  i2 = i2
  r1 = r1  r2 = r2  r3 = r3
  name = name  value = value
  None = None
  Item = {i1, i2}
  Request = {r1, r2, r3}
  Field = {name, value}
  PoolSize = 3
  Named = {1, 2, 3}
SPECIFICATION Spec
SYMMETRY Symmetry
INVARIANTS
  TypeOK
  EntityHistory
  OneWinnerPerVersion
  TableMatchesOutbox
PROPERTIES
  AnswersAreTruthful
  ImplementsOutboxTable
  EntityPagesAreFinal
