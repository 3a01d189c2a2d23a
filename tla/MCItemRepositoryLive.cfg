\* Four requests on one item and a pool of two: once the item has been created, one
\* may hold the row, another wait for it with the last connection, and a third wait
\* for a connection.
CONSTANTS
  i1 = i1
  r1 = r1  r2 = r2  r3 = r3  r4 = r4
  name = name
  None = None
  Item = {i1}
  Request = {r1, r2, r3, r4}
  Field = {name}
  PoolSize = 2
  Named = {}
SPECIFICATION FairSpec
PROPERTIES
  EveryRequestIsAnswered
