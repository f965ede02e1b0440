CONSTANTS
  g1 = g1
  g2 = g2
  r1 = r1
  i1 = i1
  i2 = i2
  Nothing = Nothing
  Generator = {g1, g2}
  Reader = {r1}
  Inode = {i1, i2}
  Chunks = 3
  MaxStarted = 4
  MaxCrashes = 1
SPECIFICATION FairCacheSpec
INVARIANTS AbsentOrComplete SoleWriter
PROPERTIES ImplementsStore
