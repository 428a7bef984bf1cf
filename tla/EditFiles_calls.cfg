SPECIFICATION FairSpec
CONSTANTS
  a = a
  b = b
  P = P
  Q = Q
  x = x
  y = y
  Calls = {1, 2}
  Processes = {P, Q}
  Paths = {1, 2}
  Files = {x, y}
  FileAt <- OnePathEach
  Spots = {a, b}
  Batches <- SomeBatches
  MaxFaults = 2
INVARIANT TypeOK
PROPERTY NothingLost
PROPERTY EveryCallReturns
