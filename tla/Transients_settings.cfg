SPECIFICATION FairSpec
CONSTANTS
  a = a
  b = b
  c0 = c0
  c1 = c1
  c2 = c2
  r0 = r0
  r1 = r1
  s1 = s1
  s2 = s2
  h1 = h1
  h2 = h2
  NoCallee = NoCallee
  Pairs = {a, b}
  Callees = {c0, c1}
  Callers = {r0, r1}
  Scanners = {s1}
  Reporters = {h1, h2}
  Settings = {{"hook", "page", "cut", "edited"}, {"hook", "meet", "crowd", "kill"}}
  MaxPending = 1
  MaxReported = 6
  Keep = 4
  MaxScans = 3
  MaxKills = 1
CONSTRAINT ShownAtMostTwice
INVARIANT TypeOK
INVARIANT NothingLost
PROPERTY NoEcho
PROPERTY NoNag
PROPERTY EventuallyTold
CHECK_DEADLOCK FALSE
