SPECIFICATION FairSpec
CONSTANTS
  server = server
  shell = shell
  r1 = r1
  r2 = r2
  r3 = r3
  Gone = Gone
  n1 = n1
  v1 = v1
  v2 = v2
  Nodes = {n1}
  Prints = {v1, v2}
  Reads = {r1, r2, r3}
  Fillers = {server, shell}
  Of <- TwoAndOne
  OneShot = {shell}
  MaxEdits = 1
  MaxClears = 1
  MaxFaults = 1
INVARIANT TypeOK
INVARIANT HeldForReason
INVARIANT RecordedIsAnswered
PROPERTY PaidOnce
PROPERTY EventuallyDescribed
CHECK_DEADLOCK FALSE
