SPECIFICATION FairSpec
CONSTANTS
  h1 = h1
  h2 = h2
  h3 = h3
  w1 = w1
  w2 = w2
  Procs = {h1, h2}
  Warnings = {w1}
  Doings = {"slow", "kill", "unreadable"}
  MaxScans = 3
  MaxFaults = 1
INVARIANT TypeOK
INVARIANT NothingMissed
PROPERTY NoRepeat
 
CHECK_DEADLOCK FALSE
