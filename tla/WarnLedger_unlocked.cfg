SPECIFICATION SpecWithLedger
CONSTANTS
  h1 = h1
  h2 = h2
  h3 = h3
  w1 = w1
  w2 = w2
  Procs = {h1, h2}
  Warnings = {w1}
  Doings = {"slow"}
  MaxScans = 2
  MaxFaults = 0
INVARIANT AtWorstRepeats
CHECK_DEADLOCK FALSE
