SPECIFICATION Spec
CONSTANTS
  h1 = h1
  h2 = h2
  h3 = h3
  w1 = w1
  w2 = w2
  Procs = {h1}
  Warnings = {w1}
  Doings = {"sealed"}
  MaxScans = 2
  MaxFaults = 1
PROPERTY UnreadableIsSeeded
CHECK_DEADLOCK FALSE
