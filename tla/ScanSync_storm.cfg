SPECIFICATION FairSpec
CONSTANTS
  f1 = f1
  f2 = f2
  p1 = p1
  p2 = p2
  go = go
  py = py
  modA = modA
  modB = modB
  NoProc = NoProc
  NoProject = NoProject
  Languages = {go, py}
  Files = {f1, f2}
  Procs = {p1, p2}
  Lang <- TwoLanguages
  Projects = {modA}
  Hideable = {}
  Sealable = {}
  Modes = {"incremental", "full", "update"}
  MaxTime = 3
  MaxTurns = 0
  MaxFaults = 1
  Weather = {"save", "churn", "kill", "bad_write", "bad_scanner"}
INVARIANT TypeOK
INVARIANT Vouched
PROPERTY KeepsPromise
PROPERTY EventuallyIndexed
