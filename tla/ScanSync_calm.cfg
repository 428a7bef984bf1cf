SPECIFICATION FairSpec
CONSTANTS
  f1 = f1
  f2 = f2
  p1 = p1
  p2 = p2
  go = go
  py = py
  modA = modA
  modB = modB
  NoProc = NoProc
  NoProject = NoProject
  Languages = {go, py}
  Files = {f1, f2}
  Procs = {p1, p2}
  Lang <- OneLanguage
  Projects = {modA, modB}
  Hideable = {f1}
  Sealable = {f2}
  Modes = {"incremental", "full"}
  MaxTime = 3
  MaxTurns = 1
  MaxFaults = 0
  Weather = {"kept_mtime"}
INVARIANT NothingOverlooked
PROPERTY EventuallyExact
