SPECIFICATION FairSpec
CONSTANTS
  t1 = t1
  t2 = t2
  r1 = r1
  r2 = r2
  w1 = w1
  w2 = w2
  NoRun = NoRun
  NoTask = NoTask
  Tasks = {t1, t2}
  Runs = {r1, r2}
  Workers = {w1, w2}
  WorkerCount = 2
  Settings = {{"stop", "restart", "resume"}, {"stop", "close"}}
  MaxResumes = 2
  MaxStops = 2
  MaxTools = 1
INVARIANT TypeOK
INVARIANT CompletedIsDone
PROPERTY OutcomeStays
PROPERTY TrueAnswer
INVARIANT ProviderInvariant
PROPERTY EventuallyAnswered
PROPERTY CloseReturns
CHECK_DEADLOCK FALSE
