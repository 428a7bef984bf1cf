SPECIFICATION Spec
CONSTANTS
  h1 = h1
  h2 = h2
  Run = Run
  Job = Job
  Requests = {h1, h2}
  Users = {{"stop", "rewind"}, {"stop", "restart"}, {"stop", "restart", "workflow"},
           {"restart", "rounds"}}
  MaxBatch = 2
  MaxCalls = 3
  MaxRounds = 2
  MaxTurns = 3
  MaxSends = 2
  MaxStops = 2
SYMMETRY Interchangeable
INVARIANT TypeOK
INVARIANT ProviderInvariant
INVARIANT NotStuck
INVARIANT ApprovedRuns
PROPERTY NoStrayTool
PROPERTY StopSticks
CHECK_DEADLOCK FALSE
