SPECIFICATION FairSpec
CONSTANTS
  h1 = h1
  h2 = h2
  Run = Run
  Job = Job
  Requests = {h1, h2}
  Users = {{"send_open", "early", "overlap", "stop_waiting", "stop", "rewind"},
           {"send_open", "early", "overlap", "stop_waiting", "stop", "workflow", "rounds"}}
  MaxBatch = 1
  MaxCalls = 2
  MaxRounds = 2
  MaxTurns = 2
  MaxSends = 2
  MaxStops = 1
INVARIANT RanOnce
PROPERTY RunEnds
CHECK_DEADLOCK FALSE
