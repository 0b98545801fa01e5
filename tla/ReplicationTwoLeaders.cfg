SPECIFICATION Spec
CONSTANTS
  s0 = s0 s1 = s1 s2 = s2 s3 = s3
  Server = {s0, s1, s2, s3}
  BadKey = {}
  NoHash = NoHash
  Leaders = {s0, s1}
  Connected = {s0, s1, s2}
  MaxBlock = 1
  MaxCrash = 1
  PerfTest = TRUE
SYMMETRY WorkerSymmetry
CONSTRAINTS FewInFlight RegisteredFirst NobodyCrashed
INVARIANTS TypeOK NoPanic OrderBacked CommitBacked
\* a run ends when every leader has packed its blocks
CHECK_DEADLOCK FALSE
