SPECIFICATION Spec
CONSTANTS
  s0 = s0 s1 = s1 s2 = s2 s3 = s3 s4 = s4
  Server = {s0, s1, s2, s3, s4}
  BadKey = {}
  NoHash = NoHash
  Leaders = {s0}
  Connected = {s0, s1, s2, s3, s4}
  MaxBlock = 1
  MaxCrash = 0
  PerfTest = TRUE
SYMMETRY WorkerSymmetry
INVARIANTS NoPanic
\* a run ends when every leader has packed its blocks
CHECK_DEADLOCK FALSE
