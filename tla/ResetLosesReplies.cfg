SPECIFICATION FairSpec
CONSTANTS
  s0 = s0 s1 = s1 s2 = s2 s3 = s3
  Server = {s0, s1, s2, s3}
  BadKey = {}
  NoHash = NoHash
  Leaders = {s0}
  Connected = {s0, s1, s2, s3}
  MaxBlock = 1
  MaxCrash = 0
  PerfTest = TRUE
PROPERTIES PackedIsCommitted
\* a run ends when every leader has packed its blocks
CHECK_DEADLOCK FALSE
