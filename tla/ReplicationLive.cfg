SPECIFICATION ConfirmFairSpec
CONSTANTS
  s0 = s0 s1 = s1 s2 = s2 s3 = s3 s4 = s4
  Server = {s0, s1, s2, s3, s4}
  BadKey = {s4}
  NoHash = NoHash
  Leaders = {s0}
  Connected = {s0, s1, s2, s3, s4}
  MaxBlock = 1
  MaxCrash = 0
  PerfTest = FALSE
  c1 = c1 c2 = c2
  Client = {c1}
  Linked <- AllLinked
  Left = {}
  Changing = {}
  MaxLinkChange = 0
PROPERTIES PackedIsOrdered CommittedIsConfirmed
\* a run ends when every leader has packed its blocks
CHECK_DEADLOCK FALSE
