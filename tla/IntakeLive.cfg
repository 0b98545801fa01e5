SPECIFICATION FairSpec
CONSTANTS
  s0 = s0 s1 = s1 s2 = s2 c1 = c1 c2 = c2
  Server = {s0, s1, s2}
  Leaders = {s0}
  Links <- WorkerLinks
  Dialed <- WorkerLinks
  Client = {c1}
  Unidentified = {}
  MaxTimestamp = 3
  MaxSent = 1
  Invalid <- FirstOfC1
  NumOfPackers = 1
  BatchSize = 2
PROPERTIES ReadIsBatched
\* a run ends when every request was read and handled
CHECK_DEADLOCK FALSE
