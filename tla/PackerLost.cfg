SPECIFICATION Spec
CONSTANTS
  s0 = s0 s1 = s1 s2 = s2 c1 = c1 c2 = c2
  Server = {s0}
  Leaders = {s0}
  Links <- NoLinks
  Dialed <- NoLinks
  Client = {c1}
  Unidentified = {}
  MaxTimestamp = 1
  MaxSent = 1
  Invalid <- FirstOfC1
  NumOfPackers = 2
  BatchSize = 1
INVARIANTS AllPackersRun
\* a run ends when every request was read and handled
CHECK_DEADLOCK FALSE
