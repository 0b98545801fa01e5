SPECIFICATION Spec
CONSTANTS
  s0 = s0 s1 = s1 s2 = s2 c1 = c1 c2 = c2
  Server = {s0, s1, s2}
  Leaders = {s0, s1}
  Links <- LinksAfterViewChange
  Dialed <- LinksAfterViewChange
  Client = {c1}
  Unidentified = {}
  MaxTimestamp = 1
  MaxSent = 1
  Invalid <- NoRequests
  NumOfPackers = 1
  BatchSize = 1
INVARIANTS NoRequestLost
\* a run ends when every request was read and handled
CHECK_DEADLOCK FALSE
