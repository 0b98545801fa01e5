SPECIFICATION Spec
CONSTANTS
  s0 = s0 s1 = s1 s2 = s2 c1 = c1 c2 = c2
  Server = {s0, s1, s2}
  Leaders = {s0}
  Links <- WorkerLinks
  Dialed <- OneLink
  Client = {c1, c2}
  Unidentified = {c2}
  MaxTimestamp = 3
  MaxSent = 2
  Invalid <- FirstOfC1
  NumOfPackers = 2
  BatchSize = 2
CONSTRAINT FewReads
INVARIANTS TypeOK EntersOnceByRelay NoRequestLost LogIndexCounts WaitingIsBounded ProcessedOncePerPath
\* a run ends when every request was read and handled
CHECK_DEADLOCK FALSE
