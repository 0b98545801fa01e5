SPECIFICATION ServedSpec
CONSTANTS
  s0 = s0 s1 = s1 s2 = s2
  Server = {s0, s1, s2}
  InitialLeader = s0
  Booted = {}
  Elections <- NoElections
  MaxView = 1
  Voters = {s0, s2}
  Candidates = {}
  Host <- LocalHost
  DialPort <- LocalPorts
  LastPhase = 2
  MaxTry = 2
  MaxAcceptError = 1
INVARIANTS TypeOK AllConnectedAtFirst
PROPERTIES RegisteredInItsView WorkersLink
\* a run ends when everybody is connected or has given up
CHECK_DEADLOCK FALSE
