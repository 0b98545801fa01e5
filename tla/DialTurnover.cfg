SPECIFICATION FairSpec
CONSTANTS
  s0 = s0 s1 = s1 s2 = s2
  Server = {s0, s1}
  InitialLeader = s0
  Booted = {s0, s1}
  Elections <- TwiceTheSame
  MaxView = 2
  Voters = {}
  Candidates = {s0}
  Host <- LocalHost
  DialPort <- LocalPorts
  LastPhase = 1
  MaxTry = 1
  MaxAcceptError = 0
INVARIANTS DialersSurvive
PROPERTIES InaugurationIsTaken
\* a run ends when everybody is connected or has given up
CHECK_DEADLOCK FALSE
