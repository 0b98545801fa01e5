SPECIFICATION Spec
CONSTANTS
  s0 = s0 s1 = s1 s2 = s2 s3 = s3
  Server = {s0, s1, s2, s3}
  BadKey = {s2, s3}
  NoHash = NoHash
  Candidates = {s1}
  InitialLeader = s0
  Booted = {s0, s1, s2}
  MaxView = 1
  MayTimeOut = {s1}
  Reputation = TRUE
  Losses = TRUE
  Duplicates = TRUE
CONSTRAINTS ThreeAtATime FirstCampaigns
INVARIANTS TypeOK ElectedByThreshold HeldBackByElection
\* a run ends when nobody may campaign any more
CHECK_DEADLOCK FALSE
