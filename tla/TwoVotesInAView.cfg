SPECIFICATION Spec
CONSTANTS
  s0 = s0 s1 = s1 s2 = s2 s3 = s3
  Server = {s0, s1, s2, s3}
  BadKey = {}
  NoHash = NoHash
  Candidates = {s1, s2}
  InitialLeader = s0
  Booted = {s0, s1, s2, s3}
  MaxView = 1
  MayTimeOut = {}
  Reputation = FALSE
  Losses = TRUE
  Duplicates = FALSE
SYMMETRY VoterSymmetry
CONSTRAINT TwoVotesAtATime
INVARIANTS VoteOncePerView
\* a run ends when nobody may campaign any more
CHECK_DEADLOCK FALSE
