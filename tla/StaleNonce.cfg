SPECIFICATION PaidSpec
CONSTANTS
  s0 = s0 s1 = s1 s2 = s2 s3 = s3
  Server = {s0, s1, s2, s3}
  BadKey = {}
  NoHash = NoHash
  Candidates = {s1}
  InitialLeader = s0
  Booted = {s0, s1, s2, s3}
  MaxView = 2
  MayTimeOut = {s1}
  Reputation = TRUE
  Losses = TRUE
  Duplicates = FALSE
  Threads = 2
  PastPenalties <- TestCase
  TLeft = 200
  TAll = 400
  DigestLength = 7
  EngineMayFail = TRUE
SYMMETRY VoterSymmetry
CONSTRAINT ThreeVotesAtATime

PROPERTIES WorksForCampaign
\* a run ends when nobody may campaign any more
CHECK_DEADLOCK FALSE
