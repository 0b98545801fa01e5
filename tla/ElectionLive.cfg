SPECIFICATION PaidFairSpec
CONSTANTS
  s0 = s0 s1 = s1 s2 = s2 s3 = s3
  Server = {s0, s1, s2, s3}
  BadKey = {}
  NoHash = NoHash
  Candidates = {s1}
  InitialLeader = s0
  Booted = {s0, s1, s2, s3}
  MaxView = 1
  MayTimeOut = {}
  Reputation = TRUE
  Losses = FALSE
  Duplicates = FALSE
  Threads = 2
  PastPenalties <- TestCase
  TLeft = 200
  TAll = 400
  DigestLength = 7
  EngineMayFail = FALSE
PROPERTIES CandidateIsFollowed CampaignEnds
\* a run ends when nobody may campaign any more
CHECK_DEADLOCK FALSE
