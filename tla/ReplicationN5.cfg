SPECIFICATION ConfirmSpec
CONSTANTS
  s0 = s0 s1 = s1 s2 = s2 s3 = s3 s4 = s4
  Server = {s0, s1, s2, s3, s4}
  BadKey = {s3, s4}
  NoHash = NoHash
  Leaders = {s0}
  Connected = {s0, s1, s2, s3}
  MaxBlock = 1
  MaxCrash = 1
  PerfTest = TRUE
  c1 = c1 c2 = c2
  Client = {c1, c2}
  Linked <- KnowTheLeader
  Left <- LeftTheLeader
  Changing <- Unsteady
  MaxLinkChange = 1
SYMMETRY WorkerSymmetry
INVARIANTS CertifiedByThreshold CommitCounted CommitFragmentKept ConfirmedIsBacked HeardUnlessAway
PROPERTIES ImplementsBlockCommit ConfirmedOnce
\* a run ends when every leader has packed its blocks
CHECK_DEADLOCK FALSE
