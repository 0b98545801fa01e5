----------------------------- MODULE MCElection -----------------------------
(***************************************************************************)
(* Symmetry and bounds for the runs of Election: servers that are told     *)
(* apart by no constant of the run may be permuted.                        *)
(***************************************************************************)
EXTENDS Election, TLC

Voters == Server \ (Candidates \cup BadKey \cup {InitialLeader})

VoterSymmetry ==
  Permutations(IF Booted = Server THEN Voters ELSE Voters \cap Booted)

(* Bounds of the larger runs: requests and votes on the way or being        *)
(* handled, and announcements on the way to another server or not taken by  *)
(* it yet.  A datagram may be lost instead of waiting for its turn.         *)
Votes == {m \in msgs : m.type # "newView"}
Answering == Cardinality(Votes) + Cardinality(voting) + Cardinality(counting)
ToBeTaken(s) == \E i \in DOMAIN inaugurations[s] : inaugurations[s][i].leader # s
Announcing == Cardinality(msgs \ Votes) + Cardinality({s \in Server : ToBeTaken(s)})

TwoVotesAtATime == Answering <= 2 /\ Announcing = 0
ThreeVotesAtATime == Answering <= 3 /\ Announcing = 0
ThreeAtATime == Answering <= 3 /\ Announcing <= 2 /\ Answering + Announcing <= 3

(* Nothing is followed past a campaign that timed out or could not be paid  *)
(* for: ElectionRetry does.                                                 *)
FirstCampaigns == \A s \in Server : campaign[s].pc \notin {"retrying", "dead"}

(* Bound of the race over two views: campaigns, of either candidate in      *)
(* either view, counted from the increment of the view on.                  *)
Requested == {e \in Endorsement : <<e[1], e>> \in endorsed}
Requesting == {s \in Server : campaign[s].pc = "requesting"}
TwoCampaigns == /\ Cardinality(Requested) + Cardinality(Requesting) <= 2
                /\ Answering <= 2 /\ Announcing <= 1
=============================================================================
