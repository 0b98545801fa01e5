--------------------------- MODULE ElectionProofs ---------------------------
(***************************************************************************)
(* Why the properties of Election and PaidElection hold: what each share   *)
(* of a vote is backed by while it travels, waits and is counted; what the *)
(* lock of the cache protects while a winner is announced; where the vote  *)
(* of one server can be when one candidate campaigns; and what the threads *)
(* of a penalty leave behind.                                              *)
(*                                                                         *)
(* These invariants are inductive: for every cluster, any set of           *)
(* candidates and of servers without the keys, and a network that loses    *)
(* and duplicates datagrams, who is elected holds a certificate of its own *)
(* campaign, and who is followed was elected.  A paid election is an       *)
(* election, so all of it holds there too.                                 *)
(***************************************************************************)
EXTENDS PaidElection, ReputationProofs, SequenceTheorems

(* A share that verifies at all was made by a server with the keys of the   *)
(* cluster, for what the share names.                                       *)
ShareIsBacked(x) ==
  x.msg # NoHash => x.signer \notin BadKey /\ <<x.signer, x.msg>> \in endorsed

GrantIsBacked(m) ==
  /\ m.share.signer = m.src
  /\ m.share.msg \in {NoHash, CommonEndorsement(m.dst, m.view)}
  /\ ShareIsBacked(m.share)

GrantsAreBacked ==
  /\ \A m \in msgs : m.type = "grant" => GrantIsBacked(m)
  /\ \A h \in counting : GrantIsBacked(h.grant)

(* What a server collects was sent to it, whichever vote it collects under. *)
CachedSharesAreBacked ==
  \A s \in Server, v \in View : \A i \in DOMAIN vcCache[s][v].shares :
     LET x == vcCache[s][v].shares[i]
     IN ShareIsBacked(x) /\ (x.msg # NoHash => x.msg[1] = s)

CampaignsAreOfCandidates ==
  \A s \in Server : campaign[s].pc # "idle" => s \in Candidates

(* From the deciding vote to the announcement the cache stays locked, and   *)
(* the vote that won stays what it was.                                     *)
WinnerHoldsTheLock ==
  \A s \in Server : winning[s].pc # "none" => cacheLock[s] = "winner"

WinnerIsBacked ==
  \A s \in Server : winning[s].pc = "inaugurate" =>
     LET e == vcCache[s][winning[s].view].endorsement
     IN e \in Endorsement /\ e[1] = s /\ Cardinality(Endorsers(e)) >= Threshold

(* Who voted under a view has a vote cached under it. *)
GrantedIsCached == \A g \in granted : vcCache[g.voter][g.under] # NoVote

(* A vote is cached under the view its handler read, which was not past the *)
(* view of the request; so a server gives v + 1 votes in view v at most.    *)
ReadBeforeAsked ==
  /\ \A h \in voting : h.myView <= h.req.view
  /\ \A g \in granted : g.under <= g.endorsement[2]

VotesInView(s, v) == {g \in granted : g.voter = s /\ g.endorsement[2] = v}
VotesAreFew == \A s \in Server, v \in View : Cardinality(VotesInView(s, v)) <= v + 1

(* Announcements come from servers that were elected. *)
IsElected(s) == \E e \in elected : e.leader = s

AnnouncementsAreOfElected ==
  /\ \A m \in msgs : m.type = "newView" => IsElected(m.src)
  /\ \A s \in Server : \A i \in DOMAIN inaugurations[s] :
        IsElected(inaugurations[s][i].leader)

ElectInv ==
  /\ TypeOK
  /\ GrantsAreBacked /\ CachedSharesAreBacked /\ CampaignsAreOfCandidates
  /\ WinnerHoldsTheLock /\ WinnerIsBacked /\ ElectedByThreshold
  /\ GrantedIsCached /\ OneVotePerCachedView
  /\ SelfVoteKept
  /\ AnnouncementsAreOfElected /\ FollowsElected

-----------------------------------------------------------------------------
(* One candidate c: nobody asks it for its vote, so its view is the view of *)
(* its campaign, and each campaign is in a view of its own.                 *)
OneCandidate == \E c \in Server : Candidates = {c}

RequestsGoToOthers ==
  /\ \A m \in msgs : m.type = "voteMe" => m.dst \notin Candidates
  /\ \A h \in voting : h.req.dst \notin Candidates

RequestsInOwnView ==
  \A c \in Candidates : campaign[c].pc = "requesting" => campaign[c].view = view[c]

CachedUnderOwnView ==
  \A c \in Candidates, v \in View :
     vcCache[c][v] # NoVote => v <= view[c] /\ vcCache[c][v].endorsement = <<c, v>>

(* What was announced in a view is full, and is announced once. *)
ElectedIsFull ==
  /\ \A e \in elected : Len(vcCache[e.leader][e.view].shares) >= Quorum
  /\ \A c \in Candidates : winning[c].pc # "none" =>
        Len(vcCache[c][winning[c].view].shares) >= Quorum

WinnerIsUnannounced ==
  \A c \in Candidates : winning[c].pc = "inaugurate" =>
     \A e \in elected : <<e.leader, e.view>> # <<c, winning[c].view>>

OneCandidateInv ==
  /\ RequestsGoToOthers /\ RequestsInOwnView /\ CachedUnderOwnView
  /\ OwnEndorsement /\ ElectedIsFull /\ WinnerIsUnannounced

-----------------------------------------------------------------------------
(* The next campaign of the candidate finds nothing cached under its view,  *)
(* and what it is told of success, an announcement of its own came before.  *)
CampaignInItsView ==
  \A c \in Candidates : campaign[c].pc \in {"requesting", "waiting"} => campaign[c].view = view[c]

NothingCachedYet ==
  \A c \in Candidates : campaign[c].pc = "requesting" => vcCache[c][view[c]] = NoVote

SuccessFollowsElection ==
  \A s \in Server : succeeded[s] \/ winning[s].pc = "notify" =>
     \E e \in elected : e.leader = s /\ e.view <= view[s]

CampaignInv == CampaignInItsView /\ NothingCachedYet /\ SuccessFollowsElection /\ NoLockLeaks

-----------------------------------------------------------------------------
(* When moreover no datagram comes twice and all servers have the keys: the *)
(* vote of t in view v is asked for, given, brought, read and counted.      *)
Asking(t, v) == {m \in msgs : m.type = "voteMe" /\ m.dst = t /\ m.view = v}
Giving(t, v) == {h \in voting : h.req.dst = t /\ h.req.view = v}
Bringing(t, v) == {m \in msgs : m.type = "grant" /\ m.src = t /\ m.view = v}
Reading(t, v) == {h \in counting : h.grant.src = t /\ h.grant.view = v}
Ballots(c, t, v) == {i \in DOMAIN vcCache[c][v].shares : vcCache[c][v].shares[i].signer = t}

AtMostOne(S) == \A x, y \in S : x = y

(* It is in at most one place, and once in that place. *)
Once(asking, giving, bringing, reading, ballots) ==
  /\ AtMostOne(giving) /\ AtMostOne(bringing) /\ AtMostOne(reading) /\ AtMostOne(ballots)
  /\ giving # {} => asking = {}
  /\ bringing # {} => asking = {} /\ giving = {}
  /\ reading # {} => asking = {} /\ giving = {} /\ bringing = {}
  /\ ballots # {} => asking = {} /\ giving = {} /\ bringing = {} /\ reading = {}

VoteIsOnce(c, t, v) ==
  Once(Asking(t, v), Giving(t, v), Bringing(t, v), Reading(t, v), Ballots(c, t, v))

VotesAreOnce == \A c \in Candidates, t \in Server, v \in View : VoteIsOnce(c, t, v)

(* Whatever is under way belongs to a campaign that asked already; what is  *)
(* read was read in its own view.                                           *)
AskedBefore ==
  \A c \in Candidates :
     /\ \A m \in msgs : m.type \in {"voteMe", "grant"} => vcCache[c][m.view] # NoVote
     /\ \A h \in voting : vcCache[c][h.req.view] # NoVote
     /\ \A h \in counting :
           h.myView = h.grant.view /\ vcCache[c][h.grant.view] # NoVote

(* Every share that is counted names the campaign it is counted for.        *)
EveryShareVerifies ==
  /\ \A m \in msgs : m.type = "grant" => m.share.msg # NoHash
  /\ \A h \in counting : h.grant.share.msg # NoHash
  /\ \A c \in Candidates, v \in View : \A i \in DOMAIN vcCache[c][v].shares :
        vcCache[c][v].shares[i].msg = <<c, v>>

ReliableCluster == OneCandidate /\ ~Duplicates /\ BadKey = {}

ReliableInv == AskedBefore /\ EveryShareVerifies /\ VotesAreOnce /\ ElectedByQuorum

-----------------------------------------------------------------------------
(* The threads of a penalty: as many as were started, minus those that saw  *)
(* or found a nonce; while there are any the campaign waits for them.       *)
PaymentOf(s) ==
  /\ DOMAIN search[s] = {"penalty", "searching", "checking", "hashing"}
  /\ search[s].checking \in Nat /\ search[s].hashing \in Nat
  /\ ~search[s].searching => AtWork(s) = 0
  /\ search[s].searching => Reputation /\ campaign[s].pc = "computing"
  /\ search[s].searching /\ AtWork(s) < Threads => nonceFound[s]
  /\ Reputation /\ campaign[s].pc \in {"requesting", "waiting"} => nonceFound[s]

PaymentInv ==
  /\ DOMAIN search = Server /\ DOMAIN nonceFound = Server
  /\ \A s \in Server : PaymentOf(s)

-----------------------------------------------------------------------------
(* The quorum of parameters.go for three servers or more. *)
LEMMA QuorumValues ==
  /\ Quorum \in Nat /\ Quorum >= 3
  /\ Threshold \in Nat /\ Threshold >= 2 /\ Threshold = Quorum - 1
<1>1. N \in Nat /\ N >= 3
  BY ServerAssumption, FS_CardinalityType DEF N
<1>2. N \div 3 \in Nat /\ N \div 3 >= 1
  BY <1>1
<1>3. QED
  BY <1>1, <1>2 DEF Quorum, Threshold

(* Distinct signers of n shares are n servers. *)
LEMMA CountSigners ==
  ASSUME NEW S \in SUBSET Server, NEW n \in Nat, NEW shares,
         \A i \in 1..n : shares[i].signer \in S,
         \A i, j \in 1..n : shares[i].signer = shares[j].signer => i = j
  PROVE  Cardinality(S) >= n
<1> DEFINE f == [i \in 1..n |-> shares[i].signer]
<1>1. f \in Injection(1..n, S)
  BY DEF Injection, IsInjective
<1>2. IsFiniteSet(S)
  BY FS_Subset, ServerAssumption
<1>3. Cardinality(1..n) <= Cardinality(S)
  BY <1>1, <1>2, FS_Injection
<1>4. Cardinality(1..n) = n
  BY FS_Interval
<1>5. QED
  BY <1>2, <1>3, <1>4, FS_CardinalityType

LEMMA PenSignFields ==
  ASSUME NEW s, NEW e
  PROVE  /\ PenSign(s, e).signer = s
         /\ PenSign(s, e).msg \in {e, NoHash}
         /\ s \in BadKey => PenSign(s, e).msg = NoHash
         /\ s \notin BadKey => PenSign(s, e).msg = e
BY DEF PenSign

LEMMA PenSignType ==
  ASSUME NEW s \in Server, NEW e \in Endorsement
  PROVE  PenSign(s, e) \in Share(Endorsement)
BY DEF PenSign, Share

(* What leaves and what is read off the socket. *)
LEMMA SentAdds ==
  ASSUME NEW D, Sent(D)
  PROVE  msgs' \subseteq msgs \cup D
BY DEF Sent

LEMMA ReceivedKeeps ==
  ASSUME NEW m, Received(m)
  PROVE  msgs' \subseteq msgs
BY DEF Received

LEMMA ToOthersFields ==
  ASSUME NEW s, NEW type, NEW v, NEW m \in ToOthers(s, type, v)
  PROVE  /\ m = [type |-> type, src |-> s, dst |-> m.dst, view |-> v]
         /\ m.type = type /\ m.src = s /\ m.view = v
         /\ m.dst \in Server \ {s}
BY DEF ToOthers

LEMMA ViewZero == 0 \in View /\ View \subseteq Int /\ \A v \in View : v <= MaxView
BY ElectionAssumption DEF View

(* Messages by kind. *)
LEMMA RequestFields ==
  ASSUME TypeOK, NEW m \in msgs, m.type = "voteMe"
  PROVE  /\ m \in Request
         /\ m.src \in Candidates /\ m.src \in Server /\ m.dst \in Server /\ m.view \in View
<1>1. m \in Request
  BY DEF TypeOK, Grant, NewView
<1>2. QED
  BY <1>1, ElectionAssumption DEF Request

LEMMA GrantFields ==
  ASSUME TypeOK, NEW m \in msgs, m.type = "grant"
  PROVE  /\ m \in Grant
         /\ m.src \in Server /\ m.dst \in Candidates /\ m.dst \in Server
         /\ m.view \in View /\ m.share \in Share(Endorsement)
<1>1. m \in Grant
  BY DEF TypeOK, Request, NewView
<1>2. QED
  BY <1>1, ElectionAssumption DEF Grant

LEMMA NewViewFields ==
  ASSUME TypeOK, NEW m \in msgs, m.type = "newView"
  PROVE  /\ m \in NewView
         /\ m.src \in Candidates /\ m.src \in Server /\ m.dst \in Server /\ m.view \in View
<1>1. m \in NewView
  BY DEF TypeOK, Request, Grant
<1>2. QED
  BY <1>1, ElectionAssumption DEF NewView

LEMMA VotingFields ==
  ASSUME TypeOK, NEW h \in voting
  PROVE  /\ h = [pc |-> h.pc, req |-> h.req, myView |-> h.myView]
         /\ h.pc \in {"read", "set"} /\ h.req \in Request /\ h.myView \in View
         /\ h.req.src \in Candidates /\ h.req.src \in Server
         /\ h.req.dst \in Server /\ h.req.view \in View
BY ElectionAssumption DEF TypeOK, Request

LEMMA CountingFields ==
  ASSUME TypeOK, NEW h \in counting
  PROVE  /\ h = [grant |-> h.grant, myView |-> h.myView]
         /\ h.grant \in Grant /\ h.myView \in View
         /\ h.grant.src \in Server /\ h.grant.dst \in Candidates /\ h.grant.dst \in Server
         /\ h.grant.view \in View /\ h.grant.share \in Share(Endorsement)
BY ElectionAssumption DEF TypeOK, Grant

(* Cached votes. *)
LEMMA NoVoteFields ==
  NoVote.endorsement = NoHash /\ NoVote.shares = << >> /\ NoVote \in Vote
BY DEF NoVote, Vote

LEMMA VoteFields ==
  ASSUME TypeOK, NEW s \in Server, NEW v \in View
  PROVE  /\ vcCache[s][v] \in Vote
         /\ vcCache[s][v] # NoVote => vcCache[s][v].endorsement \in Endorsement
         /\ vcCache[s][v].endorsement \in Endorsement => vcCache[s][v] # NoVote
         /\ vcCache[s][v].shares \in Seq(Share(Endorsement))
<1>1. vcCache[s][v] \in Vote
  BY DEF TypeOK
<1>2. CASE vcCache[s][v] = NoVote
  <2>1. << >> \in Seq(Share(Endorsement))
    OBVIOUS
  <2>2. QED
    BY <1>1, <1>2, <2>1, NoVoteFields, ElectionAssumption
<1>3. CASE vcCache[s][v] # NoVote
  <2>1. vcCache[s][v] \in [endorsement : Endorsement, shares : Seq(Share(Endorsement))]
    BY <1>1, <1>3 DEF Vote
  <2>2. QED
    BY <1>1, <1>3, <2>1
<1>4. QED
  BY <1>2, <1>3

LEMMA NewVote ==
  ASSUME NEW e \in Endorsement, NEW shares \in Seq(Share(Endorsement))
  PROVE  /\ [endorsement |-> e, shares |-> shares] \in Vote
         /\ [endorsement |-> e, shares |-> shares] # NoVote
<1>1. [endorsement |-> e, shares |-> shares].endorsement # NoVote.endorsement
  BY NoVoteFields, ElectionAssumption
<1>2. QED
  BY <1>1 DEF Vote

LEMMA CommonEndorsementType ==
  ASSUME NEW c \in Candidates, NEW v \in View
  PROVE  CommonEndorsement(c, v) \in Endorsement /\ CommonEndorsement(c, v)[1] = c
BY DEF CommonEndorsement, Endorsement

-----------------------------------------------------------------------------
(* Types. *)
LEMMA TypeInit == Init => TypeOK
<1> SUFFICES ASSUME Init PROVE TypeOK
  OBVIOUS
<1>1. vcCache \in [Server -> [View -> Vote]]
  BY NoVoteFields DEF Init
<1>2. QED
  BY <1>1, ViewZero, ElectionAssumption DEF Init, TypeOK, Idle, NoWinner

LEMMA CampaignType ==
  ASSUME TypeOK, CampaignsAreOfCandidates, NEW s \in Server, Campaign(s)
  PROVE  TypeOK'
<1>1. CASE StartCampaign(s)
  BY <1>1, ZenonT(60) DEF StartCampaign, TypeOK, channels, loop, handlers, history
<1>2. CASE PenaltyFails(s)
  BY <1>2, ZenonT(60) DEF PenaltyFails, TypeOK, cells, channels, loop, handlers, history
<1>3. CASE BecomeNominee(s)
  <2>1. view[s] + 1 \in View
    BY <1>3, ElectionAssumption DEF BecomeNominee, TypeOK, View
  <2>2. QED
    BY <1>3, <2>1 DEF BecomeNominee, TypeOK, channels, loop, handlers, history
<1>4. CASE RequestRefused(s)
  BY <1>4, ZenonT(60) DEF RequestRefused, TypeOK, channels, loop, handlers, history
<1>5. CASE RequestVotes(s)
  <2> DEFINE v == campaign[s].view
             e == CommonEndorsement(s, v)
             x == [endorsement |-> e, shares |-> <<PenSign(s, e)>>]
  <2>1. s \in Candidates /\ v \in View /\ view[s] \in View
    BY <1>5 DEF RequestVotes, CampaignsAreOfCandidates, TypeOK
  <2>2. e \in Endorsement /\ PenSign(s, e) \in Share(Endorsement)
    BY <2>1, CommonEndorsementType, PenSignType
  <2>3. <<PenSign(s, e)>> \in Seq(Share(Endorsement))
    BY <2>2
  <2>4. x \in Vote
    BY <2>2, <2>3, NewVote
  <2>5. msgs' \subseteq msgs \cup ToOthers(s, "voteMe", v)
    BY <1>5, SentAdds DEF RequestVotes
  <2>6. ToOthers(s, "voteMe", v) \subseteq Request
    BY <2>1 DEF ToOthers, Request
  <2>7. vcCache' \in [Server -> [View -> Vote]]
    BY <1>5, <2>1, <2>4 DEF RequestVotes, TypeOK
  <2>8. endorsed' \subseteq Server \X Endorsement
    BY <1>5, <2>2 DEF RequestVotes, TypeOK
  <2>9. msgs' \subseteq Request \cup Grant \cup NewView
    BY <2>5, <2>6 DEF TypeOK
  <2>10. campaign' \in [Server -> [pc : {"idle", "computing", "requesting", "waiting",
                                        "retrying", "dead"}, view : View]]
    <3>1. campaign' = [campaign EXCEPT ![s].pc = "waiting"]
      BY <1>5 DEF RequestVotes
    <3>2. QED
      BY <3>1, ZenonT(60) DEF TypeOK
  <2>11. UNCHANGED <<view, role, cacheLock, channels, loop, handlers, granted, elected>>
    BY <1>5 DEF RequestVotes
  <2>12. QED
    BY <2>7, <2>8, <2>9, <2>10, <2>11 DEF TypeOK, channels, loop, handlers
<1>6. CASE CampaignAborted(s)
  BY <1>6, ZenonT(60) DEF CampaignAborted, TypeOK, cells, loop, handlers, history
<1>7. CASE CampaignTimedOut(s)
  BY <1>7, ZenonT(60) DEF CampaignTimedOut, TypeOK, cells, channels, loop, handlers, history
<1>8. CASE CampaignSucceeded(s)
  BY <1>8, ZenonT(60) DEF CampaignSucceeded, TypeOK, cells, loop, handlers, history
<1>9. QED
  BY <1>1, <1>2, <1>3, <1>4, <1>5, <1>6, <1>7, <1>8 DEF Campaign

LEMMA AnswerType ==
  ASSUME TypeOK, AnswerRequest
  PROVE  TypeOK'
<1>1. ASSUME NEW m \in msgs, ReadRequest(m) PROVE TypeOK'
  <2>1. m \in Request /\ m.dst \in Server
    BY <1>1, RequestFields DEF ReadRequest
  <2>2. msgs' \subseteq msgs
    BY <1>1, ReceivedKeeps DEF ReadRequest
  <2>3. voting' \subseteq [pc : {"read", "set"}, req : Request, myView : View]
    BY <1>1, <2>1 DEF ReadRequest, TypeOK
  <2>4. QED
    BY <1>1, <2>2, <2>3 DEF ReadRequest, TypeOK, cells, channels, loop, history
<1>2. ASSUME NEW h \in voting, AdoptView(h) PROVE TypeOK'
  <2>1. voting' \subseteq [pc : {"read", "set"}, req : Request, myView : View]
    BY <1>2, VotingFields, ZenonT(60) DEF AdoptView, TypeOK
  <2>2. view' \in [Server -> View]
    BY <1>2, VotingFields DEF AdoptView, TypeOK
  <2>3. QED
    BY <1>2, <2>1, <2>2 DEF AdoptView, TypeOK, channels, loop, history
<1>3. ASSUME NEW h \in voting, VoteRefused(h) PROVE TypeOK'
  BY <1>3 DEF VoteRefused, TypeOK, cells, channels, loop, history
<1>4. ASSUME NEW h \in voting, GiveVote(h) PROVE TypeOK'
  <2> DEFINE s == h.req.dst
             e == CommonEndorsement(h.req.src, h.req.view)
             x == [endorsement |-> e, shares |-> << >>]
             m == [type |-> "grant", src |-> s, dst |-> h.req.src, view |-> h.req.view,
                   share |-> PenSign(s, e)]
             g == [voter |-> s, endorsement |-> e, under |-> h.myView]
  <2>1. /\ s \in Server /\ h.req.src \in Candidates
        /\ h.req.view \in View /\ h.myView \in View
    BY VotingFields
  <2>2. e \in Endorsement /\ PenSign(s, e) \in Share(Endorsement)
    BY <2>1, CommonEndorsementType, PenSignType
  <2>3. << >> \in Seq(Share(Endorsement))
    OBVIOUS
  <2>4. x \in Vote
    BY <2>2, <2>3, NewVote
  <2>5. vcCache' \in [Server -> [View -> Vote]]
    BY <1>4, <2>1, <2>4 DEF GiveVote, TypeOK
  <2>6. msgs' \subseteq msgs \cup {m}
    BY <1>4, SentAdds DEF GiveVote
  <2>7. m \in Grant
    BY <2>1, <2>2 DEF Grant
  <2>8. msgs' \subseteq Request \cup Grant \cup NewView
    BY <2>6, <2>7 DEF TypeOK
  <2>9. granted' \subseteq [voter : Server, endorsement : Endorsement, under : View]
    BY <1>4, <2>1, <2>2 DEF GiveVote, TypeOK
  <2>10. endorsed' \subseteq Server \X Endorsement
    BY <1>4, <2>1, <2>2 DEF GiveVote, TypeOK
  <2>11. voting' \subseteq voting
    BY <1>4 DEF GiveVote
  <2>12. QED
    BY <1>4, <2>5, <2>8, <2>9, <2>10, <2>11 DEF GiveVote, TypeOK, channels, loop
<1>5. QED
  BY <1>1, <1>2, <1>3, <1>4 DEF AnswerRequest

(* A vote put into the cache leaves it of its type. *)
LEMMA CacheType ==
  ASSUME NEW cache \in [Server -> [View -> Vote]], NEW s \in Server, NEW v \in View, NEW x \in Vote
  PROVE  [cache EXCEPT ![s] = [cache[s] EXCEPT ![v] = x]] \in [Server -> [View -> Vote]]
OBVIOUS

LEMMA CountType ==
  ASSUME TypeOK, CountGrant
  PROVE  TypeOK'
<1>1. ASSUME NEW m \in msgs, ReadGrant(m) PROVE TypeOK'
  <2>1. m \in Grant /\ m.dst \in Server
    BY <1>1, GrantFields DEF ReadGrant
  <2>2. msgs' \subseteq msgs
    BY <1>1, ReceivedKeeps DEF ReadGrant
  <2>3. counting' \subseteq [grant : Grant, myView : View]
    BY <1>1, <2>1 DEF ReadGrant, TypeOK
  <2>4. QED
    BY <1>1, <2>2, <2>3 DEF ReadGrant, TypeOK, cells, channels, loop, history
<1>2. ASSUME NEW h \in counting, GrantDropped(h) PROVE TypeOK'
  BY <1>2, Zenon DEF GrantDropped, TypeOK, cells, channels, loop, history
<1>3. ASSUME NEW h \in counting, CountVote(h) PROVE TypeOK'
  <2> DEFINE s == h.grant.dst
             vote == vcCache[s][h.myView]
             shares == Append(vote.shares, h.grant.share)
  <2>1. s \in Server /\ h.myView \in View /\ h.grant.share \in Share(Endorsement)
    BY CountingFields
  <2>2. vote \in Vote /\ vote # NoVote /\ vote.shares \in Seq(Share(Endorsement))
    BY <1>3, <2>1, VoteFields DEF CountVote
  <2>3. shares \in Seq(Share(Endorsement))
    BY <2>1, <2>2, SMTT(60)
  <2>4. [vote EXCEPT !.shares = shares] \in Vote
    BY <2>2, <2>3, Zenon DEF Vote
  <2>5. vcCache' = [vcCache EXCEPT ![s] = [vcCache[s] EXCEPT ![h.myView] =
                                             [vote EXCEPT !.shares = shares]]]
    BY <1>3, <2>1 DEF CountVote, TypeOK
  <2>6. vcCache' \in [Server -> [View -> Vote]]
    <3>1. vcCache \in [Server -> [View -> Vote]]
      BY Zenon DEF TypeOK
    <3> HIDE DEF s, vote, shares
    <3>2. QED
      BY <2>1, <2>4, <2>5, <3>1, CacheType
  <2>7. winning' \in [Server -> [pc : {"none", "inaugurate", "notify"}, view : View]]
    BY <1>3, <2>1, Zenon DEF CountVote, TypeOK
  <2>8. cacheLock' \in [Server -> {"free", "winner", "leaked"}]
    BY <1>3, <2>1, Zenon DEF CountVote, TypeOK
  <2>9. counting' \subseteq counting
    BY <1>3 DEF CountVote
  <2>10. QED
    BY <1>3, <2>6, <2>7, <2>8, <2>9, Zenon DEF CountVote, TypeOK, channels, loop, history
<1>4. QED
  BY <1>1, <1>2, <1>3 DEF CountGrant

LEMMA AnnouncementType ==
  ASSUME TypeOK, NEW s \in Server, NEW x \in Leadership, HasRoom(s),
         inaugurations' = [inaugurations EXCEPT ![s] = Append(@, x)]
  PROVE  /\ inaugurations' \in [Server -> Seq(Leadership)]
         /\ \A t \in Server : Len(inaugurations'[t]) <= 1
<1>1. inaugurations[s] \in Seq(Leadership) /\ Len(inaugurations[s]) = 0
  BY DEF TypeOK, HasRoom
<1>2. /\ Append(inaugurations[s], x) \in Seq(Leadership)
      /\ Len(Append(inaugurations[s], x)) = 1
  BY <1>1
<1>3. inaugurations' \in [Server -> Seq(Leadership)]
  BY <1>2 DEF TypeOK
<1>4. QED
  BY <1>2, <1>3 DEF TypeOK

LEMMA WinType ==
  ASSUME TypeOK, WinnerIsBacked, NEW s \in Server, Win(s)
  PROVE  TypeOK'
<1>1. CASE Inaugurate(s)
  <2> DEFINE v == winning[s].view
             e == vcCache[s][v].endorsement
  <2>1. winning[s].pc = "inaugurate" /\ v \in View
    BY <1>1 DEF Inaugurate, TypeOK
  <2>2. e \in Endorsement /\ e[1] = s
    BY <2>1 DEF WinnerIsBacked
  <2>3. s \in Candidates
    BY <2>2 DEF Endorsement
  <2>4. [view |-> v, leader |-> s] \in Leadership
    BY <2>1 DEF Leadership
  <2>5. /\ inaugurations' \in [Server -> Seq(Leadership)]
        /\ \A t \in Server : Len(inaugurations'[t]) <= 1
    <3> DEFINE x == [view |-> v, leader |-> s]
    <3>1. HasRoom(s) /\ inaugurations' = [inaugurations EXCEPT ![s] = Append(@, x)]
      BY <1>1 DEF Inaugurate
    <3>2. x \in Leadership
      BY <2>4
    <3> HIDE DEF x
    <3>3. QED
      BY <3>1, <3>2, AnnouncementType
  <2>6. msgs' \subseteq msgs \cup ToOthers(s, "newView", v)
    BY <1>1, SentAdds DEF Inaugurate
  <2>7. ToOthers(s, "newView", v) \subseteq NewView
    BY <2>1, <2>3 DEF ToOthers, NewView
  <2>8. msgs' \subseteq Request \cup Grant \cup NewView
    BY <2>6, <2>7 DEF TypeOK
  <2>9. elected' \subseteq [leader : Candidates, view : View, endorsement : Endorsement]
    BY <1>1, <2>1, <2>2, <2>3 DEF Inaugurate, TypeOK
  <2>10. winning' \in [Server -> [pc : {"none", "inaugurate", "notify"}, view : View]]
    BY <1>1 DEF Inaugurate, TypeOK
  <2>11. QED
    BY <1>1, <2>5, <2>8, <2>9, <2>10 DEF Inaugurate, TypeOK, cells, loop
<1>2. CASE NotifySuccess(s)
  <2>1. winning' \in [Server -> [pc : {"none", "inaugurate", "notify"}, view : View]]
    BY <1>2, ViewZero DEF NotifySuccess, TypeOK, NoWinner
  <2>2. QED
    BY <1>2, <2>1 DEF NotifySuccess, TypeOK, loop, history
<1>3. QED
  BY <1>1, <1>2 DEF Win

LEMMA AdmitType ==
  ASSUME TypeOK, NEW m \in msgs, AdmitLeadership(m)
  PROVE  TypeOK'
<1>1. m.src \in Server /\ m.dst \in Server /\ m.view \in View
  BY NewViewFields DEF AdmitLeadership
<1>2. Announced(m) \in Leadership
  BY <1>1 DEF Announced, Leadership
<1>3. /\ inaugurations' \in [Server -> Seq(Leadership)]
      /\ \A t \in Server : Len(inaugurations'[t]) <= 1
  BY <1>1, <1>2, AnnouncementType DEF AdmitLeadership
<1>4. msgs' \subseteq msgs
  BY ReceivedKeeps DEF AdmitLeadership
<1>5. QED
  BY <1>3, <1>4 DEF AdmitLeadership, TypeOK, cells, loop, handlers, history

(* The inauguration that start() takes. *)
LEMMA Taken ==
  ASSUME TypeOK, NEW s \in Server, TakeInauguration(s)
  PROVE  /\ inaugurations[s][1] \in Leadership
         /\ 1 \in DOMAIN inaugurations[s]
         /\ inaugurations' = [inaugurations EXCEPT ![s] = << >>]
<1>1. inaugurations[s] \in Seq(Leadership) /\ Len(inaugurations[s]) <= 1
  BY DEF TypeOK
<1>2. inaugurations[s] # << >>
  BY DEF TakeInauguration
<1>3. Len(inaugurations[s]) = 1
  <2>1. Len(inaugurations[s]) \in Nat \ {0}
    BY <1>1, <1>2, EmptySeq
  <2>2. \A n \in Nat \ {0} : n <= 1 => n = 1
    OBVIOUS
  <2>3. QED
    BY <1>1, <2>1, <2>2
<1>4. /\ Tail(inaugurations[s]) \in Seq(Leadership)
      /\ Len(Tail(inaugurations[s])) = 0
  BY <1>1, <1>2, <1>3, HeadTailProperties
<1>5. Tail(inaugurations[s]) = << >>
  BY <1>4, EmptySeq
<1>6. inaugurations' = [inaugurations EXCEPT ![s] = << >>]
  BY <1>5 DEF TakeInauguration
<1>7. QED
  BY <1>1, <1>3, <1>6

LEMMA RoleLoopType ==
  ASSUME TypeOK, NEW s \in Server, RoleLoop(s)
  PROVE  TypeOK'
<1>1. CASE Boot(s)
  BY <1>1, ElectionAssumption DEF Boot, TypeOK, cells, channels, handlers, history
<1>2. ASSUME TakeInauguration(s)
      PROVE  /\ inaugurations' \in [Server -> Seq(Leadership)]
             /\ \A t \in Server : Len(inaugurations'[t]) <= 1
             /\ inaugurations[s][1].leader \in Server
  <2>1. << >> \in Seq(Leadership) /\ Len(<< >>) = 0
    OBVIOUS
  <2>2. /\ inaugurations[s][1] \in Leadership
        /\ inaugurations' = [inaugurations EXCEPT ![s] = << >>]
    BY <1>2, Taken
  <2>3. inaugurations' \in [Server -> Seq(Leadership)]
    BY <2>1, <2>2 DEF TypeOK
  <2>4. \A t \in Server : Len(inaugurations'[t]) <= 1
    BY <2>1, <2>2 DEF TypeOK
  <2>5. QED
    BY <2>2, <2>3, <2>4 DEF Leadership
<1>3. CASE StartLeaderService(s)
  BY <1>2, <1>3 DEF StartLeaderService, TypeOK, cells, handlers, history
<1>4. CASE IgnoreInauguration(s)
  BY <1>2, <1>4 DEF IgnoreInauguration, TypeOK, cells, loop, handlers, history
<1>5. CASE FollowLeader(s)
  BY <1>2, <1>5 DEF FollowLeader, TypeOK, cells, handlers, history
<1>6. CASE FindAnotherLeader(s)
  BY <1>2, <1>6 DEF FindAnotherLeader, TypeOK, cells, handlers, history
<1>7. CASE AbortCampaign(s)
  BY <1>7 DEF AbortCampaign, TypeOK, cells, handlers, history
<1>8. CASE BackToWorker(s)
  BY <1>8 DEF BackToWorker, TypeOK, channels, handlers, history
<1>9. QED
  BY <1>1, <1>3, <1>4, <1>5, <1>6, <1>7, <1>8 DEF RoleLoop

LEMMA TypeStutter ==
  ASSUME TypeOK, UNCHANGED vars
  PROVE  TypeOK'
BY DEF vars, cells, channels, loop, handlers, history, TypeOK

LEMMA TypeStep ==
  ASSUME TypeOK, CampaignsAreOfCandidates, WinnerIsBacked, [Next]_vars
  PROVE  TypeOK'
BY CampaignType, AnswerType, CountType, WinType, AdmitType, RoleLoopType, TypeStutter DEF Next

-----------------------------------------------------------------------------
(* Which steps change what. *)
LEMMA MessagesChange ==
  ASSUME [Next]_vars
  PROVE  \/ msgs' \subseteq msgs
         \/ \E s \in Server : RequestVotes(s) \/ Inaugurate(s)
         \/ \E h \in voting : GiveVote(h)
BY ZenonT(60) DEF Next, vars, cells, channels, loop, handlers, history, Campaign,
     StartCampaign, PenaltyFails, BecomeNominee, RequestRefused,
     CampaignAborted, CampaignTimedOut, CampaignSucceeded, AnswerRequest,
     ReadRequest, AdoptView, VoteRefused, CountGrant, ReadGrant,
     GrantDropped, CountVote, Win, NotifySuccess, AdmitLeadership,
     RoleLoop, Boot, StartLeaderService, IgnoreInauguration, FollowLeader,
     FindAnotherLeader, AbortCampaign, BackToWorker, Received

LEMMA VotingChanges ==
  ASSUME [Next]_vars
  PROVE  \/ voting' \subseteq voting
         \/ \E m \in msgs : ReadRequest(m)
         \/ \E h \in voting : AdoptView(h)
BY ZenonT(60) DEF Next, vars, cells, channels, loop, handlers, history, Campaign,
     StartCampaign, PenaltyFails, BecomeNominee, RequestRefused,
     RequestVotes, CampaignAborted, CampaignTimedOut, CampaignSucceeded,
     AnswerRequest, VoteRefused, GiveVote, CountGrant, ReadGrant,
     GrantDropped, CountVote, Win, Inaugurate, NotifySuccess,
     AdmitLeadership, RoleLoop, Boot, StartLeaderService,
     IgnoreInauguration, FollowLeader, FindAnotherLeader, AbortCampaign,
     BackToWorker

LEMMA CountingChanges ==
  ASSUME [Next]_vars
  PROVE  \/ counting' \subseteq counting
         \/ \E m \in msgs : ReadGrant(m)
BY ZenonT(60) DEF Next, vars, cells, channels, loop, handlers, history, Campaign,
     StartCampaign, PenaltyFails, BecomeNominee, RequestRefused,
     RequestVotes, CampaignAborted, CampaignTimedOut, CampaignSucceeded,
     AnswerRequest, ReadRequest, AdoptView, VoteRefused, GiveVote,
     CountGrant, GrantDropped, CountVote, Win, Inaugurate, NotifySuccess,
     AdmitLeadership, RoleLoop, Boot, StartLeaderService,
     IgnoreInauguration, FollowLeader, FindAnotherLeader, AbortCampaign,
     BackToWorker

LEMMA CacheChanges ==
  ASSUME [Next]_vars
  PROVE  \/ UNCHANGED vcCache
         \/ \E s \in Server : RequestVotes(s)
         \/ \E h \in voting : GiveVote(h)
         \/ \E h \in counting : CountVote(h)
BY ZenonT(60) DEF Next, vars, cells, channels, loop, handlers, history, Campaign,
     StartCampaign, PenaltyFails, BecomeNominee, RequestRefused,
     CampaignAborted, CampaignTimedOut, CampaignSucceeded, AnswerRequest,
     ReadRequest, AdoptView, VoteRefused, CountGrant, ReadGrant,
     GrantDropped, Win, Inaugurate, NotifySuccess, AdmitLeadership,
     RoleLoop, Boot, StartLeaderService, IgnoreInauguration, FollowLeader,
     FindAnotherLeader, AbortCampaign, BackToWorker

LEMMA LockChanges ==
  ASSUME [Next]_vars
  PROVE  \/ UNCHANGED cacheLock
         \/ \E s \in Server : RequestRefused(s) \/ NotifySuccess(s)
         \/ \E h \in counting : CountVote(h)
BY ZenonT(60) DEF Next, vars, cells, channels, loop, handlers, history, Campaign,
     StartCampaign, PenaltyFails, BecomeNominee, RequestVotes,
     CampaignAborted, CampaignTimedOut, CampaignSucceeded, AnswerRequest,
     ReadRequest, AdoptView, VoteRefused, GiveVote, CountGrant, ReadGrant,
     GrantDropped, Win, Inaugurate, AdmitLeadership, RoleLoop, Boot,
     StartLeaderService, IgnoreInauguration, FollowLeader,
     FindAnotherLeader, AbortCampaign, BackToWorker

LEMMA WinningChanges ==
  ASSUME [Next]_vars
  PROVE  \/ UNCHANGED winning
         \/ \E s \in Server : Inaugurate(s) \/ NotifySuccess(s)
         \/ \E h \in counting : CountVote(h)
BY ZenonT(60) DEF Next, vars, cells, channels, loop, handlers, history, Campaign,
     StartCampaign, PenaltyFails, BecomeNominee, RequestRefused,
     RequestVotes, CampaignAborted, CampaignTimedOut, CampaignSucceeded,
     AnswerRequest, ReadRequest, AdoptView, VoteRefused, GiveVote,
     CountGrant, ReadGrant, GrantDropped, Win, AdmitLeadership, RoleLoop,
     Boot, StartLeaderService, IgnoreInauguration, FollowLeader,
     FindAnotherLeader, AbortCampaign, BackToWorker

LEMMA CampaignChanges ==
  ASSUME [Next]_vars
  PROVE  \/ UNCHANGED campaign
         \/ \E s \in Server : Campaign(s)
BY ZenonT(60) DEF Next, vars, cells, channels, loop, handlers, history,
     StartCampaign, PenaltyFails, BecomeNominee, RequestRefused,
     RequestVotes, CampaignAborted, CampaignTimedOut, CampaignSucceeded,
     AnswerRequest, ReadRequest, AdoptView, VoteRefused, GiveVote,
     CountGrant, ReadGrant, GrantDropped, CountVote, Win, Inaugurate,
     NotifySuccess, AdmitLeadership, RoleLoop, Boot, StartLeaderService,
     IgnoreInauguration, FollowLeader, FindAnotherLeader, AbortCampaign,
     BackToWorker

LEMMA ViewChanges ==
  ASSUME [Next]_vars
  PROVE  \/ UNCHANGED view
         \/ \E s \in Server : BecomeNominee(s)
         \/ \E h \in voting : AdoptView(h)
BY ZenonT(60) DEF Next, vars, cells, channels, loop, handlers, history, Campaign,
     StartCampaign, PenaltyFails, RequestRefused, RequestVotes,
     CampaignAborted, CampaignTimedOut, CampaignSucceeded, AnswerRequest,
     ReadRequest, VoteRefused, GiveVote, CountGrant, ReadGrant,
     GrantDropped, CountVote, Win, Inaugurate, NotifySuccess,
     AdmitLeadership, RoleLoop, Boot, StartLeaderService,
     IgnoreInauguration, FollowLeader, FindAnotherLeader, AbortCampaign,
     BackToWorker

LEMMA InaugurationsChange ==
  ASSUME [Next]_vars
  PROVE  \/ UNCHANGED inaugurations
         \/ \E s \in Server : Inaugurate(s) \/ TakeInauguration(s)
         \/ \E m \in msgs : AdmitLeadership(m)
BY ZenonT(60) DEF Next, vars, cells, channels, loop, handlers, history, Campaign,
     StartCampaign, PenaltyFails, BecomeNominee, RequestRefused,
     RequestVotes, CampaignAborted, CampaignTimedOut, CampaignSucceeded,
     AnswerRequest, ReadRequest, AdoptView, VoteRefused, GiveVote,
     CountGrant, ReadGrant, GrantDropped, CountVote, Win, NotifySuccess,
     RoleLoop, Boot, StartLeaderService, IgnoreInauguration, FollowLeader,
     FindAnotherLeader, AbortCampaign, BackToWorker

LEMMA LoopChanges ==
  ASSUME [Next]_vars
  PROVE  \/ UNCHANGED <<running, coordinator, serving>>
         \/ \E s \in Server : Boot(s) \/ StartLeaderService(s) \/ FollowLeader(s)
BY ZenonT(60) DEF Next, vars, cells, channels, loop, handlers, history, Campaign,
     StartCampaign, PenaltyFails, BecomeNominee, RequestRefused,
     RequestVotes, CampaignAborted, CampaignTimedOut, CampaignSucceeded,
     AnswerRequest, ReadRequest, AdoptView, VoteRefused, GiveVote,
     CountGrant, ReadGrant, GrantDropped, CountVote, Win, Inaugurate,
     NotifySuccess, AdmitLeadership, RoleLoop, IgnoreInauguration,
     FindAnotherLeader, AbortCampaign, BackToWorker

LEMMA ElectedChanges ==
  ASSUME [Next]_vars
  PROVE  \/ UNCHANGED elected
         \/ \E s \in Server : Inaugurate(s)
BY ZenonT(60) DEF Next, vars, cells, channels, loop, handlers, history, Campaign,
     StartCampaign, PenaltyFails, BecomeNominee, RequestRefused,
     RequestVotes, CampaignAborted, CampaignTimedOut, CampaignSucceeded,
     AnswerRequest, ReadRequest, AdoptView, VoteRefused, GiveVote,
     CountGrant, ReadGrant, GrantDropped, CountVote, Win, NotifySuccess,
     AdmitLeadership, RoleLoop, Boot, StartLeaderService,
     IgnoreInauguration, FollowLeader, FindAnotherLeader, AbortCampaign,
     BackToWorker

LEMMA GrantedChanges ==
  ASSUME [Next]_vars
  PROVE  \/ UNCHANGED granted
         \/ \E h \in voting : GiveVote(h)
BY ZenonT(60) DEF Next, vars, cells, channels, loop, handlers, history, Campaign,
     StartCampaign, PenaltyFails, BecomeNominee, RequestRefused,
     RequestVotes, CampaignAborted, CampaignTimedOut, CampaignSucceeded,
     AnswerRequest, ReadRequest, AdoptView, VoteRefused, CountGrant,
     ReadGrant, GrantDropped, CountVote, Win, Inaugurate, NotifySuccess,
     AdmitLeadership, RoleLoop, Boot, StartLeaderService,
     IgnoreInauguration, FollowLeader, FindAnotherLeader, AbortCampaign,
     BackToWorker

LEMMA HistoryGrows ==
  ASSUME [Next]_vars
  PROVE  endorsed \subseteq endorsed' /\ elected \subseteq elected'
BY ZenonT(60) DEF Next, vars, cells, channels, loop, handlers, history, Campaign,
     StartCampaign, PenaltyFails, BecomeNominee, RequestRefused,
     RequestVotes, CampaignAborted, CampaignTimedOut, CampaignSucceeded,
     AnswerRequest, ReadRequest, AdoptView, VoteRefused, GiveVote,
     CountGrant, ReadGrant, GrantDropped, CountVote, Win, Inaugurate,
     NotifySuccess, AdmitLeadership, RoleLoop, Boot, StartLeaderService,
     IgnoreInauguration, FollowLeader, FindAnotherLeader, AbortCampaign,
     BackToWorker

LEMMA PromiseChanges ==
  ASSUME [Next]_vars
  PROVE  \/ UNCHANGED <<endorsed, elected, running, coordinator, serving>>
         \/ \E s \in Server : RequestVotes(s) \/ Inaugurate(s)
         \/ \E s \in Server : Boot(s) \/ StartLeaderService(s) \/ FollowLeader(s)
         \/ \E h \in voting : GiveVote(h)
BY ZenonT(60) DEF Next, vars, cells, channels, loop, handlers, history, Campaign,
     StartCampaign, PenaltyFails, BecomeNominee, RequestRefused,
     CampaignAborted, CampaignTimedOut, CampaignSucceeded, AnswerRequest,
     ReadRequest, AdoptView, VoteRefused, CountGrant, ReadGrant,
     GrantDropped, CountVote, Win, NotifySuccess, AdmitLeadership, RoleLoop,
     IgnoreInauguration, FindAnotherLeader, AbortCampaign, BackToWorker

LEMMA SuccessChanges ==
  ASSUME [Next]_vars
  PROVE  \/ UNCHANGED succeeded
         \/ \E s \in Server : CampaignSucceeded(s) \/ NotifySuccess(s)
BY ZenonT(60) DEF Next, vars, cells, channels, loop, handlers, history, Campaign,
     StartCampaign, PenaltyFails, BecomeNominee, RequestRefused,
     RequestVotes, CampaignAborted, CampaignTimedOut,
     AnswerRequest, ReadRequest, AdoptView, VoteRefused, GiveVote,
     CountGrant, ReadGrant, GrantDropped, CountVote, Win, Inaugurate,
     AdmitLeadership, RoleLoop, Boot, StartLeaderService,
     IgnoreInauguration, FollowLeader, FindAnotherLeader, AbortCampaign,
     BackToWorker

(* What happens to a cached vote; it happens under the lock. *)
LEMMA CachedVoteChanges ==
  ASSUME TypeOK, [Next]_vars, NEW s \in Server, NEW v \in View
  PROVE  \/ vcCache'[s][v] = vcCache[s][v]
         \/ /\ RequestVotes(s) /\ v = view[s]
            /\ vcCache'[s][v] =
                 [endorsement |-> CommonEndorsement(s, campaign[s].view),
                  shares |-> <<PenSign(s, CommonEndorsement(s, campaign[s].view))>>]
         \/ \E h \in voting :
              /\ GiveVote(h) /\ s = h.req.dst /\ v = h.myView
              /\ vcCache[s][v] = NoVote
              /\ vcCache'[s][v] =
                   [endorsement |-> CommonEndorsement(h.req.src, h.req.view),
                    shares |-> << >>]
         \/ \E h \in counting :
              /\ CountVote(h) /\ s = h.grant.dst /\ v = h.myView
              /\ vcCache[s][v] # NoVote /\ Len(vcCache[s][v].shares) < Quorum
              /\ vcCache'[s][v].endorsement = vcCache[s][v].endorsement
              /\ vcCache'[s][v].shares = Append(vcCache[s][v].shares, h.grant.share)
<1>0. vcCache \in [Server -> [View -> Vote]] /\ view \in [Server -> View]
  BY DEF TypeOK
<1>1. CASE UNCHANGED vcCache
  BY <1>1
<1>2. ASSUME NEW t \in Server, RequestVotes(t)
      PROVE  \/ vcCache'[s][v] = vcCache[s][v]
             \/ /\ RequestVotes(s) /\ v = view[s]
                /\ vcCache'[s][v] =
                     [endorsement |-> CommonEndorsement(s, campaign[s].view),
                      shares |-> <<PenSign(s, CommonEndorsement(s, campaign[s].view))>>]
  <2> DEFINE e == CommonEndorsement(t, campaign[t].view)
             x == [endorsement |-> e, shares |-> <<PenSign(t, e)>>]
  <2>1. vcCache' = [vcCache EXCEPT ![t][view[t]] = x]
    BY <1>2 DEF RequestVotes
  <2> HIDE DEF x
  <2>2. CASE t = s /\ v = view[s]
    <3>1. vcCache'[s][v] = x
      BY <1>0, <2>1, <2>2
    <3>2. QED
      BY <1>2, <2>2, <3>1 DEF x
  <2>3. CASE ~(t = s /\ v = view[s])
    BY <1>0, <2>1, <2>3
  <2>4. QED
    BY <2>2, <2>3
<1>3. ASSUME NEW h \in voting, GiveVote(h)
      PROVE  \/ vcCache'[s][v] = vcCache[s][v]
             \/ /\ s = h.req.dst /\ v = h.myView
                /\ vcCache[s][v] = NoVote
                /\ vcCache'[s][v] =
                     [endorsement |-> CommonEndorsement(h.req.src, h.req.view),
                      shares |-> << >>]
  <2> DEFINE x == [endorsement |-> CommonEndorsement(h.req.src, h.req.view),
                   shares |-> << >>]
  <2>1. /\ vcCache' = [vcCache EXCEPT ![h.req.dst][h.myView] = x]
        /\ vcCache[h.req.dst][h.myView] = NoVote
    BY <1>3 DEF GiveVote, AlreadyVoted
  <2> HIDE DEF x
  <2>2. CASE s = h.req.dst /\ v = h.myView
    <3>1. vcCache'[s][v] = x /\ vcCache[s][v] = NoVote
      BY <1>0, <2>1, <2>2
    <3>2. QED
      BY <2>2, <3>1 DEF x
  <2>3. CASE ~(s = h.req.dst /\ v = h.myView)
    BY <1>0, <2>1, <2>3
  <2>4. QED
    BY <2>2, <2>3
<1>4. ASSUME NEW h \in counting, CountVote(h)
      PROVE  \/ vcCache'[s][v] = vcCache[s][v]
             \/ /\ s = h.grant.dst /\ v = h.myView
                /\ vcCache[s][v] # NoVote /\ Len(vcCache[s][v].shares) < Quorum
                /\ vcCache'[s][v].endorsement = vcCache[s][v].endorsement
                /\ vcCache'[s][v].shares = Append(vcCache[s][v].shares, h.grant.share)
  <2> DEFINE t == h.grant.dst
             x == Append(vcCache[t][h.myView].shares, h.grant.share)
  <2>1. /\ vcCache' = [vcCache EXCEPT ![t][h.myView].shares = x]
        /\ vcCache[t][h.myView] # NoVote /\ Len(vcCache[t][h.myView].shares) < Quorum
    BY <1>4 DEF CountVote
  <2> HIDE DEF x
  <2>2. CASE s = t /\ v = h.myView
    <3>1. vcCache[s][v] \in [endorsement : Endorsement, shares : Seq(Share(Endorsement))]
      BY <1>0, <2>1, <2>2, Zenon DEF Vote
    <3>2. vcCache'[s][v] = [vcCache[s][v] EXCEPT !.shares = x]
      BY <1>0, <2>1, <2>2
    <3>3. /\ vcCache'[s][v].endorsement = vcCache[s][v].endorsement
          /\ vcCache'[s][v].shares = x
      BY <3>1, <3>2, Zenon
    <3>4. QED
      BY <2>1, <2>2, <3>3, Zenon DEF x
  <2>3. CASE ~(s = t /\ v = h.myView)
    BY <1>0, <2>1, <2>3
  <2>4. QED
    BY <2>2, <2>3, Zenon
<1>5. QED
  BY <1>1, <1>2, <1>3, <1>4, CacheChanges

(* New datagrams. *)
LEMMA NewGrant ==
  ASSUME TypeOK, [Next]_vars, NEW m \in msgs', m \notin msgs, m.type = "grant"
  PROVE  \E h \in voting :
           /\ GiveVote(h)
           /\ m = [type |-> "grant", src |-> h.req.dst, dst |-> h.req.src,
                   view |-> h.req.view,
                   share |-> PenSign(h.req.dst, CommonEndorsement(h.req.src, h.req.view))]
<1>1. ASSUME NEW s \in Server, RequestVotes(s) PROVE FALSE
  <2>1. m \in ToOthers(s, "voteMe", campaign[s].view)
    BY <1>1, SentAdds DEF RequestVotes
  <2>2. QED
    BY <2>1, ToOthersFields
<1>2. ASSUME NEW s \in Server, Inaugurate(s) PROVE FALSE
  <2>1. m \in ToOthers(s, "newView", winning[s].view)
    BY <1>2, SentAdds DEF Inaugurate
  <2>2. QED
    BY <2>1, ToOthersFields
<1>3. PICK h \in voting : GiveVote(h)
  BY <1>1, <1>2, MessagesChange
<1> DEFINE D == {[type |-> "grant", src |-> h.req.dst, dst |-> h.req.src,
                  view |-> h.req.view,
                  share |-> PenSign(h.req.dst, CommonEndorsement(h.req.src, h.req.view))]}
<1>4. msgs' \subseteq msgs \cup D
  BY <1>3, SentAdds DEF GiveVote
<1>5. QED
  BY <1>3, <1>4

LEMMA NewRequest ==
  ASSUME TypeOK, [Next]_vars, NEW m \in msgs', m \notin msgs, m.type = "voteMe"
  PROVE  \E s \in Server :
           /\ RequestVotes(s)
           /\ m.src = s /\ m.dst \in Server \ {s} /\ m.view = campaign[s].view
<1>1. ASSUME NEW h \in voting, GiveVote(h) PROVE FALSE
  <2> DEFINE D == {[type |-> "grant", src |-> h.req.dst, dst |-> h.req.src,
                    view |-> h.req.view,
                    share |-> PenSign(h.req.dst, CommonEndorsement(h.req.src, h.req.view))]}
  <2>1. msgs' \subseteq msgs \cup D
    BY <1>1, SentAdds DEF GiveVote
  <2>2. m.type = "grant"
    BY <2>1
  <2>3. QED
    BY <2>2
<1>2. ASSUME NEW s \in Server, Inaugurate(s) PROVE FALSE
  <2>1. m \in ToOthers(s, "newView", winning[s].view)
    BY <1>2, SentAdds DEF Inaugurate
  <2>2. QED
    BY <2>1, ToOthersFields
<1>3. PICK s \in Server : RequestVotes(s)
  BY <1>1, <1>2, MessagesChange
<1>4. m \in ToOthers(s, "voteMe", campaign[s].view)
  BY <1>3, SentAdds DEF RequestVotes
<1>5. QED
  BY <1>3, <1>4, ToOthersFields

LEMMA NewAnnouncement ==
  ASSUME TypeOK, [Next]_vars, NEW m \in msgs', m \notin msgs, m.type = "newView"
  PROVE  \E s \in Server : Inaugurate(s) /\ m.src = s
<1>1. ASSUME NEW h \in voting, GiveVote(h) PROVE FALSE
  <2> DEFINE D == {[type |-> "grant", src |-> h.req.dst, dst |-> h.req.src,
                    view |-> h.req.view,
                    share |-> PenSign(h.req.dst, CommonEndorsement(h.req.src, h.req.view))]}
  <2>1. msgs' \subseteq msgs \cup D
    BY <1>1, SentAdds DEF GiveVote
  <2>2. m.type = "grant"
    BY <2>1
  <2>3. QED
    BY <2>2
<1>2. ASSUME NEW s \in Server, RequestVotes(s) PROVE FALSE
  <2>1. m \in ToOthers(s, "voteMe", campaign[s].view)
    BY <1>2, SentAdds DEF RequestVotes
  <2>2. QED
    BY <2>1, ToOthersFields
<1>3. PICK s \in Server : Inaugurate(s)
  BY <1>1, <1>2, MessagesChange
<1>4. m \in ToOthers(s, "newView", winning[s].view)
  BY <1>3, SentAdds DEF Inaugurate
<1>5. QED
  BY <1>3, <1>4, ToOthersFields

(* Votes that are read, and that are counted. *)
LEMMA NewCounting ==
  ASSUME [Next]_vars, NEW h \in counting', h \notin counting
  PROVE  \E m \in msgs : ReadGrant(m) /\ ~StaleGrant(m)
                           /\ h = [grant |-> m, myView |-> view[m.dst]]
<1>1. PICK m \in msgs : ReadGrant(m)
  BY CountingChanges
<1>2. QED
  BY <1>1 DEF ReadGrant

-----------------------------------------------------------------------------
(* Shares and who made them. *)
LEMMA ShareStays ==
  ASSUME NEW x, ShareIsBacked(x), endorsed \subseteq endorsed'
  PROVE  ShareIsBacked(x)'
BY DEF ShareIsBacked

LEMMA MadeShareIsBacked ==
  ASSUME NEW s, NEW e, <<s, e>> \in endorsed'
  PROVE  ShareIsBacked(PenSign(s, e))'
BY PenSignFields DEF ShareIsBacked

LEMMA EndorsersStay ==
  ASSUME NEW e, NEW n \in Nat, Cardinality(Endorsers(e)) >= n, endorsed \subseteq endorsed'
  PROVE  Cardinality(Endorsers(e))' >= n
<1>1. Endorsers(e) \subseteq Endorsers(e)' /\ Endorsers(e)' \subseteq Server
  BY DEF Endorsers
<1>2. IsFiniteSet(Endorsers(e)')
  BY <1>1, FS_Subset, ServerAssumption
<1>3. IsFiniteSet(Endorsers(e)) /\ Cardinality(Endorsers(e)) <= Cardinality(Endorsers(e)')
  BY <1>1, <1>2, FS_Subset
<1>4. Cardinality(Endorsers(e)) \in Nat /\ Cardinality(Endorsers(e)') \in Nat
  BY <1>2, <1>3, FS_CardinalityType
<1>5. QED
  BY <1>3, <1>4

(* A certificate that is recovered from backed shares has a threshold of    *)
(* servers behind it.                                                       *)
LEMMA RecoveredIsBacked ==
  ASSUME NEW e \in Endorsement, NEW shares \in Seq(Share(Endorsement)),
         \A i \in DOMAIN shares : ShareIsBacked(shares[i]),
         PenRecovers(shares, e)
  PROVE  Cardinality(Endorsers(e)) >= Threshold
<1>1. 1..Threshold \subseteq DOMAIN shares
  BY QuorumValues DEF PenRecovers
<1>2. ASSUME NEW i \in 1..Threshold PROVE shares[i].signer \in Endorsers(e)
  <2>1. shares[i] \in Share(Endorsement)
    BY <1>1
  <2>2. shares[i].signer \in Server
    BY <2>1 DEF Share
  <2>3. shares[i].msg = e /\ e # NoHash
    BY ElectionAssumption DEF PenRecovers
  <2>4. ShareIsBacked(shares[i])
    BY <1>1
  <2>5. QED
    BY <2>2, <2>3, <2>4 DEF ShareIsBacked, Endorsers
<1>3. \A i, j \in 1..Threshold : shares[i].signer = shares[j].signer => i = j
  BY DEF PenRecovers
<1>4. Endorsers(e) \in SUBSET Server
  BY DEF Endorsers
<1>5. QED
  BY <1>2, <1>3, <1>4, QuorumValues, CountSigners

LEMMA CampaignsStep ==
  ASSUME TypeOK, CampaignsAreOfCandidates, [Next]_vars
  PROVE  CampaignsAreOfCandidates'
<1>1. CASE UNCHANGED campaign
  BY <1>1 DEF CampaignsAreOfCandidates
<1>2. ASSUME NEW s \in Server, Campaign(s) PROVE CampaignsAreOfCandidates'
  <2>1. s \in Candidates
    BY <1>2 DEF Campaign, StartCampaign, PenaltyFails, BecomeNominee, RequestRefused,
                RequestVotes, CampaignAborted, CampaignTimedOut, CampaignSucceeded,
                CampaignsAreOfCandidates
  <2>2. \A t \in Server \ {s} : campaign'[t] = campaign[t]
    BY <1>2 DEF Campaign, StartCampaign, PenaltyFails, BecomeNominee, RequestRefused,
                RequestVotes, CampaignAborted, CampaignTimedOut, CampaignSucceeded, TypeOK
  <2>3. QED
    BY <2>1, <2>2 DEF CampaignsAreOfCandidates
<1>3. QED
  BY <1>1, <1>2, CampaignChanges

LEMMA GrantsStep ==
  ASSUME TypeOK, GrantsAreBacked, [Next]_vars
  PROVE  GrantsAreBacked'
<1>0. endorsed \subseteq endorsed'
  BY HistoryGrows
<1>1. ASSUME NEW m, GrantIsBacked(m) PROVE GrantIsBacked(m)'
  BY <1>0, <1>1, ShareStays DEF GrantIsBacked
<1>2. ASSUME NEW m \in msgs', m.type = "grant" PROVE GrantIsBacked(m)'
  <2>1. CASE m \in msgs
    BY <1>1, <1>2, <2>1 DEF GrantsAreBacked
  <2>2. CASE m \notin msgs
    <3>1. PICK h \in voting :
            /\ GiveVote(h)
            /\ m = [type |-> "grant", src |-> h.req.dst, dst |-> h.req.src,
                    view |-> h.req.view,
                    share |-> PenSign(h.req.dst, CommonEndorsement(h.req.src, h.req.view))]
      BY <1>2, <2>2, NewGrant
    <3> DEFINE e == CommonEndorsement(h.req.src, h.req.view)
    <3>2. /\ m.src = h.req.dst /\ m.dst = h.req.src /\ m.view = h.req.view
          /\ m.share = PenSign(h.req.dst, e)
      BY <3>1
    <3>3. <<h.req.dst, e>> \in endorsed'
      BY <3>1 DEF GiveVote
    <3>4. m.share.signer = m.src /\ m.share.msg \in {NoHash, CommonEndorsement(m.dst, m.view)}
      BY <3>2, PenSignFields
    <3> HIDE DEF e
    <3>5. ShareIsBacked(m.share)'
      BY <3>2, <3>3, MadeShareIsBacked
    <3>6. QED
      BY <3>4, <3>5 DEF GrantIsBacked
  <2>3. QED
    BY <2>1, <2>2
<1>3. ASSUME NEW h \in counting' PROVE GrantIsBacked(h.grant)'
  <2>1. CASE h \in counting
    BY <1>1, <2>1 DEF GrantsAreBacked
  <2>2. CASE h \notin counting
    <3>1. PICK m \in msgs : ReadGrant(m) /\ h = [grant |-> m, myView |-> view[m.dst]]
      BY <2>2, NewCounting
    <3>2. m.type = "grant" /\ h.grant = m
      BY <3>1 DEF ReadGrant
    <3>3. QED
      BY <1>1, <3>2 DEF GrantsAreBacked
  <2>3. QED
    BY <2>1, <2>2
<1>4. QED
  BY <1>2, <1>3 DEF GrantsAreBacked

(* An appended share. *)
LEMMA AppendedShares ==
  ASSUME NEW T, NEW q \in Seq(T), NEW x \in T
  PROVE  /\ Append(q, x) \in Seq(T) /\ Len(Append(q, x)) = Len(q) + 1
         /\ DOMAIN Append(q, x) = DOMAIN q \cup {Len(q) + 1}
         /\ \A i \in DOMAIN q : Append(q, x)[i] = q[i]
         /\ Append(q, x)[Len(q) + 1] = x
         /\ Len(q) + 1 \notin DOMAIN q
OBVIOUS

(* A share that brings a grant to s is about a campaign of s. *)
LEMMA GrantIsForCandidate ==
  ASSUME NEW m, GrantIsBacked(m), m.share.msg # NoHash
  PROVE  m.share.msg[1] = m.dst
BY SMTT(60) DEF GrantIsBacked, CommonEndorsement

LEMMA CachedSharesStep ==
  ASSUME TypeOK, GrantsAreBacked, CachedSharesAreBacked, [Next]_vars
  PROVE  CachedSharesAreBacked'
<1>0. endorsed \subseteq endorsed'
  BY HistoryGrows
<1> SUFFICES ASSUME NEW s \in Server, NEW v \in View,
                    NEW i \in DOMAIN vcCache'[s][v].shares,
                    NEW x, x = vcCache'[s][v].shares[i]
             PROVE  ShareIsBacked(x)' /\ (x.msg # NoHash => x.msg[1] = s)
  BY DEF CachedSharesAreBacked
<1>1. ASSUME NEW j \in DOMAIN vcCache[s][v].shares, x = vcCache[s][v].shares[j]
      PROVE  ShareIsBacked(x)' /\ (x.msg # NoHash => x.msg[1] = s)
  <2>1. ShareIsBacked(x) /\ (x.msg # NoHash => x.msg[1] = s)
    BY <1>1 DEF CachedSharesAreBacked
  <2>2. QED
    BY <1>0, <2>1, ShareStays
<1>2. CASE vcCache'[s][v] = vcCache[s][v]
  BY <1>1, <1>2
<1>3. CASE /\ RequestVotes(s) /\ v = view[s]
           /\ vcCache'[s][v] =
                [endorsement |-> CommonEndorsement(s, campaign[s].view),
                 shares |-> <<PenSign(s, CommonEndorsement(s, campaign[s].view))>>]
  <2>1. PICK e : e = CommonEndorsement(s, campaign[s].view)
    OBVIOUS
  <2>2. vcCache'[s][v].shares = <<PenSign(s, e)>>
    BY <1>3, <2>1
  <2>3. x = PenSign(s, e)
    BY <2>2
  <2>4. <<s, e>> \in endorsed'
    BY <1>3, <2>1 DEF RequestVotes
  <2>5. e[1] = s
    BY <2>1 DEF CommonEndorsement
  <2>6. ShareIsBacked(x)'
    BY <2>3, <2>4, MadeShareIsBacked
  <2>7. x.msg # NoHash => x.msg = e
    BY <2>3, PenSignFields
  <2>8. QED
    BY <2>5, <2>6, <2>7
<1>4. ASSUME NEW h \in voting,
             vcCache'[s][v] = [endorsement |-> CommonEndorsement(h.req.src, h.req.view),
                               shares |-> << >>]
      PROVE  FALSE
  BY <1>4, SMTT(60)
<1>5. ASSUME NEW h \in counting, CountVote(h), s = h.grant.dst,
             vcCache'[s][v].shares = Append(vcCache[s][v].shares, h.grant.share)
      PROVE  ShareIsBacked(x)' /\ (x.msg # NoHash => x.msg[1] = s)
  <2>1. PICK old, y : old = vcCache[s][v].shares /\ y = h.grant.share
    OBVIOUS
  <2>2. old \in Seq(Share(Endorsement)) /\ y \in Share(Endorsement)
    BY <2>1, VoteFields, CountingFields
  <2>3. CASE x = y
    <3>1. GrantIsBacked(h.grant)
      BY DEF GrantsAreBacked
    <3>2. ShareIsBacked(x)
      BY <2>1, <2>3, <3>1 DEF GrantIsBacked
    <3>3. QED
      BY <1>0, <1>5, <2>1, <2>3, <3>1, <3>2, ShareStays, GrantIsForCandidate, Zenon
  <2>4. /\ DOMAIN Append(old, y) = DOMAIN old \cup {Len(old) + 1}
        /\ \A j \in DOMAIN old : Append(old, y)[j] = old[j]
        /\ Append(old, y)[Len(old) + 1] = y
    BY <2>2, AppendedShares
  <2>5. i \in DOMAIN Append(old, y) /\ x = Append(old, y)[i]
    BY <1>5, <2>1, Zenon
  <2>6. QED
    BY <1>1, <2>1, <2>3, <2>4, <2>5
<1>6. QED
  BY <1>2, <1>3, <1>4, <1>5, CachedVoteChanges

-----------------------------------------------------------------------------
(* The winner and its certificate. *)
LEMMA LockStep ==
  ASSUME TypeOK, WinnerHoldsTheLock, [Next]_vars
  PROVE  WinnerHoldsTheLock'
<1>0. /\ winning \in [Server -> [pc : {"none", "inaugurate", "notify"}, view : View]]
      /\ cacheLock \in [Server -> {"free", "winner", "leaked"}]
  BY DEF TypeOK
<1> SUFFICES ASSUME NEW s \in Server, winning'[s].pc # "none"
             PROVE  cacheLock'[s] = "winner"
  BY DEF WinnerHoldsTheLock
<1>1. ASSUME NEW t \in Server, NotifySuccess(t) PROVE cacheLock'[s] = "winner"
  <2>1. /\ winning' = [winning EXCEPT ![t] = NoWinner]
        /\ cacheLock' = [cacheLock EXCEPT ![t] = "free"]
    BY <1>1 DEF NotifySuccess
  <2>2. s # t
    BY <1>0, <2>1 DEF NoWinner
  <2>3. QED
    BY <1>0, <2>1, <2>2 DEF WinnerHoldsTheLock
<1>2. ASSUME NEW h \in counting, CountVote(h) PROVE cacheLock'[s] = "winner"
  <2>1. h.grant.dst \in Server
    BY CountingFields, Zenon
  <2>2. \/ UNCHANGED <<winning, cacheLock>>
        \/ /\ winning' = [winning EXCEPT ![h.grant.dst] =
                            [pc |-> "inaugurate", view |-> h.myView]]
           /\ cacheLock' = [cacheLock EXCEPT ![h.grant.dst] = "winner"]
    BY <1>2, Zenon DEF CountVote
  <2>3. QED
    BY <1>0, <2>1, <2>2 DEF WinnerHoldsTheLock
<1>3. ASSUME NEW t \in Server, Inaugurate(t) PROVE cacheLock'[s] = "winner"
  BY <1>0, <1>3 DEF Inaugurate, WinnerHoldsTheLock, cells
<1>4. ASSUME NEW t \in Server, RequestRefused(t) PROVE cacheLock'[s] = "winner"
  <2>1. /\ cacheLock[t] = "free" /\ cacheLock' = [cacheLock EXCEPT ![t] = "leaked"]
        /\ winning' = winning
    BY <1>4 DEF RequestRefused, handlers
  <2>2. cacheLock[s] = "winner"
    BY <2>1 DEF WinnerHoldsTheLock
  <2>3. QED
    BY <1>0, <2>1, <2>2
<1>5. CASE UNCHANGED <<winning, cacheLock>>
  BY <1>5 DEF WinnerHoldsTheLock
<1>6. QED
  BY <1>1, <1>2, <1>3, <1>4, <1>5, LockChanges, WinningChanges

(* Nothing is written under a winner. *)
LEMMA WinnerVoteStays ==
  ASSUME TypeOK, WinnerHoldsTheLock, [Next]_vars,
         NEW s \in Server, NEW v \in View, winning[s].pc # "none"
  PROVE  vcCache'[s][v] = vcCache[s][v]
<1>1. cacheLock[s] # "free"
  BY DEF WinnerHoldsTheLock
<1>2. ~RequestVotes(s)
  BY <1>1 DEF RequestVotes
<1>3. \A h \in voting : ~(GiveVote(h) /\ s = h.req.dst)
  BY <1>1 DEF GiveVote
<1>4. \A h \in counting : ~(CountVote(h) /\ s = h.grant.dst)
  BY <1>1, Zenon DEF CountVote
<1>5. QED
  BY <1>2, <1>3, <1>4, CachedVoteChanges

(* The deciding vote. *)
LEMMA NewWinner ==
  ASSUME TypeOK, [Next]_vars, NEW s \in Server,
         winning'[s].pc = "inaugurate", winning'[s] # winning[s]
  PROVE  \E h \in counting :
           /\ CountVote(h) /\ s = h.grant.dst
           /\ winning'[s] = [pc |-> "inaugurate", view |-> h.myView]
           /\ Decides(Append(vcCache[s][h.myView].shares, h.grant.share),
                      vcCache[s][h.myView].endorsement)
<1>0. winning \in [Server -> [pc : {"none", "inaugurate", "notify"}, view : View]]
  BY DEF TypeOK
<1>1. ASSUME NEW t \in Server, Inaugurate(t) PROVE FALSE
  BY <1>0, <1>1 DEF Inaugurate
<1>2. ASSUME NEW t \in Server, NotifySuccess(t) PROVE FALSE
  BY <1>0, <1>2 DEF NotifySuccess, NoWinner
<1>3. PICK h \in counting : CountVote(h)
  BY <1>1, <1>2, WinningChanges
<1> DEFINE t == h.grant.dst
           won == Decides(Append(vcCache[t][h.myView].shares, h.grant.share),
                          vcCache[t][h.myView].endorsement)
<1>4. winning' = IF won THEN [winning EXCEPT ![t] = [pc |-> "inaugurate", view |-> h.myView]]
                        ELSE winning
  BY <1>3, Zenon DEF CountVote
<1> HIDE DEF won
<1>5. won
  BY <1>4
<1>6. s = t /\ winning'[s] = [pc |-> "inaugurate", view |-> h.myView]
  BY <1>0, <1>4, <1>5
<1>7. QED
  BY <1>3, <1>5, <1>6 DEF won

LEMMA WinnerStep ==
  ASSUME TypeOK, GrantsAreBacked, CachedSharesAreBacked, WinnerHoldsTheLock,
         WinnerIsBacked, [Next]_vars
  PROVE  WinnerIsBacked'
<1>0. endorsed \subseteq endorsed'
  BY HistoryGrows
<1> SUFFICES ASSUME NEW s \in Server, winning'[s].pc = "inaugurate",
                    NEW e, e = vcCache'[s][winning'[s].view].endorsement
             PROVE  e \in Endorsement /\ e[1] = s /\ Cardinality(Endorsers(e))' >= Threshold
  BY DEF WinnerIsBacked, Threshold, Quorum, N
<1>1. CASE winning'[s] = winning[s]
  <2>1. winning[s].view \in View
    BY DEF TypeOK
  <2>2. vcCache'[s][winning[s].view] = vcCache[s][winning[s].view]
    BY <1>1, <2>1, WinnerVoteStays
  <2>3. e \in Endorsement /\ e[1] = s /\ Cardinality(Endorsers(e)) >= Threshold
    BY <1>1, <2>2 DEF WinnerIsBacked
  <2>4. QED
    BY <1>0, <2>3, EndorsersStay, QuorumValues
<1>2. CASE winning'[s] # winning[s]
  <2>1. PICK h \in counting :
           /\ CountVote(h) /\ s = h.grant.dst
           /\ winning'[s] = [pc |-> "inaugurate", view |-> h.myView]
           /\ Decides(Append(vcCache[s][h.myView].shares, h.grant.share),
                      vcCache[s][h.myView].endorsement)
    BY <1>2, NewWinner
  <2>2. PICK v, old, y : v = h.myView /\ old = vcCache[s][v].shares /\ y = h.grant.share
    OBVIOUS
  <2>3. v \in View /\ old \in Seq(Share(Endorsement)) /\ y \in Share(Endorsement)
    BY <2>2, CountingFields, VoteFields
  <2>4. vcCache'[s][v].endorsement = vcCache[s][v].endorsement
    <3>1. vcCache[s][v] \in Vote /\ vcCache[s][v] # NoVote
      BY <2>1, <2>2, <2>3, VoteFields, Zenon DEF CountVote
    <3>2. vcCache' = [vcCache EXCEPT ![s][v].shares = Append(old, y)]
      BY <2>1, <2>2, Zenon DEF CountVote
    <3>3. vcCache'[s][v] = [vcCache[s][v] EXCEPT !.shares = Append(old, y)]
      BY <2>3, <3>2 DEF TypeOK
    <3>4. QED
      BY <3>1, <3>3, Zenon DEF Vote
  <2>5. vcCache[s][v] # NoVote /\ vcCache[s][v].endorsement = e
    <3>1. winning'[s].view = v
      BY <2>1, <2>2
    <3>2. vcCache[s][v] # NoVote
      BY <2>1, <2>2, Zenon DEF CountVote
    <3>3. QED
      BY <2>4, <3>1, <3>2
  <2>6. e \in Endorsement
    BY <2>3, <2>5, VoteFields, Zenon
  <2>7. PenRecovers(Append(old, y), e)
    BY <2>1, <2>2, <2>5 DEF Decides
  <2>8. /\ Append(old, y) \in Seq(Share(Endorsement))
        /\ DOMAIN Append(old, y) = DOMAIN old \cup {Len(old) + 1}
        /\ \A j \in DOMAIN old : Append(old, y)[j] = old[j]
        /\ Append(old, y)[Len(old) + 1] = y
    BY <2>3, AppendedShares
  <2>9. /\ \A i \in DOMAIN old : ShareIsBacked(old[i]) /\ (old[i].msg # NoHash => old[i].msg[1] = s)
        /\ ShareIsBacked(y) /\ (y.msg # NoHash => y.msg[1] = s)
    <3>1. GrantIsBacked(h.grant)
      BY DEF GrantsAreBacked
    <3>2. ShareIsBacked(y) /\ (y.msg # NoHash => y.msg[1] = s)
      BY <2>1, <2>2, <3>1, GrantIsForCandidate DEF GrantIsBacked
    <3>3. QED
      BY <2>2, <2>3, <3>2 DEF CachedSharesAreBacked
  <2>10. \A i \in DOMAIN Append(old, y) :
            /\ ShareIsBacked(Append(old, y)[i])
            /\ Append(old, y)[i].msg # NoHash => Append(old, y)[i].msg[1] = s
    BY <2>8, <2>9
  <2>11. Cardinality(Endorsers(e)) >= Threshold
    BY <2>6, <2>7, <2>8, <2>10, RecoveredIsBacked
  <2>12. e[1] = s
    <3>1. 1 \in 1..Threshold /\ 1..Threshold \subseteq DOMAIN Append(old, y)
      BY <2>7, <2>8, QuorumValues DEF PenRecovers
    <3>2. Append(old, y)[1].msg = e
      BY <2>7, <3>1 DEF PenRecovers
    <3>3. e # NoHash
      BY <2>6, ElectionAssumption
    <3>4. QED
      BY <2>10, <3>1, <3>2, <3>3
  <2>13. QED
    BY <1>0, <2>6, <2>11, <2>12, EndorsersStay, QuorumValues
<1>3. QED
  BY <1>1, <1>2

LEMMA ElectedStep ==
  ASSUME TypeOK, WinnerIsBacked, ElectedByThreshold, [Next]_vars
  PROVE  ElectedByThreshold'
<1>0. endorsed \subseteq endorsed'
  BY HistoryGrows
<1> SUFFICES ASSUME NEW d \in elected'
             PROVE  /\ d.endorsement[1] = d.leader
                    /\ Cardinality(Endorsers(d.endorsement))' >= Threshold
  BY DEF ElectedByThreshold, Threshold, Quorum, N
<1>1. CASE d \in elected
  BY <1>0, <1>1, EndorsersStay, QuorumValues DEF ElectedByThreshold
<1>2. CASE d \notin elected
  <2>1. PICK s \in Server : Inaugurate(s)
    BY <1>2, ElectedChanges
  <2>2. /\ d = [leader |-> s, view |-> winning[s].view,
                endorsement |-> vcCache[s][winning[s].view].endorsement]
        /\ winning[s].pc = "inaugurate"
    BY <1>2, <2>1 DEF Inaugurate
  <2>3. d.endorsement[1] = d.leader /\ Cardinality(Endorsers(d.endorsement)) >= Threshold
    BY <2>2 DEF WinnerIsBacked
  <2>4. QED
    BY <1>0, <2>3, EndorsersStay, QuorumValues
<1>3. QED
  BY <1>1, <1>2

-----------------------------------------------------------------------------
(* Votes that were given, and the vote of a candidate for itself. *)
LEMMA CachedStays ==
  ASSUME TypeOK, CampaignsAreOfCandidates, [Next]_vars, NEW s \in Server, NEW v \in View,
         vcCache[s][v] # NoVote
  PROVE  vcCache'[s][v] # NoVote
<1>1. CASE vcCache'[s][v] = vcCache[s][v]
  BY <1>1
<1>2. CASE /\ RequestVotes(s)
           /\ vcCache'[s][v] =
                [endorsement |-> CommonEndorsement(s, campaign[s].view),
                 shares |-> <<PenSign(s, CommonEndorsement(s, campaign[s].view))>>]
  <2>1. s \in Candidates /\ campaign[s].view \in View
    BY <1>2 DEF RequestVotes, CampaignsAreOfCandidates, TypeOK
  <2>2. vcCache'[s][v].endorsement # NoHash
    BY <1>2, <2>1, CommonEndorsementType, ElectionAssumption
  <2>3. QED
    BY <2>2, NoVoteFields
<1>3. CASE vcCache'[s][v].endorsement = vcCache[s][v].endorsement
  <2>1. vcCache[s][v].endorsement # NoHash
    BY VoteFields, ElectionAssumption
  <2>2. QED
    BY <1>3, <2>1, NoVoteFields
<1>4. QED
  BY <1>1, <1>2, <1>3, CachedVoteChanges

LEMMA GrantedStep ==
  ASSUME TypeOK, CampaignsAreOfCandidates, GrantedIsCached, OneVotePerCachedView, [Next]_vars
  PROVE  GrantedIsCached' /\ OneVotePerCachedView'
<1>1. \A g \in granted : g.voter \in Server /\ g.under \in View
  BY DEF TypeOK
<1>2. \A g \in granted : vcCache'[g.voter][g.under] # NoVote
  BY <1>1, CachedStays DEF GrantedIsCached
<1>3. CASE UNCHANGED granted
  BY <1>2, <1>3 DEF GrantedIsCached, OneVotePerCachedView
<1>4. ASSUME NEW h \in voting, GiveVote(h)
      PROVE  GrantedIsCached' /\ OneVotePerCachedView'
  <2> DEFINE s == h.req.dst
             e == CommonEndorsement(h.req.src, h.req.view)
             g == [voter |-> s, endorsement |-> e, under |-> h.myView]
  <2>1. s \in Server /\ h.myView \in View /\ e \in Endorsement
    BY VotingFields, CommonEndorsementType
  <2>2. granted' = granted \cup {g}
    BY <1>4 DEF GiveVote
  <2>3. vcCache[s][h.myView] = NoVote
    BY <1>4 DEF GiveVote, AlreadyVoted
  <2>4. vcCache'[s][h.myView] = [endorsement |-> e, shares |-> << >>]
    BY <1>4, <2>1 DEF GiveVote, TypeOK
  <2>5. vcCache'[s][h.myView] # NoVote
    BY <2>1, <2>4, NoVoteFields, ElectionAssumption
  <2>6. g.voter = s /\ g.under = h.myView
    OBVIOUS
  <2> HIDE DEF g
  <2>7. \A k \in granted : ~(k.voter = g.voter /\ k.under = g.under)
    BY <2>3, <2>6 DEF GrantedIsCached
  <2>8. OneVotePerCachedView'
    BY <2>2, <2>7 DEF OneVotePerCachedView
  <2>9. GrantedIsCached'
    BY <1>2, <2>2, <2>5, <2>6 DEF GrantedIsCached
  <2>10. QED
    BY <2>8, <2>9
<1>5. QED
  BY <1>3, <1>4, GrantedChanges

(* The view of a campaign that waits was fixed when it asked. *)
LEMMA NewlyWaiting ==
  ASSUME TypeOK, [Next]_vars, NEW s \in Server, campaign'[s].pc = "waiting"
  PROVE  \/ campaign'[s] = campaign[s] /\ ~RequestVotes(s)
         \/ RequestVotes(s) /\ campaign'[s].view = campaign[s].view
<1>0. campaign \in [Server -> [pc : {"idle", "computing", "requesting", "waiting",
                                     "retrying", "dead"}, view : View]]
  BY DEF TypeOK
<1>1. CASE RequestVotes(s)
  BY <1>0, <1>1 DEF RequestVotes
<1>2. CASE ~RequestVotes(s)
  <2>1. CASE UNCHANGED campaign
    BY <1>2, <2>1
  <2>2. ASSUME NEW t \in Server, Campaign(t) PROVE campaign'[s] = campaign[s]
    <3>1. CASE t = s
      BY <1>0, <1>2, <2>2, <3>1
         DEF Campaign, StartCampaign, PenaltyFails, BecomeNominee, RequestRefused,
             CampaignAborted, CampaignTimedOut, CampaignSucceeded
    <3>2. CASE t # s
      BY <1>0, <2>2, <3>2
         DEF Campaign, StartCampaign, PenaltyFails, BecomeNominee, RequestRefused,
             RequestVotes, CampaignAborted, CampaignTimedOut, CampaignSucceeded
    <3>3. QED
      BY <3>1, <3>2
  <2>3. QED
    BY <1>2, <2>1, <2>2, CampaignChanges
<1>3. QED
  BY <1>1, <1>2

LEMMA SelfVoteStep ==
  ASSUME TypeOK, CampaignsAreOfCandidates, SelfVoteKept, [Next]_vars
  PROVE  SelfVoteKept'
<1> SUFFICES ASSUME NEW s \in Server, campaign'[s].pc = "waiting",
                    NEW e, e = CommonEndorsement(s, campaign'[s].view)
             PROVE  \E v \in View : vcCache'[s][v].endorsement = e
  BY DEF SelfVoteKept
<1>1. CASE RequestVotes(s) /\ campaign'[s].view = campaign[s].view
  <2>1. view[s] \in View
    BY DEF TypeOK
  <2>2. vcCache'[s][view[s]] = [endorsement |-> e, shares |-> <<PenSign(s, e)>>]
    BY <1>1, <2>1 DEF RequestVotes, TypeOK
  <2>3. QED
    BY <2>1, <2>2
<1>2. CASE campaign'[s] = campaign[s] /\ ~RequestVotes(s)
  <2>1. PICK v \in View : vcCache[s][v].endorsement = e
    BY <1>2 DEF SelfVoteKept
  <2>2. s \in Candidates /\ campaign[s].view \in View
    BY <1>2 DEF CampaignsAreOfCandidates, TypeOK
  <2>3. e # NoHash
    BY <1>2, <2>2, CommonEndorsementType, ElectionAssumption
  <2>4. vcCache[s][v] # NoVote
    BY <2>1, <2>3, NoVoteFields
  <2>5. vcCache'[s][v].endorsement = e
    BY <1>2, <2>1, <2>4, CachedVoteChanges
  <2>6. QED
    BY <2>5
<1>3. QED
  BY <1>1, <1>2, NewlyWaiting

-----------------------------------------------------------------------------
(* Who is followed. *)
LEMMA ElectedStays ==
  ASSUME NEW s, IsElected(s), elected \subseteq elected'
  PROVE  IsElected(s)'
BY DEF IsElected

LEMMA AnnouncementsStep ==
  ASSUME TypeOK, AnnouncementsAreOfElected, [Next]_vars
  PROVE  AnnouncementsAreOfElected'
<1>0. elected \subseteq elected'
  BY HistoryGrows
<1>1. ASSUME NEW s \in Server, Inaugurate(s) PROVE IsElected(s)'
  <2>1. PICK d : d = [leader |-> s, view |-> winning[s].view,
                      endorsement |-> vcCache[s][winning[s].view].endorsement]
    OBVIOUS
  <2>2. d \in elected' /\ d.leader = s
    BY <1>1, <2>1 DEF Inaugurate
  <2>3. QED
    BY <2>2 DEF IsElected
<1>2. ASSUME NEW m \in msgs', m.type = "newView" PROVE IsElected(m.src)'
  <2>1. CASE m \in msgs
    BY <1>0, <1>2, <2>1, ElectedStays DEF AnnouncementsAreOfElected
  <2>2. CASE m \notin msgs
    BY <1>1, <1>2, <2>2, NewAnnouncement
  <2>3. QED
    BY <2>1, <2>2
<1>3. ASSUME NEW s \in Server, NEW i \in DOMAIN inaugurations'[s],
             NEW l, l = inaugurations'[s][i].leader
      PROVE  IsElected(l)'
  <2>0. inaugurations \in [Server -> Seq(Leadership)]
    BY DEF TypeOK
  <2>1. ASSUME NEW j \in DOMAIN inaugurations[s], l = inaugurations[s][j].leader
        PROVE  IsElected(l)'
    BY <1>0, <2>1, ElectedStays DEF AnnouncementsAreOfElected
  <2>2. ASSUME NEW x \in Leadership, NEW t \in Server, IsElected(x.leader)',
               inaugurations' = [inaugurations EXCEPT ![t] = Append(@, x)]
        PROVE  IsElected(l)'
    <3>1. CASE s # t
      BY <2>0, <2>1, <2>2, <3>1, <1>3
    <3>2. CASE s = t
      <4>1. PICK old : old = inaugurations[s]
        OBVIOUS
      <4>2. old \in Seq(Leadership) /\ inaugurations'[s] = Append(old, x)
        BY <2>0, <2>2, <3>2, <4>1
      <4>3. /\ DOMAIN Append(old, x) = DOMAIN old \cup {Len(old) + 1}
            /\ \A j \in DOMAIN old : Append(old, x)[j] = old[j]
            /\ Append(old, x)[Len(old) + 1] = x
        BY <4>2, AppendedShares
      <4>4. QED
        BY <1>3, <2>1, <2>2, <4>1, <4>2, <4>3
    <3>3. QED
      BY <3>1, <3>2
  <2>3. ASSUME NEW t \in Server, Inaugurate(t) PROVE IsElected(l)'
    <3>1. PICK x : x = [view |-> winning[t].view, leader |-> t]
      OBVIOUS
    <3>2. x \in Leadership /\ x.leader = t
      BY <2>3, <3>1 DEF Inaugurate, Leadership, TypeOK
    <3>3. inaugurations' = [inaugurations EXCEPT ![t] = Append(@, x)]
      BY <2>3, <3>1 DEF Inaugurate
    <3>4. QED
      BY <1>1, <2>2, <2>3, <3>2, <3>3
  <2>4. ASSUME NEW m \in msgs, AdmitLeadership(m) PROVE IsElected(l)'
    <3>1. m.src \in Server /\ m.dst \in Server /\ m.view \in View
      BY <2>4, NewViewFields DEF AdmitLeadership
    <3>2. Announced(m) \in Leadership /\ Announced(m).leader = m.src
      BY <3>1 DEF Announced, Leadership
    <3>3. IsElected(m.src)'
      BY <1>0, <2>4, ElectedStays DEF AnnouncementsAreOfElected, AdmitLeadership
    <3>4. inaugurations' = [inaugurations EXCEPT ![m.dst] = Append(@, Announced(m))]
      BY <2>4 DEF AdmitLeadership
    <3>5. PICK x : x = Announced(m)
      OBVIOUS
    <3>6. QED
      BY <2>2, <3>1, <3>2, <3>3, <3>4, <3>5
  <2>5. ASSUME NEW t \in Server, TakeInauguration(t) PROVE IsElected(l)'
    <3>1. inaugurations' = [inaugurations EXCEPT ![t] = << >>]
      BY <2>5, Taken
    <3>2. s # t
      BY <1>3, <2>0, <3>1
    <3>3. QED
      BY <1>3, <2>0, <2>1, <3>1, <3>2
  <2>6. CASE UNCHANGED inaugurations
    BY <1>3, <2>1, <2>6
  <2>7. QED
    BY <2>3, <2>4, <2>5, <2>6, InaugurationsChange
<1>4. QED
  BY <1>2, <1>3 DEF AnnouncementsAreOfElected

LEMMA FollowsStep ==
  ASSUME TypeOK, AnnouncementsAreOfElected, FollowsElected, [Next]_vars
  PROVE  FollowsElected'
<1> DEFINE Fine(s) == s = InitialLeader \/ \E e \in elected' : e.leader = s
<1>0. elected \subseteq elected'
  BY HistoryGrows
<1>1. /\ \A s \in Server : running[s] => Fine(coordinator[s])
      /\ \A s \in serving : Fine(s)
  BY <1>0 DEF FollowsElected
<1>2. SUFFICES /\ \A s \in Server : running'[s] => Fine(coordinator'[s])
               /\ \A s \in serving' : Fine(s)
  BY DEF FollowsElected
<1>3. coordinator \in [Server -> Server] /\ running \in [Server -> BOOLEAN]
  BY DEF TypeOK
<1>4. ASSUME NEW s \in Server, TakeInauguration(s) PROVE Fine(inaugurations[s][1].leader)
  <2>1. IsElected(inaugurations[s][1].leader)
    BY <1>4, Taken DEF AnnouncementsAreOfElected
  <2>2. QED
    BY <1>0, <2>1 DEF IsElected
<1>5. CASE UNCHANGED <<running, coordinator, serving>>
  BY <1>1, <1>5
<1>6. ASSUME NEW s \in Server, Boot(s)
      PROVE  /\ \A t \in Server : running'[t] => Fine(coordinator'[t])
             /\ \A t \in serving' : Fine(t)
  BY <1>1, <1>3, <1>6 DEF Boot
<1>7. ASSUME NEW s \in Server, StartLeaderService(s)
      PROVE  /\ \A t \in Server : running'[t] => Fine(coordinator'[t])
             /\ \A t \in serving' : Fine(t)
  <2>1. TakeInauguration(s) /\ inaugurations[s][1].leader = s
    BY <1>7 DEF StartLeaderService
  <2>2. Fine(s)
    BY <1>4, <2>1
  <2>3. serving' = serving \cup {s} /\ UNCHANGED <<running, coordinator>>
    BY <1>7 DEF StartLeaderService
  <2>4. QED
    BY <1>1, <2>2, <2>3
<1>8. ASSUME NEW s \in Server, FollowLeader(s)
      PROVE  /\ \A t \in Server : running'[t] => Fine(coordinator'[t])
             /\ \A t \in serving' : Fine(t)
  <2>1. Fine(inaugurations[s][1].leader)
    BY <1>4, <1>8 DEF FollowLeader
  <2>2. /\ coordinator' = [coordinator EXCEPT ![s] = inaugurations[s][1].leader]
        /\ UNCHANGED <<running, serving>>
    BY <1>8 DEF FollowLeader
  <2>3. QED
    BY <1>1, <1>3, <2>1, <2>2
<1>9. QED
  BY <1>5, <1>6, <1>7, <1>8, LoopChanges

-----------------------------------------------------------------------------
LEMMA ElectInit == Init => ElectInv
<1> SUFFICES ASSUME Init PROVE ElectInv
  OBVIOUS
<1>1. TypeOK
  BY TypeInit
<1>2. \A s \in Server, v \in View : vcCache[s][v].shares = << >>
  BY NoVoteFields DEF Init
<1>3. /\ msgs = {} /\ counting = {} /\ granted = {} /\ elected = {}
      /\ \A s \in Server : /\ campaign[s].pc = "idle" /\ winning[s].pc = "none"
                           /\ inaugurations[s] = << >>
  BY DEF Init, Idle, NoWinner
<1>4. CachedSharesAreBacked
  BY <1>2 DEF CachedSharesAreBacked
<1>5. /\ GrantsAreBacked /\ CampaignsAreOfCandidates /\ WinnerHoldsTheLock
      /\ WinnerIsBacked /\ ElectedByThreshold /\ GrantedIsCached
      /\ OneVotePerCachedView /\ SelfVoteKept
  BY <1>3 DEF GrantsAreBacked, CampaignsAreOfCandidates, WinnerHoldsTheLock, WinnerIsBacked,
              ElectedByThreshold, GrantedIsCached, OneVotePerCachedView, SelfVoteKept
<1>6. AnnouncementsAreOfElected
  BY <1>3 DEF AnnouncementsAreOfElected
<1>7. FollowsElected
  BY ElectionAssumption DEF Init, FollowsElected
<1>8. QED
  BY <1>1, <1>4, <1>5, <1>6, <1>7 DEF ElectInv

LEMMA ElectStep == ElectInv /\ [Next]_vars => ElectInv'
<1> SUFFICES ASSUME ElectInv, [Next]_vars PROVE ElectInv'
  OBVIOUS
<1> USE DEF ElectInv
<1>1. TypeOK'
  BY TypeStep
<1>2. GrantsAreBacked' /\ CachedSharesAreBacked' /\ CampaignsAreOfCandidates'
  BY GrantsStep, CachedSharesStep, CampaignsStep
<1>3. WinnerHoldsTheLock' /\ WinnerIsBacked' /\ ElectedByThreshold'
  BY LockStep, WinnerStep, ElectedStep
<1>4. GrantedIsCached' /\ OneVotePerCachedView' /\ SelfVoteKept'
  BY GrantedStep, SelfVoteStep
<1>5. AnnouncementsAreOfElected' /\ FollowsElected'
  BY AnnouncementsStep, FollowsStep
<1>6. QED
  BY <1>1, <1>2, <1>3, <1>4, <1>5

LEMMA ElectInvariance == Spec => []ElectInv
BY ElectInit, ElectStep, PTL DEF Spec

(* The variables of vchanges.go, cache.go and handlers.go have their types; *)
(* the channel of inaugurations never holds more than one, and whoever is   *)
(* announced is a candidate with an endorsement.                            *)
THEOREM TypeCorrect == Spec => []TypeOK
<1>1. ElectInv => TypeOK
  BY DEF ElectInv
<1>2. QED
  BY <1>1, ElectInvariance, PTL

(* Whatever requests, votes and timeouts came in between, and with any      *)
(* servers of other keys: who announces itself has a threshold of servers   *)
(* that signed one campaign of its own.                                     *)
THEOREM ElectionsAreBacked == Spec => []ElectedByThreshold
<1>1. ElectInv => ElectedByThreshold
  BY DEF ElectInv
<1>2. QED
  BY <1>1, ElectInvariance, PTL

(* A server gives one vote under a key of its cache, although the view is   *)
(* read before the lock is taken.                                           *)
THEOREM VotesAreOnePerKey == Spec => []OneVotePerCachedView
<1>1. ElectInv => OneVotePerCachedView
  BY DEF ElectInv
<1>2. QED
  BY <1>1, ElectInvariance, PTL

(* No request that a waiting candidate answers overwrites its own vote.     *)
THEOREM SelfVotesAreKept == Spec => []SelfVoteKept
<1>1. ElectInv => SelfVoteKept
  BY DEF ElectInv
<1>2. QED
  BY <1>1, ElectInvariance, PTL

(* Servers dial, and run the service of, the initial leader or one that was *)
(* elected, through any number of inaugurations in any order.               *)
THEOREM OnlyElectedAreFollowed == Spec => []FollowsElected
<1>1. ElectInv => FollowsElected
  BY DEF ElectInv
<1>2. QED
  BY <1>1, ElectInvariance, PTL

(* A server that cannot boot was told of a leader that a threshold of       *)
(* servers endorsed, whatever datagrams arrived before it booted.           *)
THEOREM OnlyElectionsHoldBoot == Spec => []HeldBackByElection
<1>1. ElectInv => HeldBackByElection
  <2> SUFFICES ASSUME ElectInv, NEW s \in Server, ~HasRoom(s)
               PROVE  \E e \in elected : /\ e.leader = inaugurations[s][1].leader
                                         /\ Cardinality(Endorsers(e.endorsement)) >= Threshold
    BY DEF HeldBackByElection
  <2>1. inaugurations[s] \in Seq(Leadership)
    BY DEF ElectInv, TypeOK
  <2>2. 1 \in DOMAIN inaugurations[s]
    BY <2>1 DEF HasRoom
  <2>3. IsElected(inaugurations[s][1].leader)
    BY <2>2 DEF ElectInv, AnnouncementsAreOfElected
  <2>4. QED
    BY <2>3 DEF IsElected, ElectInv, ElectedByThreshold
<1>2. QED
  BY <1>1, ElectInvariance, PTL

-----------------------------------------------------------------------------
(* How many votes a server gives in one view.                               *)
LEMMA ReadBeforeStep ==
  ASSUME TypeOK, ReadBeforeAsked, [Next]_vars
  PROVE  ReadBeforeAsked'
<1>1. ASSUME NEW h \in voting' PROVE h.myView <= h.req.view
  <2>1. CASE voting' \subseteq voting
    BY <2>1 DEF ReadBeforeAsked
  <2>2. ASSUME NEW m \in msgs, ReadRequest(m) PROVE h.myView <= h.req.view
    <3>1. m.view \in Int /\ view[m.dst] \in Int
      BY <2>2, RequestFields, ViewZero DEF ReadRequest, TypeOK
    <3>2. \/ h \in voting
          \/ h = [pc |-> "read", req |-> m, myView |-> view[m.dst]] /\ ~(m.view < view[m.dst])
      BY <2>2 DEF ReadRequest
    <3>3. QED
      BY <3>1, <3>2 DEF ReadBeforeAsked
  <2>3. ASSUME NEW k \in voting, AdoptView(k) PROVE h.myView <= h.req.view
    <3>1. h \in voting \/ h = [k EXCEPT !.pc = "set"]
      BY <2>3 DEF AdoptView
    <3>2. [k EXCEPT !.pc = "set"].req = k.req /\ [k EXCEPT !.pc = "set"].myView = k.myView
      BY VotingFields
    <3>3. QED
      BY <3>1, <3>2 DEF ReadBeforeAsked
  <2>4. QED
    BY <2>1, <2>2, <2>3, VotingChanges
<1>2. ASSUME NEW g \in granted' PROVE g.under <= g.endorsement[2]
  <2>1. CASE g \in granted
    BY <2>1 DEF ReadBeforeAsked
  <2>2. CASE g \notin granted
    <3>1. PICK h \in voting : GiveVote(h)
      BY <2>2, GrantedChanges
    <3>2. g = [voter |-> h.req.dst, endorsement |-> CommonEndorsement(h.req.src, h.req.view),
               under |-> h.myView]
      BY <2>2, <3>1 DEF GiveVote
    <3>3. g.under = h.myView /\ g.endorsement[2] = h.req.view
      BY <3>2 DEF CommonEndorsement
    <3>4. QED
      BY <3>3 DEF ReadBeforeAsked
  <2>3. QED
    BY <2>1, <2>2
<1>3. QED
  BY <1>1, <1>2 DEF ReadBeforeAsked

LEMMA CountVotesInView ==
  ASSUME TypeOK, OneVotePerCachedView, ReadBeforeAsked, NEW s \in Server, NEW v \in View
  PROVE  Cardinality(VotesInView(s, v)) <= v + 1
<1> DEFINE V == VotesInView(s, v)
           f == [g \in V |-> g.under]
<1>1. v \in Nat
  BY ElectionAssumption DEF View
<1>2. \A g \in V : g \in granted /\ g.voter = s /\ g.under \in 0..v
  <2> SUFFICES ASSUME NEW g \in V PROVE g \in granted /\ g.voter = s /\ g.under \in 0..v
    OBVIOUS
  <2>1. g \in granted /\ g.voter = s /\ g.endorsement[2] = v
    BY DEF VotesInView
  <2>2. g.under \in View /\ g.under <= v
    BY <2>1 DEF TypeOK, ReadBeforeAsked
  <2>3. QED
    BY <1>1, <2>1, <2>2 DEF View
<1>3. \A g, h \in V : g.under = h.under => g = h
  BY <1>2 DEF OneVotePerCachedView
<1>4. f \in Injection(V, 0..v)
  BY <1>2, <1>3 DEF Injection, IsInjective
<1>5. IsFiniteSet(0..v) /\ Cardinality(0..v) = v + 1
  BY <1>1, FS_Interval
<1>6. QED
  BY <1>4, <1>5, FS_Injection

(* Of the requests for one view that find a server in different views each  *)
(* may get a vote, and no more: v + 1 votes in view v, whatever order the   *)
(* handlers run in.                                                         *)
THEOREM VotesAreFewPerView == Spec => []VotesAreFew
<1>1. Init => ReadBeforeAsked
  BY DEF Init, ReadBeforeAsked
<1>2. ElectInv /\ ReadBeforeAsked /\ [Next]_vars => ReadBeforeAsked'
  BY ReadBeforeStep DEF ElectInv
<1>3. ElectInv /\ ReadBeforeAsked => VotesAreFew
  BY CountVotesInView DEF ElectInv, VotesAreFew
<1>4. QED
  BY <1>1, <1>2, <1>3, ElectInvariance, PTL DEF Spec

-----------------------------------------------------------------------------
(* Election implements LeaderElection: under the invariant every step is a  *)
(* step of it or leaves its four variables alone.                           *)
leVars == <<endorsements, wonCampaigns, leaderOf, leadersServing>>

LEMMA EndorsementAdded ==
  ASSUME NEW s \in Server, NEW e \in Endorsement, endorsed' = endorsed \cup {<<s, e>>},
         UNCHANGED <<elected, running, coordinator, serving>>
  PROVE  LE!Endorse \/ UNCHANGED leVars
<1>1. UNCHANGED <<wonCampaigns, leaderOf, leadersServing>>
  BY DEF wonCampaigns, leaderOf, leadersServing
<1>2. CASE s \in BadKey
  <2>1. UNCHANGED endorsements
    BY <1>2 DEF endorsements
  <2>2. QED
    BY <1>1, <2>1 DEF leVars
<1>3. CASE s \notin BadKey
  <2>1. endorsements' = endorsements \cup {<<s, e>>}
    BY <1>3 DEF endorsements
  <2>2. QED
    BY <1>1, <2>1 DEF LE!Endorse
<1>4. QED
  BY <1>2, <1>3

LEMMA WinnersHaveWon ==
  ASSUME ElectedByThreshold, NEW s, IsElected(s)
  PROVE  LE!HasWon(s)
<1>1. PICK e \in elected : e.leader = s
  BY DEF IsElected
<1>2. e.endorsement \in wonCampaigns /\ e.endorsement[1] = s
  BY <1>1 DEF wonCampaigns, ElectedByThreshold
<1>3. QED
  BY <1>2 DEF LE!HasWon

LEMMA InaugurationWins ==
  ASSUME TypeOK, WinnerIsBacked, NEW s \in Server, Inaugurate(s)
  PROVE  LE!Win
<1> DEFINE e == vcCache[s][winning[s].view].endorsement
<1>1. e \in Endorsement /\ Cardinality(Endorsers(e)) >= Threshold
  BY DEF Inaugurate, WinnerIsBacked
<1>2. {t \in Server : <<t, e>> \in endorsements} = Endorsers(e)
  BY DEF endorsements, Endorsers
<1>3. Endorsers(e) \in CertifyingSets
  BY <1>1 DEF CertifyingSets, Endorsers
<1>4. wonCampaigns' = wonCampaigns \cup {e}
  <2> DEFINE r == [leader |-> s, view |-> winning[s].view, endorsement |-> e]
  <2>1. elected' = elected \cup {r}
    BY DEF Inaugurate
  <2>2. r.endorsement = e
    OBVIOUS
  <2> HIDE DEF e, r
  <2>3. QED
    BY <2>1, <2>2 DEF wonCampaigns
<1>5. UNCHANGED <<endorsements, leaderOf, leadersServing>>
  BY DEF Inaugurate, loop, endorsements, leaderOf, leadersServing
<1> HIDE DEF e
<1>6. QED
  BY <1>1, <1>2, <1>3, <1>4, <1>5 DEF LE!Win

LEMMA ElectionRefinementStep ==
  ASSUME ElectInv, [Next]_vars
  PROVE  LE!Next \/ UNCHANGED leVars
<1>0. /\ coordinator \in [Server -> Server] /\ running \in [Server -> BOOLEAN]
      /\ inaugurations \in [Server -> Seq(Leadership)]
      /\ TypeOK /\ WinnerIsBacked /\ ElectedByThreshold /\ CampaignsAreOfCandidates
      /\ AnnouncementsAreOfElected
  BY DEF ElectInv, TypeOK
<1>1. CASE UNCHANGED <<endorsed, elected, running, coordinator, serving>>
  BY <1>1 DEF leVars, endorsements, wonCampaigns, leaderOf, leadersServing
<1>2. ASSUME NEW s \in Server, RequestVotes(s) PROVE LE!Next \/ UNCHANGED leVars
  <2>1. s \in Candidates /\ campaign[s].view \in View
    BY <1>0, <1>2 DEF RequestVotes, CampaignsAreOfCandidates, TypeOK
  <2> DEFINE e == CommonEndorsement(s, campaign[s].view)
  <2>2. e \in Endorsement
    BY <2>1, CommonEndorsementType
  <2>3. endorsed' = endorsed \cup {<<s, e>>} /\ UNCHANGED <<elected, running, coordinator, serving>>
    BY <1>2 DEF RequestVotes, loop
  <2> HIDE DEF e
  <2>4. QED
    BY <2>2, <2>3, EndorsementAdded DEF LE!Next
<1>3. ASSUME NEW h \in voting, GiveVote(h) PROVE LE!Next \/ UNCHANGED leVars
  <2> DEFINE e == CommonEndorsement(h.req.src, h.req.view)
             s == h.req.dst
  <2>1. e \in Endorsement /\ s \in Server
    BY <1>0, VotingFields, CommonEndorsementType
  <2>2. endorsed' = endorsed \cup {<<s, e>>} /\ UNCHANGED <<elected, running, coordinator, serving>>
    BY <1>3 DEF GiveVote, loop
  <2> HIDE DEF e, s
  <2>3. QED
    BY <2>1, <2>2, EndorsementAdded DEF LE!Next
<1>4. ASSUME NEW s \in Server, Inaugurate(s) PROVE LE!Next
  BY <1>0, <1>4, InaugurationWins DEF LE!Next
<1>5. ASSUME NEW s \in Server, Boot(s) PROVE UNCHANGED leVars
  <2>1. leadersServing' = leadersServing /\ UNCHANGED <<endorsements, wonCampaigns>>
    BY <1>5 DEF Boot, leadersServing, history, endorsements, wonCampaigns
  <2>2. leaderOf' = leaderOf
    BY <1>0, <1>5 DEF Boot, leaderOf
  <2>3. QED
    BY <2>1, <2>2 DEF leVars
<1>6. ASSUME NEW s \in Server, TakeInauguration(s)
      PROVE  /\ inaugurations[s][1].leader \in Server
             /\ LE!HasWon(inaugurations[s][1].leader)
  <2>1. 1 \in DOMAIN inaugurations[s]
    BY <1>0, <1>6, Taken
  <2>2. IsElected(inaugurations[s][1].leader)
    BY <1>0, <2>1 DEF AnnouncementsAreOfElected
  <2>3. inaugurations[s][1] \in Leadership
    BY <1>0, <2>1
  <2>4. QED
    BY <1>0, <2>2, <2>3, WinnersHaveWon DEF Leadership
<1>7. ASSUME NEW s \in Server, StartLeaderService(s) PROVE LE!Next
  <2>1. LE!HasWon(s)
    BY <1>6, <1>7 DEF StartLeaderService
  <2>2. /\ leadersServing' = leadersServing \cup {s}
        /\ UNCHANGED <<endorsements, wonCampaigns, leaderOf>>
    BY <1>7 DEF StartLeaderService, leadersServing, history, endorsements, wonCampaigns, leaderOf
  <2>3. QED
    BY <2>1, <2>2 DEF LE!Next, LE!Serve
<1>8. ASSUME NEW s \in Server, FollowLeader(s) PROVE LE!Next
  <2> DEFINE l == inaugurations[s][1].leader
  <2>1. l \in Server /\ LE!HasWon(l) /\ running[s]
    BY <1>6, <1>8 DEF FollowLeader, TakeInauguration
  <2>2. /\ coordinator' = [coordinator EXCEPT ![s] = l] /\ running' = running
        /\ UNCHANGED <<endorsements, wonCampaigns, leadersServing>>
    BY <1>8 DEF FollowLeader, history, endorsements, wonCampaigns, leadersServing
  <2> HIDE DEF l
  <2>3. leaderOf' = [leaderOf EXCEPT ![s] = l]
    BY <1>0, <2>1, <2>2 DEF leaderOf
  <2>4. QED
    BY <2>1, <2>2, <2>3 DEF LE!Next, LE!Follow
<1>9. QED
  BY <1>1, <1>2, <1>3, <1>4, <1>5, <1>7, <1>8, PromiseChanges

LEMMA ElectionRefinementInit == Init => LE!Init
<1> SUFFICES ASSUME Init PROVE LE!Init
  OBVIOUS
<1>1. endorsements = {} /\ wonCampaigns = {}
  BY DEF Init, endorsements, wonCampaigns
<1>2. leaderOf = [s \in Server |-> InitialLeader]
  BY DEF Init, leaderOf
<1>3. leadersServing = {InitialLeader}
  BY DEF Init, leadersServing
<1>4. QED
  BY <1>1, <1>2, <1>3 DEF LE!Init

(* Whatever requests, votes and inaugurations cross each other, get lost or *)
(* come twice, with any number of candidates and of servers without the     *)
(* keys: nobody is announced, followed or served as leader but those that   *)
(* Threshold servers endorsed, and the initial leader.                      *)
THEOREM ElectionRefines == Spec => ImplementsLeaderElection
<1>1. ElectInv /\ [Next]_vars => [LE!Next]_(LE!vars)
  BY ElectionRefinementStep DEF LE!vars, leVars
<1>2. QED
  BY ElectionRefinementInit, <1>1, ElectInvariance, PTL
     DEF Spec, ImplementsLeaderElection, LE!Spec

-----------------------------------------------------------------------------
(* Any two certificates have a server in common that has the keys and       *)
(* signed both campaigns.                                                   *)
CertificatesMeet ==
  \A d, e \in elected : Endorsers(d.endorsement) \cap Endorsers(e.endorsement) # {}

(* Two thresholds of parameters.go are more than all servers for 3, 6, 7    *)
(* and for 9 servers or more, and not for 4, 5 and 8.                       *)
LEMMA ThresholdsMeet == 2 * Threshold > N <=> N \in {3, 6, 7} \/ N >= 9
<1>1. N \in Nat /\ N >= 3
  BY ServerAssumption, FS_CardinalityType DEF N
<1>2. PICK k \in Nat : k = N \div 3
  BY <1>1
<1>3. 3 * k <= N /\ N <= 3 * k + 2
  BY <1>1, <1>2
<1>4. Threshold = 2 * k
  BY <1>2 DEF Threshold, Quorum
<1>5. QED
  BY <1>1, <1>3, <1>4

(* "split votes" (line 145 of vchanges.go): two servers that announce       *)
(* themselves, in one view or in two, got votes of one server with the keys *)
(* that signed for both, through any losses, duplicates and retries and     *)
(* whatever servers without the keys sent.  So two leaders of a view have a *)
(* voter that voted for both: shares that nobody verified on their way do   *)
(* not elect a second one.                                                  *)
THEOREM TwoWinnersShareAVoter == 2 * Threshold > N => (Spec => []CertificatesMeet)
<1> SUFFICES ASSUME 2 * Threshold > N PROVE Spec => []CertificatesMeet
  OBVIOUS
<1>1. ElectedByThreshold => CertificatesMeet
  <2> SUFFICES ASSUME ElectedByThreshold, NEW d \in elected, NEW e \in elected
               PROVE  Endorsers(d.endorsement) \cap Endorsers(e.endorsement) # {}
    BY DEF CertificatesMeet
  <2> DEFINE P == Endorsers(d.endorsement)
             Q == Endorsers(e.endorsement)
  <2>1. P \in SUBSET Server /\ Q \in SUBSET Server
    BY DEF Endorsers
  <2>2. Cardinality(P) >= Threshold /\ Cardinality(Q) >= Threshold
    BY DEF ElectedByThreshold
  <2>3. IsFiniteSet(Server) /\ N = Cardinality(Server) /\ N \in Nat /\ Threshold \in Nat
    BY ServerAssumption, FS_CardinalityType, QuorumValues DEF N
  <2> HIDE DEF P, Q
  <2>4. Cardinality(P) \in Nat /\ Cardinality(Q) \in Nat
    BY <2>1, <2>3, FS_Subset, FS_CardinalityType
  <2>5. Cardinality(P) + Cardinality(Q) > Cardinality(Server)
    BY <2>2, <2>3, <2>4
  <2>6. P \cap Q # {}
    BY <2>1, <2>3, <2>5, FS_MajoritiesIntersect
  <2>7. QED
    BY <2>6 DEF P, Q
<1>2. QED
  BY <1>1, ElectionsAreBacked, PTL

-----------------------------------------------------------------------------
(* A paid election is an election: the threads that search a nonce stutter, *)
(* and the campaign goes on with the same steps.                            *)
LEMMA PaidStep == [PaidNext]_paidVars => [Next]_vars
<1> SUFFICES ASSUME [PaidNext]_paidVars PROVE [Next]_vars
  OBVIOUS
<1>1. CASE UNCHANGED paidVars
  BY <1>1 DEF paidVars
<1>2. CASE Elect
  BY <1>2 DEF Elect, Next, CampaignUnpaid, Campaign
<1>3. ASSUME NEW s \in Server, Pay(s) PROVE [Next]_vars
  <2>1. CASE CalculationFails(s)
    BY <2>1 DEF CalculationFails, Next, Campaign
  <2>2. CASE BecomePaidNominee(s)
    BY <2>2 DEF BecomePaidNominee, Next, Campaign
  <2>3. CASE PayPenalty(s)
    BY <2>3 DEF PayPenalty
  <2>4. CASE CheckNonce(s)
    BY <2>4 DEF CheckNonce
  <2>5. CASE \E run \in 1..DigestLength : HashNonce(s, run)
    BY <2>5 DEF HashNonce
  <2>6. QED
    BY <1>3, <2>1, <2>2, <2>3, <2>4, <2>5 DEF Pay
<1>4. QED
  BY <1>1, <1>2, <1>3 DEF PaidNext

THEOREM PaidElectionRefines == PaidSpec => Spec
<1>1. PaidInit => Init
  BY DEF PaidInit
<1>2. QED
  BY <1>1, PaidStep, PTL DEF PaidSpec, Spec

(* The invariant of payments. *)
LEMMA PaymentInit == PaidInit => PaymentInv
BY DEF PaidInit, Init, PaymentInv, PaymentOf, AtWork, NoSearch, Idle

(* What an election does between payments: it neither leaves the            *)
(* computation of a penalty nor asks for votes without one.                 *)
LEMMA ElectKeepsComputing ==
  ASSUME TypeOK, Elect, NEW s \in Server
  PROVE  /\ campaign[s].pc = "computing" => campaign'[s].pc = "computing"
         /\ campaign'[s].pc \in {"requesting", "waiting"} =>
               campaign[s].pc \in {"requesting", "waiting"}
<1>0. campaign \in [Server -> [pc : {"idle", "computing", "requesting", "waiting",
                                     "retrying", "dead"}, view : View]]
  BY DEF TypeOK
<1>1. \/ UNCHANGED campaign
      \/ \E t \in Server : CampaignUnpaid(t)
  BY Zenon DEF Elect, AnswerRequest, ReadRequest, AdoptView, VoteRefused, GiveVote, CountGrant,
         ReadGrant, GrantDropped, CountVote, Win, Inaugurate, NotifySuccess,
         AdmitLeadership, RoleLoop, Boot, StartLeaderService, IgnoreInauguration,
         FollowLeader, FindAnotherLeader, AbortCampaign, BackToWorker
<1>2. ASSUME NEW t \in Server, CampaignUnpaid(t)
      PROVE  /\ campaign[s].pc = "computing" => campaign'[s].pc = "computing"
             /\ campaign'[s].pc \in {"requesting", "waiting"} =>
                   campaign[s].pc \in {"requesting", "waiting"}
  BY <1>0, <1>2
     DEF CampaignUnpaid, StartCampaign, RequestRefused, RequestVotes, CampaignAborted,
         CampaignTimedOut, CampaignSucceeded
<1>3. QED
  BY <1>1, <1>2

(* Servers that no step of a payment concerns. *)
LEMMA PaymentElsewhere ==
  ASSUME NEW s, PaymentOf(s), campaign'[s] = campaign[s], search'[s] = search[s],
         nonceFound'[s] = nonceFound[s]
  PROVE  PaymentOf(s)'
BY DEF PaymentOf, AtWork

LEMMA PaymentAtOne ==
  ASSUME PaymentInv, NEW s \in Server, PaymentOf(s)',
         DOMAIN search' = Server, DOMAIN nonceFound' = Server,
         \A t \in Server \ {s} : /\ campaign'[t] = campaign[t] /\ search'[t] = search[t]
                                /\ nonceFound'[t] = nonceFound[t]
  PROVE  PaymentInv'
<1>1. \A t \in Server \ {s} : PaymentOf(t)'
  BY PaymentElsewhere DEF PaymentInv
<1>2. QED
  BY <1>1 DEF PaymentInv

LEMMA PaymentStep ==
  ASSUME TypeOK, PaymentInv, Threads > 0, [PaidNext]_paidVars
  PROVE  PaymentInv'
<1>0. /\ DOMAIN search = Server /\ DOMAIN nonceFound = Server
      /\ \A s \in Server : PaymentOf(s)
  BY DEF PaymentInv
<1>1. CASE UNCHANGED paidVars
  BY <1>0, <1>1, PaymentElsewhere DEF paidVars, payment, vars, PaymentInv
<1>2. CASE Elect /\ UNCHANGED payment
  <2>1. UNCHANGED <<search, nonceFound>>
    BY <1>2 DEF payment
  <2>2. ASSUME NEW s \in Server PROVE PaymentOf(s)'
    <3>1. /\ campaign[s].pc = "computing" => campaign'[s].pc = "computing"
          /\ campaign'[s].pc \in {"requesting", "waiting"} =>
                campaign[s].pc \in {"requesting", "waiting"}
      BY <1>2, ElectKeepsComputing
    <3>2. PaymentOf(s)
      BY <1>0
    <3>3. QED
      BY <2>1, <3>1, <3>2 DEF PaymentOf, AtWork
  <2>3. QED
    BY <1>0, <2>1, <2>2 DEF PaymentInv
<1>3. ASSUME NEW s \in Server, CalculationFails(s) PROVE PaymentInv'
  <2>1. /\ UNCHANGED <<search, nonceFound>>
        /\ campaign' = [campaign EXCEPT ![s].pc = "dead"] /\ ~search[s].searching
    BY <1>3 DEF CalculationFails, PenaltyFails, Payable, payment
  <2>2. /\ campaign'[s].pc = "dead"
        /\ \A t \in Server \ {s} : campaign'[t] = campaign[t]
    BY <2>1 DEF TypeOK
  <2>3. PaymentOf(s)
    BY <1>0
  <2>4. PaymentOf(s)'
    BY <2>1, <2>2, <2>3 DEF PaymentOf, AtWork
  <2>5. QED
    BY <1>0, <2>1, <2>2, <2>4, PaymentAtOne
<1>4. ASSUME NEW s \in Server, PayPenalty(s) PROVE PaymentInv'
  <2>1. campaign[s].pc = "computing" /\ Reputation /\ UNCHANGED <<campaign, nonceFound>>
    BY <1>4 DEF PayPenalty, Payable, vars
  <2>2. search' = [search EXCEPT ![s] = [penalty |-> Penalty(s), searching |-> TRUE,
                                         checking |-> Threads, hashing |-> 0]]
    BY <1>4 DEF PayPenalty
  <2>3. /\ search'[s].checking = Threads /\ search'[s].hashing = 0
        /\ search'[s].searching = TRUE
        /\ DOMAIN search'[s] = {"penalty", "searching", "checking", "hashing"}
        /\ DOMAIN search' = Server
        /\ \A t \in Server \ {s} : search'[t] = search[t]
    BY <1>0, <2>2
  <2>4. Threads \in Nat
    BY PaymentAssumption
  <2>5. AtWork(s)' = Threads
    BY <2>3, <2>4 DEF AtWork
  <2>6. PaymentOf(s)'
    BY <2>1, <2>3, <2>4, <2>5 DEF PaymentOf
  <2>7. QED
    BY <1>0, <2>1, <2>3, <2>6, PaymentAtOne
<1>5. ASSUME NEW s \in Server, CheckNonce(s) PROVE PaymentInv'
  <2>1. search[s].checking > 0 /\ UNCHANGED <<campaign, nonceFound>>
    BY <1>5 DEF CheckNonce, vars
  <2>2. PaymentOf(s)
    BY <1>0
  <2>3. search' = IF nonceFound[s]
                  THEN [search EXCEPT ![s].checking = @ - 1]
                  ELSE [search EXCEPT ![s].checking = @ - 1, ![s].hashing = @ + 1]
    BY <1>5 DEF CheckNonce
  <2>4. /\ search'[s].checking = search[s].checking - 1
        /\ search'[s].hashing = IF nonceFound[s] THEN search[s].hashing
                                                 ELSE search[s].hashing + 1
        /\ search'[s].searching = search[s].searching
        /\ DOMAIN search'[s] = DOMAIN search[s] /\ DOMAIN search' = Server
        /\ \A t \in Server \ {s} : search'[t] = search[t]
    BY <1>0, <2>2, <2>3 DEF PaymentOf
  <2>5. search[s].searching
    BY <2>1, <2>2 DEF PaymentOf, AtWork
  <2>6. /\ search'[s].checking \in Nat /\ search'[s].hashing \in Nat
        /\ ~nonceFound[s] => AtWork(s)' = AtWork(s)
    BY <2>1, <2>2, <2>4 DEF PaymentOf, AtWork
  <2>7. PaymentOf(s)'
    BY <2>1, <2>2, <2>4, <2>5, <2>6 DEF PaymentOf
  <2>8. QED
    BY <1>0, <2>1, <2>4, <2>7, PaymentAtOne
<1>6. ASSUME NEW s \in Server, NEW run \in 1..DigestLength, HashNonce(s, run)
      PROVE  PaymentInv'
  <2>1. search[s].hashing > 0 /\ UNCHANGED campaign
    BY <1>6 DEF HashNonce, vars
  <2>2. PaymentOf(s)
    BY <1>0
  <2>3. search[s].searching
    BY <2>1, <2>2 DEF PaymentOf, AtWork
  <2>4. CASE ValidateHashRes(run, search[s].penalty)
    <3>1. /\ nonceFound' = [nonceFound EXCEPT ![s] = TRUE]
          /\ search' = [search EXCEPT ![s].hashing = @ - 1]
      BY <1>6, <2>4 DEF HashNonce
    <3>2. /\ nonceFound'[s] /\ search'[s].hashing = search[s].hashing - 1
          /\ search'[s].checking = search[s].checking
          /\ search'[s].searching = search[s].searching
          /\ DOMAIN search'[s] = DOMAIN search[s] /\ DOMAIN search' = Server
          /\ DOMAIN nonceFound' = Server
          /\ \A t \in Server \ {s} : search'[t] = search[t] /\ nonceFound'[t] = nonceFound[t]
      BY <1>0, <2>2, <3>1 DEF PaymentOf
    <3>3. search'[s].checking \in Nat /\ search'[s].hashing \in Nat
      BY <2>1, <2>2, <3>2 DEF PaymentOf
    <3>4. PaymentOf(s)'
      BY <2>1, <2>2, <2>3, <3>2, <3>3 DEF PaymentOf
    <3>5. QED
      BY <2>1, <3>2, <3>4, PaymentAtOne
  <2>5. CASE ~ValidateHashRes(run, search[s].penalty)
    <3>1. /\ nonceFound' = nonceFound
          /\ search' = [search EXCEPT ![s].hashing = @ - 1, ![s].checking = @ + 1]
      BY <1>6, <2>5 DEF HashNonce
    <3>2. /\ search'[s].hashing = search[s].hashing - 1
          /\ search'[s].checking = search[s].checking + 1
          /\ search'[s].searching = search[s].searching
          /\ DOMAIN search'[s] = DOMAIN search[s] /\ DOMAIN search' = Server
          /\ \A t \in Server \ {s} : search'[t] = search[t]
      BY <1>0, <2>2, <3>1 DEF PaymentOf
    <3>3. /\ search'[s].checking \in Nat /\ search'[s].hashing \in Nat
          /\ AtWork(s)' = AtWork(s)
      BY <2>1, <2>2, <3>2 DEF PaymentOf, AtWork
    <3>4. PaymentOf(s)'
      BY <2>1, <2>2, <2>3, <3>1, <3>2, <3>3 DEF PaymentOf
    <3>5. QED
      BY <1>0, <2>1, <3>1, <3>2, <3>4, PaymentAtOne
  <2>6. QED
    BY <2>4, <2>5
<1>7. ASSUME NEW s \in Server, BecomePaidNominee(s) PROVE PaymentInv'
  <2>1. /\ Reputation => search[s].searching /\ AtWork(s) = 0
        /\ search' = [search EXCEPT ![s].searching = FALSE] /\ nonceFound' = nonceFound
        /\ campaign' = [campaign EXCEPT ![s] = [pc |-> "requesting", view |-> view[s] + 1]]
    BY <1>7 DEF BecomePaidNominee, AllThreadsReturned, BecomeNominee
  <2>2. PaymentOf(s)
    BY <1>0
  <2>3. /\ search'[s].hashing = search[s].hashing
        /\ search'[s].checking = search[s].checking
        /\ search'[s].searching = FALSE
        /\ DOMAIN search'[s] = DOMAIN search[s] /\ DOMAIN search' = Server
        /\ \A t \in Server \ {s} : search'[t] = search[t]
    BY <1>0, <2>1, <2>2 DEF PaymentOf
  <2>4. /\ campaign'[s].pc = "requesting"
        /\ \A t \in Server \ {s} : campaign'[t] = campaign[t]
    BY <2>1 DEF TypeOK
  <2>5. AtWork(s) = 0 /\ (Reputation => nonceFound[s])
    BY <2>1, <2>2 DEF PaymentOf
  <2>6. AtWork(s)' = AtWork(s)
    BY <2>3 DEF AtWork
  <2>7. PaymentOf(s)'
    BY <2>1, <2>2, <2>3, <2>4, <2>5, <2>6 DEF PaymentOf
  <2>8. QED
    BY <1>0, <2>1, <2>3, <2>4, <2>7, PaymentAtOne
<1>8. QED
  BY <1>1, <1>2, <1>3, <1>4, <1>5, <1>6, <1>7 DEF PaidNext, Pay

(* With a thread or more: who asks for votes has found a nonce and has no   *)
(* thread that still searches, in whatever order the threads of all servers *)
(* ran.  (Without threads payPenalty returns at once and nothing is paid.)  *)
THEOREM VotesArePaidFor == Threads > 0 => (PaidSpec => []AsksAfterPaying)
<1> SUFFICES ASSUME Threads > 0 PROVE PaidSpec => []AsksAfterPaying
  OBVIOUS
<1>1. PaymentInv => AsksAfterPaying
  BY DEF PaymentInv, PaymentOf, AsksAfterPaying, AtWork
<1>2. ElectInv => TypeOK
  BY DEF ElectInv
<1>3. PaymentInv /\ TypeOK /\ [PaidNext]_paidVars => PaymentInv'
  BY PaymentStep
<1>4. QED
  BY <1>1, <1>2, <1>3, PaymentInit, PaidElectionRefines, ElectInvariance, PTL DEF PaidSpec

-----------------------------------------------------------------------------
(* One candidate. *)
LEMMA WinnersAreCandidates ==
  ASSUME WinnerIsBacked, NEW s \in Server, winning[s].pc = "inaugurate"
  PROVE  /\ s \in Candidates
         /\ vcCache[s][winning[s].view].endorsement \in Endorsement
BY DEF WinnerIsBacked, Endorsement

LEMMA WinningOfOne ==
  ASSUME TypeOK, [Next]_vars, NEW s \in Server, winning'[s].pc # "none"
  PROVE  \/ winning'[s] = winning[s] /\ ~Inaugurate(s)
         \/ /\ Inaugurate(s) /\ winning[s].pc = "inaugurate"
            /\ winning'[s].pc = "notify" /\ winning'[s].view = winning[s].view
         \/ winning'[s].pc = "inaugurate" /\ winning'[s] # winning[s]
<1>0. winning \in [Server -> [pc : {"none", "inaugurate", "notify"}, view : View]]
  BY DEF TypeOK
<1>1. CASE Inaugurate(s)
  BY <1>0, <1>1 DEF Inaugurate
<1>2. CASE ~Inaugurate(s)
  <2>1. ASSUME NEW t \in Server, Inaugurate(t) PROVE winning'[s] = winning[s]
    BY <1>0, <1>2, <2>1 DEF Inaugurate
  <2>2. ASSUME NEW t \in Server, NotifySuccess(t) PROVE winning'[s] = winning[s]
    BY <1>0, <2>2 DEF NotifySuccess, NoWinner
  <2>3. ASSUME NEW h \in counting, CountVote(h)
        PROVE  winning'[s] = winning[s] \/ winning'[s].pc = "inaugurate"
    <3>1. \/ winning' = winning
          \/ winning' = [winning EXCEPT ![h.grant.dst] = [pc |-> "inaugurate", view |-> h.myView]]
      BY <2>3, Zenon DEF CountVote
    <3>2. QED
      BY <1>0, <3>1
  <2>4. QED
    BY <1>2, <2>1, <2>2, <2>3, WinningChanges
<1>3. QED
  BY <1>1, <1>2

LEMMA RequestsStep ==
  ASSUME OneCandidate, TypeOK, CampaignsAreOfCandidates, RequestsGoToOthers, [Next]_vars
  PROVE  RequestsGoToOthers'
<1>1. ASSUME NEW m \in msgs', m.type = "voteMe" PROVE m.dst \notin Candidates
  <2>1. CASE m \in msgs
    BY <1>1, <2>1 DEF RequestsGoToOthers
  <2>2. CASE m \notin msgs
    <3>1. PICK s \in Server : RequestVotes(s) /\ m.dst \in Server \ {s}
      BY <1>1, <2>2, NewRequest
    <3>2. s \in Candidates
      BY <3>1 DEF RequestVotes, CampaignsAreOfCandidates
    <3>3. QED
      BY <3>1, <3>2 DEF OneCandidate
  <2>3. QED
    BY <2>1, <2>2
<1>2. ASSUME NEW h \in voting' PROVE h.req.dst \notin Candidates
  <2>1. CASE voting' \subseteq voting
    BY <2>1 DEF RequestsGoToOthers
  <2>2. ASSUME NEW m \in msgs, ReadRequest(m) PROVE h.req.dst \notin Candidates
    <3>1. h \in voting \/ h = [pc |-> "read", req |-> m, myView |-> view[m.dst]]
      BY <2>2 DEF ReadRequest
    <3>2. m.dst \notin Candidates
      BY <2>2 DEF ReadRequest, RequestsGoToOthers
    <3>3. QED
      BY <3>1, <3>2 DEF RequestsGoToOthers
  <2>3. ASSUME NEW k \in voting, AdoptView(k) PROVE h.req.dst \notin Candidates
    <3>1. h \in voting \/ h = [k EXCEPT !.pc = "set"]
      BY <2>3 DEF AdoptView
    <3>2. [k EXCEPT !.pc = "set"].req = k.req
      BY VotingFields
    <3>3. QED
      BY <3>1, <3>2 DEF RequestsGoToOthers
  <2>4. QED
    BY <2>1, <2>2, <2>3, VotingChanges
<1>3. QED
  BY <1>1, <1>2 DEF RequestsGoToOthers

(* The view of the candidate is its own. *)
LEMMA CandidateView ==
  ASSUME TypeOK, RequestsGoToOthers, NEW c \in Candidates, [Next]_vars
  PROVE  \/ view'[c] = view[c] /\ ~BecomeNominee(c)
         \/ BecomeNominee(c) /\ view'[c] = view[c] + 1
<1>0. view \in [Server -> View] /\ c \in Server
  BY ElectionAssumption DEF TypeOK
<1>1. CASE BecomeNominee(c)
  BY <1>0, <1>1 DEF BecomeNominee
<1>2. CASE ~BecomeNominee(c)
  <2>1. ASSUME NEW s \in Server, BecomeNominee(s) PROVE view'[c] = view[c]
    BY <1>0, <1>2, <2>1 DEF BecomeNominee
  <2>2. ASSUME NEW h \in voting, AdoptView(h) PROVE view'[c] = view[c]
    BY <1>0, <2>2 DEF AdoptView, RequestsGoToOthers
  <2>3. QED
    BY <1>2, <2>1, <2>2, ViewChanges
<1>3. QED
  BY <1>1, <1>2

LEMMA CandidateViewGrows ==
  ASSUME TypeOK, RequestsGoToOthers, NEW c \in Candidates, [Next]_vars
  PROVE  view'[c] >= view[c]
<1>1. view[c] \in Int
  BY ViewZero, ElectionAssumption DEF TypeOK
<1>2. QED
  BY <1>1, CandidateView

LEMMA RequestingOfOne ==
  ASSUME TypeOK, [Next]_vars, NEW s \in Server, campaign'[s].pc = "requesting"
  PROVE  campaign'[s] = campaign[s] \/ BecomeNominee(s)
<1>0. campaign \in [Server -> [pc : {"idle", "computing", "requesting", "waiting",
                                     "retrying", "dead"}, view : View]]
  BY DEF TypeOK
<1>1. CASE UNCHANGED campaign
  BY <1>1
<1>2. ASSUME NEW t \in Server, Campaign(t)
      PROVE  campaign'[s] = campaign[s] \/ BecomeNominee(s)
  <2>1. CASE t = s
    BY <1>0, <1>2, <2>1
       DEF Campaign, StartCampaign, PenaltyFails, RequestRefused, RequestVotes,
           CampaignAborted, CampaignTimedOut, CampaignSucceeded
  <2>2. CASE t # s
    BY <1>0, <1>2, <2>2
       DEF Campaign, StartCampaign, PenaltyFails, BecomeNominee, RequestRefused,
           RequestVotes, CampaignAborted, CampaignTimedOut, CampaignSucceeded
  <2>3. QED
    BY <2>1, <2>2
<1>3. QED
  BY <1>1, <1>2, CampaignChanges

LEMMA OwnViewStep ==
  ASSUME TypeOK, RequestsGoToOthers, RequestsInOwnView, [Next]_vars
  PROVE  RequestsInOwnView'
<1> SUFFICES ASSUME NEW c \in Candidates, campaign'[c].pc = "requesting"
             PROVE  campaign'[c].view = view'[c]
  BY DEF RequestsInOwnView
<1>0. c \in Server
  BY ElectionAssumption
<1>1. CASE BecomeNominee(c)
  BY <1>0, <1>1 DEF BecomeNominee, TypeOK
<1>2. CASE ~BecomeNominee(c)
  <2>1. campaign'[c] = campaign[c]
    BY <1>0, <1>2, RequestingOfOne
  <2>2. view'[c] = view[c]
    BY <1>2, CandidateView, Zenon
  <2>3. QED
    BY <2>1, <2>2 DEF RequestsInOwnView
<1>3. QED
  BY <1>1, <1>2

(* What happens to a vote cached by the candidate. *)
LEMMA CandidateVoteChanges ==
  ASSUME TypeOK, RequestsGoToOthers, RequestsInOwnView, NEW c \in Candidates,
         NEW v \in View, [Next]_vars
  PROVE  \/ vcCache'[c][v] = vcCache[c][v]
         \/ /\ RequestVotes(c) /\ v = view[c] /\ v = campaign[c].view
            /\ vcCache[c][v] = NoVote
            /\ vcCache'[c][v] = [endorsement |-> <<c, v>>, shares |-> <<PenSign(c, <<c, v>>)>>]
         \/ \E h \in counting :
              /\ CountVote(h) /\ c = h.grant.dst /\ v = h.myView
              /\ vcCache[c][v] # NoVote /\ Len(vcCache[c][v].shares) < Quorum
              /\ vcCache'[c][v].endorsement = vcCache[c][v].endorsement
              /\ vcCache'[c][v].shares = Append(vcCache[c][v].shares, h.grant.share)
<1>0. c \in Server
  BY ElectionAssumption
<1>1. CASE /\ RequestVotes(c) /\ v = view[c]
           /\ vcCache'[c][v] =
                [endorsement |-> CommonEndorsement(c, campaign[c].view),
                 shares |-> <<PenSign(c, CommonEndorsement(c, campaign[c].view))>>]
  <2>1. campaign[c].view = v /\ vcCache[c][v] = NoVote
    BY <1>1 DEF RequestVotes, RequestsInOwnView
  <2>2. QED
    BY <1>1, <2>1 DEF CommonEndorsement
<1>2. \A h \in voting : ~(GiveVote(h) /\ c = h.req.dst)
  BY DEF RequestsGoToOthers
<1>3. QED
  BY <1>0, <1>1, <1>2, CachedVoteChanges

LEMMA CachedViewStep ==
  ASSUME TypeOK, RequestsGoToOthers, RequestsInOwnView, CachedUnderOwnView, [Next]_vars
  PROVE  CachedUnderOwnView'
<1> SUFFICES ASSUME NEW c \in Candidates, NEW v \in View, vcCache'[c][v] # NoVote
             PROVE  v <= view'[c] /\ vcCache'[c][v].endorsement = <<c, v>>
  BY DEF CachedUnderOwnView
<1>0. view[c] \in View /\ view[c] \in Int /\ v \in Int /\ view'[c] >= view[c]
  BY ViewZero, CandidateViewGrows, ElectionAssumption DEF TypeOK
<1>1. view'[c] \in Int
  BY <1>0, CandidateView
<1>2. CASE vcCache'[c][v] = vcCache[c][v]
  <2>1. v <= view[c] /\ vcCache[c][v].endorsement = <<c, v>>
    BY <1>2 DEF CachedUnderOwnView
  <2>2. QED
    BY <1>0, <1>1, <1>2, <2>1
<1>3. CASE /\ v = view[c]
           /\ vcCache'[c][v] = [endorsement |-> <<c, v>>, shares |-> <<PenSign(c, <<c, v>>)>>]
  BY <1>0, <1>1, <1>3
<1>4. CASE /\ vcCache[c][v] # NoVote
           /\ vcCache'[c][v].endorsement = vcCache[c][v].endorsement
  <2>1. v <= view[c] /\ vcCache[c][v].endorsement = <<c, v>>
    BY <1>4 DEF CachedUnderOwnView
  <2>2. QED
    BY <1>0, <1>1, <1>4, <2>1
<1>5. QED
  BY <1>2, <1>3, <1>4, CandidateVoteChanges

LEMMA OwnEndorsementStep ==
  ASSUME TypeOK, WinnerIsBacked, CachedUnderOwnView, OwnEndorsement, [Next]_vars
  PROVE  OwnEndorsement'
<1> SUFFICES ASSUME NEW e \in elected', e \notin elected
             PROVE  e.endorsement = <<e.leader, e.view>>
  BY DEF OwnEndorsement
<1>1. PICK s \in Server : Inaugurate(s)
  BY ElectedChanges
<1>2. /\ e = [leader |-> s, view |-> winning[s].view,
              endorsement |-> vcCache[s][winning[s].view].endorsement]
      /\ winning[s].pc = "inaugurate"
  BY <1>1 DEF Inaugurate
<1>3. /\ s \in Candidates /\ winning[s].view \in View
      /\ vcCache[s][winning[s].view] # NoVote
  <2>1. winning[s].view \in View
    BY DEF TypeOK
  <2>2. QED
    BY <1>2, <2>1, WinnersAreCandidates, VoteFields
<1>4. QED
  BY <1>2, <1>3 DEF CachedUnderOwnView

(* A vote that is full stays as it is. *)
LEMMA FullStays ==
  ASSUME TypeOK, RequestsGoToOthers, RequestsInOwnView, NEW c \in Candidates,
         NEW v \in View, Len(vcCache[c][v].shares) >= Quorum, [Next]_vars
  PROVE  vcCache'[c][v] = vcCache[c][v]
<1>1. Len(vcCache[c][v].shares) \in Nat
  BY VoteFields, ElectionAssumption
<1>2. vcCache[c][v] # NoVote
  BY QuorumValues, NoVoteFields
<1>3. ~(Len(vcCache[c][v].shares) < Quorum)
  BY <1>1, QuorumValues
<1>4. QED
  BY <1>2, <1>3, CandidateVoteChanges

LEMMA FullStep ==
  ASSUME TypeOK, WinnerHoldsTheLock, WinnerIsBacked, RequestsGoToOthers, RequestsInOwnView,
         ElectedIsFull, [Next]_vars
  PROVE  ElectedIsFull'
<1>0. Candidates \subseteq Server
  BY ElectionAssumption
<1>1. ASSUME NEW e \in elected' PROVE Len(vcCache'[e.leader][e.view].shares) >= Quorum
  <2>1. CASE e \in elected
    <3>1. e.leader \in Candidates /\ e.view \in View
      BY <2>1 DEF TypeOK
    <3>2. Len(vcCache[e.leader][e.view].shares) >= Quorum
      BY <2>1 DEF ElectedIsFull
    <3>3. QED
      BY <3>1, <3>2, FullStays
  <2>2. CASE e \notin elected
    <3>1. PICK s \in Server : Inaugurate(s)
      BY <2>2, ElectedChanges
    <3>2. /\ e.leader = s /\ e.view = winning[s].view
          /\ winning[s].pc = "inaugurate" /\ vcCache' = vcCache
      BY <2>2, <3>1 DEF Inaugurate, cells
    <3>3. s \in Candidates
      BY <3>2, WinnersAreCandidates
    <3>4. QED
      BY <3>2, <3>3 DEF ElectedIsFull
  <2>3. QED
    BY <2>1, <2>2
<1>2. ASSUME NEW c \in Candidates, winning'[c].pc # "none"
      PROVE  Len(vcCache'[c][winning'[c].view].shares) >= Quorum
  <2>1. ASSUME winning[c].pc # "none", winning'[c].view = winning[c].view
        PROVE  Len(vcCache'[c][winning'[c].view].shares) >= Quorum
    <3>1. winning[c].view \in View
      BY <1>0 DEF TypeOK
    <3>2. QED
      BY <1>0, <2>1, <3>1, WinnerVoteStays DEF ElectedIsFull
  <2>2. ASSUME winning'[c].pc = "inaugurate", winning'[c] # winning[c]
        PROVE  Len(vcCache'[c][winning'[c].view].shares) >= Quorum
    <3>1. PICK h \in counting :
             /\ CountVote(h) /\ c = h.grant.dst
             /\ winning'[c] = [pc |-> "inaugurate", view |-> h.myView]
             /\ Decides(Append(vcCache[c][h.myView].shares, h.grant.share),
                        vcCache[c][h.myView].endorsement)
      BY <1>0, <2>2, NewWinner
    <3>2. PICK v, new : v = h.myView /\ new = Append(vcCache[c][v].shares, h.grant.share)
      OBVIOUS
    <3>3. v \in View /\ winning'[c].view = v
      <4>1. winning'[c].view = h.myView
        BY <3>1
      <4>2. QED
        BY <3>2, <4>1, CountingFields
    <3>4. vcCache' = [vcCache EXCEPT ![c][v].shares = new] /\ vcCache[c][v] # NoVote
      BY <3>1, <3>2, Zenon DEF CountVote
    <3>5. vcCache[c][v] \in [endorsement : Endorsement, shares : Seq(Share(Endorsement))]
      BY <1>0, <3>3, <3>4 DEF TypeOK, Vote
    <3>6. vcCache'[c][v].shares = new
      BY <1>0, <3>3, <3>4, <3>5 DEF TypeOK
    <3>7. Len(new) = Quorum
      BY <3>1, <3>2, Zenon DEF Decides
    <3>8. QED
      BY <3>3, <3>6, <3>7, QuorumValues
  <2>3. QED
    BY <1>0, <1>2, <2>1, <2>2, WinningOfOne
<1>3. QED
  BY <1>1, <1>2, QuorumValues DEF ElectedIsFull, Quorum, N

LEMMA UnannouncedStep ==
  ASSUME OneCandidate, TypeOK, WinnerIsBacked, ElectedIsFull, WinnerIsUnannounced, [Next]_vars
  PROVE  WinnerIsUnannounced'
<1> SUFFICES ASSUME NEW c \in Candidates, winning'[c].pc = "inaugurate", NEW e \in elected',
                    <<e.leader, e.view>> = <<c, winning'[c].view>>
             PROVE  FALSE
  BY DEF WinnerIsUnannounced
<1>0. c \in Server
  BY ElectionAssumption
<1>1. CASE winning'[c] = winning[c] /\ ~Inaugurate(c)
  <2>1. ASSUME NEW s \in Server, Inaugurate(s) PROVE FALSE
    <3>1. s \in Candidates
      BY <2>1, WinnersAreCandidates DEF Inaugurate
    <3>2. QED
      BY <1>1, <2>1, <3>1 DEF OneCandidate
  <2>2. e \in elected
    BY <2>1, ElectedChanges
  <2>3. QED
    BY <1>1, <2>2 DEF WinnerIsUnannounced
<1>2. CASE winning'[c] # winning[c]
  <2>1. PICK h \in counting :
           /\ CountVote(h) /\ c = h.grant.dst
           /\ winning'[c] = [pc |-> "inaugurate", view |-> h.myView]
    BY <1>0, <1>2, NewWinner
  <2>2. e \in elected /\ e.leader = c /\ e.view = h.myView
    <3>1. elected' = elected
      BY <2>1, Zenon DEF CountVote, history
    <3>2. winning'[c].view = h.myView
      BY <2>1
    <3>3. e.leader = c /\ e.view = winning'[c].view
      OBVIOUS
    <3>4. QED
      BY <3>1, <3>2, <3>3
  <2>3. Len(vcCache[c][h.myView].shares) < Quorum
    BY <2>1, Zenon DEF CountVote
  <2>4. Len(vcCache[c][h.myView].shares) >= Quorum
    BY <2>2 DEF ElectedIsFull
  <2>5. Len(vcCache[c][h.myView].shares) \in Nat
    BY <1>0, CountingFields, VoteFields
  <2>6. QED
    BY <2>3, <2>4, <2>5, QuorumValues
<1>3. QED
  BY <1>0, <1>1, <1>2, WinningOfOne

LEMMA OneCandidateInit == Init => OneCandidateInv
<1> SUFFICES ASSUME Init PROVE OneCandidateInv
  OBVIOUS
<1>1. Candidates \subseteq Server
  BY ElectionAssumption
<1>2. /\ msgs = {} /\ voting = {} /\ elected = {}
      /\ \A c \in Candidates : /\ campaign[c].pc = "idle" /\ winning[c].pc = "none"
                              /\ \A v \in View : vcCache[c][v] = NoVote
  BY <1>1 DEF Init, Idle, NoWinner
<1>3. RequestsGoToOthers /\ RequestsInOwnView /\ CachedUnderOwnView
  BY <1>2 DEF RequestsGoToOthers, RequestsInOwnView, CachedUnderOwnView
<1>4. OwnEndorsement /\ ElectedIsFull /\ WinnerIsUnannounced
  BY <1>2 DEF OwnEndorsement, ElectedIsFull, WinnerIsUnannounced
<1>5. QED
  BY <1>3, <1>4 DEF OneCandidateInv

LEMMA OneCandidateStep ==
  ASSUME OneCandidate, ElectInv, OneCandidateInv, [Next]_vars
  PROVE  OneCandidateInv'
<1> USE DEF ElectInv, OneCandidateInv
<1>1. RequestsGoToOthers' /\ RequestsInOwnView' /\ CachedUnderOwnView'
  BY RequestsStep, OwnViewStep, CachedViewStep
<1>2. OwnEndorsement' /\ ElectedIsFull' /\ WinnerIsUnannounced'
  BY OwnEndorsementStep, FullStep, UnannouncedStep
<1>3. QED
  BY <1>1, <1>2

LEMMA OneCandidateInvariance == OneCandidate => (Spec => []OneCandidateInv)
<1> SUFFICES ASSUME OneCandidate PROVE Spec => []OneCandidateInv
  OBVIOUS
<1>1. ElectInv /\ OneCandidateInv /\ [Next]_vars => OneCandidateInv'
  BY OneCandidateStep
<1>2. QED
  BY <1>1, OneCandidateInit, ElectInvariance, PTL DEF Spec

(* As long as one server campaigns, also again and again after timeouts and *)
(* with lost, late and duplicated votes: what it announces in a view is     *)
(* certified for that very view.                                            *)
THEOREM CertifiedForItsView == OneCandidate => (Spec => []OwnEndorsement)
<1> SUFFICES ASSUME OneCandidate PROVE Spec => []OwnEndorsement
  OBVIOUS
<1>1. OneCandidateInv => OwnEndorsement
  BY DEF OneCandidateInv
<1>2. QED
  BY <1>1, OneCandidateInvariance, PTL

(* ... and it announces itself at most once in a view: the handlers of late *)
(* votes find the vote full, and no second campaign opens it again.         *)
THEOREM InauguratedAtMostOnce == OneCandidate => (Spec => InauguratedOnce)
<1> SUFFICES ASSUME OneCandidate PROVE Spec => InauguratedOnce
  OBVIOUS
<1>1. ElectInv /\ OneCandidateInv =>
        \A s \in Server :
           Inaugurate(s) => \A e \in elected : <<e.leader, e.view>> # <<s, winning[s].view>>
  <2> SUFFICES ASSUME ElectInv, OneCandidateInv, NEW s \in Server, Inaugurate(s)
               PROVE  \A e \in elected : <<e.leader, e.view>> # <<s, winning[s].view>>
    OBVIOUS
  <2>1. winning[s].pc = "inaugurate"
    BY DEF Inaugurate
  <2>2. s \in Candidates
    BY <2>1, WinnersAreCandidates DEF ElectInv
  <2>3. QED
    BY <2>1, <2>2 DEF OneCandidateInv, WinnerIsUnannounced
<1>2. QED
  BY <1>1, OneCandidateInvariance, ElectInvariance, PTL DEF InauguratedOnce

-----------------------------------------------------------------------------
(* One candidate never asks twice in a view, and is told of no success that *)
(* was not announced.                                                       *)
LEMMA InItsViewStep ==
  ASSUME TypeOK, RequestsGoToOthers, CampaignInItsView, [Next]_vars
  PROVE  CampaignInItsView'
<1> SUFFICES ASSUME NEW c \in Candidates, campaign'[c].pc \in {"requesting", "waiting"}
             PROVE  campaign'[c].view = view'[c]
  BY DEF CampaignInItsView
<1>0. c \in Server
  BY ElectionAssumption
<1>1. CASE BecomeNominee(c)
  BY <1>0, <1>1 DEF BecomeNominee, TypeOK
<1>2. CASE ~BecomeNominee(c)
  <2>1. view'[c] = view[c]
    BY <1>2, CandidateView, Zenon
  <2>2. /\ campaign'[c].view = campaign[c].view
        /\ campaign[c].pc \in {"requesting", "waiting"}
    <3>1. CASE campaign'[c].pc = "requesting"
      BY <1>0, <1>2, <3>1, RequestingOfOne
    <3>2. CASE campaign'[c].pc = "waiting"
      BY <1>0, <3>2, NewlyWaiting DEF RequestVotes
    <3>3. QED
      BY <3>1, <3>2
  <2>3. QED
    BY <2>1, <2>2 DEF CampaignInItsView
<1>3. QED
  BY <1>1, <1>2

LEMMA NothingCachedStep ==
  ASSUME TypeOK, RequestsGoToOthers, RequestsInOwnView, CachedUnderOwnView, NothingCachedYet,
         [Next]_vars
  PROVE  NothingCachedYet'
<1> SUFFICES ASSUME NEW c \in Candidates, campaign'[c].pc = "requesting"
             PROVE  vcCache'[c][view'[c]] = NoVote
  BY DEF NothingCachedYet
<1>0. c \in Server /\ view[c] \in View /\ view[c] \in Int
  BY ViewZero, ElectionAssumption DEF TypeOK
<1>1. CASE BecomeNominee(c)
  <2>1. view[c] + 1 \in View /\ vcCache' = vcCache /\ view'[c] = view[c] + 1
    BY <1>0, <1>1, ElectionAssumption DEF BecomeNominee, View, TypeOK
  <2>2. ~(view[c] + 1 <= view[c])
    BY <1>0
  <2>3. QED
    BY <2>1, <2>2 DEF CachedUnderOwnView
<1>2. CASE ~BecomeNominee(c)
  <2>1. view'[c] = view[c] /\ campaign'[c] = campaign[c]
    BY <1>0, <1>2, CandidateView, RequestingOfOne, Zenon
  <2>2. vcCache[c][view[c]] = NoVote
    BY <2>1 DEF NothingCachedYet
  <2>3. ~RequestVotes(c)
    BY <1>0, <2>1 DEF RequestVotes, TypeOK
  <2>4. vcCache'[c][view[c]] = vcCache[c][view[c]]
    BY <1>0, <2>2, <2>3, CandidateVoteChanges
  <2>5. QED
    BY <2>1, <2>2, <2>4
<1>3. QED
  BY <1>1, <1>2

LEMMA SuccessStep ==
  ASSUME OneCandidate, TypeOK, WinnerIsBacked, RequestsGoToOthers, CachedUnderOwnView,
         SuccessFollowsElection, [Next]_vars
  PROVE  SuccessFollowsElection'
<1> DEFINE Earned(s) == \E e \in elected' : e.leader = s /\ e.view <= view'[s]
<1> SUFFICES ASSUME NEW s \in Server, succeeded'[s] \/ winning'[s].pc = "notify"
             PROVE  Earned(s)
  BY DEF SuccessFollowsElection
<1>0. /\ winning \in [Server -> [pc : {"none", "inaugurate", "notify"}, view : View]]
      /\ succeeded \in [Server -> BOOLEAN]
      /\ elected \subseteq elected' /\ Candidates \subseteq Server
  BY HistoryGrows, ElectionAssumption DEF TypeOK
<1>1. ASSUME succeeded[s] \/ winning[s].pc = "notify" PROVE Earned(s)
  <2>1. PICK e \in elected : e.leader = s /\ e.view <= view[s]
    BY <1>1 DEF SuccessFollowsElection
  <2>2. s \in Candidates /\ e.view \in Int /\ view[s] \in Int
    BY <1>0, <2>1, ViewZero DEF TypeOK
  <2>3. view'[s] \in Int /\ view'[s] >= view[s]
    BY <2>2, CandidateView, CandidateViewGrows
  <2>4. e.view <= view'[s]
    BY <2>1, <2>2, <2>3
  <2>5. QED
    BY <1>0, <2>1, <2>4
<1>2. ASSUME Inaugurate(s) PROVE Earned(s)
  <2> DEFINE v == winning[s].view
             e == [leader |-> s, view |-> v, endorsement |-> vcCache[s][v].endorsement]
  <2>1. e \in elected' /\ view' = view /\ winning[s].pc = "inaugurate"
    BY <1>2 DEF Inaugurate, cells
  <2>2. s \in Candidates /\ v \in View
    BY <1>0, <2>1, WinnersAreCandidates
  <2>3. vcCache[s][v] # NoVote
    <3>1. vcCache[s][v].endorsement \in Endorsement
      BY <2>1 DEF WinnerIsBacked
    <3>2. QED
      BY <3>1, NoVoteFields, ElectionAssumption
  <2>4. v <= view[s]
    BY <2>2, <2>3 DEF CachedUnderOwnView
  <2>5. e.leader = s /\ e.view = v
    OBVIOUS
  <2> HIDE DEF e
  <2>6. QED
    BY <2>1, <2>4, <2>5
<1>3. CASE succeeded'[s] /\ ~succeeded[s]
  <2>1. PICK t \in Server : CampaignSucceeded(t) \/ NotifySuccess(t)
    BY <1>3, SuccessChanges
  <2>2. CASE CampaignSucceeded(t)
    BY <1>0, <1>3, <2>2 DEF CampaignSucceeded
  <2>3. CASE NotifySuccess(t)
    <3>1. t = s /\ winning[s].pc = "notify"
      BY <1>0, <1>3, <2>3 DEF NotifySuccess
    <3>2. QED
      BY <1>1, <3>1
  <2>4. QED
    BY <2>1, <2>2, <2>3
<1>4. CASE winning'[s].pc = "notify" /\ winning[s].pc # "notify"
  <2>1. CASE UNCHANGED winning
    BY <1>4, <2>1
  <2>2. ASSUME NEW t \in Server, Inaugurate(t) PROVE Earned(s)
    <3>1. t = s
      BY <1>0, <1>4, <2>2 DEF Inaugurate
    <3>2. QED
      BY <1>2, <2>2, <3>1
  <2>3. ASSUME NEW t \in Server, NotifySuccess(t) PROVE Earned(s)
    BY <1>0, <1>4, <2>3 DEF NotifySuccess, NoWinner
  <2>4. ASSUME NEW h \in counting, CountVote(h) PROVE Earned(s)
    <3>1. \/ winning' = winning
          \/ winning' = [winning EXCEPT ![h.grant.dst] = [pc |-> "inaugurate", view |-> h.myView]]
      BY <2>4, Zenon DEF CountVote
    <3>2. QED
      BY <1>0, <1>4, <3>1
  <2>5. QED
    BY <2>1, <2>2, <2>3, <2>4, WinningChanges
<1>5. QED
  BY <1>1, <1>3, <1>4

LEMMA NoLeakStep ==
  ASSUME TypeOK, CampaignsAreOfCandidates, CampaignInItsView, NothingCachedYet, NoLockLeaks,
         [Next]_vars
  PROVE  NoLockLeaks'
<1>0. cacheLock \in [Server -> {"free", "winner", "leaked"}]
  BY DEF TypeOK
<1>1. ASSUME NEW s \in Server, RequestRefused(s) PROVE FALSE
  <2>1. s \in Candidates /\ campaign[s].view = view[s]
    BY <1>1 DEF RequestRefused, CampaignsAreOfCandidates, CampaignInItsView
  <2>2. QED
    BY <1>1, <2>1 DEF RequestRefused, NothingCachedYet
<1>2. ASSUME NEW s \in Server, NotifySuccess(s) PROVE NoLockLeaks'
  BY <1>0, <1>2 DEF NotifySuccess, NoLockLeaks
<1>3. ASSUME NEW h \in counting, CountVote(h) PROVE NoLockLeaks'
  <2>1. \/ cacheLock' = cacheLock
        \/ cacheLock' = [cacheLock EXCEPT ![h.grant.dst] = "winner"]
    BY <1>3, Zenon DEF CountVote
  <2>2. QED
    BY <1>0, <2>1 DEF NoLockLeaks
<1>4. CASE UNCHANGED cacheLock
  BY <1>4 DEF NoLockLeaks
<1>5. QED
  BY <1>1, <1>2, <1>3, <1>4, LockChanges

LEMMA CampaignInit == Init => CampaignInv
<1> SUFFICES ASSUME Init PROVE CampaignInv
  OBVIOUS
<1>1. Candidates \subseteq Server
  BY ElectionAssumption
<1>2. \A s \in Server : /\ campaign[s].pc = "idle" /\ winning[s].pc = "none"
                         /\ ~succeeded[s] /\ cacheLock[s] = "free"
  BY DEF Init, Idle, NoWinner
<1>3. QED
  BY <1>1, <1>2
     DEF CampaignInv, CampaignInItsView, NothingCachedYet, SuccessFollowsElection, NoLockLeaks

LEMMA CampaignStep ==
  ASSUME OneCandidate, ElectInv, OneCandidateInv, CampaignInv, [Next]_vars
  PROVE  CampaignInv'
<1> USE DEF ElectInv, OneCandidateInv, CampaignInv
<1>1. CampaignInItsView' /\ NothingCachedYet'
  BY InItsViewStep, NothingCachedStep
<1>2. SuccessFollowsElection' /\ NoLockLeaks'
  BY SuccessStep, NoLeakStep
<1>3. QED
  BY <1>1, <1>2

LEMMA CampaignInvariance == OneCandidate => (Spec => []CampaignInv)
<1> SUFFICES ASSUME OneCandidate PROVE Spec => []CampaignInv
  OBVIOUS
<1>1. ElectInv /\ OneCandidateInv /\ CampaignInv /\ [Next]_vars => CampaignInv'
  BY CampaignStep
<1>2. QED
  BY <1>1, CampaignInit, OneCandidateInvariance, ElectInvariance, PTL DEF Spec

(* However often the timer of the one candidate fires, whatever votes come  *)
(* late and with any number of servers without the keys: no campaign of it  *)
(* finds its view cached already, so the cache is never left locked.        *)
THEOREM LockIsGivenBack == OneCandidate => (Spec => []NoLockLeaks)
<1> SUFFICES ASSUME OneCandidate PROVE Spec => []NoLockLeaks
  OBVIOUS
<1>1. CampaignInv => NoLockLeaks
  BY DEF CampaignInv
<1>2. QED
  BY <1>1, CampaignInvariance, PTL

(* ... and what ends a campaign as a success is an announcement in its view *)
(* or in that of a campaign before, never less.                             *)
THEOREM SuccessesAreEarned == OneCandidate => (Spec => SuccessIsEarned)
<1> SUFFICES ASSUME OneCandidate PROVE Spec => SuccessIsEarned
  OBVIOUS
<1>1. ElectInv /\ CampaignInv =>
        \A s \in Server : CampaignSucceeded(s) =>
           \E e \in elected : e.leader = s /\ e.view <= campaign[s].view
  <2> SUFFICES ASSUME ElectInv, CampaignInv, NEW s \in Server, CampaignSucceeded(s)
               PROVE  \E e \in elected : e.leader = s /\ e.view <= campaign[s].view
    OBVIOUS
  <2>1. succeeded[s] /\ campaign[s].pc = "waiting"
    BY DEF CampaignSucceeded
  <2>2. s \in Candidates
    BY <2>1 DEF ElectInv, CampaignsAreOfCandidates
  <2>3. campaign[s].view = view[s]
    BY <2>1, <2>2 DEF CampaignInv, CampaignInItsView
  <2>4. QED
    BY <2>1, <2>3 DEF CampaignInv, SuccessFollowsElection
<1>2. QED
  BY <1>1, CampaignInvariance, ElectInvariance, PTL DEF SuccessIsEarned

(* A campaign of the one candidate that pays for its votes dies of a        *)
(* failure of the engine only.                                              *)
LEMMA PaidDeaths ==
  ASSUME TypeOK, [PaidNext]_paidVars, NEW s \in Server, campaign'[s].pc = "dead"
  PROVE  campaign[s].pc = "dead" \/ CalculationFails(s) \/ RequestRefused(s)
<1>0. campaign \in [Server -> [pc : {"idle", "computing", "requesting", "waiting",
                                     "retrying", "dead"}, view : View]]
  BY DEF TypeOK
<1>1. CASE UNCHANGED campaign
  BY <1>1
<1>2. ASSUME NEW t \in Server, CampaignUnpaid(t)
      PROVE  campaign[s].pc = "dead" \/ RequestRefused(s)
  BY <1>0, <1>2
     DEF CampaignUnpaid, StartCampaign, RequestRefused, RequestVotes, CampaignAborted,
         CampaignTimedOut, CampaignSucceeded
<1>3. CASE Elect
  <2>1. UNCHANGED campaign \/ \E t \in Server : CampaignUnpaid(t)
    BY <1>3, Zenon DEF Elect, AnswerRequest, ReadRequest, AdoptView, VoteRefused, GiveVote,
         CountGrant, ReadGrant, GrantDropped, CountVote, Win, Inaugurate, NotifySuccess,
         AdmitLeadership, RoleLoop, Boot, StartLeaderService, IgnoreInauguration,
         FollowLeader, FindAnotherLeader, AbortCampaign, BackToWorker
  <2>2. QED
    BY <1>1, <1>2, <2>1
<1>4. ASSUME NEW t \in Server, Pay(t) PROVE campaign[s].pc = "dead" \/ CalculationFails(s)
  <2>1. CASE CalculationFails(t)
    <3>1. campaign' = [campaign EXCEPT ![t].pc = "dead"]
      BY <2>1 DEF CalculationFails, PenaltyFails
    <3>2. CASE t = s
      BY <2>1, <3>2
    <3>3. CASE t # s
      BY <1>0, <3>1, <3>3
    <3>4. QED
      BY <3>2, <3>3
  <2>2. CASE BecomePaidNominee(t)
    BY <1>0, <2>2 DEF BecomePaidNominee, BecomeNominee
  <2>3. CASE PayPenalty(t) \/ CheckNonce(t) \/ \E run \in 1..DigestLength : HashNonce(t, run)
    <3>1. UNCHANGED campaign
      BY <2>3 DEF PayPenalty, CheckNonce, HashNonce, vars
    <3>2. QED
      BY <1>1, <3>1
  <2>4. QED
    BY <1>4, <2>1, <2>2, <2>3 DEF Pay
<1>5. QED
  BY <1>1, <1>3, <1>4 DEF PaidNext, paidVars, vars

LEMMA EngineFailsForTheSame == EngineFails(PastPenalties, TAll) => TAll = 0 \/ SameAsLatest
<1>1. PastPenalties \in History /\ TAll \in Nat
  BY PaymentAssumption DEF History
<1>2. QED
  BY <1>1, EngineFailsForEquals DEF SameAsLatest

(* ... with a history that is not even, a positive t_all and an engine that *)
(* runs, every campaign goes on to ask for votes or is still being paid.    *)
THEOREM OnlyTheUnpaidDie == OneCandidate => (PaidSpec => []OnlyUnpaidDie)
<1> SUFFICES ASSUME OneCandidate PROVE PaidSpec => []OnlyUnpaidDie
  OBVIOUS
<1>1. PaidInit => OnlyUnpaidDie
  BY DEF PaidInit, Init, Idle, OnlyUnpaidDie
<1>2. ElectInv /\ CampaignInv /\ OnlyUnpaidDie /\ [PaidNext]_paidVars => OnlyUnpaidDie'
  <2> SUFFICES ASSUME ElectInv, CampaignInv, OnlyUnpaidDie, [PaidNext]_paidVars,
                      NEW s \in Server, campaign'[s].pc = "dead"
               PROVE  EngineMayFail \/ TAll = 0 \/ SameAsLatest
    BY DEF OnlyUnpaidDie, SameAsLatest
  <2>1. CASE campaign[s].pc = "dead"
    BY <2>1 DEF OnlyUnpaidDie
  <2>2. CASE CalculationFails(s)
    BY <2>2, EngineFailsForTheSame DEF CalculationFails
  <2>3. ~RequestRefused(s)
    <3>1. SUFFICES ASSUME RequestRefused(s) PROVE FALSE
      OBVIOUS
    <3>2. s \in Candidates /\ campaign[s].view = view[s]
      BY <3>1 DEF RequestRefused, ElectInv, CampaignsAreOfCandidates, CampaignInv,
                  CampaignInItsView
    <3>3. QED
      BY <3>1, <3>2 DEF RequestRefused, CampaignInv, NothingCachedYet
  <2>4. QED
    BY <2>1, <2>2, <2>3, PaidDeaths DEF ElectInv
<1>3. QED
  BY <1>1, <1>2, CampaignInvariance, ElectInvariance, PaidElectionRefines, PTL DEF PaidSpec

-----------------------------------------------------------------------------
(* One candidate, all servers with the keys, no duplicates. *)
LEMMA RequestIsCached ==
  ASSUME TypeOK, RequestsInOwnView, NEW c \in Candidates, RequestVotes(c)
  PROVE  /\ campaign[c].view \in View /\ vcCache[c][campaign[c].view] = NoVote
         /\ vcCache'[c][campaign[c].view] # NoVote
         /\ vcCache'[c][campaign[c].view].shares =
              <<PenSign(c, <<c, campaign[c].view>>)>>
<1>0. c \in Server /\ view[c] \in View /\ campaign[c].view = view[c]
  BY ElectionAssumption DEF TypeOK, RequestsInOwnView, RequestVotes
<1> DEFINE e == CommonEndorsement(c, campaign[c].view)
           x == [endorsement |-> e, shares |-> <<PenSign(c, e)>>]
<1>1. vcCache' = [vcCache EXCEPT ![c][view[c]] = x]
  BY DEF RequestVotes
<1> HIDE DEF x
<1>2. vcCache'[c][campaign[c].view] = x
  BY <1>0, <1>1 DEF TypeOK
<1>3. e \in Endorsement /\ e = <<c, campaign[c].view>>
  BY <1>0, CommonEndorsementType DEF CommonEndorsement
<1>4. x.endorsement = e /\ x.shares = <<PenSign(c, e)>>
  BY DEF x
<1>5. x # NoVote
  BY <1>3, <1>4, NoVoteFields, ElectionAssumption
<1>6. QED
  BY <1>0, <1>2, <1>3, <1>4, <1>5 DEF RequestVotes

LEMMA AskedStep ==
  ASSUME OneCandidate, TypeOK, CampaignsAreOfCandidates, RequestsGoToOthers,
         RequestsInOwnView, CachedUnderOwnView, AskedBefore, [Next]_vars
  PROVE  AskedBefore'
<1> SUFFICES ASSUME NEW c \in Candidates
             PROVE  /\ \A m \in msgs' : m.type \in {"voteMe", "grant"} =>
                          vcCache'[c][m.view] # NoVote
                    /\ \A h \in voting' : vcCache'[c][h.req.view] # NoVote
                    /\ \A h \in counting' :
                          h.myView = h.grant.view /\ vcCache'[c][h.grant.view] # NoVote
  BY DEF AskedBefore
<1>0. c \in Server /\ Candidates = {c}
  BY ElectionAssumption DEF OneCandidate
<1>1. \A v \in View : vcCache[c][v] # NoVote => vcCache'[c][v] # NoVote
  BY <1>0, CachedStays
<1>2. /\ \A m \in msgs : m.type \in {"voteMe", "grant"} =>
            m.view \in View /\ vcCache[c][m.view] # NoVote
      /\ \A h \in voting : h.req.view \in View /\ vcCache[c][h.req.view] # NoVote
      /\ \A h \in counting : /\ h.grant.view \in View /\ vcCache[c][h.grant.view] # NoVote
                             /\ h.myView = h.grant.view
  BY RequestFields, GrantFields, VotingFields, CountingFields DEF AskedBefore
<1>3. ASSUME NEW m \in msgs', m.type \in {"voteMe", "grant"}
      PROVE  vcCache'[c][m.view] # NoVote
  <2>1. CASE m \in msgs
    BY <1>1, <1>2, <1>3, <2>1
  <2>2. CASE m \notin msgs /\ m.type = "voteMe"
    <3>1. PICK s \in Server : RequestVotes(s) /\ m.view = campaign[s].view
      BY <2>2, NewRequest
    <3>2. s = c
      BY <1>0, <3>1 DEF RequestVotes, CampaignsAreOfCandidates
    <3>3. QED
      BY <3>1, <3>2, RequestIsCached
  <2>3. CASE m \notin msgs /\ m.type = "grant"
    <3>1. PICK h \in voting :
            /\ GiveVote(h)
            /\ m = [type |-> "grant", src |-> h.req.dst, dst |-> h.req.src,
                    view |-> h.req.view,
                    share |-> PenSign(h.req.dst, CommonEndorsement(h.req.src, h.req.view))]
      BY <2>3, NewGrant
    <3>2. m.view = h.req.view
      BY <3>1
    <3>3. QED
      BY <1>1, <1>2, <3>2
  <2>4. QED
    BY <1>3, <2>1, <2>2, <2>3
<1>4. ASSUME NEW h \in voting' PROVE vcCache'[c][h.req.view] # NoVote
  <2>1. CASE h \in voting
    BY <1>1, <1>2, <2>1
  <2>2. ASSUME NEW m \in msgs, ReadRequest(m), h \notin voting
        PROVE  vcCache'[c][h.req.view] # NoVote
    <3>1. h = [pc |-> "read", req |-> m, myView |-> view[m.dst]] /\ m.type = "voteMe"
      BY <2>2 DEF ReadRequest
    <3>2. h.req = m
      BY <3>1
    <3>3. QED
      BY <1>1, <1>2, <3>1, <3>2
  <2>3. ASSUME NEW k \in voting, AdoptView(k), h \notin voting
        PROVE  vcCache'[c][h.req.view] # NoVote
    <3>1. h = [k EXCEPT !.pc = "set"]
      BY <2>3 DEF AdoptView
    <3>2. h.req = k.req
      BY <3>1, VotingFields
    <3>3. QED
      BY <1>1, <1>2, <3>2
  <2>4. QED
    BY <2>1, <2>2, <2>3, VotingChanges
<1>5. ASSUME NEW h \in counting'
      PROVE  h.myView = h.grant.view /\ vcCache'[c][h.grant.view] # NoVote
  <2>1. CASE h \in counting
    BY <1>1, <1>2, <2>1
  <2>2. CASE h \notin counting
    <3>1. PICK m \in msgs : /\ ReadGrant(m) /\ ~StaleGrant(m)
                            /\ h = [grant |-> m, myView |-> view[m.dst]]
      BY <2>2, NewCounting
    <3>2. m.type = "grant" /\ h.grant = m /\ h.myView = view[m.dst]
      BY <3>1 DEF ReadGrant
    <3>3. m.dst = c /\ m.view \in View
      BY <1>0, <3>2, GrantFields
    <3>4. m.view <= view[c]
      BY <1>2, <3>2, <3>3 DEF CachedUnderOwnView
    <3>5. ~(m.view < view[c])
      BY <3>1, <3>3 DEF StaleGrant
    <3>6. m.view \in Int /\ view[c] \in Int
      BY <1>0, <3>3, ViewZero DEF TypeOK
    <3>7. m.view = view[c]
      BY <3>4, <3>5, <3>6
    <3>8. QED
      BY <1>1, <1>2, <3>2, <3>3, <3>7
  <2>3. QED
    BY <2>1, <2>2
<1>6. QED
  BY <1>3, <1>4, <1>5

LEMMA VerifiesStep ==
  ASSUME BadKey = {}, OneCandidate, TypeOK, GrantsAreBacked, RequestsGoToOthers,
         RequestsInOwnView, AskedBefore, EveryShareVerifies, [Next]_vars
  PROVE  EveryShareVerifies'
<1>1. ASSUME NEW m \in msgs', m.type = "grant" PROVE m.share.msg # NoHash
  <2>1. CASE m \in msgs
    BY <1>1, <2>1 DEF EveryShareVerifies
  <2>2. CASE m \notin msgs
    <3>1. PICK h \in voting :
            m = [type |-> "grant", src |-> h.req.dst, dst |-> h.req.src,
                 view |-> h.req.view,
                 share |-> PenSign(h.req.dst, CommonEndorsement(h.req.src, h.req.view))]
      BY <1>1, <2>2, NewGrant
    <3>2. m.share = PenSign(h.req.dst, CommonEndorsement(h.req.src, h.req.view))
      BY <3>1
    <3>3. m.share.msg = CommonEndorsement(h.req.src, h.req.view)
      BY <3>2, PenSignFields
    <3>4. QED
      BY <3>3, VotingFields, CommonEndorsementType, ElectionAssumption
  <2>3. QED
    BY <2>1, <2>2
<1>2. ASSUME NEW h \in counting' PROVE h.grant.share.msg # NoHash
  <2>1. CASE h \in counting
    BY <2>1 DEF EveryShareVerifies
  <2>2. CASE h \notin counting
    <3>1. PICK m \in msgs : ReadGrant(m) /\ h = [grant |-> m, myView |-> view[m.dst]]
      BY <2>2, NewCounting
    <3>2. m.type = "grant" /\ h.grant = m
      BY <3>1 DEF ReadGrant
    <3>3. QED
      BY <3>2 DEF EveryShareVerifies
  <2>3. QED
    BY <2>1, <2>2
<1>3. ASSUME NEW c \in Candidates, NEW v \in View, NEW i \in DOMAIN vcCache'[c][v].shares,
             NEW x, x = vcCache'[c][v].shares[i]
      PROVE  x.msg = <<c, v>>
  <2>1. ASSUME NEW j \in DOMAIN vcCache[c][v].shares, x = vcCache[c][v].shares[j]
        PROVE  x.msg = <<c, v>>
    BY <2>1 DEF EveryShareVerifies
  <2>2. CASE vcCache'[c][v] = vcCache[c][v]
    BY <1>3, <2>1, <2>2
  <2>3. CASE vcCache'[c][v] = [endorsement |-> <<c, v>>, shares |-> <<PenSign(c, <<c, v>>)>>]
    <3>1. x = PenSign(c, <<c, v>>)
      BY <1>3, <2>3
    <3>2. QED
      BY <3>1, PenSignFields
  <2>4. ASSUME NEW h \in counting, c = h.grant.dst, v = h.myView,
               vcCache'[c][v].shares = Append(vcCache[c][v].shares, h.grant.share)
        PROVE  x.msg = <<c, v>>
    <3>1. PICK old, y : old = vcCache[c][v].shares /\ y = h.grant.share
      OBVIOUS
    <3>2. old \in Seq(Share(Endorsement)) /\ y \in Share(Endorsement)
      BY <3>1, VoteFields, CountingFields, ElectionAssumption
    <3>3. /\ DOMAIN Append(old, y) = DOMAIN old \cup {Len(old) + 1}
          /\ \A j \in DOMAIN old : Append(old, y)[j] = old[j]
          /\ Append(old, y)[Len(old) + 1] = y
      BY <3>2, AppendedShares
    <3>4. y.msg = <<c, v>>
      <4>1. y.msg # NoHash /\ h.myView = h.grant.view
        BY <3>1 DEF EveryShareVerifies, AskedBefore
      <4>2. y.msg \in {NoHash, CommonEndorsement(h.grant.dst, h.grant.view)}
        BY <3>1 DEF GrantsAreBacked, GrantIsBacked
      <4>3. QED
        BY <2>4, <4>1, <4>2, Zenon DEF CommonEndorsement
    <3>5. i \in DOMAIN Append(old, y) /\ x = Append(old, y)[i]
      BY <1>3, <2>4, <3>1, Zenon
    <3>6. QED
      BY <2>1, <3>1, <3>3, <3>4, <3>5
  <2>5. QED
    BY <2>2, <2>3, <2>4, CandidateVoteChanges
<1>4. QED
  BY <1>1, <1>2, <1>3 DEF EveryShareVerifies

(* A vote that loses some of its copies, starts, or moves on. *)
LEMMA VoteMoves ==
  ASSUME NEW A, NEW G, NEW B, NEW R, NEW L, NEW A1, NEW G1, NEW B1, NEW R1, NEW L1,
         Once(A, G, B, R, L),
         \/ A1 \subseteq A /\ G1 \subseteq G /\ B1 \subseteq B /\ R1 \subseteq R /\ L1 \subseteq L
         \/ G1 = {} /\ B1 = {} /\ R1 = {} /\ AtMostOne(L1) /\ (A1 = {} \/ L1 = {})
         \/ /\ A # {} /\ A1 = {} /\ AtMostOne(G1)
            /\ B1 \subseteq B /\ R1 \subseteq R /\ L1 \subseteq L
         \/ /\ G # {} /\ A1 \subseteq A /\ AtMostOne(G1)
            /\ B1 \subseteq B /\ R1 \subseteq R /\ L1 \subseteq L
         \/ /\ G # {} /\ A1 \subseteq A /\ G1 = {} /\ AtMostOne(B1)
            /\ R1 \subseteq R /\ L1 \subseteq L
         \/ /\ B # {} /\ A1 \subseteq A /\ G1 \subseteq G /\ B1 = {} /\ AtMostOne(R1)
            /\ L1 \subseteq L
         \/ /\ R # {} /\ A1 \subseteq A /\ G1 \subseteq G /\ B1 \subseteq B /\ R1 = {}
            /\ AtMostOne(L1)
  PROVE  Once(A1, G1, B1, R1, L1)
BY Zenon DEF Once, AtMostOne

(* The steps that concern votes. *)
LEMMA VoteSteps ==
  ASSUME [Next]_vars
  PROVE  \/ /\ msgs' \subseteq msgs /\ voting' \subseteq voting
            /\ counting' \subseteq counting /\ vcCache' = vcCache
         \/ \E s \in Server : RequestVotes(s) \/ Inaugurate(s)
         \/ \E m \in msgs : ReadRequest(m) \/ ReadGrant(m)
         \/ \E h \in voting : AdoptView(h) \/ GiveVote(h)
         \/ \E h \in counting : CountVote(h)
BY ZenonT(60) DEF Next, vars, cells, channels, loop, handlers, history, Campaign,
     StartCampaign, PenaltyFails, BecomeNominee, RequestRefused,
     CampaignAborted, CampaignTimedOut, CampaignSucceeded, AnswerRequest,
     VoteRefused, CountGrant, GrantDropped, Win, NotifySuccess,
     AdmitLeadership, RoleLoop, Boot, StartLeaderService,
     IgnoreInauguration, FollowLeader, FindAnotherLeader, AbortCampaign,
     BackToWorker, Received

LEMMA SameRequest ==
  ASSUME NEW m \in Request, NEW n \in Request, m.src = n.src, m.dst = n.dst, m.view = n.view
  PROVE  m = n
BY DEF Request

LEMMA VotesStep ==
  ASSUME ReliableCluster, TypeOK, CampaignsAreOfCandidates, GrantsAreBacked,
         RequestsGoToOthers, RequestsInOwnView, AskedBefore, VotesAreOnce, [Next]_vars
  PROVE  VotesAreOnce'
<1> SUFFICES ASSUME NEW c \in Candidates, NEW t \in Server, NEW v \in View
             PROVE  VoteIsOnce(c, t, v)'
  BY DEF VotesAreOnce
<1> DEFINE A == Asking(t, v)
           G == Giving(t, v)
           B == Bringing(t, v)
           R == Reading(t, v)
           L == Ballots(c, t, v)
<1>0. c \in Server /\ Candidates = {c} /\ ~Duplicates
  BY ElectionAssumption DEF OneCandidate, ReliableCluster
<1>1. Once(A, G, B, R, L)
  BY DEF VotesAreOnce, VoteIsOnce
<1>2. msgs' \subseteq msgs => A' \subseteq A /\ B' \subseteq B
  BY DEF Asking, Bringing
<1>3. voting' \subseteq voting => G' \subseteq G
  BY DEF Giving
<1>4. counting' \subseteq counting => R' \subseteq R
  BY DEF Reading
<1>5. vcCache'[c][v] = vcCache[c][v] => L' \subseteq L
  BY DEF Ballots
<1>6. SUFFICES Once(A', G', B', R', L')
  BY DEF VoteIsOnce
<1>7. CASE /\ msgs' \subseteq msgs /\ voting' \subseteq voting
           /\ counting' \subseteq counting /\ vcCache' = vcCache
  <2>1. A' \subseteq A /\ G' \subseteq G /\ B' \subseteq B /\ R' \subseteq R /\ L' \subseteq L
    BY <1>2, <1>3, <1>4, <1>5, <1>7
  <2> HIDE DEF A, G, B, R, L
  <2>2. QED
    BY <1>1, <2>1, VoteMoves
<1>8. ASSUME NEW s \in Server, RequestVotes(s) PROVE Once(A', G', B', R', L')
  <2>1. s = c
    BY <1>0, <1>8 DEF RequestVotes, CampaignsAreOfCandidates
  <2>2. UNCHANGED <<voting, counting>>
    BY <1>8 DEF RequestVotes, handlers
  <2>3. msgs' \subseteq msgs \cup ToOthers(c, "voteMe", campaign[c].view)
    BY <1>8, <2>1, SentAdds DEF RequestVotes
  <2>4. CASE v = campaign[c].view
    <3>1. vcCache[c][v] = NoVote /\ vcCache'[c][v].shares = <<PenSign(c, <<c, v>>)>>
      BY <1>8, <2>1, <2>4, RequestIsCached
    <3>2. A = {} /\ G = {} /\ B = {} /\ R = {}
      BY <3>1 DEF AskedBefore, Asking, Giving, Bringing, Reading
    <3>3. G' = {} /\ R' = {}
      BY <2>2, <3>2 DEF Giving, Reading
    <3>4. B' = {}
      BY <2>3, <3>2, ToOthersFields DEF Bringing
    <3>5. AtMostOne(L')
      BY <3>1 DEF Ballots, AtMostOne
    <3>6. CASE t = c
      <4>1. A' = {}
        BY <2>3, <3>2, <3>6, ToOthersFields DEF Asking
      <4> HIDE DEF A, G, B, R, L
      <4>2. QED
        BY <1>1, <3>3, <3>4, <3>5, <4>1, VoteMoves
    <3>7. CASE t # c
      <4>1. vcCache'[c][v].shares[1].signer = c
        BY <3>1, PenSignFields
      <4>2. L' = {}
        BY <3>1, <3>7, <4>1 DEF Ballots
      <4> HIDE DEF A, G, B, R, L
      <4>3. QED
        BY <1>1, <3>3, <3>4, <3>5, <4>2, VoteMoves
    <3>8. QED
      BY <3>6, <3>7
  <2>5. CASE v # campaign[c].view
    <3>1. A' \subseteq A /\ B' \subseteq B
      BY <2>3, <2>5, ToOthersFields DEF Asking, Bringing
    <3>2. v # view[c]
      BY <1>8, <2>1, <2>5 DEF RequestsInOwnView, RequestVotes
    <3>3. vcCache'[c][v] = vcCache[c][v]
      BY <1>0, <1>8, <2>1, <3>2 DEF RequestVotes, TypeOK
    <3>4. G' \subseteq G /\ R' \subseteq R /\ L' \subseteq L
      BY <1>3, <1>4, <1>5, <2>2, <3>3
    <3> HIDE DEF A, G, B, R, L
    <3>5. QED
      BY <1>1, <3>1, <3>4, VoteMoves
  <2>6. QED
    BY <2>4, <2>5
<1>9. ASSUME NEW s \in Server, Inaugurate(s) PROVE Once(A', G', B', R', L')
  <2>1. msgs' \subseteq msgs \cup ToOthers(s, "newView", winning[s].view)
    BY <1>9, SentAdds DEF Inaugurate
  <2>2. A' \subseteq A /\ B' \subseteq B
    BY <2>1, ToOthersFields DEF Asking, Bringing
  <2>3. G' \subseteq G /\ R' \subseteq R /\ L' \subseteq L
    BY <1>3, <1>4, <1>5, <1>9 DEF Inaugurate, cells
  <2> HIDE DEF A, G, B, R, L
  <2>4. QED
    BY <1>1, <2>2, <2>3, VoteMoves
<1>10. ASSUME NEW m \in msgs, ReadRequest(m) PROVE Once(A', G', B', R', L')
  <2>1. /\ m.type = "voteMe" /\ msgs' = msgs \ {m}
        /\ counting' = counting /\ vcCache' = vcCache
        /\ voting' \subseteq voting \cup {[pc |-> "read", req |-> m, myView |-> view[m.dst]]}
    BY <1>0, <1>10 DEF ReadRequest, Received, cells
  <2>2. A' \subseteq A /\ B' \subseteq B /\ R' \subseteq R /\ L' \subseteq L
    BY <1>2, <1>4, <1>5, <2>1
  <2>3. CASE m.dst = t /\ m.view = v
    <3>1. A # {}
      BY <2>1, <2>3 DEF Asking
    <3>2. \A n \in msgs : n.type = "voteMe" /\ n.dst = t /\ n.view = v => n = m
      BY <1>0, <2>1, <2>3, RequestFields, SameRequest
    <3>3. A' = {}
      BY <2>1, <3>2 DEF Asking
    <3>4. G = {}
      BY <1>1, <3>1 DEF Once
    <3>5. AtMostOne(G')
      BY <2>1, <3>4 DEF Giving, AtMostOne
    <3> HIDE DEF A, G, B, R, L
    <3>6. QED
      BY <1>1, <2>2, <3>1, <3>3, <3>5, VoteMoves
  <2>4. CASE ~(m.dst = t /\ m.view = v)
    <3>1. PICK x : x = [pc |-> "read", req |-> m, myView |-> view[m.dst]]
      OBVIOUS
    <3>2. voting' \subseteq voting \cup {x} /\ x.req = m
      BY <2>1, <3>1
    <3>3. G' \subseteq G
      BY <2>4, <3>2 DEF Giving
    <3> HIDE DEF A, G, B, R, L
    <3>4. QED
      BY <1>1, <2>2, <3>3, VoteMoves
  <2>5. QED
    BY <2>3, <2>4
<1>11. ASSUME NEW h \in voting, AdoptView(h) PROVE Once(A', G', B', R', L')
  <2>1. PICK x : x = [h EXCEPT !.pc = "set"]
    OBVIOUS
  <2>2. voting' = (voting \ {h}) \cup {x} /\ UNCHANGED <<msgs, counting, vcCache>>
    BY <1>11, <2>1 DEF AdoptView
  <2>3. x.req = h.req
    BY <2>1, VotingFields
  <2>4. A' \subseteq A /\ B' \subseteq B /\ R' \subseteq R /\ L' \subseteq L
    BY <1>2, <1>4, <1>5, <2>2
  <2>5. CASE h \in G
    <3>1. AtMostOne(G)
      BY <1>1 DEF Once
    <3>2. AtMostOne(G')
      BY <2>2, <2>5, <3>1 DEF Giving, AtMostOne
    <3>3. G # {}
      BY <2>5
    <3> HIDE DEF A, G, B, R, L
    <3>4. QED
      BY <1>1, <2>4, <3>2, <3>3, VoteMoves
  <2>6. CASE h \notin G
    <3>1. G' \subseteq G
      BY <2>2, <2>3, <2>6 DEF Giving
    <3> HIDE DEF A, G, B, R, L
    <3>2. QED
      BY <1>1, <2>4, <3>1, VoteMoves
  <2>7. QED
    BY <2>5, <2>6
<1>12. ASSUME NEW h \in voting, GiveVote(h) PROVE Once(A', G', B', R', L')
  <2>1. PICK x : x = [type |-> "grant", src |-> h.req.dst, dst |-> h.req.src,
                      view |-> h.req.view,
                      share |-> PenSign(h.req.dst, CommonEndorsement(h.req.src, h.req.view))]
    OBVIOUS
  <2>2. x.type = "grant" /\ x.src = h.req.dst /\ x.view = h.req.view
    BY <2>1
  <2>3. msgs' \subseteq msgs \cup {x}
    <3>1. Sent({x})
      BY <1>12, <2>1 DEF GiveVote
    <3>2. QED
      BY <3>1, SentAdds
  <2>4. voting' = voting \ {h} /\ counting' = counting
    BY <1>12 DEF GiveVote
  <2>5. vcCache'[c][v] = vcCache[c][v]
    BY <1>0, <1>12 DEF GiveVote, RequestsGoToOthers, TypeOK
  <2>6. A' \subseteq A
    BY <2>2, <2>3 DEF Asking
  <2>7. G' \subseteq G /\ R' \subseteq R /\ L' \subseteq L
    BY <1>3, <1>4, <1>5, <2>4, <2>5
  <2>8. CASE h \in G
    <3>1. AtMostOne(G) /\ B = {}
      BY <1>1, <2>8 DEF Once
    <3>2. G' = {}
      BY <2>4, <2>8, <3>1 DEF Giving, AtMostOne
    <3>3. AtMostOne(B')
      BY <2>3, <3>1 DEF Bringing, AtMostOne
    <3>4. G # {}
      BY <2>8
    <3> HIDE DEF A, G, B, R, L
    <3>5. QED
      BY <1>1, <2>6, <2>7, <3>2, <3>3, <3>4, VoteMoves
  <2>9. CASE h \notin G
    <3>1. B' \subseteq B
      BY <2>2, <2>3, <2>9 DEF Giving, Bringing
    <3> HIDE DEF A, G, B, R, L
    <3>2. QED
      BY <1>1, <2>6, <2>7, <3>1, VoteMoves
  <2>10. QED
    BY <2>8, <2>9
<1>13. ASSUME NEW m \in msgs, ReadGrant(m) PROVE Once(A', G', B', R', L')
  <2>1. PICK x : x = [grant |-> m, myView |-> view[m.dst]]
    OBVIOUS
  <2>2. /\ m.type = "grant" /\ msgs' = msgs \ {m} /\ UNCHANGED <<voting, vcCache>>
        /\ counting' \subseteq counting \cup {x}
    BY <1>0, <1>13, <2>1 DEF ReadGrant, Received, cells
  <2>3. x.grant = m
    BY <2>1
  <2>4. A' \subseteq A /\ G' \subseteq G /\ B' \subseteq B /\ L' \subseteq L
    BY <1>2, <1>3, <1>5, <2>2
  <2>5. CASE m \in B
    <3>1. AtMostOne(B) /\ R = {}
      BY <1>1, <2>5 DEF Once
    <3>2. B' = {}
      BY <2>2, <2>5, <3>1 DEF Bringing, AtMostOne
    <3>3. AtMostOne(R')
      BY <2>2, <3>1 DEF Reading, AtMostOne
    <3>4. B # {}
      BY <2>5
    <3> HIDE DEF A, G, B, R, L
    <3>5. QED
      BY <1>1, <2>4, <3>2, <3>3, <3>4, VoteMoves
  <2>6. CASE m \notin B
    <3>1. R' \subseteq R
      BY <2>2, <2>3, <2>6 DEF Reading, Bringing
    <3> HIDE DEF A, G, B, R, L
    <3>2. QED
      BY <1>1, <2>4, <3>1, VoteMoves
  <2>7. QED
    BY <2>5, <2>6
<1>14. ASSUME NEW h \in counting, CountVote(h) PROVE Once(A', G', B', R', L')
  <2>1. counting' = counting \ {h} /\ UNCHANGED <<msgs, voting>>
    BY <1>14 DEF CountVote
  <2>2. A' \subseteq A /\ G' \subseteq G /\ B' \subseteq B /\ R' \subseteq R
    BY <1>2, <1>3, <1>4, <2>1
  <2>3. h.grant.dst = c /\ h.myView = h.grant.view
    BY <1>0, CountingFields DEF AskedBefore
  <2>4. CASE h.grant.view # v
    <3>1. vcCache'[c][v] = vcCache[c][v]
      BY <1>0, <1>14, <2>3, <2>4 DEF CountVote, TypeOK
    <3>2. L' \subseteq L
      BY <1>5, <3>1
    <3> HIDE DEF A, G, B, R, L
    <3>3. QED
      BY <1>1, <2>2, <3>2, VoteMoves
  <2>5. CASE h.grant.view = v
    <3>1. PICK old, y : old = vcCache[c][v].shares /\ y = h.grant.share
      OBVIOUS
    <3>2. old \in Seq(Share(Endorsement)) /\ y \in Share(Endorsement)
      BY <1>0, <3>1, VoteFields, CountingFields
    <3>3. /\ DOMAIN Append(old, y) = DOMAIN old \cup {Len(old) + 1}
          /\ \A j \in DOMAIN old : Append(old, y)[j] = old[j]
          /\ Append(old, y)[Len(old) + 1] = y
      BY <3>2, AppendedShares
    <3>4. vcCache'[c][v].shares = Append(old, y)
      <4>1. vcCache' = [vcCache EXCEPT ![c][v].shares = Append(old, y)] /\ vcCache[c][v] # NoVote
        BY <1>14, <2>3, <2>5, <3>1 DEF CountVote
      <4>2. vcCache[c][v] \in [endorsement : Endorsement, shares : Seq(Share(Endorsement))]
        BY <1>0, <4>1 DEF TypeOK, Vote
      <4>3. QED
        BY <1>0, <4>1, <4>2 DEF TypeOK
    <3>5. y.signer = h.grant.src
      BY <3>1 DEF GrantsAreBacked, GrantIsBacked
    <3>6. CASE h.grant.src = t
      <4>1. h \in R
        BY <2>5, <3>6 DEF Reading
      <4>2. AtMostOne(R) /\ L = {} /\ R # {}
        BY <1>1, <4>1 DEF Once
      <4>3. R' = {}
        BY <2>1, <4>1, <4>2 DEF Reading, AtMostOne
      <4>4. \A i \in DOMAIN old : old[i].signer # t
        BY <3>1, <4>2 DEF Ballots
      <4>5. AtMostOne(L')
        BY <3>3, <3>4, <4>4 DEF Ballots, AtMostOne
      <4> HIDE DEF A, G, B, R, L
      <4>6. QED
        BY <1>1, <2>2, <4>2, <4>3, <4>5, VoteMoves
    <3>7. CASE h.grant.src # t
      <4>1. L' \subseteq L
        BY <3>1, <3>3, <3>4, <3>5, <3>7, ZenonT(60) DEF Ballots
      <4> HIDE DEF A, G, B, R, L
      <4>2. QED
        BY <1>1, <2>2, <4>1, VoteMoves
    <3>8. QED
      BY <3>6, <3>7
  <2>6. QED
    BY <2>4, <2>5, Zenon
<1>15. QED
  BY <1>7, <1>8, <1>9, <1>10, <1>11, <1>12, <1>13, <1>14, VoteSteps

LEMMA QuorumStep ==
  ASSUME TypeOK, WinnerIsBacked, CachedSharesAreBacked, CachedUnderOwnView, ElectedIsFull,
         EveryShareVerifies, VotesAreOnce, ElectedByQuorum, [Next]_vars
  PROVE  ElectedByQuorum'
<1>0. endorsed \subseteq endorsed'
  BY HistoryGrows
<1> SUFFICES ASSUME NEW d \in elected'
             PROVE  Cardinality(Endorsers(d.endorsement))' >= Quorum
  BY DEF ElectedByQuorum, Quorum, N
<1>1. CASE d \in elected
  BY <1>0, <1>1, EndorsersStay, QuorumValues DEF ElectedByQuorum
<1>2. CASE d \notin elected
  <2>1. PICK s \in Server : Inaugurate(s)
    BY <1>2, ElectedChanges
  <2>2. PICK v, shares : v = winning[s].view /\ shares = vcCache[s][v].shares
    OBVIOUS
  <2>3. d.endorsement = vcCache[s][v].endorsement /\ winning[s].pc = "inaugurate"
    BY <1>2, <2>1, <2>2 DEF Inaugurate
  <2>4. s \in Candidates /\ v \in View
    BY <2>2, <2>3, WinnersAreCandidates DEF TypeOK
  <2>5. vcCache[s][v] # NoVote
    BY <2>2, <2>3, <2>4, VoteFields, WinnersAreCandidates
  <2>6. d.endorsement = <<s, v>>
    BY <2>3, <2>4, <2>5 DEF CachedUnderOwnView
  <2>7. shares \in Seq(Share(Endorsement)) /\ Len(shares) >= Quorum
    BY <2>2, <2>3, <2>4, VoteFields DEF ElectedIsFull
  <2>8. 1..Quorum \subseteq DOMAIN shares
    BY <2>7, QuorumValues
  <2>9. ASSUME NEW i \in 1..Quorum
        PROVE  shares[i].signer \in Endorsers(d.endorsement)
    <3>1. shares[i] \in Share(Endorsement)
      BY <2>7, <2>8
    <3>2. shares[i].signer \in Server
      BY <3>1 DEF Share
    <3>3. shares[i].msg = d.endorsement
      BY <2>2, <2>4, <2>6, <2>8 DEF EveryShareVerifies
    <3>4. ShareIsBacked(shares[i])
      BY <2>1, <2>2, <2>4, <2>8 DEF CachedSharesAreBacked
    <3>5. d.endorsement # NoHash
      <4>1. vcCache[s][v].endorsement \in Endorsement
        BY <2>4, <2>5, VoteFields
      <4>2. QED
        BY <2>3, <4>1, ElectionAssumption
    <3>6. QED
      BY <3>2, <3>3, <3>4, <3>5 DEF ShareIsBacked, Endorsers
  <2>10. \A i, j \in 1..Quorum : shares[i].signer = shares[j].signer => i = j
    <3> SUFFICES ASSUME NEW i \in 1..Quorum, NEW j \in 1..Quorum,
                        shares[i].signer = shares[j].signer
                 PROVE  i = j
      OBVIOUS
    <3>1. PICK t : t = shares[i].signer
      OBVIOUS
    <3>2. t \in Server
      <4>1. shares[i] \in Share(Endorsement)
        BY <2>7, <2>8
      <4>2. QED
        BY <3>1, <4>1 DEF Share
    <3>3. i \in Ballots(s, t, v) /\ j \in Ballots(s, t, v)
      BY <2>2, <2>8, <3>1, Zenon DEF Ballots
    <3>4. AtMostOne(Ballots(s, t, v))
      BY <2>4, <3>2 DEF VotesAreOnce, VoteIsOnce, Once
    <3>5. QED
      BY <3>3, <3>4 DEF AtMostOne
  <2>11. Endorsers(d.endorsement) \in SUBSET Server
    BY DEF Endorsers
  <2>12. Cardinality(Endorsers(d.endorsement)) >= Quorum
    BY <2>9, <2>10, <2>11, QuorumValues, CountSigners
  <2>13. QED
    BY <1>0, <2>12, EndorsersStay, QuorumValues
<1>3. QED
  BY <1>1, <1>2

LEMMA ReliableInit == Init => ReliableInv
<1> SUFFICES ASSUME Init PROVE ReliableInv
  OBVIOUS
<1>1. Candidates \subseteq Server
  BY ElectionAssumption
<1>2. /\ msgs = {} /\ voting = {} /\ counting = {} /\ elected = {}
      /\ \A c \in Candidates, v \in View : vcCache[c][v].shares = << >>
  BY <1>1, NoVoteFields DEF Init
<1>3. AskedBefore /\ ElectedByQuorum
  BY <1>2 DEF AskedBefore, ElectedByQuorum
<1>4. EveryShareVerifies
  BY <1>2 DEF EveryShareVerifies
<1>5. ASSUME NEW c \in Candidates, NEW t \in Server, NEW v \in View
      PROVE  VoteIsOnce(c, t, v)
  <2>1. /\ Asking(t, v) = {} /\ Giving(t, v) = {} /\ Bringing(t, v) = {}
        /\ Reading(t, v) = {} /\ Ballots(c, t, v) = {}
    BY <1>2 DEF Asking, Giving, Bringing, Reading, Ballots
  <2>2. QED
    BY <2>1 DEF VoteIsOnce, Once, AtMostOne
<1>6. QED
  BY <1>3, <1>4, <1>5 DEF ReliableInv, VotesAreOnce

LEMMA ReliableStep ==
  ASSUME ReliableCluster, ElectInv, OneCandidateInv, ReliableInv, [Next]_vars
  PROVE  ReliableInv'
<1> USE DEF ElectInv, OneCandidateInv, ReliableInv
<1>1. OneCandidate /\ BadKey = {}
  BY DEF ReliableCluster
<1>2. AskedBefore' /\ EveryShareVerifies' /\ VotesAreOnce' /\ ElectedByQuorum'
  BY <1>1, AskedStep, VerifiesStep, VotesStep, QuorumStep
<1>3. QED
  BY <1>2

(* With one candidate, the keys at all servers and no duplicated datagram:  *)
(* a quorum of different servers endorsed the very campaign that won,       *)
(* although shares are counted and the last one is not verified.            *)
THEOREM ElectedByAQuorum == ReliableCluster => (Spec => []ElectedByQuorum)
<1> SUFFICES ASSUME ReliableCluster PROVE Spec => []ElectedByQuorum
  OBVIOUS
<1>1. OneCandidate
  BY DEF ReliableCluster
<1>2. Spec => []OneCandidateInv
  BY <1>1, OneCandidateInvariance
<1>3. ElectInv /\ OneCandidateInv /\ ReliableInv /\ [Next]_vars => ReliableInv'
  BY ReliableStep
<1>4. ReliableInv => ElectedByQuorum
  BY DEF ReliableInv
<1>5. QED
  BY <1>2, <1>3, <1>4, ReliableInit, ElectInvariance, PTL DEF Spec
=============================================================================
