------------------------------ MODULE Election ------------------------------
(***************************************************************************)
(* View changes: campaigns, votes and inaugurations (vchanges.go), the     *)
(* view and the role of a server (statemachine.go), the caches of votes    *)
(* (cache.go), the datagrams they travel in (vconn.go), and the loop that  *)
(* follows inaugurations (start, handlers.go).                             *)
(*                                                                         *)
(* Definitions whose name says what is wrong with them (HasRoomOffByOne,    *)
(* DecidesLate, ...) are used by no action: each stands for a plausible bug *)
(* in the definition that follows it, which the runs have to detect.        *)
(*                                                                         *)
(* Each datagram is handled by a goroutine of its own.  A vote is given in *)
(* three steps that other goroutines come between: read the view, set the  *)
(* view, record the vote under cacheLock; a granted vote is counted in two.*)
(* The three notify channels and roleChangingAtInauguration hold one       *)
(* element each, and whoever sends to a full one waits.                    *)
(*                                                                         *)
(* Nothing in the code starts a first campaign (the call in main.go is     *)
(* commented out), so the servers of Candidates start them at any time.    *)
(***************************************************************************)
EXTENDS PenSignature

CONSTANTS Candidates,    (* servers that start campaigns                    *)
          InitialLeader, (* server 0                                        *)
          Booted,        (* servers that left init() before the behaviour   *)
          MaxView,       (* bound: the highest view anyone campaigns in     *)
          MayTimeOut,    (* servers whose campaign timer may fire           *)
          Reputation,    (* the -r flag                                     *)
          Losses,        (* whether the network loses datagrams             *)
          Duplicates     (* whether the network duplicates datagrams        *)

View == 0..MaxView

(* The hash that candidate and voters sign names the request. *)
Endorsement == Candidates \X View

ASSUME ElectionAssumption ==
       /\ Candidates \subseteq Server
       /\ InitialLeader \in Server
       /\ Booted \subseteq Server
       /\ MaxView \in Nat
       /\ MayTimeOut \subseteq Server
       /\ Reputation \in BOOLEAN
       /\ Losses \in BOOLEAN
       /\ Duplicates \in BOOLEAN
       /\ NoHash \notin Endorsement

(* A cached vote; a voter keeps no shares. *)
NoVote == [endorsement |-> NoHash, shares |-> << >>]
Vote == [endorsement : Endorsement, shares : Seq(Share(Endorsement))] \cup {NoVote}

Idle == [pc |-> "idle", view |-> 0]
NoWinner == [pc |-> "none", view |-> 0]

Leadership == [view : View, leader : Server]

Request == [type : {"voteMe"}, src : Candidates, dst : Server, view : View]
Grant == [type : {"grant"}, src : Server, dst : Candidates, view : View,
          share : Share(Endorsement)]
NewView == [type : {"newView"}, src : Candidates, dst : Server, view : View]

VARIABLES
  view,          (* per server: state.view                                   *)
  role,          (* per server: state.role                                   *)
  vcCache,       (* per server: view -> the vote cached under it             *)
  cacheLock,     (* per server: who holds vcCache.cacheLock                  *)
  campaign,      (* per server: where its campaign is, and in which view;    *)
                 (* it holds the semaphore of campaigns unless idle or       *)
                 (* retrying                                                 *)
  anotherLeader, (* per server: notifyOfAnotherLeaderFound is filled         *)
  succeeded,     (* per server: notifyOfSucceededCampaign is filled          *)
  inaugurations, (* per server: what roleChangingAtInauguration holds        *)
  aborting,      (* per server: start() is to fill anotherLeader, or to go   *)
                 (* back to worker after that                                *)
  running,       (* per server: init() has returned and start() runs         *)
  voting,        (* requests being answered, with the view read at first     *)
  counting,      (* granted votes being counted, with the view read at first *)
  winning,       (* per server: its handler of the deciding vote             *)
  coordinator,   (* per server: coordinatorIdOfPhases, its own id at first   *)
  serving,       (* servers whose leader service was started                 *)
  msgs,          (* datagrams                                                *)
  granted,       (* history: every vote given                                *)
  endorsed,      (* history: shares of endorsements                          *)
  elected        (* history: the inaugurations announced                     *)

cells == <<view, role, vcCache, cacheLock>>
channels == <<anotherLeader, succeeded, inaugurations>>
loop == <<aborting, running, coordinator, serving>>
handlers == <<voting, counting, winning>>
history == <<granted, endorsed, elected>>

vars == <<cells, campaign, channels, loop, handlers, msgs, history>>

Init ==
  /\ view = [s \in Server |-> 0]
  /\ role = [s \in Server |-> IF s = InitialLeader THEN "LEADER" ELSE "WORKER"]
  /\ vcCache = [s \in Server |-> [v \in View |-> NoVote]]
  /\ cacheLock = [s \in Server |-> "free"]
  /\ campaign = [s \in Server |-> Idle]
  /\ anotherLeader = [s \in Server |-> FALSE]
  /\ succeeded = [s \in Server |-> FALSE]
  /\ inaugurations = [s \in Server |-> << >>]
  /\ aborting = [s \in Server |-> "no"]
  /\ running = [s \in Server |-> s \in Booted]
  /\ voting = {} /\ counting = {}
  /\ winning = [s \in Server |-> NoWinner]
  /\ coordinator = [s \in Server |-> IF s \in Booted THEN InitialLeader ELSE s]
  /\ serving = Booted \cap {InitialLeader}
  /\ msgs = {}
  /\ granted = {} /\ endorsed = {} /\ elected = {}

ToOthers(s, type, v) ==
  {[type |-> type, src |-> s, dst |-> t, view |-> v] : t \in Server \ {s}}

(* constructCommonEndorsement: candidate and voters hash the same fields. *)
EndorsementOfLastView(c, v) == <<c, IF v = 0 THEN 0 ELSE v - 1>>
CommonEndorsement(c, v) == <<c, v>>

(* Datagrams leave; some of them get lost.  One is read off the socket; a   *)
(* duplicate of it may still come.                                          *)
Sent(D) == \E arriving \in (IF Losses THEN SUBSET D ELSE {D}) : msgs' = msgs \cup arriving
Received(m) == msgs' = msgs \ {m} \/ (Duplicates /\ UNCHANGED msgs)

HasRoomOffByOne(s) == Len(inaugurations[s]) <= 1
HasRoom(s) == Len(inaugurations[s]) < 1

-----------------------------------------------------------------------------
(* startNewElectionCampaignAsStarlet, past the semaphore. *)
StartCampaign(s) ==
  /\ running[s]
  /\ \/ campaign[s].pc = "idle" /\ s \in Candidates /\ view[s] < MaxView
     \/ campaign[s].pc = "retrying"
  /\ campaign' = [campaign EXCEPT ![s].pc = "computing"]
  /\ role' = [role EXCEPT ![s] = "STARLET"]
  /\ UNCHANGED <<view, vcCache, cacheLock, channels, loop, handlers, msgs, history>>

(* The reputation engine fails: the campaign ends with the semaphore taken. *)
PenaltyFails(s) ==
  /\ campaign[s].pc = "computing"
  /\ Reputation
  /\ campaign' = [campaign EXCEPT ![s].pc = "dead"]
  /\ UNCHANGED <<cells, channels, loop, handlers, msgs, history>>

(* incrementView, then requestVC up to the lock. *)
BecomeNominee(s) ==
  /\ campaign[s].pc = "computing"
  /\ view[s] < MaxView
  /\ view' = [view EXCEPT ![s] = @ + 1]
  /\ role' = [role EXCEPT ![s] = "NOMINEE"]
  /\ campaign' = [campaign EXCEPT ![s] = [pc |-> "requesting", view |-> view[s] + 1]]
  /\ UNCHANGED <<vcCache, cacheLock, channels, loop, handlers, msgs, history>>

(* requestVC returns with cacheLock and the semaphore taken when its view   *)
(* is cached already.                                                       *)
RequestRefused(s) ==
  /\ campaign[s].pc = "requesting"
  /\ cacheLock[s] = "free"
  /\ vcCache[s][campaign[s].view] # NoVote
  /\ cacheLock' = [cacheLock EXCEPT ![s] = "leaked"]
  /\ campaign' = [campaign EXCEPT ![s].pc = "dead"]
  /\ UNCHANGED <<view, role, vcCache, channels, loop, handlers, msgs, history>>

(* The vote for itself is cached under the view the server is in now, which *)
(* need not be the view of the request.                                     *)
RequestVotes(s) ==
  LET v == campaign[s].view
      endorsement == CommonEndorsement(s, v)
  IN /\ campaign[s].pc = "requesting"
     /\ cacheLock[s] = "free"
     /\ vcCache[s][v] = NoVote
     /\ vcCache' = [vcCache EXCEPT ![s][view[s]] =
                      [endorsement |-> endorsement, shares |-> <<PenSign(s, endorsement)>>]]
     /\ endorsed' = endorsed \cup {<<s, endorsement>>}
     /\ campaign' = [campaign EXCEPT ![s].pc = "waiting"]
     /\ Sent(ToOthers(s, "voteMe", v))
     /\ UNCHANGED <<view, role, cacheLock, channels, loop, handlers, granted, elected>>

(* The three ends of a campaign (select in requestVC). *)
CampaignAborted(s) ==
  /\ campaign[s].pc = "waiting"
  /\ anotherLeader[s]
  /\ anotherLeader' = [anotherLeader EXCEPT ![s] = FALSE]
  /\ campaign' = [campaign EXCEPT ![s].pc = "idle"]
  /\ UNCHANGED <<cells, succeeded, inaugurations, loop, handlers, msgs, history>>

RetriedInItsView(s) ==
  /\ campaign[s].pc = "waiting"
  /\ s \in MayTimeOut
  /\ campaign' = [campaign EXCEPT ![s].pc = "requesting"]
  /\ UNCHANGED <<cells, channels, loop, handlers, msgs, history>>

CampaignTimedOut(s) ==
  /\ campaign[s].pc = "waiting"
  /\ s \in MayTimeOut
  /\ campaign' = [campaign EXCEPT ![s].pc = "retrying"]
  /\ UNCHANGED <<cells, channels, loop, handlers, msgs, history>>

CampaignSucceeded(s) ==
  /\ campaign[s].pc = "waiting"
  /\ succeeded[s]
  /\ succeeded' = [succeeded EXCEPT ![s] = FALSE]
  /\ campaign' = [campaign EXCEPT ![s].pc = "idle"]
  /\ UNCHANGED <<cells, anotherLeader, inaugurations, loop, handlers, msgs, history>>

-----------------------------------------------------------------------------
(* validateVoteMeMsgAndSendBackToCandidate reads the view. *)
ReadRequest(m) ==
  /\ m \in msgs /\ m.type = "voteMe"
  /\ Received(m)
  /\ voting' = IF m.view < view[m.dst] THEN voting
               ELSE voting \cup {[pc |-> "read", req |-> m, myView |-> view[m.dst]]}
  /\ UNCHANGED <<cells, campaign, channels, loop, counting, winning, history>>

(* It sets the view it was asked for, whatever the view is by now. *)
AdoptView(h) ==
  /\ h \in voting /\ h.pc = "read"
  /\ view' = [view EXCEPT ![h.req.dst] = h.req.view]
  /\ voting' = (voting \ {h}) \cup {[h EXCEPT !.pc = "set"]}
  /\ UNCHANGED <<role, vcCache, cacheLock, campaign, channels, loop, counting, winning,
                 msgs, history>>

(* It votes unless it did under the view it read at first. *)
AlreadyVotedInNewView(h) == vcCache[h.req.dst][h.req.view] # NoVote
AlreadyVoted(h) == vcCache[h.req.dst][h.myView] # NoVote

VoteRefused(h) ==
  /\ h \in voting /\ h.pc = "set"
  /\ cacheLock[h.req.dst] = "free"
  /\ AlreadyVoted(h)
  /\ voting' = voting \ {h}
  /\ UNCHANGED <<cells, campaign, channels, loop, counting, winning, msgs, history>>

GiveVote(h) ==
  LET s == h.req.dst
      endorsement == CommonEndorsement(h.req.src, h.req.view)
  IN /\ h \in voting /\ h.pc = "set"
     /\ cacheLock[s] = "free"
     /\ ~AlreadyVoted(h)
     /\ voting' = voting \ {h}
     /\ vcCache' = [vcCache EXCEPT ![s][h.myView] =
                      [endorsement |-> endorsement, shares |-> << >>]]
     /\ Sent({[type |-> "grant", src |-> s, dst |-> h.req.src, view |-> h.req.view,
                share |-> PenSign(s, endorsement)]})
     /\ granted' = granted \cup {[voter |-> s, endorsement |-> endorsement,
                                  under |-> h.myView]}
     /\ endorsed' = endorsed \cup {<<s, endorsement>>}
     /\ UNCHANGED <<view, role, cacheLock, campaign, channels, loop, counting, winning,
                    elected>>

-----------------------------------------------------------------------------
(* validateGrantVoteMsgAndProceedToBeLeader reads the view. *)
StaleGrantUnchecked(m) == FALSE
StaleGrant(m) == m.view < view[m.dst]

ReadGrant(m) ==
  /\ m \in msgs /\ m.type = "grant"
  /\ Received(m)
  /\ counting' = IF StaleGrant(m) THEN counting
                 ELSE counting \cup {[grant |-> m, myView |-> view[m.dst]]}
  /\ UNCHANGED <<cells, campaign, channels, loop, voting, winning, history>>

(* The vote goes to what is cached under the view read at first. *)
GrantDropped(h) ==
  LET vote == vcCache[h.grant.dst][h.myView]
  IN /\ h \in counting
     /\ cacheLock[h.grant.dst] = "free"
     /\ vote = NoVote \/ Len(vote.shares) >= Quorum
     /\ counting' = counting \ {h}
     /\ UNCHANGED <<cells, campaign, channels, loop, voting, winning, msgs, history>>

(* The deciding vote recovers the certificate and keeps cacheLock. *)
DecidesAtThreshold(shares, e) == Len(shares) >= Threshold /\ PenRecovers(shares, e)
DecidesUnrecovered(shares, e) == Len(shares) = Quorum
DecidesLate(shares, e) == Len(shares) > Quorum /\ PenRecovers(shares, e)
Decides(shares, e) == Len(shares) = Quorum /\ PenRecovers(shares, e)

CountVote(h) ==
  LET s == h.grant.dst
      vote == vcCache[s][h.myView]
      shares == Append(vote.shares, h.grant.share)
      won == Decides(shares, vote.endorsement)
  IN /\ h \in counting
     /\ cacheLock[s] = "free"
     /\ vote # NoVote
     /\ Len(vote.shares) < Quorum
     /\ counting' = counting \ {h}
     /\ vcCache' = [vcCache EXCEPT ![s][h.myView].shares = shares]
     /\ winning' = IF won THEN [winning EXCEPT ![s] = [pc |-> "inaugurate", view |-> h.myView]]
                          ELSE winning
     /\ cacheLock' = IF won THEN [cacheLock EXCEPT ![s] = "winner"] ELSE cacheLock
     /\ UNCHANGED <<view, role, campaign, channels, loop, voting, msgs, history>>

Inaugurate(s) ==
  LET v == winning[s].view
  IN /\ winning[s].pc = "inaugurate"
     /\ HasRoom(s)
     /\ inaugurations' = [inaugurations EXCEPT ![s] = Append(@, [view |-> v, leader |-> s])]
     /\ Sent(ToOthers(s, "newView", v))
     /\ elected' = elected \cup {[leader |-> s, view |-> v,
                                  endorsement |-> vcCache[s][v].endorsement]}
     /\ winning' = [winning EXCEPT ![s].pc = "notify"]
     /\ UNCHANGED <<cells, campaign, anotherLeader, succeeded, loop, voting, counting,
                    granted, endorsed>>

NotifySuccessFirst(s) ==
  /\ winning[s].pc = "inaugurate"
  /\ ~succeeded[s]
  /\ succeeded' = [succeeded EXCEPT ![s] = TRUE]
  /\ UNCHANGED <<cells, campaign, anotherLeader, inaugurations, loop, handlers, msgs, history>>

NotifySuccess(s) ==
  /\ winning[s].pc = "notify"
  /\ ~succeeded[s]
  /\ succeeded' = [succeeded EXCEPT ![s] = TRUE]
  /\ winning' = [winning EXCEPT ![s] = NoWinner]
  /\ cacheLock' = [cacheLock EXCEPT ![s] = "free"]
  /\ UNCHANGED <<view, role, vcCache, campaign, anotherLeader, inaugurations, loop, voting,
                 counting, msgs, history>>

AnnouncedByReceiver(m) == [view |-> m.view, leader |-> m.dst]
Announced(m) == [view |-> m.view, leader |-> m.src]

(* validateNewViewMsg checks nothing and waits for room in the channel. *)
AdmitLeadership(m) ==
  /\ m \in msgs /\ m.type = "newView"
  /\ HasRoom(m.dst)
  /\ Received(m)
  /\ inaugurations' = [inaugurations EXCEPT ![m.dst] = Append(@, Announced(m))]
  /\ UNCHANGED <<cells, campaign, anotherLeader, succeeded, loop, handlers, history>>

-----------------------------------------------------------------------------
(* init() sends the initial leadership through the channel, while election  *)
(* datagrams are handled already, and start() takes it as its first.        *)
Boot(s) ==
  /\ ~running[s]
  /\ HasRoom(s)
  /\ running' = [running EXCEPT ![s] = TRUE]
  /\ coordinator' = [coordinator EXCEPT ![s] = InitialLeader]
  /\ serving' = IF s = InitialLeader THEN serving \cup {s} ELSE serving
  /\ UNCHANGED <<cells, campaign, channels, aborting, handlers, msgs, history>>

(* start() takes the next inauguration.  operatingView stays 0, so none is  *)
(* stale.                                                                   *)
TakeInauguration(s) ==
  /\ running[s] /\ aborting[s] = "no"
  /\ inaugurations[s] # << >>
  /\ inaugurations' = [inaugurations EXCEPT ![s] = Tail(@)]

(* A nominee that won starts the leader service; it stays a nominee. *)
StartLeaderService(s) ==
  /\ TakeInauguration(s)
  /\ inaugurations[s][1].leader = s /\ role[s] = "NOMINEE"
  /\ serving' = serving \cup {s}
  /\ UNCHANGED <<cells, campaign, anotherLeader, succeeded, aborting, running, coordinator,
                 handlers, msgs, history>>

(* Only logged: the own inauguration of a server that is no nominee, and    *)
(* another's while the own penalty is computed.                             *)
IgnoreInauguration(s) ==
  /\ TakeInauguration(s)
  /\ IF inaugurations[s][1].leader = s THEN role[s] # "NOMINEE" ELSE role[s] = "STARLET"
  /\ UNCHANGED <<cells, campaign, anotherLeader, succeeded, loop, handlers, msgs, history>>

(* A worker, and a leader that steps down, dial the new leader; the leader  *)
(* keeps its role and its service.                                          *)
FollowLeader(s) ==
  /\ TakeInauguration(s)
  /\ inaugurations[s][1].leader # s /\ role[s] \in {"LEADER", "WORKER"}
  /\ coordinator' = [coordinator EXCEPT ![s] = inaugurations[s][1].leader]
  /\ UNCHANGED <<cells, campaign, anotherLeader, succeeded, aborting, running, serving,
                 handlers, msgs, history>>

(* A nominee is to abort its campaign; it does not dial the new leader. *)
FindAnotherLeader(s) ==
  /\ TakeInauguration(s)
  /\ inaugurations[s][1].leader # s /\ role[s] = "NOMINEE"
  /\ aborting' = [aborting EXCEPT ![s] = "notify"]
  /\ UNCHANGED <<cells, campaign, anotherLeader, succeeded, running, coordinator, serving,
                 handlers, msgs, history>>

AbortCampaign(s) ==
  /\ aborting[s] = "notify" /\ ~anotherLeader[s]
  /\ anotherLeader' = [anotherLeader EXCEPT ![s] = TRUE]
  /\ aborting' = [aborting EXCEPT ![s] = "demote"]
  /\ UNCHANGED <<cells, campaign, succeeded, inaugurations, running, coordinator, serving,
                 handlers, msgs, history>>

BackToWorker(s) ==
  /\ aborting[s] = "demote"
  /\ aborting' = [aborting EXCEPT ![s] = "no"]
  /\ role' = [role EXCEPT ![s] = "WORKER"]
  /\ UNCHANGED <<view, vcCache, cacheLock, campaign, channels, running, coordinator, serving,
                 handlers, msgs, history>>

-----------------------------------------------------------------------------
Campaign(s) ==
  \/ StartCampaign(s) \/ PenaltyFails(s) \/ BecomeNominee(s)
  \/ RequestRefused(s) \/ RequestVotes(s)
  \/ CampaignAborted(s) \/ CampaignTimedOut(s) \/ CampaignSucceeded(s)

AnswerRequest == \/ \E m \in msgs : ReadRequest(m)
                 \/ \E h \in voting : AdoptView(h) \/ VoteRefused(h) \/ GiveVote(h)

CountGrant == \/ \E m \in msgs : ReadGrant(m)
              \/ \E h \in counting : GrantDropped(h) \/ CountVote(h)

Win(s) == Inaugurate(s) \/ NotifySuccess(s)

RoleLoop(s) ==
  \/ Boot(s) \/ StartLeaderService(s) \/ IgnoreInauguration(s)
  \/ FollowLeader(s) \/ FindAnotherLeader(s) \/ AbortCampaign(s)
  \/ BackToWorker(s)

Next ==
  \/ \E s \in Server : Campaign(s)
  \/ AnswerRequest
  \/ CountGrant
  \/ \E s \in Server : Win(s)
  \/ \E m \in msgs : AdmitLeadership(m)
  \/ \E s \in Server : RoleLoop(s)

Spec == Init /\ [][Next]_vars

(* Runnable goroutines run, mutexes and channels are fair, and a running    *)
(* timer fires.  Datagrams arrive: the runs under FairSpec lose none.       *)
Proceed(s) ==
  \/ campaign[s].pc = "retrying" /\ StartCampaign(s)
  \/ BecomeNominee(s) \/ RequestRefused(s) \/ RequestVotes(s)
  \/ CampaignAborted(s) \/ CampaignSucceeded(s) \/ CampaignTimedOut(s)

Fairness ==
  /\ WF_vars(AnswerRequest)
  /\ WF_vars(CountGrant)
  /\ WF_vars(\E m \in msgs : AdmitLeadership(m))
  /\ \A s \in Server : WF_vars(Proceed(s)) /\ WF_vars(Win(s)) /\ WF_vars(RoleLoop(s))

FairSpec == Spec /\ Fairness

-----------------------------------------------------------------------------
(* The type invariant. *)
TypeOK ==
  /\ view \in [Server -> View]
  /\ role \in [Server -> {"LEADER", "NOMINEE", "STARLET", "WORKER"}]
  /\ vcCache \in [Server -> [View -> Vote]]
  /\ cacheLock \in [Server -> {"free", "winner", "leaked"}]
  /\ campaign \in [Server -> [pc : {"idle", "computing", "requesting", "waiting",
                                    "retrying", "dead"}, view : View]]
  /\ anotherLeader \in [Server -> BOOLEAN]
  /\ succeeded \in [Server -> BOOLEAN]
  /\ inaugurations \in [Server -> Seq(Leadership)]
  /\ \A s \in Server : Len(inaugurations[s]) <= 1
  /\ aborting \in [Server -> {"no", "notify", "demote"}]
  /\ running \in [Server -> BOOLEAN]
  /\ voting \subseteq [pc : {"read", "set"}, req : Request, myView : View]
  /\ counting \subseteq [grant : Grant, myView : View]
  /\ winning \in [Server -> [pc : {"none", "inaugurate", "notify"}, view : View]]
  /\ coordinator \in [Server -> Server]
  /\ serving \subseteq Server
  /\ msgs \subseteq Request \cup Grant \cup NewView
  /\ granted \subseteq [voter : Server, endorsement : Endorsement, under : View]
  /\ endorsed \subseteq Server \X Endorsement
  /\ elected \subseteq [leader : Candidates, view : View, endorsement : Endorsement]

Endorsers(e) == {s \in Server \ BadKey : <<s, e>> \in endorsed}

(* A leader announces itself only with a certificate of Threshold servers   *)
(* that signed one campaign of its own (lines 254-289 of vchanges.go),      *)
(* whatever handler of which vote came between.                             *)
ElectedByThreshold ==
  \A e \in elected :
     e.endorsement[1] = e.leader /\ Cardinality(Endorsers(e.endorsement)) >= Threshold

(* "vc quorum reached in view %d!" (line 260 of vchanges.go): a quorum of   *)
(* servers gave their votes for the campaign that won.  Shares are counted, *)
(* not servers, and the last one is not looked at.                          *)
ElectedByQuorum ==
  \A e \in elected : Cardinality(Endorsers(e.endorsement)) >= Quorum

(* A server gives at most one vote under a key of its cache (the lock and   *)
(* the check of lines 182-201 of vchanges.go), although handlers of several *)
(* requests read the same view.                                             *)
OneVotePerCachedView ==
  \A g, h \in granted : g.voter = h.voter /\ g.under = h.under => g = h

(* The vote a candidate cached for itself is still there while it waits for *)
(* the votes of others, whatever requests it answers meanwhile (lines       *)
(* 115-122 and 185-201 of vchanges.go write the same map).                  *)
SelfVoteKept ==
  \A s \in Server : campaign[s].pc = "waiting" =>
     \E v \in View : vcCache[s][v].endorsement = CommonEndorsement(s, campaign[s].view)

(* After any number of inaugurations, in any order: the coordinator that a  *)
(* running server dials, and a server that runs the leader service, is the  *)
(* initial leader or announced itself with a certificate (lines 145-236 of  *)
(* handlers.go).                                                            *)
FollowsElected ==
  /\ \A s \in Server : running[s] => \/ coordinator[s] = InitialLeader
                                     \/ \E e \in elected : e.leader = coordinator[s]
  /\ \A s \in serving : s = InitialLeader \/ \E e \in elected : e.leader = s

(* init() waits for room in a channel that datagrams fill (line 32 of       *)
(* main.go).  A server is held there only by an election: Threshold servers *)
(* endorsed a campaign of the leader it was told of.                        *)
HeldBackByElection ==
  \A s \in Server : ~running[s] /\ ~HasRoom(s) =>
     \E e \in elected : /\ e.leader = inaugurations[s][1].leader
                        /\ Cardinality(Endorsers(e.endorsement)) >= Threshold

(* Who announces itself in a view holds a certificate of its campaign in    *)
(* that very view, also after campaigns that timed out (lines 115-122 and   *)
(* 238-289 of vchanges.go use the current view as the key of the cache).    *)
OwnEndorsement == \A e \in elected : e.endorsement = <<e.leader, e.view>>

(* "already requested ...?" (line 110 of vchanges.go) never leaves the cache *)
(* locked while one server campaigns: however often its timer fires and     *)
(* whatever votes come late, it never asks twice in a view.                 *)
NoLockLeaks == \A s \in Server : cacheLock[s] # "leaked"

(* The elections implement LeaderElection. *)
endorsements == {p \in endorsed : p[1] \notin BadKey}
wonCampaigns == {e.endorsement : e \in elected}
leaderOf == [s \in Server |-> IF running[s] THEN coordinator[s] ELSE InitialLeader]
leadersServing == serving \cup {InitialLeader}

CertifyingSets == {Q \in SUBSET Server : Cardinality(Q) >= Threshold}

LE == INSTANCE LeaderElection
        WITH Campaigns <- Endorsement, Deciding <- CertifyingSets,
             endorsed <- endorsements, won <- wonCampaigns,
             leader <- leaderOf, serving <- leadersServing

(* Whatever requests, votes and inaugurations cross each other: a server    *)
(* announces itself only with a certificate, and others dial, and lead as,  *)
(* nobody but the initial leader and those who did (the handlers of         *)
(* vchanges.go and the loop of handlers.go, lines 136-236).                 *)
ImplementsLeaderElection == LE!Spec

(* "already voted in (this) view" (line 187 of vchanges.go): a server gives *)
(* one vote in a view.                                                      *)
VoteOncePerView ==
  \A g, h \in granted : g.voter = h.voter /\ g.endorsement[2] = h.endorsement[2] => g = h

(* "split votes" (line 145 of vchanges.go): of two candidates in a view at  *)
(* most one reaches the quorum.                                             *)
OneLeaderPerView == \A d, e \in elected : d.view = e.view => d.leader = e.leader

(* "The message can only be processed chronologically" (line 31 of          *)
(* vchanges.go): the view of a server never goes back.                      *)
ViewsAdvance == [][\A s \in Server : view'[s] >= view[s]]_vars

(* "a leader cannot be augurated twice in a view" (line 166 of handlers.go). *)
InauguratedOnce ==
  [][\A s \in Server :
        Inaugurate(s) => \A e \in elected : <<e.leader, e.view>> # <<s, winning[s].view>>]_vars

(* "Campaign succeeded!" (line 153 of vchanges.go): the server is elected   *)
(* in the view of the campaign that ends.                                   *)
SuccessMeansElected ==
  [][\A s \in Server : CampaignSucceeded(s) =>
        \E e \in elected : e.leader = s /\ e.endorsement[2] = campaign[s].view]_vars

(* Of one server that campaigns again and again a success ends a campaign   *)
(* only when the server announced itself in that view or in an earlier one: *)
(* the timer that races the deciding vote (line 144 of vchanges.go) delays  *)
(* a success to the next campaign, and invents none.                        *)
SuccessIsEarned ==
  [][\A s \in Server : CampaignSucceeded(s) =>
        \E e \in elected : e.leader = s /\ e.view <= campaign[s].view]_vars

(* "System operating as the initial roles passed from cmd" (line 141 of     *)
(* handlers.go).                                                            *)
EveryoneBoots == \A s \in Server : <>running[s]

(* A server whose campaign times out asks for votes again ("Time's up!      *)
(* startNewElectionCampaignAsStarlet", line 147 of vchanges.go).            *)
TimeoutIsRetried ==
  \A s \in Server : campaign[s].pc = "retrying" /\ view[s] < MaxView ~> campaign[s].pc = "waiting"

(* Every server follows the one candidate that there is. *)
CandidateIsFollowed ==
  \A c \in Server :
     (Candidates = {c} /\ campaign[c].pc = "requesting")
       ~> (c \in serving /\ \A s \in Server \ {c} : coordinator[s] = c)
=============================================================================
