# Verification of PrestigeBFT in TLA+

PrestigeBFT is a leader-based BFT replication protocol with reputation-based
active view changes. This directory holds TLA+ models of the Go program in
`src/`, the TLC runs that check them, and TLAPS proofs about replication,
confirmations, elections, penalties, request intake and the dial registry.
Everything is translated from the code; where the code and its comments
disagree, the model follows the code and a run shows the disagreement.

Contents: [inventory](#1-inventory) · [modules](#2-modules-and-how-they-map-to-the-code) ·
[runs](#3-runs) · [bounds](#4-bounds) · [fairness](#5-fairness) ·
[proofs](#6-proofs) · [disagreements](#7-disagreements-between-code-and-comments) ·
[not modelled](#8-what-is-not-modelled) · [plan](#9-plan)

To repeat a run: `tlc -config X.cfg M`, with `M` from the tables of section 3.
To repeat the proofs: `tlapm M.tla` with `ReplicationSafetyProofs`,
`ReplicationCountingProofs`, `ConfirmationProofs`, `SumProofs`,
`ReputationProofs`, `ElectionProofs`, `RequestIntakeProofs` and
`DialRegistryProofs` for `M`.

## 1. Inventory

| Component | Source | State | Operations |
|---|---|---|---|
| Block replication | `consensus.go`, `comply.go`, `cache.go` | `orderCache`, `commitCache` (block id → fragment), `blockIdCounter`, `commitIndex`, registered worker connections per phase | packers take requests into blocks; leader broadcasts post/order/commit entries and counts replies; workers verify, cache and answer |
| Threshold signatures | `penKeyGen/thresholdSignature.go`, `utilities.go`, `parameters.go` | key shares, `Quorum`, `Threshold` | sign, verify a share, recover, verify |
| View changes | `vchanges.go`, `cache.go`, `statemachine.go`, `vconn.go` | view, role, `vcCache` and its lock, semaphore of campaigns, three notify channels | campaign, request votes, answer, count votes, inaugurate |
| Role loop and boot | `handlers.go`, `main.go` | `roleChangingAtInauguration`, `coordinatorIdOfPhases`, `operatingView` | `init()` hands over the initial leadership, `start()` follows inaugurations |
| Request intake and relay | `consensus.go`, `comply.go` | `clientConnections`, `clientRequestQueue`, `relayedRequestRecorder`, batches, `logIndex` | read client requests, relay them to the leader, record, batch |
| Dial registry, listeners | `comply.go`, `connections.go`, `handlers.go` | `DialogConnRegistry`, `ServerConnNavigator` | accept and dial one connection per phase |
| Client confirmations | `consensus.go` | encoders of client connections | `notifyClients` |
| Leader failure investigation | `statemachine.go` | timers | `startInvestigation` (called by nobody) |
| Penalty payment | `paypenalty.go` | `nonceFound` | parallel search for a nonce |
| Reputation engine | `repueng/repu.go`, `repu.py` | none | the new penalty of a candidate |
| Configuration, keys, logging, message formats | `loadconf.go`, `parameters.go`, `logger.go`, `msgformat.go`, `blocks.go` | flags, peer lists | read once at the start |

How they interact. A client sends a request to any servers. A worker's relay
passes it to the leader it dialed over TCP; readers of clients and handlers of
relays put it on the leader's `clientRequestQueue`; packers take it from there
and start the replication of a block when their batch is full. Replication
uses four TCP connections per worker (post, order, commit, relay); each message
gets a goroutine of its own, so even messages of one connection are handled in
any order. View changes use UDP datagrams, again with a goroutine each; the
winner of an election reaches `start()` through a channel of capacity 1, and so
do the inaugurations of others. `start()` starts the leader service (packers and
listeners) or dials the new leader. Nothing is ever stopped: packers, relays and
connections of earlier views run on beside those of the new one.

What is hard, and what makes each part correct:

* **Replication.** Replies are counted by concurrent goroutines that look a
  fragment up and act on it later; the leader's handlers continue after their
  broadcast while the answers come in; fragments are deleted when a block
  commits; workers overwrite fragments when two leaders use one id. Correct
  means: a share for the order phase is given only for a digest a quorum gave
  shares for in the post phase; a commit is backed by a quorum of order shares
  of the same digest; `commitIndex` counts blocks; late replies are harmless;
  a packed block gets ordered.
* **View changes.** The view is read, compared and set in separate critical
  sections; a vote is cached under the view read before it was changed; timers
  race answers; datagrams are lost and duplicated; a handler waits on channels
  with the lock of the cache held. Correct means: who announces itself holds a
  certificate for its own campaign, from enough servers; a server's votes
  exclude each other; campaigns end or are retried; everybody follows who won.
* **Intake.** Copies of a request come directly, once or again, and by relays; the
  queue has no capacity, so handlers wait with the lock of the recorder held;
  packers end at invalid requests. Correct means: relays of a request enter
  once, no drop as duplicate loses a request, `logIndex` agrees with the
  batches, and what was read gets batched.

* **Dialing.** A worker and a leader must agree on the view to recognise each
  other by port; a listener closes after n-1 returns of `Accept`; the dialing
  goroutine holds the lock that the role loop needs; registries are dropped at a
  victory. Correct means: a worker is registered as itself, in the view it dialed
  in; the role loop goes on; whoever dials gets linked or is known to have failed.
* **Confirmations.** They stand between a commit and the deletion of its caches
  and use connections that others make and lose. Correct means: clients are told
  once, of backed blocks only, and one client's failure costs no other client
  its confirmation.
* **Penalties.** Threads share an unlocked flag, and the engine is a process that
  may fail. Correct means: no campaign goes on unpaid or leaves threads behind,
  and campaigns end.

`PROJECT.json` lists every hazard at its line with the properties aimed at it.

## 2. Modules and how they map to the code

```
PenSignature ──┬── Replication ── MCReplication (TLC)
               │       └─ INSTANCE BlockCommit
               └── Election ── MCElection (TLC)
                       └─ INSTANCE LeaderElection
RequestIntake ── MCRequestIntake (TLC)
DialRegistry ── MCDialRegistry (TLC)

Replication ── Confirmation ──┐
               MCReplication ─┴── MCConfirmation (TLC)
Election, Reputation ── PaidElection ─┐
                        MCElection ───┴── MCPaidElection (TLC)

Proofs:
Replication ── ReplicationSafetyProofs ── ReplicationCountingProofs ─┐
Confirmation ────────────────────────────────── ConfirmationProofs ──┘
SumProofs ─┬─ ReputationProofs (with Reputation) ─┐
           │                        PaidElection ─┴── ElectionProofs
           └─ RequestIntakeProofs (with RequestIntake)
DialRegistry ── DialRegistryProofs
```

**PenSignature.** The quorum arithmetic of `loadCmdParameters` with Go's integer
division (`Quorum = N/3*2+1`, `Threshold = Quorum-1`) and the signature wrapper.
The pairing arithmetic is abstract: a share carries its signer and the digest it
verifies on; recovery reads the shares in order, needs `Threshold` of them, fails
at the first that does not verify and when two carry one index. `BadKey` are
servers whose cluster file holds other secrets: they derive another polynomial,
so their shares verify nowhere and nothing verifies at them.

**Replication.** One action per handler branch, two or three where a handler
does something between its accesses to the caches:

| Code | Actions |
|---|---|
| `asyncPackAndDisseminateBlocks` | `PackBlock` (id, order fragment), `Disseminate` (commit fragment, broadcast) |
| `asyncWorkersHandlePostEntry` | `PostEntryRejected`, `PostEntryAccepted` |
| `asyncHandleServerPostReply` | `PostReplyWithoutFragment`, `PostReplyAfterQuorum`, `PostReplyCounted`, then `RefreshCommitFragment` |
| `asyncWorkersHandleOrderEntry` | `OrderEntryRejected`, `OrderEntryAccepted` |
| `asyncHandleServerOrderReply` | `OrderReplyIgnored`, `OrderReplyCounted`, then `ClearCaches` |
| `asyncWorkersHandleCommitEntry` | `CommitEntryRejected`, `CommitEntryAccepted` |
| `registerIncomingWorkerServers` | `RegisterWorker`, at any time |
| the process | `Crash` (nothing is persisted, nobody reconnects) |

Choices. `msgs` is a set, handled in any order. A handler's lookup and append
are one step at the lookup; append, recovery, broadcast and `commitIndex++` are
one step, while the second access to the caches (the leader's own share, the
deletion) is a step of its own, because answers to the broadcast come in
between. The lookup of the encoder of a connection is part of the broadcast. A
digest names the block's content by packer and id; the leader is never compared
with its view, as in the code. A message may stay unhandled for ever, which also
covers a server that stops in the middle of a broadcast. The entries of a block
are not modelled; no handler compares them with the digest. Clients are taken to
be connected everywhere. `Leaders` with two elements is the state after a view
change, in which the packers of the old leader still run.

`signed` and `committed` are history variables: the shares made for replies or
for the commit quorum, and the digests committed, per server.

**BlockCommit** is what replication promises, with no caches or messages: a
server accepts a block, prepares it once a quorum accepted, and commits it once a
quorum prepared it, a worker only what it prepared itself and after the leader
did. `Replication!ImplementsBlockCommit` maps shares and commits to it.

**LeaderElection** is what the view changes promise, with no caches, locks or
messages: servers endorse campaigns one at a time, a campaign is won only with the
endorsements of a deciding set (here: of `Threshold` servers with the keys), and
nobody follows or serves as anyone but the initial leader and those who won.
`Election!ImplementsLeaderElection` maps the histories of signed endorsements and
of announcements, the coordinators and the running leader services to it. It does
not say that a view has one winner: the code does not keep that (section 7).

The inductive invariants of the proofs stand in front of the proofs in
ReplicationSafetyProofs and ElectionProofs, and at the end of Confirmation,
RequestIntake and DialRegistry. Section 6 explains them.

**Election.** The handlers of `vchanges.go` with the interleavings their locks
leave:

| Code | Actions |
|---|---|
| `startNewElectionCampaignAsStarlet`, `requestVC` | `StartCampaign`, `PenaltyFails`, `BecomeNominee`, `RequestRefused`/`RequestVotes`, `CampaignAborted`/`CampaignTimedOut`/`CampaignSucceeded` |
| `validateVoteMeMsgAndSendBackToCandidate` | `ReadRequest` (view read), `AdoptView` (view set), `VoteRefused`/`GiveVote` (under `cacheLock`) |
| `validateGrantVoteMsgAndProceedToBeLeader` | `ReadGrant`, `GrantDropped`/`CountVote`, `Inaugurate`, `NotifySuccess` (still under `cacheLock`) |
| `validateNewViewMsg` | `AdmitLeadership`, waits for room in the channel |
| `init()` in `main.go` | `Boot` |
| `start()` in `handlers.go` | `StartLeaderService`, `IgnoreInauguration`, `FollowLeader`, `FindAnotherLeader`, `AbortCampaign`, `BackToWorker` |

Choices. The signed endorsement is named by candidate and view; its commit index
and penalty fields are abstract. No code starts a first campaign (the call in
`main.go` is commented out), so servers in `Candidates` start them at any time;
campaigns that wait for the semaphore are campaigns that start later. Taking the
semaphore and becoming a starlet are one step, and so are increasing the view and
becoming a nominee: only `start()` reads the role. A crashed server is one all of
whose datagrams are lost (`Losses`). Handlers are a set, so two handlers in one
state for one datagram and its duplicate count as one. A server outside `Booted`
has loaded its keys and is about to hand over the initial leadership.

**RequestIntake.** Readers of clients (`handleCliConn`), relays
(`runAsWorkerStartDialingLeader`, `asyncRelayClientRequest`), the handler of
relayed requests and the packers up to a full batch, where Replication goes on.
The queue is made in a package-level variable before `-mq` is parsed, so it has
no capacity and each hand-over is a rendezvous of a sender (`Taken`) and a
receiver. A reader queues whatever it decodes, also a request that its client
sent before; `reads` is the history of how often it did. A packer that an invalid
request ends takes its open batch with it. Recording a relayed request and unlocking the recorder belong to that
step, as the handler holds the lock throughout. `Links` and `Leaders` say which
relays and packers exist, also those left over from an earlier view.

**Confirmation** composes Replication with what follows a commit.
`incrementCommitIndex` is the moment a handler goes on to `notifyClients`
(`HandleAndNotify`: an order reply at the leader, a commit entry at a worker, which
share the code after it); the entries of the block are then visited one by one in
any order (`NotifyClient`, `NotifyFails`, `NotifyPanics`), and the leader deletes
the caches when all were (`ClearAfterNotifying`). A block carries one entry per
client. A connection is `"never"` made (its encoder is nil), `"up"` or `"down"`,
and those in `Changing` may change. The handlers are those of Replication,
unchanged, so the invariant and the refinement of its proofs are checked on this
larger model too.

**PaidElection** composes Election with the penalty of a campaign: in place of
the abstract `PenaltyFails` and `BecomeNominee` the engine computes
(`CalculationFails`, `PayPenalty`), threads test the shared flag and hash
(`CheckNonce`, `HashNonce`), and the campaign goes on when all have returned
(`BecomePaidNominee`). The flag belongs to the process and nothing resets it. Of a
digest only the number of equal leading digits matters. The flag is read and
written without a lock; each round of the loop loads it again, so a read of an old
value is a read that came earlier.

**Reputation** has the formulas of `repu.py` and the test of a digest. The engine
compares with a square root; both sides are squared here, and the floor is the
greatest of finitely many candidates (`Deduction`). The script dies of a division
by 0 (`EngineFails`), which `Calculate` returns as an error of its own; a penalty
may well be negative after a long good history. TLC evaluates the test case of
`vchanges.go`, which costs 6 (`TestCasePenalty` in MCPaidElection); that these
operators are what the script computes is proved (section 6).

**DialRegistry** models how workers and leaders get connected:

| Code | Actions |
|---|---|
| `operatingAsInitialRoles` | `Boot` |
| `start()` | `StartLeaderService`, `ChangeLeader` (takes the inauguration, wants the lock), `FollowLeader` (has the lock), `FindAnotherLeader` (is to tell the campaign), `AbortCampaign` (the send), `BackToWorker`, `IgnoreInauguration` |
| `startNewElectionCampaignAsStarlet`, `requestVC`, as far as `start()` meets them | `StartCampaign`, `BecomeNominee`, `CampaignAborted`, `CampaignEnds` |
| `runAsWorkerStartDialingLeader`, `registerDialConn`, `establishDialConn` | `StartDialing`, `DialConnects`, `DialFails` per phase, then `StartReceiving` |
| `accept*PhaseConnections`, `closeTCPListener` | `Listen`, `Accept`, `AcceptFails` |
| `registerIncomingWorkerServers` with the registry of `parseClusterConf` | `Register`, `Reject` |

A worker dials from its port plus its view; the leader takes its own view off what
it sees. Connections are never closed, so their local ports stay in use, and
whatever waits at a listener when it closes is reset. Elections are the
environment here: `Elections` says who may win which view, and the servers in
`Voters` set their views at any time, backwards too (`ViewsAdvance` of Election is
refuted). Campaigns of the servers in `Candidates` are followed in steps: start()
sends to a channel of capacity 1 that only the select of a campaign receives from
(`notifyOfAnotherLeaderFound`, line 213 of `handlers.go`), so it waits as long as
the token of an earlier campaign is there (`TokenLeft`). Of other servers the
module has the victories; a candidate may win as well, and its campaign then ends
like any other.

Each of these modules contains a few operators named for what is wrong with them
(`QuorumRecoveredEarly`, `OrderEntryUnverified`, ...), used by no action. They are
the plausible bugs each property was tested against; `PROJECT.json` lists which.

## 3. Runs

| Run (module) | Instance | Properties | Shows |
|---|---|---|---|
| ReplicationTwoLeaders (MCReplication) | 4 servers, 2 of them leaders with the same block id, 1 worker that registers before the first block | `TypeOK` `NoPanic` `OrderBacked` `CommitBacked` | colliding block ids never put a share or a commit on a digest without its quorum; with four servers every worker is needed for the quorum, so no late reply panics |
| ReplicationN5 (MCConfirmation) | 5 servers, 2 with other keys, 1 connected late, 1 crash, `-perf`; 2 clients, of which one has left the leader and may come back | `CertifiedByThreshold` `CommitCounted` `CommitFragmentKept` `ConfirmedIsBacked` `HeardUnlessAway` `ImplementsBlockCommit` `ConfirmedOnce` | unverified shares are counted, yet what is ordered or committed has `Threshold` valid ones; each committed block is counted once; a commit fragment that is gone belongs to a committed block; clients are told once, only of what a quorum backs, and miss it only when away; replication implements `BlockCommit` |
| ReplicationLive (MCConfirmation) | 5 servers, 1 with other keys, a client, `-perf=false`, fair | `PackedIsOrdered` `CommittedIsConfirmed` | a packed block is ordered at every worker that has the keys, and confirmed by every server that commits it |
| ElectionRace (MCElection) | 2 candidates, views 0..2, 2 campaigns, loss | `SelfVoteKept` `OneVotePerCachedView` `ImplementsLeaderElection` | the two writers of the vote cache exclude each other per key; elections implement `LeaderElection`: only servers that announced themselves with a certificate serve or are followed |
| ElectionRetry (MCPaidElection) | 1 candidate, timeouts, failing reputation engine, 2 searching threads, views 0..2, loss | `OwnEndorsement` `ElectedByQuorum` `AsksAfterPaying` `NoLockLeaks` `InauguratedOnce` `SuccessIsEarned` | votes are asked for after a nonce was found and with no thread left; with one candidate, campaigns of different views do not mix, a retry never returns with the lock held, and a success that comes late belongs to an announcement |
| ElectionDuplicates | 1 candidate whose first campaign may time out or go unpaid, loss and duplicates, 2 servers with other keys, 1 still booting | `TypeOK` `ElectedByThreshold` `HeldBackByElection` | a certificate always has `Threshold` different valid signers of one campaign of the leader; `init()` is held up only by the announcement of such a leader |
| ElectionLive (MCPaidElection) | 1 candidate that pays, no loss, fair | `CandidateIsFollowed` `CampaignEnds` | it becomes everybody's coordinator and starts its service; its campaign ends and frees the semaphore, and does not die as its penalties differ |
| IntakeRelays (MCRequestIntake) | a leader, 2 workers, 3 requests of which 1 invalid, each read up to twice per server, 1 unknown client, 1 late connection | `TypeOK` `EntersOnceByRelay` `NoRequestLost` `LogIndexCounts` `WaitingIsBounded` `ProcessedOncePerPath` | the recorder admits a request once, so a leader processes it once per read and once more for all relays, also when clients send again; drops lose nothing; `logIndex` agrees with batches, blocks and what went with packers that stopped; what waits in open batches is bounded |
| IntakeLive | a leader, 2 workers, 1 invalid request, fair | `ReadIsBatched` | a valid request that was read reaches a batch, as long as each server keeps a receiver |
| DialTurnover (MCDialRegistry) | 2 servers, 1 phase; one leads, steps down, dials and campaigns, the other is elected twice; fair | `DialersSurvive` `InaugurationIsTaken` | inaugurations are taken although dialers hold the lock and campaigns are to be told, unless an earlier campaign left its token; only the named causes panic, and each does |
| DialBoot (MCDialRegistry) | 3 servers that boot in any order, 2 phases, a failing `Accept`, a leader and a worker whose views change, fair | `TypeOK` `AllConnectedAtFirst` `RegisteredInItsView` `WorkersLink` | the listeners take everybody when nothing fails; ports of two views, phases or servers never meet; each worker is linked in all phases or gave one up |
| TwoLeadersInAView (MCElection) | see section 7 | `OneLeaderPerView` | TLC finds it violated |

The properties of ElectionRetry are claims about a single candidate. With two,
`InauguratedOnce` fails (InauguratedTwice in section 7) and so do
`OwnEndorsement` and `ElectedByQuorum`, from the same cause (a vote cached under
the current view instead of the one asked for); `NoLockLeaks` fails as in
RetryStuck.

Deadlock checking is off throughout: an instance really ends, once every block is
packed, every request read or every campaign run.

## 4. Bounds

* `MaxBlock` = 1 per leader: the fragments of different block ids share no
  state but `commitIndex`, so the interleavings are those within one id. Two
  leaders with one id each give the collision of ids. The proofs have no such
  bound.
* `MaxCrash`: servers that stop.
* Four servers are the smallest size among the repository's configurations, with
  `Quorum` 3 of three workers; five are the smallest size with a worker the
  quorum does not need.
* `FewInFlight` (at most `MaxInFlight` = 4 messages; with four servers a
  broadcast has three): used with two leaders.
* `RegisteredFirst`, `NobodyCrashed` (ReplicationTwoLeaders) and `FirstCampaigns`
  (ElectionDuplicates): a late worker registers before blocks are packed, and the
  states after a crash, a timeout or a failed payment are checked but not
  followed. What comes after them is explored where these are the subject:
  ReplicationN5 has a late worker and a crash at any time, ElectionRetry retries.
* `MaxView`: highest view campaigned in; 1 has one race in it, 2 is needed for
  retries and for votes cached under an earlier view.
* `TwoVotesAtATime`, `ThreeVotesAtATime`, `ThreeAtATime`: requests, votes and
  their handlers under way (`Answering`), and announcements on the way to others
  (`Announcing`). Behaviours with more are not explored; a datagram may be lost
  instead of waiting. Votes of a campaign may be given one after another, so
  elections complete within these bounds; three at once are used where a
  duplicate or a stale vote matters. Announcements are cut to none where the
  property is about a single candidate, whom none of them reaches.
* `TwoCampaigns` (ElectionRace): two campaigns in all, of both candidates in one
  view, in views after one another, or of one candidate twice; two votes and one
  announcement at a time.
* `MaxTimestamp`: requests per client. `MaxSent`: how often a client sends one
  server a request, as a server reads all it is sent: 2 in IntakeRelays, where a
  second copy may come at any time; 1 in IntakeLive, whose property is about
  requests that were read at all. `MaxReads` = 4: reads in all of IntakeRelays,
  enough for two requests read by two workers each, or for one read twice by two
  servers. What follows a server that turned the unknown client away and keeps
  its lock is not explored: it goes on as one that no other client comes to.
  `BatchSize` 2 makes batches that stay open; in IntakeRelays two packers compete.

* `Client` = 2 in ReplicationN5: one connected client and one that left the leader
  and never came to another server but one. `MaxLinkChange` = 1: one connection
  is made or lost at any moment. Clients interact only through the order of visits.
* `Threads` = 2: one finds the nonce, another is anywhere. `DigestLength` = 7 is
  the shortest digest that pays the penalty of the test case, which is 6;
  `TLeft`, `TAll` and `PastPenalties` are those of the code.
* `LastPhase` = 2 in DialBoot for 3 phases, enough for a phase that is given up
  with another before or after it, and for ports of different phases; 1 in
  DialTurnover, since phases share only the lock, which a worker holds over all of
  them. `MaxTry` for 10: 2 in DialBoot, a dial that fails and one that is the last;
  1 in DialTurnover. `MaxAcceptError` = 1 in DialBoot.
* `Elections` in DialTurnover: the same server twice, so that a candidate hears of
  another leader in its first campaign and, when this left a token behind, again in
  its second. `MaxView` = 2 has room for these two campaigns. In DialBoot nobody is
  elected and `MaxView` = 1: the `Voters`, the leader and a worker, are in view 0 or 1
  when they dial, accept and register. With three phases or three voters it outgrows
  the time of a run.

Symmetry is used only over servers no constant tells apart, and in no run with a
liveness property.

## 5. Fairness

Goroutines that can run do run, so each handler step is weakly fair
(`HandleSome`, `Continue`, `AnswerRequest`, `CountGrant`, `Win`, `RoleLoop`,
`Proceed` of Election, and `Admit`, `StartRelay` and `TakeSome` of
RequestIntake). For messages, fairness of the union is enough: there are finitely many, and each handling removes one. TCP
delivers; the fair election runs lose no datagrams (`Losses = FALSE`). A running
timer fires (`CampaignTimedOut` in `Proceed`, for servers in `MayTimeOut`).
In Confirmation the notifying goroutines
go on. In PaidElection threads run (`Pay`), and a thread that hashes again and
again is lucky in the end: hashing a digest with enough equal digits is strongly
fair (`Lucky`), as the code has no other bound on its search. In DialRegistry a
server whose role loop, dials or campaign can go on does one of these steps
(`GoOn`); each of them takes finitely many, so none is left out. A dial connects or
fails, and the select of a campaign has a timer. `FairSpec` asks this of candidates
only, `ServedSpec` (DialBoot) of all servers, and of leaders that they accept and
register. Booting, voting, campaigning and winning are not fair.
Nothing is assumed of clients beyond that those in the client file connect, nor
that anyone packs, campaigns, crashes or registers. `TakeSome` is the fairness of
a Go channel: as long as a valid request waits and a receiver is there, one is
taken; each server reads finitely many (`MaxSent` of each), so each is.

## 6. Proofs

TLC checks one instance of each module; the theorems hold for every value of its
constants: any number of servers, candidates, clients, packers, blocks, views and
phases, any servers with other keys, any crashes, losses and duplicates. The
assumptions on constants are `ServerAssumption` (finitely many servers, at least
three), `ReplicationAssumption` (leaders are servers with the cluster's keys) and
`DialAssumption` (more than one server, a port per server and phase, finitely many
elections); the others only type constants. What a theorem needs beyond these is
in its statement.

| Module | Theorem | States |
|---|---|---|
| ReplicationSafetyProofs | `TypeCorrect` | `Spec => []TypeOK` |
| | `Invariance` | `Spec => []IInv` |
| | `OrdersAreBacked`, `CommitsAreBacked` | `Spec => []OrderBacked`, `Spec => []CommitBacked` |
| | `Refinement` | `Spec => ImplementsBlockCommit` |
| ReplicationCountingProofs | `OrdersAreCertified` | `Spec => []CertifiedByThreshold` |
| | `CommitsAreCounted` | `Spec => []CommitCounted` |
| | `CommitFragmentsAreKept` | `Spec => []CommitFragmentKept` |
| | `NoServerPanics` | `EveryWorkerNeeded => (Spec => []NoPanic)` |
| ConfirmationProofs | `BlockInvariance` | `ConfirmSpec => []BlockInv`: `IInv`, `CertInv` and `CountInv` with confirmations |
| | `ConfirmRefinement` | `ConfirmSpec => ImplementsBlockCommit` |
| | `ConfirmationsAreBacked`, `SteadyClientsHear` | `ConfirmSpec => []ConfirmedIsBacked`, `ConfirmSpec => []HeardUnlessAway` |
| | `ConfirmationsAreOnce` | `ConfirmSpec => ConfirmedOnce` |
| ElectionProofs | `TypeCorrect` | `Spec => []TypeOK` |
| | `ElectionsAreBacked` | `Spec => []ElectedByThreshold` |
| | `VotesAreOnePerKey`, `SelfVotesAreKept` | `Spec => []OneVotePerCachedView`, `Spec => []SelfVoteKept` |
| | `OnlyElectedAreFollowed` | `Spec => []FollowsElected` |
| | `CertifiedForItsView` | `OneCandidate => (Spec => []OwnEndorsement)` |
| | `InauguratedAtMostOnce` | `OneCandidate => (Spec => InauguratedOnce)` |
| | `ElectedByAQuorum` | `ReliableCluster => (Spec => []ElectedByQuorum)` |
| | `PaidElectionRefines` | `PaidSpec => Spec`, so all of these hold with penalties |
| | `VotesArePaidFor` | `Threads > 0 => (PaidSpec => []AsksAfterPaying)` |
| | `ElectionRefines` | `Spec => ImplementsLeaderElection` |
| | `LockIsGivenBack`, `SuccessesAreEarned` | `OneCandidate => (Spec => []NoLockLeaks)`, `OneCandidate => (Spec => SuccessIsEarned)` |
| | `OnlyTheUnpaidDie` | `OneCandidate => (PaidSpec => []OnlyUnpaidDie)` |
| | `OnlyElectionsHoldBoot` | `Spec => []HeldBackByElection` |
| | `VotesAreFewPerView` | `Spec => []VotesAreFew`: at most v + 1 votes of a server in view v |
| | `TwoWinnersShareAVoter` | `2 * Threshold > N => (Spec => []CertificatesMeet)`: the certificates of any two leaders announced have an endorser of both |
| ReputationProofs | `EngineFailsForEquals` | for `tAll > 0`, the engine fails exactly when all past penalties are the same |
| | `DeductionIsTheFloor` | `Deduction` is the floor of line 17 of `repu.py`, or 0, for every history |
| | `DeductionIsBounded` | a deduction is at most `tLeft / tAll` times the root of the number of penalties less one |
| RequestIntakeProofs | `TypeCorrect`, `RelaysEnterOnce` | `Spec => []TypeOK`, `Spec => []EntersOnceByRelay` |
| | `ProcessedByPath` | `Spec => []ProcessedOncePerPath` |
| | `NoDropLoses` | `OneWayRelays => (Spec => []NoRequestLost)` |
| | `IndexIsCounted`, `FewWait` | `Spec => []LogIndexCounts`, `Spec => []WaitingIsBounded` |
| DialRegistryProofs | `TypeCorrect`, `DialInvariance` | `Spec => []TypeOK`, `Spec => []DialInv` |
| | `OnlyNamedPanics` | `Spec => []DialersSurvive` |
| | `RegistersWhoDialed` | `PortsApart => (Spec => RegisteredInItsView)` |
| | `FirstListenersHearAll` | `Spec => []AllConnectedAtFirst` |

### What theorems assume, and why

* `EveryWorkerNeeded` (`Quorum >= N - 1`) holds for three and for four servers,
  the default of `-n` and the cluster of `cluster_4.conf`. With five, late replies
  do panic (LateReplyPanic in section 7).
* `OneCandidate`: one server campaigns, as often as it likes. With two, TLC refutes
  `OwnEndorsement`, `InauguratedOnce`, `ElectedByQuorum` and `NoLockLeaks` (section
  3); `SuccessIsEarned` and `OnlyUnpaidDie` are stated for the same case.
  `ReliableCluster` adds that no datagram comes twice and that all servers have the
  keys: votes are counted by datagram and the last one counted is not verified
  (DuplicateVotes).
* `Threads > 0`: `-pt` is 10 by default. With 0, `payPenalty` returns at once.
* `OneWayRelays`: some ranking of the servers falls along every relay. The lemma
  `FirstViewIsOneWay` shows it of the first view, where all relays lead to one
  leader; it also holds of chains of later leaders as long as none relays back.
  RelayLoop (section 7) is two leaders that relay to each other, and there the
  property fails.
* `PortsApart`: no two servers of one host, and no two views of one server, meet in
  a port plus a view. The dial ports of the cluster files are 100 apart in the
  phases of a server, and 1000 apart between servers on one host, so it holds
  for 100 views. `View` is `0..MaxView`, the views somebody may campaign in.
* `Cardinality(Server) > 1`: a listener tests `hasInvoked == n-1` after counting, so
  with a single server it would count on past n-1.

### Replication

`OrderBacked` is not inductive: one has to know why `Quorum` entries of a
fragment stand for `Quorum` servers. The invariant `IInv` says it in parts.
A post entry exists once per worker and only while the worker has not signed
(`PostEntries`), so its reply exists once and is not counted yet (`PostReplies`),
so the signers in a fragment are distinct and all signed (`PostFragments`); a full
fragment hence means `Quorum` post signers, and recovery's threshold implies that
the digest is the block's. That order entries, and the handlers past their
broadcast, inherit this is `OrderEntries` and `RefreshingBacked`; that a block is
sent for ordering once is `OrderedOnce`. The same chain runs for the order phase
(`OrderReplies`, `CommitFragments`), complicated by the leader's own share, which
replaces the others, and by another leader's block, which may replace the
fragment's digest under the leader (`CommitCacheOrdered`). `CommitEntries` ties a
worker's commit to its leader's. `Refinement` uses `IInv` to enable the abstract
step.

Three more invariants stand on `IInv`:

* `CertInv` (for `CertifiedByThreshold`): of the `Quorum` shares counted for a block,
  those that verify come from servers with the keys. Recovery succeeded before
  anything was sent for ordering, so a fragment that got there has `Threshold` of
  them; entries and handlers under way inherit it, and a server without the keys
  verifies nothing and signs no order.
* `CountInv` (for `CommitCounted`, `CommitFragmentKept`): a block is committed once
  per server. For a worker it is enough that a commit entry is the only one of
  its block (`CommitEntriesOnce`). A leader could commit twice if its own share,
  replacing those it counted, made room for a second quorum. `NoSecondQuorum` says
  why not: each worker's reply is either counted or still to come, so after the
  first quorum too few are left (`TooFewLeft`), and the fragment lives until its
  block is committed (`FragmentUntilCommitted`).
* `PanicInv` (for `NoPanic`): where every worker is needed, a post reply in flight
  means that its block is not ordered yet, hence not committed, hence its
  fragment still there.

### Confirmations

Every step of `ConfirmSpec` is a step of Replication or stops one server
(`ConfirmSteps`), and the parts of the invariants do not read who stopped;
so `BlockInv` and the refinement carry over. `ConfirmInv` adds that
notifications are of committed blocks (`NotifiesCommitted`), that a server has one
call of `notifyClients` per block and a client that is left to visit was not told
(`OneCallPerBlock`; this is where a commit counted twice would show), and that a
client with a steady connection was told or is left to visit (`HeardOrLeft`).

### Elections

`ElectInv` follows a share from the signature to the certificate: a grant in flight,
a grant a handler holds and a share in the cache name what their signer endorsed
(`GrantsAreBacked`, `CachedSharesAreBacked`). The caches may mix votes of different
views, as the code caches under the current view; yet recovery requires
`Threshold` shares with different indices that verify on one endorsement, which is
all that `ElectedByThreshold` needs (`WinnerIsBacked`). Between the deciding vote and
the announcement the record could change, were the lock of the cache not held
(`WinnerHoldsTheLock`).

With one candidate, nobody asks the candidate for a vote (`RequestsGoToOthers`), so
its view changes by its campaigns only and each campaign is cached under its own
view (`RequestsInOwnView`, `CachedUnderOwnView`); a record that won is full and
stays so (`ElectedIsFull`), so no late vote announces again
(`WinnerIsUnannounced`). In a `ReliableCluster` the vote of one server in one view
is at any time in at most one of five places: asked for, being given, on its
way, being read, counted (`VotesAreOnce`). Different shares then come from
different servers and each names the campaign, so `Quorum` shares are a quorum.

`CampaignInv` follows the one candidate through its retries: a campaign that asks or
waits is in its view (`CampaignInItsView`) and finds nothing cached under it
(`NothingCachedYet`), because votes for itself are cached under views up to its own
and each campaign increases the view first. So the branch that returns with the
lock held (line 110 of `vchanges.go`) is not reached, and with `PaidElectionRefines`
the only dead campaigns are those that the engine ended, for which
`EngineFailsForEquals` gives the histories. `SuccessFollowsElection` keeps the
announcement behind each token in the success channel.

Two theorems say what is behind the two leaders of a view (TwoLeadersInAView). By
`TwoWinnersShareAVoter` it takes a server with the keys that signed for both: the
shares that nobody verified on their way do not elect a second one. This follows
from `ElectedByThreshold` and needs two thresholds to overlap, which
`ThresholdsMeet` shows of 3, 6, 7 and of 9 servers and more; with 4, 5 and 8
servers they need not, and only a quorum whose shares all verify
(`ElectedByAQuorum`) would do. By `VotesAreFewPerView` a server that signed for both
is one that read its view before it moved: a vote is cached under the view read,
each of which serves once, so there are v + 1 votes of it in view v at most. The
run shows that two do happen.

`ElectionRefines` needs `ElectInv` at three steps: an announcement is a `Win` as
its certificate is backed (`WinnerIsBacked`), and who is followed or serves has won
as announcements are of elected servers (`AnnouncementsAreOfElected`). Signing is
an `Endorse`, also a second one of the same campaign; all else is a stutter. The
last theorem of the group, `OnlyElectionsHoldBoot`, uses the same two facts for a
server in `init()`.

`PaymentInv` accounts for the threads of a penalty: there are fewer than were
started only if one saw or found the nonce, and while there are any the campaign
computes.

### Request intake

`RecordedOnce`: a request entered by relays once if it is recorded and never
otherwise, and a handler that holds the recorder holds one request that is not
recorded yet. `PackedByPath` charges each batched copy to a relay or to one of the
times the leader's reader read it and let it go, so `ProcessedByPath` bounds what
resent requests do, whatever `MaxSent` is; that a request read twice is packed twice
is what the code does (`consensus.go:50`, where nothing is recorded).

`NoRequestLost` is not inductive: a relay's drop looks harmless only if the copy that
was recorded is itself not lost further down. `RecordedGoesOn(rank)` says so: what a
leader recorded is in a batch, or on its way at a lower rank of the relays.
A drop at one leader is covered by what that leader recorded, whose copy is
strictly lower; ranks are naturals, so this cannot go around in circles, which is
what happens in RelayLoop.

`IndexIsCounted` is inductive on its own: the packer that takes a request adds one
to its own term of the sum, a full batch moves `BatchSize` from one summand to the
other, and no other term changes; a packer that stops takes less than a batch out
of the sum, once. `FewWait` charges each packer, running or stopped, with at most one
open batch beyond its blocks.

### Sums, and the reputation engine

SumProofs has the facts about the sums of the community modules (a fold over a set):
of no elements, of one more element in any order (`SumOfOneMore`), of functions that
agree or differ in one place, of a function below another. The library's
induction theorems take an operator and cannot be used; SumProofs states
induction about sets instead (`NumbersInduct`: a set with 0 and the successor of
each member contains `Nat`; `SubsetsInduct`: the same for the subsets of a finite
set), and a proof names the set of those numbers or subsets its claim holds for.
That such a set is everything follows from the least elements of a well-founded
order.

ReputationProofs uses them for the formulas of `repu.py`. The sum of the squared
deviations of n penalties is n times `Spread` (`SumOfDeviations`), so `Spread` is never
negative and 0 for equal penalties only. The deviations add up to 0, so the latest
one is minus the sum of the others, and by a variance of the others its square is
at most (n - 1) times `Spread` (`DeviationIsBounded`). Hence a deduction that the
formula allows lies within the range in which `Deduction` looks for the greatest
(`DeducibleIsBounded`), everything below one that is allowed is allowed, and the
greatest is the floor.

### Dial registry

Many of the actions touch only the views, roles and campaigns; `Aside` collects
them, and `AsideChanges` says once what they leave alone. `DialInv` relates a
listener to its leadership: who waits at a listener waits at
an open one that still accepts (`ListenersOpen`); an open listener was opened for
a leadership that has begun and whose listeners are not opened again
(`ListensPerLeadership`), so a second one of a phase takes a second leadership.
A server that gave up no dial and kept its maps holds a connection for each
phase it went through (`DialedPhases`), so using a nil one takes one of the named
causes. Ports in use are a registered port plus a view (`PortsOfViews`), which with
`PortsApart` makes the registry's answer unique.

`FirstView` is the state before anybody is elected: only workers dial, only the
initial leader is dialed (`NoneElected`), each phase of a worker once
(`DialedOnce`), each listener opens once (`ListensOnce`), and `hasInvoked` is the
number of servers that connected as long as `Accept` did not fail
(`InvokedCounts`). A listener that closed counted n-1 servers other than the
leader, which are all of them.

### How the invariants were found

Each invariant was first checked by TLC as an invariant of the runs' instances
(ReplicationN5, ReplicationTwoLeaders, the election runs, IntakeRelays, DialTurnover
and DialBoot). The step proofs have one lemma per action or group of actions.

### Only model-checked

* Liveness: `PackedIsOrdered`, `CommittedIsConfirmed`, `CandidateIsFollowed`,
  `CampaignEnds`, `ReadIsBatched`, `InaugurationIsTaken`, `WorkersLink`. Fairness and
  `ENABLED` are out of the prover's reach.
* `TestCasePenalty`: one value of the engine, which TLC evaluates.
* The properties of section 7, which the code does not have.

Every invariant and action property of a passing run is stated by a theorem.
`IInv`, `FollowsElected` and `OnlyUnpaidDie` are theorems that no run repeats:
`ImplementsBlockCommit` and `ImplementsLeaderElection` say more of what matters of
the first two, and `CampaignEnds` of the third in the instance of ElectionLive.

## 7. Disagreements between code and comments

Each line names a sentence of the repository, as a property of the module, that
TLC refutes by a behaviour of the model; the sentence is quoted in the comment of
the property. The first is a run and a finding of `PROJECT.json`; the others have
a `.cfg` of their own beside them, which is expected to end in a violation. Their
modules are MCReplication, MCElection and MCRequestIntake, unless the line says
otherwise.

| cfg | Property | Code | What happens |
|---|---|---|---|
| TwoLeadersInAView | `OneLeaderPerView` | `vchanges.go:185` | voters may vote for both candidates of a view, and both win |
| LateReplyPanic | `NoPanic` | `consensus.go:328` | a post reply after the fragment was deleted panics in a log statement before `ok` is checked |
| ResetLosesReplies | `PackedIsCommitted` | `consensus.go:411` | the leader's own share replaces order replies counted already; the block never commits |
| MissingCommitFragment | `CommitFragmentPresent` | `consensus.go:403` | "THIS SHOULD NEVER HAPPEN": the answers overtake the handler that broadcast |
| NoProgressWithoutF | `ProgressWithoutF` | `consensus.go:365` | the quorum is counted without the leader, so with four servers all workers must answer |
| BlockIdCollision | `BlockIdNamesOneBlock` | `consensus.go:147` | each leader starts its ids at 1; one id commits two blocks |
| DuplicateVotes | `ElectedByQuorum` | `vchanges.go:254` | datagrams are counted, not servers |
| TwoVotesInAView | `VoteOncePerView` | `vchanges.go:193` | a vote is cached under the view the voter was in before |
| ViewGoesBack | `ViewsAdvance` | `vchanges.go:166` | the view is compared and set in two critical sections |
| InauguratedTwice | `InauguratedOnce` | `vchanges.go:115` | the check uses the view asked for, the write the current view |
| StaleSuccess | `SuccessMeansElected` | `vchanges.go:150` | a success token outlives the campaign it belongs to |
| EarlyInauguration | `EveryoneBoots` | `main.go:32` | `init()` blocks on a channel a datagram has filled |
| RetryStuck | `TimeoutIsRetried` | `vchanges.go:110` | with two candidates, a campaign that finds its view cached returns with a lock and the semaphore held |
| PackerLost | `AllPackersRun` | `consensus.go:106` | an invalid request ends a packer |
| RelayWithoutEncoder | `NoPanic` (RequestIntake) | `comply.go:18` | the relay looks its connection up before it is dialed |
| RelayLoop | `NoRequestLost` | `consensus.go:302` | after a view change two leaders relay to each other, and a request is dropped as a duplicate |
| ClientsLockedOut | `ClientsConnect` | `consensus.go:31` | a return with the lock of client connections held |
| ClientNeverConnected (MCConfirmation) | `FailureBlocksNobody` | `consensus.go:433` | a client that never connected has a nil encoder; notifying it stops the server before others are told |
| StaleNonce (MCPaidElection) | `WorksForCampaign` | `paypenalty.go:34` | the flag of the first search is never reset, so later campaigns pay nothing |
| SlotsRunOut (MCDialRegistry) | `AllServersConnected` | `connections.go:78` | a failed `Accept` counts as a connected server |

## 8. What is not modelled

* Pairing arithmetic, RSA helpers, hashing: abstract in PenSignature.
* The fields of messages no handler's control depends on, and what a confirmation
  says.
* `statemachine.go`'s investigation: nobody calls it, and its first call would
  write to a timer map that nobody makes (`statemachine.go:73`).
* Addresses of datagrams: `vconn.go:22` builds the address of every server with
  the own IP, so elections work on one host; the model takes that configuration.
* The hand-over between the modules that are not composed: an election that
  starts packers in Replication, connections of DialRegistry that come up in
  RequestIntake. There `Leaders`, `Links` and `Connected` are constants chosen to
  cover what the other module produces.
* Reading of configuration and flags but the address book, logging, `blocks.go` (a
  cache nobody reads).
* Messages no correct program sends. `BadKey` servers run this program with
  other keys.

## 9. Plan

Done: PenSignature, Replication with BlockCommit, Confirmation, Election with
LeaderElection, PaidElection, Reputation, RequestIntake, DialRegistry, and proofs
of every safety property of these runs.

Next:

1. What two candidates leave of `OwnEndorsement` and `SuccessIsEarned`, found with TLC
   first, as theorems beside those of `OneCandidate`.
2. A run for `clientConnections` (`consensus.go:31`), whose lock is a hazard that only
   ClientsLockedOut shows: with several clients the liveness runs of intake grow too
   large.

Left for models: a pipeline of intake and replication composed at the full batch,
and an election that adds a leader in the middle, in place of the constant
`Leaders`.
