---------------------------- MODULE RequestIntake ----------------------------
(***************************************************************************)
(* From the connection of a client to a batch: the readers of client       *)
(* connections, the relays of workers, the packers of a leader and the     *)
(* handler of relayed requests (consensus.go, comply.go).                  *)
(*                                                                         *)
(* clientRequestQueue is made before the flags are parsed, so its capacity *)
(* is 0 whatever -mq says: who sends a request waits until a packer or a   *)
(* relay of the same server takes it.                                      *)
(*                                                                         *)
(* Leaders and Links say which goroutines there are.  Neither packers nor  *)
(* relays are stopped by a view change, so after one there are packers at  *)
(* two servers and links to both of them.                                  *)
(*                                                                         *)
(* BatchFullLate, AlreadyRelayedByClient, HandlerUnlocked and              *)
(* PackerStopsIndexed are no part of Next: each stands for a plausible bug *)
(* in the definition after it, for the runs to detect.                     *)
(***************************************************************************)
EXTENDS Integers, FiniteSets, Sequences, Functions

CONSTANTS Server,
          Leaders,       (* servers whose packers run                        *)
          Links,         (* <<w, l>>: a relay of w to l was started          *)
          Dialed,        (* links whose connection is up from the start      *)
          Client,
          Unidentified,  (* clients whose address is not in the client file  *)
          MaxTimestamp,  (* bound: requests of each client                   *)
          MaxSent,       (* bound: times a client sends one server a request *)
          Invalid,       (* requests whose MAC does not verify               *)
          NumOfPackers,  (* the -p flag                                      *)
          BatchSize      (* the -b flag                                      *)

Request == [client : Client, ts : 1..MaxTimestamp]
NoRequest == [client |-> "none"]

ASSUME IntakeAssumption ==
       /\ IsFiniteSet(Server) /\ IsFiniteSet(Client)
       /\ Leaders \subseteq Server
       /\ Links \subseteq {link \in Server \X Leaders : link[1] # link[2]}
       /\ Dialed \subseteq Links
       /\ Unidentified \subseteq Client
       /\ MaxTimestamp \in Nat
       /\ MaxSent \in Nat
       /\ Invalid \subseteq Request
       /\ NumOfPackers \in Nat
       /\ BatchSize \in Nat \ {0}

Packer == Leaders \X (1..NumOfPackers)
Relayed == [link : Links, req : Request]

VARIABLES
  clientLock, (* servers where clientConnections stays locked              *)
  connected,  (* <<s, c>>: s reads the connection of client c              *)
  reader,     (* per server and client: the request the reader waits with  *)
  dialed,     (* links whose connection is in DialogConnRegistry           *)
  relay,      (* per link: what its goroutine is and holds                 *)
  msgs,       (* relayed requests on the way or waiting for the recorder;  *)
              (* a link's copies of one request count as one: all that     *)
              (* come after the first are dropped                          *)
  recorder,   (* per leader: relayedRequestRecorder                        *)
  holders,    (* per leader: the relayed request whose handler holds the   *)
              (* lock of the recorder                                      *)
  packing,    (* packers that run                                          *)
  batch,      (* per packer: shuffle.entries, gone with the packer         *)
  blocks,     (* per packer: the number of blocks it disseminated          *)
  logIndex,   (* per leader: state.logIndex                                *)
  panicked,   (* servers stopped by a Go panic                             *)
  reads,      (* history: per server and request, how often it was read    *)
  packed,     (* history: per leader and request, how often it was batched *)
  entered     (* history: the same for what came in by a relay             *)

clients == <<clientLock, connected, reads>>
relays == <<dialed, relay, msgs>>
recording == <<recorder, holders, entered>>
packers == <<packing, batch, blocks, logIndex, packed>>

vars == <<clients, reader, relays, recording, packers, panicked>>

Init ==
  /\ clientLock = {} /\ connected = {}
  /\ reads = [s \in Server |-> [r \in Request |-> 0]]
  /\ reader = [s \in Server |-> [c \in Client |-> NoRequest]]
  /\ dialed = Dialed
  /\ relay = [link \in Links |-> "starting"]
  /\ msgs = {}
  /\ recorder = [l \in Leaders |-> {}]
  /\ holders = [l \in Leaders |-> {}]
  /\ packing = Packer
  /\ batch = [p \in Packer |-> << >>]
  /\ blocks = [p \in Packer |-> 0]
  /\ logIndex = [l \in Leaders |-> 0]
  /\ panicked = {}
  /\ packed = [l \in Leaders |-> [r \in Request |-> 0]]
  /\ entered = [l \in Leaders |-> [r \in Request |-> 0]]

Up(s) == s \notin panicked

-----------------------------------------------------------------------------
(* handleCliConn registers the client; for an address it does not know it   *)
(* returns with the lock of all client connections held.                    *)
ConnectClient(s, c) ==
  /\ Up(s) /\ s \notin clientLock
  /\ <<s, c>> \notin connected
  /\ c \notin Unidentified
  /\ connected' = connected \cup {<<s, c>>}
  /\ UNCHANGED <<clientLock, reads, reader, relays, recording, packers, panicked>>

RejectClient(s, c) ==
  /\ Up(s) /\ s \notin clientLock
  /\ c \in Unidentified
  /\ clientLock' = clientLock \cup {s}
  /\ UNCHANGED <<connected, reads, reader, relays, recording, packers, panicked>>

(* It decodes a request and waits to send it to the queue.  Nothing looks   *)
(* at what was read before: a request that its client sends again is read   *)
(* again.                                                                   *)
ReadRequest(s, r) ==
  /\ Up(s)
  /\ <<s, r.client>> \in connected
  /\ reads[s][r] < MaxSent
  /\ reader[s][r.client] = NoRequest
  /\ reader' = [reader EXCEPT ![s][r.client] = r]
  /\ reads' = [reads EXCEPT ![s][r] = @ + 1]
  /\ UNCHANGED <<clientLock, connected, relays, recording, packers, panicked>>

(* A receiver at s gets r: from a reader, or from the handler of a relayed  *)
(* request, which then records it and unlocks the recorder.                 *)
TakenFromReader(s, r) ==
  /\ Up(s)
  /\ reader[s][r.client] = r
  /\ reader' = [reader EXCEPT ![s][r.client] = NoRequest]
  /\ UNCHANGED recording

TakenFromHandler(s, r) ==
  /\ Up(s)
  /\ s \in Leaders
  /\ \E m \in holders[s] : m.req = r /\ holders' = [holders EXCEPT ![s] = @ \ {m}]
  /\ recorder' = [recorder EXCEPT ![s] = @ \cup {r}]
  /\ entered' = [entered EXCEPT ![s][r] = @ + 1]
  /\ UNCHANGED reader

Taken(s, r) == TakenFromReader(s, r) \/ TakenFromHandler(s, r)

-----------------------------------------------------------------------------
(* runAsWorkerStartDialingLeader: the relay looks the connection up while   *)
(* it is being dialed, and keeps what it found.                             *)
RegisterDial(link) ==
  /\ Up(link[1]) /\ link \in Links \ dialed
  /\ dialed' = dialed \cup {link}
  /\ UNCHANGED <<clients, reader, relay, msgs, recording, packers, panicked>>

StartRelay(link) ==
  /\ Up(link[1]) /\ relay[link] = "starting"
  /\ relay' = [relay EXCEPT ![link] = IF link \in dialed THEN "connected" ELSE "unconnected"]
  /\ UNCHANGED <<clients, reader, dialed, msgs, recording, packers, panicked>>

RelayRequest(link, r) ==
  /\ relay[link] = "connected"
  /\ Taken(link[1], r)
  /\ r \notin Invalid
  /\ msgs' = msgs \cup {[link |-> link, req |-> r]}
  /\ UNCHANGED <<clients, dialed, relay, packers, panicked>>

(* An invalid request ends the relay. *)
RelayStops(link, r) ==
  /\ relay[link] \in {"connected", "unconnected"}
  /\ Taken(link[1], r)
  /\ r \in Invalid
  /\ relay' = [relay EXCEPT ![link] = "stopped"]
  /\ UNCHANGED <<clients, dialed, msgs, packers, panicked>>

(* dialConnSendMsgBack logs that the encoder is nil and goes on to use it. *)
RelayPanics(link, r) ==
  /\ relay[link] = "unconnected"
  /\ Taken(link[1], r)
  /\ r \notin Invalid
  /\ panicked' = panicked \cup {link[1]}
  /\ UNCHANGED <<clients, relays, packers>>

-----------------------------------------------------------------------------
(* asyncHandleServerRelayMessage holds the lock of the recorder from its    *)
(* lookup until the queue has taken the request.                            *)
AlreadyRelayedByClient(l, r) == \E q \in recorder[l] : q.client = r.client
AlreadyRelayed(l, r) == r \in recorder[l]

HandlerUnlocked(l) == TRUE
RecorderFree(l) == holders[l] = {}

DropRelayed(m) ==
  LET l == m.link[2]
  IN /\ m \in msgs /\ Up(l)
     /\ RecorderFree(l)
     /\ AlreadyRelayed(l, m.req)
     /\ msgs' = msgs \ {m}
     /\ UNCHANGED <<clients, reader, dialed, relay, recording, packers, panicked>>

AdmitRelayed(m) ==
  LET l == m.link[2]
  IN /\ m \in msgs /\ Up(l)
     /\ RecorderFree(l)
     /\ ~AlreadyRelayed(l, m.req)
     /\ msgs' = msgs \ {m}
     /\ holders' = [holders EXCEPT ![l] = @ \cup {m}]
     /\ UNCHANGED <<clients, reader, dialed, relay, recorder, entered, packers, panicked>>

-----------------------------------------------------------------------------
(* asyncPackAndDisseminateBlocks up to the full batch, which Replication    *)
(* takes up. *)
BatchFullLate(entries) == Len(entries) > BatchSize
BatchFull(entries) == Len(entries) >= BatchSize

PackRequest(p, r) ==
  LET l == p[1]
      entries == Append(batch[p], r)
  IN /\ p \in packing
     /\ Taken(l, r)
     /\ r \notin Invalid
     /\ logIndex' = [logIndex EXCEPT ![l] = @ + 1]
     /\ packed' = [packed EXCEPT ![l][r] = @ + 1]
     /\ batch' = [batch EXCEPT ![p] = IF BatchFull(entries) THEN << >> ELSE entries]
     /\ blocks' = IF BatchFull(entries) THEN [blocks EXCEPT ![p] = @ + 1] ELSE blocks
     /\ UNCHANGED <<clients, relays, packing, panicked>>

(* An invalid request ends the packer, and its open batch with it; what the *)
(* batch held keeps its place in logIndex. *)
PackerStopsIndexed(p, r) ==
  /\ p \in packing
  /\ Taken(p[1], r)
  /\ r \in Invalid
  /\ packing' = packing \ {p}
  /\ batch' = [batch EXCEPT ![p] = << >>]
  /\ logIndex' = [logIndex EXCEPT ![p[1]] = @ + 1]
  /\ UNCHANGED <<clients, relays, blocks, packed, panicked>>

PackerStops(p, r) ==
  /\ p \in packing
  /\ Taken(p[1], r)
  /\ r \in Invalid
  /\ packing' = packing \ {p}
  /\ batch' = [batch EXCEPT ![p] = << >>]
  /\ UNCHANGED <<clients, relays, blocks, logIndex, packed, panicked>>

-----------------------------------------------------------------------------
Intake(s) ==
  \/ \E c \in Client : ConnectClient(s, c) \/ RejectClient(s, c)
  \/ \E r \in Request : ReadRequest(s, r)

Relay(link) ==
  \/ RegisterDial(link) \/ StartRelay(link)
  \/ \E r \in Request : RelayRequest(link, r) \/ RelayStops(link, r) \/ RelayPanics(link, r)

Admit(m) == DropRelayed(m) \/ AdmitRelayed(m)

Pack(p) == \E r \in Request : PackRequest(p, r) \/ PackerStops(p, r)

Next ==
  \/ \E s \in Server : Intake(s)
  \/ \E link \in Links : Relay(link)
  \/ \E m \in msgs : Admit(m)
  \/ \E p \in Packer : Pack(p)

Spec == Init /\ [][Next]_vars

(* A packer or a relay of s takes a valid request. *)
TakeSome(s) ==
  \E r \in Request :
     \/ \E link \in Links : link[1] = s /\ (RelayRequest(link, r) \/ RelayPanics(link, r))
     \/ \E p \in Packer : p[1] = s /\ PackRequest(p, r)

(* Goroutines run and the queue serves each who waits, in the order they    *)
(* came, whatever becomes of the receiver; clients that are in the file     *)
(* keep trying to connect, but nothing makes them propose and nothing makes *)
(* a connection come up.                                                    *)
Fairness ==
  /\ \A s \in Server : WF_vars(\E c \in Client : ConnectClient(s, c))
  /\ WF_vars(\E link \in Links : StartRelay(link))
  /\ WF_vars(\E m \in msgs : Admit(m))
  /\ \A s \in Server : WF_vars(TakeSome(s))

FairSpec == Spec /\ Fairness

-----------------------------------------------------------------------------
(* The type invariant. *)
TypeOK ==
  /\ clientLock \subseteq Server
  /\ connected \subseteq Server \X Client
  /\ reader \in [Server -> [Client -> Request \cup {NoRequest}]]
  /\ reads \in [Server -> [Request -> Nat]]
  /\ dialed \subseteq Links
  /\ relay \in [Links -> {"starting", "connected", "unconnected", "stopped"}]
  /\ msgs \subseteq Relayed
  /\ recorder \in [Leaders -> SUBSET Request]
  /\ holders \in [Leaders -> SUBSET Relayed]
  /\ \A l \in Leaders : Cardinality(holders[l]) <= 1
  /\ packing \subseteq Packer
  /\ batch \in [Packer -> Seq(Request)]
  /\ \A p \in Packer : Len(batch[p]) < BatchSize
  /\ blocks \in [Packer -> Nat]
  /\ logIndex \in [Leaders -> Nat]
  /\ panicked \subseteq Server
  /\ packed \in [Leaders -> [Request -> Nat]]
  /\ entered \in [Leaders -> [Request -> Nat]]

(* Relayed by any number of workers, a request enters the queue of a leader *)
(* through the handler of relays at most once (lines 294-310 of             *)
(* consensus.go).                                                           *)
EntersOnceByRelay == \A l \in Leaders, r \in Request : entered[l][r] <= 1

PackersOf(l) == {p \in Packer : p[1] = l}
Indexed == [p \in Packer |-> Len(batch[p]) + BatchSize * blocks[p]]

(* The requests that a leader gave an index to and that are neither in an   *)
(* open batch nor in a block, for a packer took them with it when it        *)
(* stopped.                                                                 *)
Gone(l) == logIndex[l] - SumFunctionOnSet(Indexed, PackersOf(l))

(* What a leader gave an index to is held by its packers or disseminated,   *)
(* but for the open batches of packers that an invalid request stopped      *)
(* (lines 103-124 of consensus.go): no index is given twice, none is gone   *)
(* while all packers run, and an invalid request costs less than a batch.   *)
LogIndexCounts ==
  \A l \in Leaders :
     Gone(l) \in 0..((BatchSize - 1) * Cardinality(PackersOf(l) \ packing))

(* Requests that wait in an open batch may wait for ever, and go with its   *)
(* packer.  They are never more than the packers' batches hold short of     *)
(* full (lines 106 and 122 of consensus.go), stopped packers counted once.  *)
WaitingIsBounded ==
  \A l \in Leaders :
     logIndex[l] - BatchSize * SumFunctionOnSet(blocks, PackersOf(l))
        <= NumOfPackers * (BatchSize - 1)

(* A leader processes a request once for each time it read it from the      *)
(* client and once more for all relays (lines 50 and 302 of consensus.go),  *)
(* however many workers relay it, however often they were sent it, and also *)
(* while servers relay to each other after a view change: "relay message    *)
(* already processed" (line 303) is said of the relays alone.               *)
ProcessedOncePerPath ==
  \A l \in Leaders, r \in Request : packed[l][r] <= reads[l][r] + 1

(* A packer took r into a batch, which may have gone with the packer since: *)
(* LogIndexCounts is about those.                                           *)
Batched(r) == \E l \in Leaders : packed[l][r] > 0

(* As long as the leaders are up, a valid request that was read at a server *)
(* that is up waits somewhere or was batched: no drop as a duplicate loses  *)
(* it, and no worker that goes down with a nil encoder takes along what     *)
(* others read.                                                             *)
NoRequestLost ==
  panicked \cap Leaders = {} =>
    \A s \in Server \ panicked : \A r \in Request \ Invalid :
       reads[s][r] > 0 =>
         \/ reader[s][r.client] = r
         \/ \E m \in msgs : m.req = r
         \/ \E l \in Leaders : \E m \in holders[l] : m.req = r
         \/ Batched(r)

-----------------------------------------------------------------------------
(* What the proofs of RequestIntakeProofs rest on.  The queue of a leader   *)
(* took a relayed request once for each that is recorded, and the handler   *)
(* that holds the recorder holds one that is not recorded yet.              *)
RecordedOnce ==
  \A l \in Leaders :
     /\ \A r \in Request : entered[l][r] = IF r \in recorder[l] THEN 1 ELSE 0
     /\ \A m \in holders[l] : m.link[2] = l /\ m.req \notin recorder[l]
     /\ \A m, o \in holders[l] : m = o

(* A reader waits with a request of its client that was read, and what a    *)
(* leader batched came from a reader that let it go or from a handler.      *)
Waits(s, r) == reader[s][r.client] = r

ReadersWait ==
  \A s \in Server, c \in Client :
     reader[s][c] # NoRequest => reader[s][c].client = c /\ reads[s][reader[s][c]] > 0

PackedByPath ==
  \A l \in Leaders, r \in Request :
     packed[l][r] <= entered[l][r] + (reads[l][r] - IF Waits(l, r) THEN 1 ELSE 0)

IntakeInv == TypeOK /\ RecordedOnce /\ ReadersWait /\ PackedByPath

(* Relays lead from a server to one that never relays back to it, over any  *)
(* number of hops: so in the first view, where relays lead to the leader.   *)
(* rank orders the servers accordingly.                                     *)
Descends(rank) == \A link \in Links : rank[link[2]] < rank[link[1]]
OneWayRelays == \E rank \in [Server -> Nat] : Descends(rank)

(* A relayed request that a leader recorded, and that it will drop from now *)
(* on, is in a batch or on its way further down.                            *)
OnItsWayBelow(rank, l, r) ==
  \/ \E m \in msgs : m.req = r /\ rank[m.link[2]] < rank[l]
  \/ \E k \in Leaders : \E m \in holders[k] : m.req = r /\ rank[k] < rank[l]

RecordedGoesOn(rank) ==
  panicked \cap Leaders = {} =>
    \A l \in Leaders : \A r \in recorder[l] \ Invalid : Batched(r) \/ OnItsWayBelow(rank, l, r)

-----------------------------------------------------------------------------
(* A server nobody takes requests from any more: its relays or packers all  *)
(* met an invalid request, or it never had any.                             *)
Deaf(s) == /\ \A link \in Links : link[1] = s => relay[link] = "stopped"
           /\ \A p \in packing : p[1] # s

(* A valid request that was read, at a leader or at any worker, gets into a *)
(* batch of a leader as long as the servers run and one packer or relay is  *)
(* left at each: readers and handlers that wait for the queue of capacity 0 *)
(* (lines 50 and 308 of consensus.go) do not block each other for ever.     *)
ReadIsBatched ==
  \A s \in Server : \A r \in Request \ Invalid :
     reads[s][r] > 0 ~> Batched(r) \/ panicked # {} \/ \E t \in Server : Deaf(t)

(* "-p int is the number of packing threads used in one consensus instance" *)
(* (line 23 of README.md).                                                  *)
AllPackersRun == packing = Packer

(* "encoder is nil" (line 226 of comply.go) is reported and survived. *)
NoPanic == panicked = {}

(* "unidentified client connection" (line 30 of consensus.go) turns away    *)
(* that client and no other.                                                *)
ClientsConnect ==
  \A s \in Server, c \in Client \ Unidentified : <>(<<s, c>> \in connected)
=============================================================================
