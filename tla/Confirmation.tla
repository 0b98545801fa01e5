---------------------------- MODULE Confirmation ----------------------------
(***************************************************************************)
(* The replication of blocks together with the confirmations of committed  *)
(* blocks to the clients (notifyClients, consensus.go), which stand        *)
(* between the commit of a block and the end of the handler that commits   *)
(* it, and the connections they go over (handleCliConn).                   *)
(*                                                                         *)
(* A block carries a request of every client.  The entry of a client that  *)
(* never connected to a server holds no encoder there: notifying it is a   *)
(* nil pointer.  notifyClients reads the array of connections without its  *)
(* lock; the encoder it reads is the one before or the one after a         *)
(* connection that is registered meanwhile.                                *)
(*                                                                         *)
(* RestIsSkipped and CommitsAsLeader are used by no action: each stands    *)
(* for a plausible bug in the definition after it, for the runs to detect. *)
(***************************************************************************)
EXTENDS Replication

CONSTANTS Client,
          Linked,       (* <<s, c>>: client c has connected to s before      *)
          Left,         (* <<s, c>>: and has left again                      *)
          Changing,     (* <<s, c>>: whose connection may change later       *)
          MaxLinkChange (* bound: connections made and lost later            *)

ASSUME ClientAssumption ==
       /\ IsFiniteSet(Client)
       /\ Linked \subseteq Server \X Client /\ Left \subseteq Linked
       /\ Changing \subseteq Server \X Client
       /\ MaxLinkChange \in Nat

VARIABLES
  link,       (* per server and client: their connection, if there ever was  *)
  changes,    (* history: connections made and lost                          *)
  notifying,  (* per server: its running calls of notifyClients              *)
  confirmed   (* history: <<s, h, c>>: s confirmed its entry of block h to c *)

clients == <<link, changes, notifying, confirmed>>
confirmVars == <<vars, clients>>

ConfirmInit ==
  /\ Init
  /\ link = [s \in Server |-> [c \in Client |-> CASE <<s, c>> \notin Linked -> "never"
                                                  [] <<s, c>> \in Left -> "down"
                                                  [] OTHER -> "up"]]
  /\ changes = 0
  /\ notifying = [s \in Server |-> {}]
  /\ confirmed = {}

(* The handler that commits a block (incrementCommitIndex) goes on to       *)
(* notify its clients: an order reply at the leader, a commit entry at a    *)
(* worker.                                                                  *)
Call(m) == [by |-> m.type, hash |-> commitCache[m.dst][m.id].hash, left |-> Client]

CommitsAsLeader(m) == m.type = "orderReply" /\ commitIndex' # commitIndex
Commits(m) == commitIndex' # commitIndex

HandleAndNotify(m) ==
  /\ Handle(m)
  /\ notifying' = IF Commits(m) THEN [notifying EXCEPT ![m.dst] = @ \cup {Call(m)}]
                  ELSE notifying
  /\ UNCHANGED <<link, changes, confirmed>>

(* The entries of a block are a Go map: they are visited in any order. *)
Visited(s, n, left) ==
  notifying' = [notifying EXCEPT ![s] =
                  (@ \ {n}) \cup (IF left = {} THEN {} ELSE {[n EXCEPT !.left = left]})]

NotifyClient(s, n, c) ==
  /\ Up(s) /\ n \in notifying[s] /\ c \in n.left
  /\ link[s][c] = "up"
  /\ Visited(s, n, n.left \ {c})
  /\ confirmed' = confirmed \cup {<<s, n.hash, c>>}
  /\ UNCHANGED <<vars, link, changes>>

(* The error of a connection that went down is logged, and the rest of the  *)
(* block goes on.                                                           *)
RestIsSkipped(n, c) == {}
AfterFailure(n, c) == n.left \ {c}

NotifyFails(s, n, c) ==
  /\ Up(s) /\ n \in notifying[s] /\ c \in n.left
  /\ link[s][c] = "down"
  /\ Visited(s, n, AfterFailure(n, c))
  /\ UNCHANGED <<vars, link, changes, confirmed>>

NotifyPanics(s, n, c) ==
  /\ Up(s) /\ n \in notifying[s] /\ c \in n.left
  /\ link[s][c] = "never"
  /\ status' = [status EXCEPT ![s] = "panicked"]
  /\ UNCHANGED <<blockIdCounter, publishing, orderCache, commitCache, refreshing,
                 clearing, commitIndex, registered, msgs, signed, committed, clients>>

(* The end of the handler at the leader: the caches are cleared when all    *)
(* clients of the block were visited.                                       *)
NotifiedAll(l, b) == \A n \in notifying[l] : n.by = "orderReply" => n.hash[2] # b

ClearAfterNotifying(l, b) ==
  /\ NotifiedAll(l, b)
  /\ ClearCaches(l, b)
  /\ UNCHANGED clients

(* handleCliConn registers a connection; its end is only noticed. *)
LinkChanges(s, c, to) ==
  /\ Up(s) /\ <<s, c>> \in Changing /\ changes < MaxLinkChange
  /\ changes' = changes + 1
  /\ link' = [link EXCEPT ![s][c] = to]
  /\ UNCHANGED <<vars, notifying, confirmed>>

ClientConnects(s, c) ==
  /\ link[s][c] # "up"
  /\ LinkChanges(s, c, "up")

ClientLeaves(s, c) ==
  /\ link[s][c] = "up"
  /\ LinkChanges(s, c, "down")

-----------------------------------------------------------------------------
Notify(s) ==
  \E n \in notifying[s], c \in Client :
     NotifyClient(s, n, c) \/ NotifyFails(s, n, c) \/ NotifyPanics(s, n, c)

(* The steps of Replication that neither commit nor clear. *)
Lead(l) ==
  \E b \in BlockId : Disseminate(l, b) \/ RefreshCommitFragment(l, b)

Replicate ==
  \/ \E l \in Leaders : PackBlock(l) \/ Lead(l)
  \/ \E l \in Leaders, w \in Server, p \in Phase : RegisterWorker(l, w, p)
  \/ \E s \in Server : Crash(s)

ConfirmNext ==
  \/ Replicate /\ UNCHANGED clients
  \/ \E m \in msgs : HandleAndNotify(m)
  \/ \E l \in Leaders, b \in BlockId : ClearAfterNotifying(l, b)
  \/ \E s \in Server : Notify(s)
  \/ \E s \in Server, c \in Client : ClientConnects(s, c) \/ ClientLeaves(s, c)

ConfirmSpec == ConfirmInit /\ [][ConfirmNext]_confirmVars

(* As in Replication; and notifyClients goes on: the clients of all blocks  *)
(* together are finitely many.                                              *)
ConfirmFairness ==
  /\ WF_confirmVars(\E m \in msgs : HandleAndNotify(m))
  /\ \A l \in Leaders :
       /\ WF_confirmVars(Lead(l) /\ UNCHANGED clients)
       /\ WF_confirmVars(\E b \in BlockId : ClearAfterNotifying(l, b))
  /\ WF_confirmVars(\E s \in Server : Notify(s))

ConfirmFairSpec == ConfirmSpec /\ ConfirmFairness

-----------------------------------------------------------------------------
(* What a client is told is committed is: a quorum of servers gave their    *)
(* shares for the very block in the order phase, although the fragments a   *)
(* handler holds are overwritten, reset and cleared meanwhile (lines        *)
(* 546-595 of consensus.go, 362-386 of comply.go).                          *)
ConfirmedIsBacked ==
  \A r \in confirmed : Cardinality(OrderSigners(r[2])) >= Quorum

(* When notifyClients returns at a server, every client of the block was    *)
(* confirmed its entry or has been away in the meantime: a connection that  *)
(* fails costs no other client its confirmation (lines 426-450 of           *)
(* consensus.go).                                                           *)
Notified(s, h) == \A n \in notifying[s] : n.hash # h

HeardUnlessAway ==
  \A s \in Server, h \in Hash, c \in Client :
     h \in committed[s] /\ Notified(s, h) /\ <<s, h, c>> \notin confirmed
       => <<s, c>> \in Left \cup Changing

(* A server confirms an entry to its client once, with late replies and a   *)
(* commit fragment that loses the shares it counted (lines 411 and 515-564  *)
(* of consensus.go).                                                        *)
ConfirmedOnce ==
  [][\A s \in Server : \A n \in notifying[s], c \in Client :
        NotifyClient(s, n, c) => <<s, n.hash, c>> \notin confirmed]_confirmVars

(* "the failure should not block other tx to be notified with the           *)
(* corresponding deletion of the entire block in cache" (lines 436-439 of   *)
(* consensus.go): whoever is connected hears of a committed block.          *)
FailureBlocksNobody ==
  \A s \in Server, h \in Hash, c \in Client :
     h \in committed[s] /\ link[s][c] = "up"
       ~> <<s, h, c>> \in confirmed \/ link[s][c] = "down" \/ status[s] = "crashed"

(* That is so at a server which every client has connected to before, at    *)
(* the leader and at the workers (line 564 of consensus.go, 386 of          *)
(* comply.go).                                                              *)
CommittedIsConfirmed ==
  \A s \in Server, h \in Hash, c \in Client :
     h \in committed[s] /\ link[s][c] = "up" /\ (\A d \in Client : <<s, d>> \in Linked)
       ~> <<s, h, c>> \in confirmed \/ link[s][c] = "down"

-----------------------------------------------------------------------------
(* What makes the confirmations right, in named parts. *)
ConfirmTypeOK ==
  /\ link \in [Server -> [Client -> {"never", "down", "up"}]]
  /\ notifying \in [Server -> SUBSET [by : {"orderReply", "commit"}, hash : Hash,
                                      left : SUBSET Client]]
  /\ confirmed \subseteq Server \X Hash \X Client

(* Clients are told of committed blocks. *)
NotifiesCommitted ==
  /\ \A s \in Server : \A n \in notifying[s] : n.hash \in committed[s]
  /\ \A r \in confirmed : r[2] \in committed[r[1]]

(* A server notifies of a block in one call, each client once. *)
OneCallPerBlock ==
  \A s \in Server : \A n \in notifying[s] :
     /\ \A k \in notifying[s] : k.hash = n.hash => k = n
     /\ \A c \in n.left : <<s, n.hash, c>> \notin confirmed

(* A client with a steady connection was told or is about to be. *)
HeardOrLeft ==
  \A s \in Server, h \in Hash, c \in Client :
     h \in committed[s] /\ <<s, h, c>> \notin confirmed /\ <<s, c>> \notin Left \cup Changing
       => \E n \in notifying[s] : n.hash = h /\ c \in n.left

DownWasUp ==
  \A s \in Server, c \in Client : link[s][c] = "down" => <<s, c>> \in Left \cup Changing

ConfirmInv ==
  /\ ConfirmTypeOK
  /\ NotifiesCommitted
  /\ OneCallPerBlock
  /\ HeardOrLeft
  /\ DownWasUp
=============================================================================
