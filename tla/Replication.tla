----------------------------- MODULE Replication -----------------------------
(***************************************************************************)
(* The three phase replication of blocks: asyncPackAndDisseminateBlocks    *)
(* and the reply handlers of a leader (consensus.go), the entry handlers   *)
(* of a worker (comply.go), and the caches both share (cache.go).          *)
(*                                                                         *)
(* Every message is handled by a goroutine of its own, so the messages in  *)
(* flight are a set: they are handled in any order, also those that came   *)
(* over one TCP connection.                                                *)
(*                                                                         *)
(* Definitions whose name says what is wrong with them (Misaddressed,       *)
(* Early, Late, Unverified) are used by no action: each stands for a        *)
(* plausible bug in the definition after it, which the runs must detect.    *)
(*                                                                         *)
(* Leaders is the set of servers whose packers run.  Packers of a leader   *)
(* that was replaced are never stopped and its connections never closed    *)
(* (handlers.go), so after a view change there are two.  Each server is a  *)
(* worker of every leader other than itself, with one pair of caches.      *)
(***************************************************************************)
EXTENDS PenSignature

CONSTANTS Leaders,    (* the servers that run the leader service           *)
          Connected,  (* workers whose connections are up from the start   *)
          MaxBlock,   (* bound: blocks each leader packs                   *)
          MaxCrash,   (* bound: servers that may crash                     *)
          PerfTest    (* the -perf flag; its default is true               *)

BlockId == 1..MaxBlock

(* A digest names the content of a block: who packed it, under which id. *)
Hash == Leaders \X BlockId

ASSUME ReplicationAssumption ==
       /\ Leaders \subseteq Server \ BadKey
       /\ Connected \subseteq Server
       /\ MaxBlock \in Nat
       /\ MaxCrash \in Nat
       /\ PerfTest \in BOOLEAN
       /\ NoHash \notin Hash

Phase == {"post", "order", "commit"}

(* The cache entry of a block; entries of the block are told by its digest. *)
NoFragment == [hash |-> NoHash, sigs |-> << >>]
Fragment == [hash : Hash, sigs : Seq(Share(Hash))] \cup {NoFragment}
NewFragment(h) == [hash |-> h, sigs |-> << >>]
WithSigs(frag, sigs) == [hash |-> frag.hash, sigs |-> sigs]

Entry == [type : Phase, src : Leaders, dst : Server, id : BlockId, hash : Hash]
Reply == [type : {"postReply", "orderReply"}, src : Server, dst : Leaders,
          id : BlockId, share : Share(Hash)]

VARIABLES
  blockIdCounter, (* per leader: the last block id it took                    *)
  publishing,     (* per leader: blocks in orderCache only, not broadcast yet *)
  orderCache,     (* per server: block id -> fragment                         *)
  commitCache,    (* per server: block id -> fragment                         *)
  refreshing,     (* per leader: order handlers past broadcast, before PenSign*)
  clearing,       (* per leader: commit handlers past broadcast, before delete*)
  commitIndex,    (* per server: state.commitIndex                            *)
  registered,     (* per leader and phase: the workers in serverConnNav       *)
  msgs,           (* entries and replies in flight or not handled yet         *)
  status,         (* per server: up, crashed, or stopped by a Go panic        *)
  signed,         (* history: shares made for replies and for commit quorums  *)
  committed       (* history, per server: digests of the blocks it committed  *)

vars == <<blockIdCounter, publishing, orderCache, commitCache, refreshing,
          clearing, commitIndex, registered, msgs, status, signed, committed>>

-----------------------------------------------------------------------------
Init ==
  /\ blockIdCounter = [l \in Leaders |-> 0]
  /\ publishing = [l \in Leaders |-> {}]
  /\ orderCache = [s \in Server |-> [b \in BlockId |-> NoFragment]]
  /\ commitCache = [s \in Server |-> [b \in BlockId |-> NoFragment]]
  /\ refreshing = [l \in Leaders |-> {}]
  /\ clearing = [l \in Leaders |-> {}]
  /\ commitIndex = [s \in Server |-> 0]
  /\ registered = [l \in Leaders |-> [p \in Phase |-> Connected \ {l}]]
  /\ msgs = {}
  /\ status = [s \in Server |-> "up"]
  /\ signed = {}
  /\ committed = [s \in Server |-> {}]

Up(s) == status[s] = "up"

(* broadcast(): one entry to each worker registered for the phase. *)
Broadcast(l, phase, b, h) ==
  {[type |-> phase, src |-> l, dst |-> w, id |-> b, hash |-> h] :
     w \in registered[l][phase] \ {l}}

ReplyToMisaddressed(m, type, h) ==
  [type |-> type, src |-> m.src, dst |-> m.dst, id |-> m.id,
   share |-> PenSign(m.dst, h)]

ReplyTo(m, type, h) ==
  [type |-> type, src |-> m.dst, dst |-> m.src, id |-> m.id,
   share |-> PenSign(m.dst, h)]

Signature(phase, s, h) == [phase |-> phase, signer |-> s, hash |-> h]

(* Both reply handlers count shares in the fragment: a full one takes no    *)
(* more, and the share that fills it recovers the combined signature.       *)
IsFull(frag) == Len(frag.sigs) = Quorum

QuorumRecoveredEarly(frag, sigs) == Len(sigs) >= Threshold /\ PenRecovers(sigs, frag.hash)
QuorumRecoveredLate(frag, sigs) == Len(sigs) > Quorum /\ PenRecovers(sigs, frag.hash)
QuorumRecovered(frag, sigs) == Len(sigs) = Quorum /\ PenRecovers(sigs, frag.hash)

-----------------------------------------------------------------------------
(* A worker's connection of one phase is accepted and registered. *)
RegisterWorker(l, w, phase) ==
  /\ Up(l) /\ Up(w) /\ w # l
  /\ w \notin registered[l][phase]
  /\ registered' = [registered EXCEPT ![l][phase] = @ \cup {w}]
  /\ UNCHANGED <<blockIdCounter, publishing, orderCache, commitCache, refreshing,
                 clearing, commitIndex, msgs, status, signed, committed>>

(* A packer has a full batch: it takes a block id and caches the fragment   *)
(* that collects the post replies.                                          *)
PackBlock(l) ==
  LET b == blockIdCounter[l] + 1
  IN /\ Up(l)
     /\ b \in BlockId
     /\ blockIdCounter' = [blockIdCounter EXCEPT ![l] = b]
     /\ orderCache' = [orderCache EXCEPT ![l][b] = NewFragment(<<l, b>>)]
     /\ publishing' = [publishing EXCEPT ![l] = @ \cup {b}]
     /\ UNCHANGED <<commitCache, refreshing, clearing, commitIndex, registered,
                    msgs, status, signed, committed>>

DisseminateUncached(l, b) ==
  /\ Up(l)
  /\ b \in publishing[l]
  /\ publishing' = [publishing EXCEPT ![l] = @ \ {b}]
  /\ msgs' = msgs \cup Broadcast(l, "post", b, <<l, b>>)
  /\ UNCHANGED <<blockIdCounter, orderCache, commitCache, refreshing, clearing,
                 commitIndex, registered, status, signed, committed>>

(* The same packer caches the fragment for the order replies and sends the  *)
(* digest to the workers.                                                   *)
Disseminate(l, b) ==
  /\ Up(l)
  /\ b \in publishing[l]
  /\ publishing' = [publishing EXCEPT ![l] = @ \ {b}]
  /\ commitCache' = [commitCache EXCEPT ![l][b] = NewFragment(<<l, b>>)]
  /\ msgs' = msgs \cup Broadcast(l, "post", b, <<l, b>>)
  /\ UNCHANGED <<blockIdCounter, orderCache, refreshing, clearing, commitIndex,
                 registered, status, signed, committed>>

-----------------------------------------------------------------------------
(* asyncWorkersHandlePostEntry: the leader's share is verified only when    *)
(* PerfTest is off; the worker caches the digest and sends its share.       *)
PostEntryRejected(m) ==
  /\ m \in msgs /\ m.type = "post" /\ Up(m.dst)
  /\ ~PerfTest
  /\ ~PenVerifyPartially(m.dst, m.hash, PenSign(m.src, m.hash))
  /\ msgs' = msgs \ {m}
  /\ UNCHANGED <<blockIdCounter, publishing, orderCache, commitCache, refreshing,
                 clearing, commitIndex, registered, status, signed, committed>>

PostEntryAccepted(m) ==
  /\ m \in msgs /\ m.type = "post" /\ Up(m.dst)
  /\ PerfTest \/ PenVerifyPartially(m.dst, m.hash, PenSign(m.src, m.hash))
  /\ orderCache' = [orderCache EXCEPT ![m.dst][m.id] = NewFragment(m.hash)]
  /\ msgs' = (msgs \ {m}) \cup {ReplyTo(m, "postReply", m.hash)}
  /\ signed' = signed \cup {Signature("post", m.dst, m.hash)}
  /\ UNCHANGED <<blockIdCounter, publishing, commitCache, refreshing, clearing,
                 commitIndex, registered, status, committed>>

(* asyncHandleServerPostReply.  The log line before the check of `ok' reads *)
(* the entries of the fragment, so a missing fragment stops the server.     *)
PostReplyArrived(m) ==
  /\ m \in msgs /\ m.type = "postReply" /\ Up(m.dst)
  /\ m.src \in registered[m.dst]["order"]
  /\ msgs' = msgs \ {m}

PostReplyWithoutFragment(m) ==
  /\ PostReplyArrived(m)
  /\ orderCache[m.dst][m.id] = NoFragment
  /\ status' = [status EXCEPT ![m.dst] = "panicked"]
  /\ UNCHANGED <<blockIdCounter, publishing, orderCache, commitCache, refreshing,
                 clearing, commitIndex, registered, signed, committed>>

PostReplyAfterQuorum(m) ==
  /\ PostReplyArrived(m)
  /\ orderCache[m.dst][m.id] # NoFragment
  /\ IsFull(orderCache[m.dst][m.id])
  /\ UNCHANGED <<blockIdCounter, publishing, orderCache, commitCache, refreshing,
                 clearing, commitIndex, registered, status, signed, committed>>

(* A share is appended even when it does not verify.  The reply that        *)
(* completes the quorum of workers recovers the combined signature and      *)
(* broadcasts the order entry, unless the recovery fails.                   *)
PostReplyCounted(m) ==
  LET frag == orderCache[m.dst][m.id]
      sigs == Append(frag.sigs, m.share)
  IN /\ m \in msgs /\ m.type = "postReply" /\ Up(m.dst)
     /\ m.src \in registered[m.dst]["order"]
     /\ frag # NoFragment
     /\ ~IsFull(frag)
     /\ orderCache' = [orderCache EXCEPT ![m.dst][m.id] = WithSigs(frag, sigs)]
     /\ IF QuorumRecovered(frag, sigs)
        THEN /\ msgs' = (msgs \ {m}) \cup Broadcast(m.dst, "order", m.id, frag.hash)
             /\ refreshing' = [refreshing EXCEPT ![m.dst] = @ \cup {m.id}]
        ELSE /\ msgs' = msgs \ {m}
             /\ UNCHANGED refreshing
     /\ UNCHANGED <<blockIdCounter, publishing, commitCache, clearing, commitIndex,
                    registered, status, signed, committed>>

(* The same handler, after the broadcast: the leader's own share becomes    *)
(* the only signature of the commit fragment.  A missing fragment returns.  *)
RefreshCommitFragment(l, b) ==
  /\ Up(l)
  /\ b \in refreshing[l]
  /\ refreshing' = [refreshing EXCEPT ![l] = @ \ {b}]
  /\ LET h == commitCache[l][b].hash
     IN IF commitCache[l][b] = NoFragment
        THEN UNCHANGED <<commitCache, signed>>
        ELSE /\ commitCache' = [commitCache EXCEPT ![l][b] = WithSigs(@, <<PenSign(l, h)>>)]
             /\ signed' = signed \cup {Signature("order", l, h)}
  /\ UNCHANGED <<blockIdCounter, publishing, orderCache, clearing, commitIndex,
                 registered, msgs, status, committed>>

-----------------------------------------------------------------------------
(* asyncWorkersHandleOrderEntry: the combined signature has to verify on    *)
(* the digest cached in the post phase.                                     *)
OrderEntryUnverified(m) == orderCache[m.dst][m.id] # NoFragment

OrderEntryVerifies(m) ==
  LET frag == orderCache[m.dst][m.id]
  IN frag # NoFragment /\ PenVerify(m.dst, frag.hash, m.hash)

OrderEntryRejected(m) ==
  /\ m \in msgs /\ m.type = "order" /\ Up(m.dst)
  /\ ~OrderEntryVerifies(m)
  /\ msgs' = msgs \ {m}
  /\ UNCHANGED <<blockIdCounter, publishing, orderCache, commitCache, refreshing,
                 clearing, commitIndex, registered, status, signed, committed>>

OrderEntryAccepted(m) ==
  LET h == orderCache[m.dst][m.id].hash
  IN /\ m \in msgs /\ m.type = "order" /\ Up(m.dst)
     /\ OrderEntryVerifies(m)
     /\ commitCache' = [commitCache EXCEPT ![m.dst][m.id] = NewFragment(h)]
     /\ msgs' = (msgs \ {m}) \cup {ReplyTo(m, "orderReply", h)}
     /\ signed' = signed \cup {Signature("order", m.dst, h)}
     /\ UNCHANGED <<blockIdCounter, publishing, orderCache, refreshing, clearing,
                    commitIndex, registered, status, committed>>

(* asyncHandleServerOrderReply: no fragment, or a full one, is ignored. *)
OrderReplyIgnored(m) ==
  LET frag == commitCache[m.dst][m.id]
  IN /\ m \in msgs /\ m.type = "orderReply" /\ Up(m.dst)
     /\ m.src \in registered[m.dst]["commit"]
     /\ frag = NoFragment \/ IsFull(frag)
     /\ msgs' = msgs \ {m}
     /\ UNCHANGED <<blockIdCounter, publishing, orderCache, commitCache, refreshing,
                    clearing, commitIndex, registered, status, signed, committed>>

(* The reply that completes the quorum commits the block at the leader,     *)
(* broadcasts the commit entry and, with PerfTest on, goes on to delete the *)
(* cached fragments.                                                        *)
OrderReplyCounted(m) ==
  LET frag == commitCache[m.dst][m.id]
      sigs == Append(frag.sigs, m.share)
  IN /\ m \in msgs /\ m.type = "orderReply" /\ Up(m.dst)
     /\ m.src \in registered[m.dst]["commit"]
     /\ frag # NoFragment
     /\ ~IsFull(frag)
     /\ commitCache' = [commitCache EXCEPT ![m.dst][m.id] = WithSigs(frag, sigs)]
     /\ IF QuorumRecovered(frag, sigs)
        THEN /\ msgs' = (msgs \ {m}) \cup Broadcast(m.dst, "commit", m.id, frag.hash)
             /\ commitIndex' = [commitIndex EXCEPT ![m.dst] = @ + 1]
             /\ committed' = [committed EXCEPT ![m.dst] = @ \cup {frag.hash}]
             /\ clearing' = IF PerfTest
                            THEN [clearing EXCEPT ![m.dst] = @ \cup {m.id}]
                            ELSE clearing
        ELSE /\ msgs' = msgs \ {m}
             /\ UNCHANGED <<commitIndex, committed, clearing>>
     /\ UNCHANGED <<blockIdCounter, publishing, orderCache, refreshing, registered,
                    status, signed>>

(* The end of the same handler: both fragments of the block are deleted. *)
ClearCaches(l, b) ==
  /\ Up(l)
  /\ b \in clearing[l]
  /\ clearing' = [clearing EXCEPT ![l] = @ \ {b}]
  /\ orderCache' = [orderCache EXCEPT ![l][b] = NoFragment]
  /\ commitCache' = [commitCache EXCEPT ![l][b] = NoFragment]
  /\ UNCHANGED <<blockIdCounter, publishing, refreshing, commitIndex, registered,
                 msgs, status, signed, committed>>

(* asyncWorkersHandleCommitEntry: a worker commits a block it holds in its  *)
(* commitCache and drops the entry otherwise.                               *)
CommitEntryUnverified(m) == commitCache[m.dst][m.id] # NoFragment

CommitEntryVerifies(m) ==
  LET frag == commitCache[m.dst][m.id]
  IN frag # NoFragment /\ PenVerify(m.dst, frag.hash, m.hash)

CommitEntryRejected(m) ==
  /\ m \in msgs /\ m.type = "commit" /\ Up(m.dst)
  /\ ~CommitEntryVerifies(m)
  /\ msgs' = msgs \ {m}
  /\ UNCHANGED <<blockIdCounter, publishing, orderCache, commitCache, refreshing,
                 clearing, commitIndex, registered, status, signed, committed>>

CommitEntryAccepted(m) ==
  /\ m \in msgs /\ m.type = "commit" /\ Up(m.dst)
  /\ CommitEntryVerifies(m)
  /\ commitIndex' = [commitIndex EXCEPT ![m.dst] = @ + 1]
  /\ committed' = [committed EXCEPT ![m.dst] = @ \cup {commitCache[m.dst][m.id].hash}]
  /\ msgs' = msgs \ {m}
  /\ UNCHANGED <<blockIdCounter, publishing, orderCache, commitCache, refreshing,
                 clearing, registered, status, signed>>

(* A server process stops; nothing is persisted and no connection is taken  *)
(* up again, so it does not come back.                                      *)
Crash(s) ==
  /\ Up(s)
  /\ Cardinality({t \in Server : status[t] = "crashed"}) < MaxCrash
  /\ status' = [status EXCEPT ![s] = "crashed"]
  /\ UNCHANGED <<blockIdCounter, publishing, orderCache, commitCache, refreshing,
                 clearing, commitIndex, registered, msgs, signed, committed>>

-----------------------------------------------------------------------------
(* The goroutines of leader l that are under way, each between two of its   *)
(* accesses to the caches.                                                  *)
Continue(l) ==
  \E b \in BlockId : \/ Disseminate(l, b)
                     \/ RefreshCommitFragment(l, b)
                     \/ ClearCaches(l, b)

Handle(m) ==
  \/ PostEntryRejected(m)
  \/ PostEntryAccepted(m)
  \/ PostReplyWithoutFragment(m)
  \/ PostReplyAfterQuorum(m)
  \/ PostReplyCounted(m)
  \/ OrderEntryRejected(m)
  \/ OrderEntryAccepted(m)
  \/ OrderReplyIgnored(m)
  \/ OrderReplyCounted(m)
  \/ CommitEntryRejected(m)
  \/ CommitEntryAccepted(m)

HandleSome == \E m \in msgs : Handle(m)

Next ==
  \/ \E l \in Leaders : PackBlock(l)
  \/ \E l \in Leaders : Continue(l)
  \/ HandleSome
  \/ \E l \in Leaders, w \in Server, p \in Phase : RegisterWorker(l, w, p)
  \/ \E s \in Server : Crash(s)

Spec == Init /\ [][Next]_vars

(* Go runs every runnable goroutine eventually and TCP delivers what was    *)
(* sent; nothing makes clients propose, servers connect, or a server crash. *)
Fairness ==
  /\ WF_vars(HandleSome)
  /\ \A l \in Leaders : WF_vars(Continue(l))

FairSpec == Spec /\ Fairness

-----------------------------------------------------------------------------
(* The type invariant. *)
TypeOK ==
  /\ blockIdCounter \in [Leaders -> 0..MaxBlock]
  /\ publishing \in [Leaders -> SUBSET BlockId]
  /\ orderCache \in [Server -> [BlockId -> Fragment]]
  /\ commitCache \in [Server -> [BlockId -> Fragment]]
  /\ refreshing \in [Leaders -> SUBSET BlockId]
  /\ clearing \in [Leaders -> SUBSET BlockId]
  /\ commitIndex \in [Server -> Nat]
  /\ registered \in [Leaders -> [Phase -> SUBSET Server]]
  /\ msgs \subseteq Entry \cup Reply
  /\ status \in [Server -> {"up", "crashed", "panicked"}]
  /\ signed \subseteq [phase : {"post", "order"}, signer : Server, hash : Hash]
  /\ committed \in [Server -> SUBSET Hash]

PostSigners(h) == {s \in Server : Signature("post", s, h) \in signed}
OrderSigners(h) == {s \in Server : Signature("order", s, h) \in signed}

(* A server gives its share for the order phase of a block (worker: line    *)
(* 301 of comply.go, leader: line 408 of consensus.go) only when a quorum   *)
(* of servers gave theirs for this very digest in the post phase.           *)
OrderBacked ==
  \A s \in Server, h \in Hash :
     Signature("order", s, h) \in signed => Cardinality(PostSigners(h)) >= Quorum

(* A server counts a block as committed (incrementCommitIndex) only when a  *)
(* quorum of servers gave their shares for its digest in the order phase.   *)
CommitBacked ==
  \A s \in Server : \A h \in committed[s] : Cardinality(OrderSigners(h)) >= Quorum

(* incrementCommitIndex runs once per committed block at each server, with  *)
(* late, reset and colliding fragments.                                     *)
CommitCounted ==
  \A s \in Server : commitIndex[s] = Cardinality(committed[s])

(* No reply handler reads a fragment that is gone ("no info in cache;       *)
(* consensus may already reached", line 330 of consensus.go, returns).      *)
NoPanic == \A s \in Server : status[s] # "panicked"

(* "THIS SHOULD NEVER HAPPEN" (line 403 of consensus.go): the order handler *)
(* of a leader finds no commit fragment for the block it has just ordered.  *)
CommitFragmentPresent ==
  \A l \in Leaders : \A b \in refreshing[l] : Up(l) => commitCache[l][b] # NoFragment

(* What makes the same place (lines 398-405 of consensus.go) harmless: when *)
(* the fragment is gone, the answers to the broadcast have committed the    *)
(* block at the leader meanwhile, so its own share is no longer needed.     *)
CommitFragmentKept ==
  \A l \in Leaders : \A b \in refreshing[l] :
     Up(l) /\ commitCache[l][b] = NoFragment => \E h \in committed[l] : h[2] = b

(* A block id names one block ("stores all the blocks with a key of         *)
(* blockId", line 322 of consensus.go): what one server commits under an id *)
(* is what every server commits under it.                                   *)
BlockIdNamesOneBlock ==
  \A s, t \in Server : \A g \in committed[s], h \in committed[t] : g[2] = h[2] => g = h

(* A combined signature holds Threshold shares that verify: what is ordered *)
(* or committed has that many signers with the keys of the cluster.         *)
CertifiedByThreshold ==
  /\ \A s \in Server, h \in Hash :
        Signature("order", s, h) \in signed
          => Cardinality(PostSigners(h) \ BadKey) >= Threshold
  /\ \A s \in Server : \A h \in committed[s] :
        Cardinality(OrderSigners(h) \ BadKey) >= Threshold

(* The replication of blocks implements BlockCommit. *)
acceptedBy == [h \in Hash |-> PostSigners(h)]
preparedBy == [h \in Hash |-> OrderSigners(h)]
committedBy == [h \in Hash |-> {s \in Server : h \in committed[s]}]

Quorums == {Q \in SUBSET Server : Cardinality(Q) >= Quorum}

BC == INSTANCE BlockCommit WITH Block <- Hash, accepted <- acceptedBy,
                                prepared <- preparedBy, committed <- committedBy

ImplementsBlockCommit == BC!Spec

Packed(l, b) == blockIdCounter[l] >= b

(* With a quorum of workers that hold the keys of the cluster and everybody *)
(* up and connected, a packed block is ordered: each of these workers       *)
(* verifies the order entry and gives its share for the commit, although a  *)
(* worker with other keys rejects every entry (lines 156-298 of comply.go). *)
PackedIsOrdered ==
  \A l \in Leaders, b \in BlockId :
     Packed(l, b) ~> \A w \in Server \ (BadKey \cup {l}) :
                        Signature("order", w, <<l, b>>) \in signed

(* "The progress of consensus only needs 2f+1 servers" (line 288 of         *)
(* comply.go): with at most f servers down a packed block is ordered.       *)
ProgressWithoutF ==
  \A l \in Leaders, b \in BlockId :
     (Packed(l, b) /\ MaxCrash <= (N - 1) \div 3)
       ~> (~Up(l) \/ OrderSigners(<<l, b>>) # {})

(* The same sentence for the second half: a packed block is committed by    *)
(* its leader when every server stays up.                                   *)
PackedIsCommitted ==
  \A l \in Leaders, b \in BlockId : Packed(l, b) ~> <<l, b>> \in committed[l]
=============================================================================
