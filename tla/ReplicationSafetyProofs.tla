----------------------- MODULE ReplicationSafetyProofs -----------------------
(***************************************************************************)
(* Replication, for every cluster, any number of leaders and blocks: it is *)
(* type correct; the invariant IInv is inductive, so orders and commits    *)
(* are backed by quorums; and every step is a step of BlockCommit or       *)
(* leaves its three variables alone.                                       *)
(*                                                                         *)
(* The inductive invariants come first, in named parts: what each kind of  *)
(* message in flight, each cached fragment and each handler under way      *)
(* stands for in the history of shares.                                    *)
(***************************************************************************)
EXTENDS Replication, FiniteSetTheorems, TLAPS

Backed(h) == Cardinality(PostSigners(h)) >= Quorum

HasSigner(frag, s) == \E i \in DOMAIN frag.sigs : frag.sigs[i].signer = s

DistinctSigners(frag) ==
  \A i, j \in DOMAIN frag.sigs : frag.sigs[i].signer = frag.sigs[j].signer => i = j

(* Nobody was asked to order h yet. *)
Unordered(h) ==
  /\ \A s \in Server : Signature("order", s, h) \notin signed
  /\ \A m \in msgs : m.type = "order" => m.hash # h
  /\ h[2] \notin refreshing[h[1]]

-----------------------------------------------------------------------------
(* Blocks that were not sent out are known to no worker. *)
UnpublishedUnsigned ==
  \A l \in Leaders, b \in BlockId :
     /\ b \in publishing[l] => b <= blockIdCounter[l]
     /\ b > blockIdCounter[l] \/ b \in publishing[l]
          => \A s \in Server : Signature("post", s, <<l, b>>) \notin signed

(* A post entry in flight is the only one of its block for its worker. *)
PostEntries ==
  \A m \in msgs : m.type = "post" =>
     /\ m.hash = <<m.src, m.id>>
     /\ m.src # m.dst
     /\ m.id <= blockIdCounter[m.src]
     /\ m.id \notin publishing[m.src]
     /\ Signature("post", m.dst, m.hash) \notin signed

(* A post reply in flight was not counted yet. *)
PostReplies ==
  \A m \in msgs : m.type = "postReply" =>
     /\ m.share = PenSign(m.src, <<m.dst, m.id>>)
     /\ Signature("post", m.src, <<m.dst, m.id>>) \in signed
     /\ ~HasSigner(orderCache[m.dst][m.id], m.src)

(* The shares a leader counted in the post phase come from distinct workers *)
(* and were made for its own block, whatever block the fragment is of now.  *)
PostFragments ==
  \A l \in Leaders, b \in BlockId :
     /\ Len(orderCache[l][b].sigs) <= Quorum
     /\ DistinctSigners(orderCache[l][b])
     /\ \A i \in DOMAIN orderCache[l][b].sigs :
           LET share == orderCache[l][b].sigs[i]
           IN /\ share.msg \in {<<l, b>>, NoHash}
              /\ Signature("post", share.signer, <<l, b>>) \in signed

(* A block is sent for ordering at most once. *)
OrderedOnce ==
  \A l \in Leaders, b \in BlockId :
     \/ b > blockIdCounter[l]
     \/ /\ orderCache[l][b].hash = <<l, b>>
        /\ Len(orderCache[l][b].sigs) < Quorum
     => Unordered(<<l, b>>)

OrderEntries ==
  \A m \in msgs : m.type = "order" =>
     /\ m.hash = <<m.src, m.id>>
     /\ m.src # m.dst
     /\ Signature("order", m.dst, m.hash) \notin signed
     /\ Backed(m.hash)

RefreshingBacked ==
  \A l \in Leaders : \A b \in refreshing[l] : Backed(<<l, b>>)

(* Another leader's block in the commitCache was ordered by this server. *)
CommitCacheOrdered ==
  \A s \in Server, b \in BlockId :
     LET h == commitCache[s][b].hash
     IN h # NoHash /\ h # <<s, b>> => Signature("order", s, h) \in signed

OrderReplies ==
  \A m \in msgs : m.type = "orderReply" =>
     /\ m.src # m.dst
     /\ m.share = [signer |-> m.src, msg |-> <<m.dst, m.id>>]
     /\ Signature("order", m.src, <<m.dst, m.id>>) \in signed
     /\ ~HasSigner(commitCache[m.dst][m.id], m.src)

(* A leader's own share is for the block of the fragment, the shares of its *)
(* workers are for its own block.                                           *)
CommitFragments ==
  \A l \in Leaders, b \in BlockId :
     /\ DistinctSigners(commitCache[l][b])
     /\ \A i \in DOMAIN commitCache[l][b].sigs :
           LET share == commitCache[l][b].sigs[i]
               h == IF share.signer = l THEN commitCache[l][b].hash ELSE <<l, b>>
           IN share.msg = h /\ h # NoHash /\ Signature("order", share.signer, h) \in signed

CommitEntries ==
  \A m \in msgs : m.type = "commit" =>
     m.src # m.dst /\ m.hash = <<m.src, m.id>> /\ m.hash \in committed[m.src]

IInv ==
  /\ TypeOK
  /\ UnpublishedUnsigned
  /\ PostEntries
  /\ PostReplies
  /\ PostFragments
  /\ OrderedOnce
  /\ OrderEntries
  /\ RefreshingBacked
  /\ CommitCacheOrdered
  /\ OrderReplies
  /\ CommitFragments
  /\ CommitEntries
  /\ OrderBacked
  /\ CommitBacked

-----------------------------------------------------------------------------
(* What makes combined signatures certificates: the shares counted in the   *)
(* post phase that verify come from servers with the keys of the cluster,   *)
(* and nobody else takes part in the order phase.                           *)
Certified(h) == Cardinality(PostSigners(h) \ BadKey) >= Threshold

PostFragmentsByKey ==
  \A l \in Leaders, b \in BlockId : \A i \in DOMAIN orderCache[l][b].sigs :
     orderCache[l][b].sigs[i].msg # NoHash => orderCache[l][b].sigs[i].signer \notin BadKey

OrderEntriesCertified == \A m \in msgs : m.type = "order" => Certified(m.hash)

RefreshingCertified == \A l \in Leaders : \A b \in refreshing[l] : Certified(<<l, b>>)

OrderSignersCertified ==
  \A s \in Server, h \in Hash :
     Signature("order", s, h) \in signed => s \notin BadKey /\ Certified(h)

CertInv ==
  /\ PostFragmentsByKey
  /\ OrderEntriesCertified
  /\ RefreshingCertified
  /\ OrderSignersCertified

-----------------------------------------------------------------------------
(* What makes a commit happen once per server.                              *)

(* Only committed blocks are cleared from the caches. *)
ClearingCommitted == \A l \in Leaders : \A b \in clearing[l] : <<l, b>> \in committed[l]

(* A block that was sent out has its commit fragment until it is committed. *)
FragmentUntilCommitted ==
  \A l \in Leaders, b \in BlockId :
     b <= blockIdCounter[l] /\ b \notin publishing[l]
       => commitCache[l][b] # NoFragment \/ <<l, b>> \in committed[l]

(* The proposer of a block is the first to commit it. *)
ProposerCommitted == \A s \in Server : \A h \in committed[s] : h \in committed[h[1]]

(* A commit entry in flight is the only one of its block for its worker. *)
CommitEntriesOnce ==
  \A m \in msgs : m.type = "commit" => m.hash \notin committed[m.dst]

(* The handler that ordered a block adds the leader's own share first. *)
OwnShareAfterRefresh ==
  \A l \in Leaders : \A b \in refreshing[l] :
     commitCache[l][b].hash = <<l, b>> => ~HasSigner(commitCache[l][b], l)

(* Workers whose order reply for the b-th block of l is still to be counted. *)
ReplyInFlight(l, b, w) == \E m \in msgs : m.type = "orderReply" /\ m.src = w /\ m.dst = l /\ m.id = b

Uncounted(l, b) ==
  {w \in Server \ {l} : Signature("order", w, <<l, b>>) \notin signed \/ ReplyInFlight(l, b, w)}

CountedWorkers(l, b) == {w \in Server \ {l} : HasSigner(commitCache[l][b], w)}

(* After the commit of its block a fragment that lost its shares to the     *)
(* leader's own never gets a quorum again: too few replies are left.        *)
TooFewLeft(l, b) ==
  /\ b \notin refreshing[l]
  /\ Cardinality(Uncounted(l, b) \cup CountedWorkers(l, b)) + 1 < Quorum

NoSecondQuorum ==
  \A l \in Leaders, b \in BlockId :
     <<l, b>> \in committed[l] /\ commitCache[l][b].hash = <<l, b>>
       => IsFull(commitCache[l][b]) \/ TooFewLeft(l, b)

CountInv ==
  /\ ClearingCommitted
  /\ FragmentUntilCommitted
  /\ ProposerCommitted
  /\ CommitEntriesOnce
  /\ OwnShareAfterRefresh
  /\ NoSecondQuorum
  /\ CommitCounted

-----------------------------------------------------------------------------
(* What keeps late post replies harmless in a cluster where the quorum      *)
(* takes every worker: a post entry or reply in flight means that its block *)
(* is not ordered yet, and its fragment still cached.                       *)
EveryWorkerNeeded == Quorum >= N - 1

PostSignedByOthers ==
  \A s \in Server, h \in Hash : Signature("post", s, h) \in signed => s # h[1]

PostInFlightUnordered ==
  \A m \in msgs :
     /\ m.type = "post" => Unordered(<<m.src, m.id>>)
     /\ m.type = "postReply" => m.src # m.dst /\ Unordered(<<m.dst, m.id>>)

PostFragmentUntilCommitted ==
  \A l \in Leaders, b \in BlockId :
     b <= blockIdCounter[l] => orderCache[l][b] # NoFragment \/ <<l, b>> \in committed[l]

PanicInv ==
  /\ PostSignedByOthers
  /\ PostFragmentUntilCommitted
  /\ EveryWorkerNeeded => PostInFlightUnordered /\ NoPanic

-----------------------------------------------------------------------------
(* The quorum of parameters.go for three servers or more. *)
LEMMA QuorumValues ==
  /\ N \in Nat /\ N >= 3
  /\ Quorum \in Nat /\ Quorum >= 3
  /\ Threshold \in Nat /\ Threshold >= 2 /\ Threshold = Quorum - 1
<1>1. N \in Nat /\ N >= 3
  BY ServerAssumption, FS_CardinalityType DEF N
<1>2. N \div 3 \in Nat /\ N \div 3 >= 1
  BY <1>1
<1>3. QED
  BY <1>1, <1>2 DEF Quorum, Threshold

(* Shares have the type of shares. *)
LEMMA PenSignType ==
  ASSUME NEW s \in Server, NEW h \in Hash
  PROVE  PenSign(s, h) \in Share(Hash)
BY DEF PenSign, Share

LEMMA FragmentTypes ==
  /\ NoFragment \in Fragment
  /\ \A h \in Hash : NewFragment(h) \in Fragment
  /\ \A f \in Fragment : f # NoFragment => f.hash \in Hash
  /\ \A f \in Fragment, s \in Seq(Share(Hash)) : f # NoFragment => WithSigs(f, s) \in Fragment
  /\ \A f \in Fragment, x \in Share(Hash) : Append(f.sigs, x) \in Seq(Share(Hash))
<1>1. /\ NoFragment \in Fragment
      /\ \A h \in Hash : NewFragment(h) \in Fragment
      /\ \A f \in Fragment : f # NoFragment => f.hash \in Hash
  BY DEF NoFragment, NewFragment, Fragment
<1>2. ASSUME NEW f \in Fragment, NEW s \in Seq(Share(Hash)), f # NoFragment
      PROVE  WithSigs(f, s) \in Fragment
  BY <1>1, <1>2 DEF Fragment, WithSigs
<1>3. ASSUME NEW f \in Fragment, NEW x \in Share(Hash)
      PROVE  Append(f.sigs, x) \in Seq(Share(Hash))
  <2>1. << >> \in Seq(Share(Hash))
    OBVIOUS
  <2>2. f.sigs \in Seq(Share(Hash))
    <3>1. CASE f = NoFragment
      BY <2>1, <3>1 DEF NoFragment
    <3>2. CASE f \in [hash : Hash, sigs : Seq(Share(Hash))]
      BY <3>2
    <3>3. QED
      BY <3>1, <3>2 DEF Fragment
  <2>3. QED
    BY <2>2
<1>4. QED
  BY <1>1, <1>2, <1>3

(* A point update keeps the type of a function to sets. *)
LEMMA AddToSet ==
  ASSUME NEW I, NEW V, NEW f \in [I -> SUBSET V], NEW i \in I, NEW v \in V
  PROVE  [f EXCEPT ![i] = @ \cup {v}] \in [I -> SUBSET V]
OBVIOUS

(* Entries that a leader broadcasts have the type of entries. *)
LEMMA BroadcastType ==
  ASSUME TypeOK, NEW l \in Leaders, NEW p \in Phase, NEW b \in BlockId, NEW h \in Hash
  PROVE  Broadcast(l, p, b, h) \subseteq Entry
BY DEF Broadcast, Entry, TypeOK

-----------------------------------------------------------------------------
(* The initial states are well typed. *)
LEMMA TypeInit == Init => TypeOK
<1> SUFFICES ASSUME Init PROVE TypeOK
  OBVIOUS
<1>1. NoFragment \in Fragment
  BY FragmentTypes
<1>2. 0 \in 0..MaxBlock
  BY ReplicationAssumption
<1>3. \A l \in Leaders : [p \in Phase |-> Connected \ {l}] \in [Phase -> SUBSET Server]
  BY ReplicationAssumption
<1>4. QED
  BY <1>1, <1>2, <1>3 DEF Init, TypeOK

(* Every step keeps the state well typed. *)
LEMMA TypeStep == TypeOK /\ [Next]_vars => TypeOK'
<1> SUFFICES ASSUME TypeOK, [Next]_vars PROVE TypeOK'
  OBVIOUS
<1>1. ASSUME NEW l \in Leaders, PackBlock(l) PROVE TypeOK'
  <2>1. <<l, blockIdCounter[l] + 1>> \in Hash
    BY <1>1 DEF PackBlock, Hash
  <2>2. blockIdCounter[l] + 1 \in 0..MaxBlock
    BY <1>1, ReplicationAssumption DEF PackBlock, BlockId, TypeOK
  <2>3. QED
    BY <1>1, <2>1, <2>2, FragmentTypes DEF PackBlock, TypeOK
<1>2. ASSUME NEW l \in Leaders, NEW b \in BlockId, Disseminate(l, b) PROVE TypeOK'
  <2>1. <<l, b>> \in Hash
    BY DEF Hash
  <2>2. Broadcast(l, "post", b, <<l, b>>) \subseteq Entry
    BY <2>1, BroadcastType DEF Phase
  <2>3. QED
    BY <1>2, <2>1, <2>2, FragmentTypes DEF Disseminate, TypeOK
<1>3. ASSUME NEW l \in Leaders, NEW b \in BlockId, RefreshCommitFragment(l, b)
      PROVE TypeOK'
  <2> DEFINE h == commitCache[l][b].hash
             frag == WithSigs(commitCache[l][b], <<PenSign(l, h)>>)
  <2>1. l \in Server /\ commitCache[l][b] \in Fragment
    BY ReplicationAssumption DEF TypeOK
  <2>2. CASE commitCache[l][b] = NoFragment
    BY <1>3, <2>2 DEF RefreshCommitFragment, TypeOK
  <2>3. CASE commitCache[l][b] # NoFragment
    <3>1. h \in Hash
      BY <2>1, <2>3, FragmentTypes
    <3>2. PenSign(l, h) \in Share(Hash)
      BY <3>1, <2>1, PenSignType
    <3>3. frag \in Fragment
      <4>1. <<PenSign(l, h)>> \in Seq(Share(Hash))
        BY <3>2
      <4>2. QED
        BY <2>1, <2>3, <4>1, FragmentTypes
    <3>4. Signature("order", l, h) \in [phase : {"post", "order"}, signer : Server, hash : Hash]
      BY <2>1, <3>1 DEF Signature
    <3>5. /\ commitCache' = [commitCache EXCEPT ![l] = [@ EXCEPT ![b] = frag]]
          /\ signed' = signed \cup {Signature("order", l, h)}
      BY <1>3, <2>3 DEF RefreshCommitFragment
    <3>6. refreshing' \in [Leaders -> SUBSET BlockId]
      BY <1>3 DEF RefreshCommitFragment, TypeOK
    <3>7. commitCache' \in [Server -> [BlockId -> Fragment]]
      BY <3>3, <3>5 DEF TypeOK
    <3>8. QED
      BY <1>3, <3>4, <3>5, <3>6, <3>7 DEF RefreshCommitFragment, TypeOK
  <2>4. QED
    BY <2>2, <2>3
<1>4. ASSUME NEW l \in Leaders, NEW b \in BlockId, ClearCaches(l, b) PROVE TypeOK'
  BY <1>4, ReplicationAssumption, FragmentTypes DEF ClearCaches, TypeOK
<1>5. ASSUME NEW m \in msgs, PostEntryRejected(m) \/ OrderEntryRejected(m) \/ CommitEntryRejected(m)
                             \/ PostReplyAfterQuorum(m) \/ OrderReplyIgnored(m)
                             \/ PostReplyWithoutFragment(m)
      PROVE TypeOK'
  BY <1>5 DEF PostEntryRejected, OrderEntryRejected, CommitEntryRejected, PostReplyArrived,
              PostReplyAfterQuorum, OrderReplyIgnored, PostReplyWithoutFragment, TypeOK
<1>6. ASSUME NEW m \in msgs, PostEntryAccepted(m) PROVE TypeOK'
  <2>1. m \in Entry
    BY <1>6 DEF PostEntryAccepted, TypeOK, Reply
  <2>2. m.src \in Leaders /\ m.dst \in Server /\ m.id \in BlockId /\ m.hash \in Hash
    BY <2>1 DEF Entry
  <2>3. ReplyTo(m, "postReply", m.hash) \in Reply
    BY <2>2, PenSignType DEF ReplyTo, Reply
  <2>4. Signature("post", m.dst, m.hash) \in [phase : {"post", "order"}, signer : Server, hash : Hash]
    BY <2>2 DEF Signature
  <2>5. QED
    BY <1>6, <2>2, <2>3, <2>4, FragmentTypes DEF PostEntryAccepted, TypeOK
<1>7. ASSUME NEW m \in msgs, PostReplyCounted(m) PROVE TypeOK'
  <2> DEFINE frag == orderCache[m.dst][m.id]
             sigs == Append(frag.sigs, m.share)
  <2>1. m \in Reply
    BY <1>7 DEF PostReplyCounted, QuorumRecovered, IsFull, TypeOK, Entry, Phase
  <2>2. m.dst \in Leaders /\ m.dst \in Server /\ m.id \in BlockId /\ m.share \in Share(Hash)
    BY <2>1, ReplicationAssumption DEF Reply
  <2>3. frag \in Fragment /\ frag # NoFragment
    BY <1>7, <2>2 DEF PostReplyCounted, QuorumRecovered, IsFull, TypeOK
  <2>4. WithSigs(frag, sigs) \in Fragment /\ frag.hash \in Hash
    BY <2>2, <2>3, FragmentTypes
  <2>5. Broadcast(m.dst, "order", m.id, frag.hash) \subseteq Entry
    BY <2>2, <2>4, BroadcastType DEF Phase
  <2>6. msgs' \subseteq Entry \cup Reply
    BY <1>7, <2>5 DEF PostReplyCounted, QuorumRecovered, IsFull, TypeOK
  <2>7. refreshing' \in [Leaders -> SUBSET BlockId]
    <3>1. \/ refreshing' = refreshing
          \/ refreshing' = [refreshing EXCEPT ![m.dst] = @ \cup {m.id}]
      BY <1>7 DEF PostReplyCounted, QuorumRecovered, IsFull
    <3>2. refreshing \in [Leaders -> SUBSET BlockId]
      BY Zenon DEF TypeOK
    <3>3. QED
      BY <3>1, <3>2, <2>2, AddToSet
  <2>8. QED
    BY <1>7, <2>2, <2>4, <2>6, <2>7 DEF PostReplyCounted, QuorumRecovered, IsFull, TypeOK
<1>8. ASSUME NEW m \in msgs, OrderEntryAccepted(m) PROVE TypeOK'
  <2> DEFINE h == orderCache[m.dst][m.id].hash
  <2>1. m \in Entry
    BY <1>8 DEF OrderEntryAccepted, TypeOK, Reply
  <2>2. m.src \in Leaders /\ m.dst \in Server /\ m.id \in BlockId
    BY <2>1 DEF Entry
  <2>3. orderCache[m.dst][m.id] \in Fragment
    BY <2>2 DEF TypeOK
  <2>4. h \in Hash
    BY <1>8, <2>3, FragmentTypes DEF OrderEntryAccepted, OrderEntryVerifies
  <2>5. ReplyTo(m, "orderReply", h) \in Reply
    BY <2>2, <2>4, PenSignType DEF ReplyTo, Reply
  <2>6. Signature("order", m.dst, h) \in [phase : {"post", "order"}, signer : Server, hash : Hash]
    BY <2>2, <2>4 DEF Signature
  <2>7. QED
    BY <1>8, <2>2, <2>4, <2>5, <2>6, FragmentTypes DEF OrderEntryAccepted, TypeOK
<1>9. ASSUME NEW m \in msgs, OrderReplyCounted(m) PROVE TypeOK'
  <2> DEFINE frag == commitCache[m.dst][m.id]
             sigs == Append(frag.sigs, m.share)
  <2>1. m \in Reply
    BY <1>9 DEF OrderReplyCounted, QuorumRecovered, IsFull, TypeOK, Entry, Phase
  <2>2. m.dst \in Leaders /\ m.dst \in Server /\ m.id \in BlockId /\ m.share \in Share(Hash)
    BY <2>1, ReplicationAssumption DEF Reply
  <2>3. frag \in Fragment /\ frag # NoFragment
    BY <1>9, <2>2 DEF OrderReplyCounted, QuorumRecovered, IsFull, TypeOK
  <2>4. WithSigs(frag, sigs) \in Fragment /\ frag.hash \in Hash
    BY <2>2, <2>3, FragmentTypes
  <2>5. Broadcast(m.dst, "commit", m.id, frag.hash) \subseteq Entry
    BY <2>2, <2>4, BroadcastType DEF Phase
  <2>6. msgs' \subseteq Entry \cup Reply
    BY <1>9, <2>5 DEF OrderReplyCounted, QuorumRecovered, IsFull, TypeOK
  <2>7. /\ committed' \in [Server -> SUBSET Hash]
        /\ commitIndex' \in [Server -> Nat]
        /\ clearing' \in [Leaders -> SUBSET BlockId]
    <3>1. \/ UNCHANGED <<commitIndex, committed>>
          \/ /\ commitIndex' = [commitIndex EXCEPT ![m.dst] = @ + 1]
             /\ committed' = [committed EXCEPT ![m.dst] = @ \cup {frag.hash}]
      BY <1>9 DEF OrderReplyCounted, QuorumRecovered, IsFull
    <3>2. \/ clearing' = clearing
          \/ clearing' = [clearing EXCEPT ![m.dst] = @ \cup {m.id}]
      BY <1>9 DEF OrderReplyCounted, QuorumRecovered, IsFull
    <3>3. /\ committed \in [Server -> SUBSET Hash]
          /\ clearing \in [Leaders -> SUBSET BlockId]
          /\ commitIndex \in [Server -> Nat]
      BY DEF TypeOK
    <3>4. committed' \in [Server -> SUBSET Hash]
      <4>1. \A h \in Hash : [committed EXCEPT ![m.dst] = @ \cup {h}] \in [Server -> SUBSET Hash]
        BY <3>3, <2>2, AddToSet
      <4>2. QED
        BY <3>1, <3>3, <2>4, <4>1
    <3>5. clearing' \in [Leaders -> SUBSET BlockId]
      BY <3>2, <3>3, <2>2, AddToSet
    <3>6. commitIndex' \in [Server -> Nat]
      BY <3>1, <3>3, <2>2
    <3>7. QED
      BY <3>4, <3>5, <3>6
  <2>8. QED
    BY <1>9, <2>2, <2>4, <2>6, <2>7 DEF OrderReplyCounted, QuorumRecovered, IsFull, TypeOK
<1>10. ASSUME NEW m \in msgs, CommitEntryAccepted(m) PROVE TypeOK'
  <2>1. m \in Entry
    BY <1>10 DEF CommitEntryAccepted, TypeOK, Reply
  <2>2. m.dst \in Server /\ m.id \in BlockId
    BY <2>1 DEF Entry
  <2>3. commitCache[m.dst][m.id] \in Fragment /\ commitCache[m.dst][m.id] # NoFragment
    BY <1>10, <2>2 DEF CommitEntryAccepted, CommitEntryVerifies, TypeOK
  <2>4. QED
    BY <1>10, <2>2, <2>3, FragmentTypes DEF CommitEntryAccepted, TypeOK
<1>11. ASSUME NEW l \in Leaders, NEW w \in Server, NEW p \in Phase, RegisterWorker(l, w, p)
       PROVE TypeOK'
  BY <1>11 DEF RegisterWorker, TypeOK
<1>12. ASSUME NEW s \in Server, Crash(s) PROVE TypeOK'
  BY <1>12 DEF Crash, TypeOK
<1>13. CASE UNCHANGED vars
  BY <1>13 DEF vars, TypeOK
<1>14. QED
  BY <1>1, <1>2, <1>3, <1>4, <1>5, <1>6, <1>7, <1>8, <1>9, <1>10, <1>11, <1>12, <1>13
     DEF Next, Continue, HandleSome, Handle

(* Type correctness of the replication: every variable, message and cached  *)
(* fragment keeps its type, for any cluster.                                *)
THEOREM TypeCorrect == Spec => []TypeOK
BY TypeInit, TypeStep, PTL DEF Spec

-----------------------------------------------------------------------------
(* The inductive invariant.                                                 *)

(* Messages by kind, and what makes two of them the same. *)
LEMMA EntryFields ==
  ASSUME TypeOK, NEW m \in msgs, m.type \in Phase
  PROVE  /\ m \in Entry
         /\ m.src \in Leaders /\ m.src \in Server /\ m.dst \in Server
         /\ m.id \in BlockId /\ m.hash \in Hash
<1>1. m \in Entry
  BY DEF TypeOK, Reply, Phase
<1>2. QED
  BY <1>1, ReplicationAssumption DEF Entry

LEMMA ReplyFields ==
  ASSUME TypeOK, NEW m \in msgs, m.type \in {"postReply", "orderReply"}
  PROVE  /\ m \in Reply
         /\ m.src \in Server /\ m.dst \in Leaders /\ m.dst \in Server
         /\ m.id \in BlockId /\ m.share \in Share(Hash)
<1>1. m \in Reply
  BY DEF TypeOK, Entry, Phase
<1>2. QED
  BY <1>1, ReplicationAssumption DEF Reply

LEMMA SameEntry ==
  ASSUME NEW m \in Entry, NEW n \in Entry, m.type = n.type, m.src = n.src,
         m.dst = n.dst, m.id = n.id, m.hash = n.hash
  PROVE  m = n
BY DEF Entry

LEMMA SameReply ==
  ASSUME NEW m \in Reply, NEW n \in Reply, m.type = n.type, m.src = n.src,
         m.dst = n.dst, m.id = n.id, m.share = n.share
  PROVE  m = n
BY DEF Reply

LEMMA SignatureFields ==
  \A p, q, s, t, g, h :
     Signature(p, s, g) = Signature(q, t, h) <=> p = q /\ s = t /\ g = h
BY DEF Signature

LEMMA PenSignFields ==
  ASSUME NEW s, NEW h
  PROVE  /\ PenSign(s, h).signer = s
         /\ PenSign(s, h).msg \in {h, NoHash}
         /\ s \notin BadKey => PenSign(s, h) = [signer |-> s, msg |-> h]
BY DEF PenSign

(* Distinct signers of n shares are n servers. *)
LEMMA CountSigners ==
  ASSUME NEW S \in SUBSET Server, NEW n \in Nat, NEW sigs,
         \A i \in 1..n : sigs[i].signer \in S,
         \A i, j \in 1..n : sigs[i].signer = sigs[j].signer => i = j
  PROVE  Cardinality(S) >= n
<1> DEFINE f == [i \in 1..n |-> sigs[i].signer]
<1>1. f \in Injection(1..n, S)
  BY DEF Injection, IsInjective
<1>2. IsFiniteSet(S)
  BY FS_Subset, ServerAssumption
<1>3. Cardinality(1..n) <= Cardinality(S)
  BY <1>1, <1>2, FS_Injection
<1>4. Cardinality(1..n) = n
  BY FS_Interval
<1>5. QED
  BY <1>2, <1>3, <1>4, FS_CardinalityType

(* Distinct signers of as many shares as a quorum are a quorum. *)
LEMMA QuorumOfSigners ==
  ASSUME NEW S \in SUBSET Server, NEW sigs \in Seq(Share(Hash)), Len(sigs) = Quorum,
         \A i \in DOMAIN sigs : sigs[i].signer \in S,
         \A i, j \in DOMAIN sigs : sigs[i].signer = sigs[j].signer => i = j
  PROVE  Cardinality(S) >= Quorum
<1>1. DOMAIN sigs = 1..Quorum
  BY QuorumValues
<1>2. QED
  BY <1>1, QuorumValues, CountSigners

(* Quorums of signers never shrink. *)
LEMMA BackedStays ==
  ASSUME signed \subseteq signed', NEW h
  PROVE  /\ Backed(h) => Backed(h)'
         /\ Cardinality(OrderSigners(h)) >= Quorum => Cardinality(OrderSigners(h))' >= Quorum
<1>1. PostSigners(h) \subseteq PostSigners(h)' /\ PostSigners(h)' \subseteq Server
  BY DEF PostSigners
<1>2. OrderSigners(h) \subseteq OrderSigners(h)' /\ OrderSigners(h)' \subseteq Server
  BY DEF OrderSigners
<1>3. ASSUME NEW S, NEW T, S \subseteq T, T \subseteq Server, Cardinality(S) >= Quorum
      PROVE  Cardinality(T) >= Quorum
  <2>1. IsFiniteSet(T)
    BY <1>3, FS_Subset, ServerAssumption
  <2>2. IsFiniteSet(S) /\ Cardinality(S) <= Cardinality(T)
    BY <1>3, <2>1, FS_Subset
  <2>3. QED
    BY <1>3, <2>1, <2>2, FS_CardinalityType, QuorumValues
<1>4. QED
  BY <1>1, <1>2, <1>3 DEF Backed

-----------------------------------------------------------------------------
(* The initial states satisfy the invariant. *)
LEMMA InvInit == Init => IInv
<1> SUFFICES ASSUME Init PROVE IInv
  OBVIOUS
<1>1. TypeOK
  BY TypeInit
<1>2. msgs = {} /\ signed = {}
  BY DEF Init
<1>3. PostEntries /\ PostReplies /\ OrderEntries /\ OrderReplies /\ CommitEntries
  BY <1>2 DEF PostEntries, PostReplies, OrderEntries, OrderReplies, CommitEntries
<1>4. UnpublishedUnsigned
  BY <1>2 DEF Init, UnpublishedUnsigned
<1>5. \A s \in Server, b \in BlockId :
         orderCache[s][b] = NoFragment /\ commitCache[s][b] = NoFragment
  BY DEF Init
<1>6. PostFragments
  <2>1. ASSUME NEW l \in Leaders, NEW b \in BlockId PROVE orderCache[l][b].sigs = << >>
    BY <1>5, ReplicationAssumption DEF NoFragment
  <2>2. QED
    BY <2>1, QuorumValues DEF PostFragments, DistinctSigners
<1>7. CommitFragments
  <2>1. ASSUME NEW l \in Leaders, NEW b \in BlockId PROVE commitCache[l][b].sigs = << >>
    BY <1>5, ReplicationAssumption DEF NoFragment
  <2>2. QED
    BY <2>1 DEF CommitFragments, DistinctSigners
<1>8. OrderedOnce
  BY <1>2 DEF OrderedOnce, Unordered, Init
<1>9. RefreshingBacked
  BY DEF RefreshingBacked, Init
<1>10. CommitCacheOrdered
  BY <1>5 DEF CommitCacheOrdered, NoFragment
<1>11. OrderBacked /\ CommitBacked
  BY <1>2 DEF OrderBacked, CommitBacked, Init
<1>12. QED
  BY <1>1, <1>3, <1>4, <1>6, <1>7, <1>8, <1>9, <1>10, <1>11 DEF IInv

(* What the invariant speaks of. *)
invVars == <<blockIdCounter, publishing, orderCache, commitCache, refreshing,
             signed, committed>>

(* A step that only takes messages out of the network preserves the         *)
(* invariant: rejected and ignored messages, connections and crashes.       *)
LEMMA FewerMessages ==
  ASSUME IInv, TypeOK', msgs' \subseteq msgs, UNCHANGED invVars
  PROVE  IInv'
<1> USE DEF IInv, invVars
<1>1. UnpublishedUnsigned' /\ PostFragments' /\ CommitFragments' /\ CommitCacheOrdered'
  BY DEF UnpublishedUnsigned, PostFragments, CommitFragments, CommitCacheOrdered,
         DistinctSigners
<1>2. PostEntries' /\ CommitEntries'
  BY DEF PostEntries, CommitEntries
<1>3. PostReplies' /\ OrderReplies'
  BY DEF PostReplies, OrderReplies, HasSigner
<1>4. OrderEntries' /\ RefreshingBacked' /\ OrderBacked' /\ CommitBacked'
  BY DEF OrderEntries, RefreshingBacked, OrderBacked, CommitBacked, Backed,
         PostSigners, OrderSigners
<1>5. OrderedOnce'
  BY DEF OrderedOnce, Unordered
<1>6. QED
  BY <1>1, <1>2, <1>3, <1>4, <1>5, Zenon

(* The parts about quorums under a step that adds no order share and        *)
(* commits nothing.                                                         *)
LEMMA QuorumPartsStay ==
  ASSUME IInv, signed \subseteq signed', UNCHANGED committed,
         \A s \in Server, h \in Hash :
            Signature("order", s, h) \in signed' => Signature("order", s, h) \in signed
  PROVE  OrderBacked' /\ CommitBacked'
<1>1. OrderBacked'
  BY BackedStays DEF IInv, OrderBacked, Backed
<1>2. CommitBacked'
  BY BackedStays DEF IInv, CommitBacked
<1>3. QED
  BY <1>1, <1>2

-----------------------------------------------------------------------------
(* A cache after a point update. *)
LEMMA CacheUpdate ==
  ASSUME NEW cache \in [Server -> [BlockId -> Fragment]],
         NEW s \in Server, NEW b \in BlockId, NEW f
  PROVE  \A t \in Server, c \in BlockId :
            [cache EXCEPT ![s][b] = f][t][c] = IF t = s /\ c = b THEN f ELSE cache[t][c]
OBVIOUS

LEMMA NewFragmentEmpty ==
  \A h : /\ NewFragment(h).hash = h
         /\ NewFragment(h).sigs = << >>
         /\ DistinctSigners(NewFragment(h))
         /\ \A s : ~HasSigner(NewFragment(h), s)
BY DEF NewFragment, DistinctSigners, HasSigner

LEMMA NoFragmentEmpty ==
  /\ NoFragment.hash = NoHash
  /\ NoFragment.sigs = << >>
  /\ DistinctSigners(NoFragment)
  /\ \A s : ~HasSigner(NoFragment, s)
BY DEF NoFragment, DistinctSigners, HasSigner

LEMMA PackBlockStep ==
  ASSUME IInv, TypeOK', NEW l \in Leaders, PackBlock(l)
  PROVE  IInv'
<1> DEFINE b == blockIdCounter[l] + 1
<1>1. /\ l \in Server /\ b \in BlockId
      /\ blockIdCounter \in [Leaders -> Int]
      /\ publishing \in [Leaders -> SUBSET BlockId]
      /\ orderCache \in [Server -> [BlockId -> Fragment]]
  BY ReplicationAssumption DEF IInv, TypeOK, PackBlock
<1>2. /\ blockIdCounter' = [blockIdCounter EXCEPT ![l] = b]
      /\ publishing' = [publishing EXCEPT ![l] = @ \cup {b}]
      /\ orderCache' = [orderCache EXCEPT ![l][b] = NewFragment(<<l, b>>)]
      /\ UNCHANGED <<commitCache, refreshing, msgs, signed, committed>>
  BY DEF PackBlock
<1>3. \A t \in Server, c \in BlockId :
         orderCache'[t][c] = IF t = l /\ c = b THEN NewFragment(<<l, b>>) ELSE orderCache[t][c]
  BY <1>1, <1>2, CacheUpdate
<1>4. UnpublishedUnsigned'
  BY <1>1, <1>2 DEF IInv, UnpublishedUnsigned, BlockId
<1>5. PostEntries'
  <2>1. SUFFICES ASSUME NEW m \in msgs, m.type = "post"
                 PROVE  m.id <= blockIdCounter'[m.src] /\ m.id \notin publishing'[m.src]
    BY <1>2 DEF IInv, PostEntries
  <2>2. m.src \in Leaders /\ m.id \in Int
    BY <2>1, EntryFields DEF IInv, Phase, BlockId
  <2>3. m.id <= blockIdCounter[m.src] /\ m.id \notin publishing[m.src]
    BY <2>1 DEF IInv, PostEntries
  <2>4. QED
    BY <1>1, <1>2, <2>2, <2>3
<1>6. PostReplies'
  <2>1. SUFFICES ASSUME NEW m \in msgs, m.type = "postReply"
                 PROVE  ~HasSigner(orderCache'[m.dst][m.id], m.src)
    BY <1>2 DEF IInv, PostReplies, HasSigner
  <2>2. m.dst \in Server /\ m.id \in BlockId
    BY <2>1, ReplyFields DEF IInv
  <2>3. QED
    BY <1>3, <2>1, <2>2, NewFragmentEmpty, ZenonT(60) DEF IInv, PostReplies
<1>7. PostFragments'
  <2> SUFFICES ASSUME NEW k \in Leaders, NEW c \in BlockId
               PROVE  /\ Len(orderCache'[k][c].sigs) <= Quorum
                      /\ DistinctSigners(orderCache'[k][c])
                      /\ \A i \in DOMAIN orderCache'[k][c].sigs :
                           /\ orderCache'[k][c].sigs[i].msg \in {<<k, c>>, NoHash}
                           /\ Signature("post", orderCache'[k][c].sigs[i].signer, <<k, c>>) \in signed'
    BY Zenon DEF PostFragments
  <2>1. k \in Server /\ signed' = signed
    BY <1>2, ReplicationAssumption
  <2>2. CASE k = l /\ c = b
    BY <1>3, <2>1, <2>2, NewFragmentEmpty, QuorumValues DEF DistinctSigners
  <2>3. CASE ~(k = l /\ c = b)
    BY <1>3, <2>1, <2>3 DEF IInv, PostFragments
  <2>4. QED
    BY <2>2, <2>3
<1>8. OrderedOnce'
  <2> SUFFICES ASSUME NEW k \in Leaders, NEW c \in BlockId,
                      \/ c > blockIdCounter'[k]
                      \/ orderCache'[k][c].hash = <<k, c>> /\ Len(orderCache'[k][c].sigs) < Quorum
               PROVE  Unordered(<<k, c>>)
    BY <1>2 DEF OrderedOnce, Unordered
  <2>1. k \in Server /\ c \in Int
    BY ReplicationAssumption DEF BlockId
  <2>2. CASE k = l /\ c = b
    BY <1>1, <2>2 DEF IInv, OrderedOnce
  <2>3. CASE ~(k = l /\ c = b)
    <3>1. c > blockIdCounter'[k] => c > blockIdCounter[k]
      BY <1>1, <1>2, <2>1
    <3>2. orderCache'[k][c] = orderCache[k][c]
      BY <1>3, <2>1, <2>3
    <3>3. QED
      BY <3>1, <3>2 DEF IInv, OrderedOnce
  <2>4. QED
    BY <2>2, <2>3
<1>9. OrderEntries' /\ RefreshingBacked'
  BY <1>2 DEF IInv, OrderEntries, RefreshingBacked, Backed, PostSigners
<1>10. CommitCacheOrdered' /\ OrderReplies' /\ CommitEntries'
  BY <1>2 DEF IInv, CommitCacheOrdered, OrderReplies, CommitEntries, HasSigner
<1>11. CommitFragments'
  BY <1>2 DEF IInv, CommitFragments, DistinctSigners
<1>12. OrderBacked' /\ CommitBacked'
  BY <1>2, QuorumPartsStay
<1>13. QED
  BY <1>4, <1>5, <1>6, <1>7, <1>8, <1>9, <1>10, <1>11, <1>12 DEF IInv

(* What a leader broadcasts. *)
LEMMA BroadcastFields ==
  ASSUME NEW l, NEW p, NEW b, NEW h, NEW m \in Broadcast(l, p, b, h)
  PROVE  m.type = p /\ m.src = l /\ m.id = b /\ m.hash = h /\ m.dst # l
BY DEF Broadcast

LEMMA BroadcastDestination ==
  ASSUME TypeOK, NEW l \in Leaders, NEW p \in Phase, NEW b, NEW h, NEW m \in Broadcast(l, p, b, h)
  PROVE  m.dst \in Server
BY DEF Broadcast, TypeOK

(* The commit parts when a fragment of the commitCache is replaced by one   *)
(* without shares, of the leader's own block, of an ordered one or of none. *)
LEMMA CommitCacheReplaced ==
  ASSUME IInv, NEW s \in Server, NEW b \in BlockId, NEW f \in Fragment,
         f.sigs = << >>, signed \subseteq signed',
         commitCache' = [commitCache EXCEPT ![s][b] = f],
         f.hash \in {NoHash, <<s, b>>} \/ Signature("order", s, f.hash) \in signed'
  PROVE  /\ CommitCacheOrdered'
         /\ CommitFragments'
         /\ \A t \in Server, c \in BlockId, w \in Server :
               ~HasSigner(commitCache[t][c], w) => ~HasSigner(commitCache[t][c], w)'
<1>1. commitCache \in [Server -> [BlockId -> Fragment]]
  BY DEF IInv, TypeOK
<1>2. \A t \in Server, c \in BlockId :
         commitCache'[t][c] = IF t = s /\ c = b THEN f ELSE commitCache[t][c]
  BY <1>1, CacheUpdate
<1>3. CommitCacheOrdered'
  <2> SUFFICES ASSUME NEW t \in Server, NEW c \in BlockId,
                      commitCache'[t][c].hash # NoHash, commitCache'[t][c].hash # <<t, c>>
               PROVE  Signature("order", t, commitCache'[t][c].hash) \in signed'
    BY DEF CommitCacheOrdered
  <2>1. CASE t = s /\ c = b
    BY <1>2, <2>1
  <2>2. CASE ~(t = s /\ c = b)
    BY <1>2, <2>2 DEF IInv, CommitCacheOrdered
  <2>3. QED
    BY <2>1, <2>2
<1>4. ASSUME NEW l \in Leaders, NEW c \in BlockId
      PROVE  \/ commitCache'[l][c].sigs = << >>
             \/ commitCache'[l][c] = commitCache[l][c]
  BY <1>2, ReplicationAssumption, SMTT(60)
<1>5. CommitFragments'
  <2> SUFFICES ASSUME NEW l \in Leaders, NEW c \in BlockId
               PROVE  /\ DistinctSigners(commitCache'[l][c])
                      /\ \A i \in DOMAIN commitCache'[l][c].sigs :
                           LET share == commitCache'[l][c].sigs[i]
                               h == IF share.signer = l THEN commitCache'[l][c].hash ELSE <<l, c>>
                           IN /\ share.msg = h /\ h # NoHash
                              /\ Signature("order", share.signer, h) \in signed'
    BY Zenon DEF CommitFragments
  <2>1. CASE commitCache'[l][c].sigs = << >>
    BY <2>1, SMTT(60) DEF DistinctSigners
  <2>2. CASE commitCache'[l][c] = commitCache[l][c]
    BY <2>2 DEF IInv, CommitFragments
  <2>3. QED
    BY <1>4, <2>1, <2>2
<1>6. ASSUME NEW t \in Server, NEW c \in BlockId, NEW w \in Server,
             ~HasSigner(commitCache[t][c], w)
      PROVE  ~HasSigner(commitCache[t][c], w)'
  BY <1>2, <1>6 DEF HasSigner
<1>7. QED
  BY <1>3, <1>5, <1>6

LEMMA DisseminateStep ==
  ASSUME IInv, TypeOK', NEW l \in Leaders, NEW b \in BlockId, Disseminate(l, b)
  PROVE  IInv'
<1> DEFINE new == Broadcast(l, "post", b, <<l, b>>)
<1>1. /\ l \in Server /\ <<l, b>> \in Hash
      /\ publishing \in [Leaders -> SUBSET BlockId]
  BY ReplicationAssumption DEF IInv, TypeOK, Hash
<1>2. /\ publishing' = [publishing EXCEPT ![l] = @ \ {b}]
      /\ commitCache' = [commitCache EXCEPT ![l][b] = NewFragment(<<l, b>>)]
      /\ msgs' = msgs \cup new
      /\ b \in publishing[l]
      /\ UNCHANGED <<blockIdCounter, orderCache, refreshing, signed, committed>>
  BY DEF Disseminate
<1>3. \A m \in new : m.type = "post"
  BY BroadcastFields
<1>4. UnpublishedUnsigned'
  BY <1>1, <1>2 DEF IInv, UnpublishedUnsigned
<1>5. PostEntries'
  <2> SUFFICES ASSUME NEW m \in msgs', m.type = "post"
               PROVE  /\ m.hash = <<m.src, m.id>> /\ m.src # m.dst
                      /\ m.id <= blockIdCounter[m.src] /\ m.id \notin publishing'[m.src]
                      /\ Signature("post", m.dst, m.hash) \notin signed
    BY <1>2 DEF PostEntries
  <2>1. CASE m \in msgs
    <3>1. m.src \in Leaders
      BY <2>1, EntryFields DEF IInv, Phase
    <3>2. QED
      BY <1>1, <1>2, <2>1, <3>1 DEF IInv, PostEntries
  <2>2. CASE m \in new
    <3>1. m.dst \in Server
      BY <2>2, BroadcastDestination DEF IInv, Phase
    <3>2. m.src = l /\ m.id = b /\ m.hash = <<l, b>> /\ m.dst # l
      BY <2>2, BroadcastFields, SMTT(60)
    <3>3. QED
      BY <1>1, <1>2, <3>1, <3>2 DEF IInv, UnpublishedUnsigned
  <2>3. QED
    BY <1>2, <2>1, <2>2
<1>6. PostReplies' /\ PostFragments'
  BY <1>2, <1>3 DEF IInv, PostReplies, PostFragments, HasSigner, DistinctSigners
<1>7. OrderedOnce'
  BY <1>2, <1>3 DEF IInv, OrderedOnce, Unordered
<1>8. OrderEntries' /\ RefreshingBacked' /\ CommitEntries'
  BY <1>2, <1>3 DEF IInv, OrderEntries, RefreshingBacked, CommitEntries, Backed, PostSigners
<1>9. NewFragment(<<l, b>>) \in Fragment
  BY <1>1, FragmentTypes
<1>10. /\ CommitCacheOrdered' /\ CommitFragments'
       /\ \A t \in Server, c \in BlockId, w \in Server :
             ~HasSigner(commitCache[t][c], w) => ~HasSigner(commitCache[t][c], w)'
  <2> DEFINE f == NewFragment(<<l, b>>)
  <2>1. f.sigs = << >> /\ f.hash \in {NoHash, <<l, b>>} /\ signed \subseteq signed'
    BY <1>2, NewFragmentEmpty
  <2>2. f \in Fragment /\ commitCache' = [commitCache EXCEPT ![l][b] = f]
    BY <1>2, <1>9
  <2> HIDE DEF f
  <2>3. QED
    BY <1>1, <2>1, <2>2, CommitCacheReplaced
<1>11. OrderReplies'
  <2> SUFFICES ASSUME NEW m \in msgs, m.type = "orderReply"
               PROVE  ~HasSigner(commitCache[m.dst][m.id], m.src)'
    BY <1>2, <1>3 DEF IInv, OrderReplies
  <2>1. m.dst \in Server /\ m.id \in BlockId /\ m.src \in Server
    BY ReplyFields DEF IInv
  <2>2. QED
    BY <1>10, <2>1 DEF IInv, OrderReplies
<1>12. OrderBacked' /\ CommitBacked'
  BY <1>2, QuorumPartsStay
<1>13. QED
  BY <1>4, <1>5, <1>6, <1>7, <1>8, <1>10, <1>11, <1>12 DEF IInv

(* The post parts when a fragment of the orderCache is replaced by one      *)
(* without shares that is not of the server's own block.                    *)
LEMMA OrderCacheReplaced ==
  ASSUME IInv, NEW s \in Server, NEW b \in BlockId, NEW f \in Fragment,
         f.sigs = << >>, f.hash # <<s, b>>, signed \subseteq signed',
         orderCache' = [orderCache EXCEPT ![s][b] = f]
  PROVE  /\ PostFragments'
         /\ \A t \in Server, c \in BlockId, w \in Server :
               ~HasSigner(orderCache[t][c], w) => ~HasSigner(orderCache[t][c], w)'
         /\ \A l \in Leaders, c \in BlockId :
               orderCache'[l][c].hash = <<l, c>> => orderCache'[l][c] = orderCache[l][c]
<1>1. orderCache \in [Server -> [BlockId -> Fragment]]
  BY DEF IInv, TypeOK
<1>2. \A t \in Server, c \in BlockId :
         orderCache'[t][c] = IF t = s /\ c = b THEN f ELSE orderCache[t][c]
  BY <1>1, CacheUpdate
<1>3. ASSUME NEW l \in Leaders, NEW c \in BlockId
      PROVE  \/ l = s /\ c = b /\ orderCache'[l][c] = f
             \/ orderCache'[l][c] = orderCache[l][c]
  BY <1>2, ReplicationAssumption, SMTT(60)
<1>4. PostFragments'
  <2> SUFFICES ASSUME NEW l \in Leaders, NEW c \in BlockId
               PROVE  /\ Len(orderCache'[l][c].sigs) <= Quorum
                      /\ DistinctSigners(orderCache'[l][c])
                      /\ \A i \in DOMAIN orderCache'[l][c].sigs :
                           LET share == orderCache'[l][c].sigs[i]
                           IN /\ share.msg \in {<<l, c>>, NoHash}
                              /\ Signature("post", share.signer, <<l, c>>) \in signed'
    BY Zenon DEF PostFragments
  <2>1. CASE orderCache'[l][c].sigs = << >>
    BY <2>1, QuorumValues DEF DistinctSigners
  <2>2. CASE orderCache'[l][c] = orderCache[l][c]
    BY <2>2 DEF IInv, PostFragments
  <2>3. QED
    BY <1>3, <2>1, <2>2
<1>5. ASSUME NEW t \in Server, NEW c \in BlockId, NEW w \in Server,
             ~HasSigner(orderCache[t][c], w)
      PROVE  ~HasSigner(orderCache[t][c], w)'
  BY <1>2, <1>5 DEF HasSigner
<1>6. ASSUME NEW l \in Leaders, NEW c \in BlockId, orderCache'[l][c].hash = <<l, c>>
      PROVE  orderCache'[l][c] = orderCache[l][c]
  BY <1>3, <1>6
<1>7. QED
  BY <1>4, <1>5, <1>6

LEMMA ClearCachesStep ==
  ASSUME IInv, TypeOK', NEW l \in Leaders, NEW b \in BlockId, ClearCaches(l, b)
  PROVE  IInv'
<1>1. /\ l \in Server /\ <<l, b>> \in Hash /\ NoFragment \in Fragment
      /\ NoFragment.hash # <<l, b>>
  BY ReplicationAssumption, FragmentTypes, NoFragmentEmpty DEF Hash
<1>2. /\ orderCache' = [orderCache EXCEPT ![l][b] = NoFragment]
      /\ commitCache' = [commitCache EXCEPT ![l][b] = NoFragment]
      /\ UNCHANGED <<blockIdCounter, publishing, refreshing, msgs, signed, committed>>
  BY DEF ClearCaches
<1>3. /\ CommitCacheOrdered' /\ CommitFragments'
      /\ \A t \in Server, c \in BlockId, w \in Server :
            ~HasSigner(commitCache[t][c], w) => ~HasSigner(commitCache[t][c], w)'
  BY <1>1, <1>2, NoFragmentEmpty, CommitCacheReplaced
<1>4. /\ PostFragments'
      /\ \A t \in Server, c \in BlockId, w \in Server :
            ~HasSigner(orderCache[t][c], w) => ~HasSigner(orderCache[t][c], w)'
      /\ \A k \in Leaders, c \in BlockId :
            orderCache'[k][c].hash = <<k, c>> => orderCache'[k][c] = orderCache[k][c]
  BY <1>1, <1>2, NoFragmentEmpty, OrderCacheReplaced
<1>5. UnpublishedUnsigned' /\ PostEntries' /\ OrderEntries' /\ RefreshingBacked' /\ CommitEntries'
  BY <1>2 DEF IInv, UnpublishedUnsigned, PostEntries, OrderEntries, RefreshingBacked,
              CommitEntries, Backed, PostSigners
<1>6. PostReplies'
  <2> SUFFICES ASSUME NEW m \in msgs, m.type = "postReply"
               PROVE  ~HasSigner(orderCache[m.dst][m.id], m.src)'
    BY <1>2 DEF IInv, PostReplies
  <2>1. m.dst \in Server /\ m.id \in BlockId /\ m.src \in Server
    BY ReplyFields DEF IInv
  <2>2. QED
    BY <1>4, <2>1 DEF IInv, PostReplies
<1>7. OrderReplies'
  <2> SUFFICES ASSUME NEW m \in msgs, m.type = "orderReply"
               PROVE  ~HasSigner(commitCache[m.dst][m.id], m.src)'
    BY <1>2 DEF IInv, OrderReplies
  <2>1. m.dst \in Server /\ m.id \in BlockId /\ m.src \in Server
    BY ReplyFields DEF IInv
  <2>2. QED
    BY <1>3, <2>1 DEF IInv, OrderReplies
<1>8. OrderedOnce'
  BY <1>2, <1>4, ZenonT(60) DEF IInv, OrderedOnce, Unordered
<1>9. OrderBacked' /\ CommitBacked'
  BY <1>2, QuorumPartsStay
<1>10. QED
  BY <1>3, <1>4, <1>5, <1>6, <1>7, <1>8, <1>9 DEF IInv

LEMMA PostEntryAcceptedStep ==
  ASSUME IInv, TypeOK', NEW m \in msgs, PostEntryAccepted(m)
  PROVE  IInv'
<1> DEFINE r == ReplyTo(m, "postReply", m.hash)
           g == Signature("post", m.dst, m.hash)
<1>1. /\ m.type = "post"
      /\ orderCache' = [orderCache EXCEPT ![m.dst][m.id] = NewFragment(m.hash)]
      /\ msgs' = (msgs \ {m}) \cup {r}
      /\ signed' = signed \cup {g}
      /\ UNCHANGED <<blockIdCounter, publishing, commitCache, refreshing, committed>>
  BY DEF PostEntryAccepted
<1>2. /\ m \in Entry /\ m.src \in Leaders /\ m.src \in Server /\ m.dst \in Server
      /\ m.id \in BlockId /\ m.hash \in Hash
  BY <1>1, EntryFields DEF IInv, Phase
<1>3. /\ m.hash = <<m.src, m.id>> /\ m.src # m.dst /\ m.id <= blockIdCounter[m.src]
      /\ m.id \notin publishing[m.src] /\ g \notin signed
  BY <1>1 DEF IInv, PostEntries
<1>4. /\ r.type = "postReply" /\ r.src = m.dst /\ r.dst = m.src /\ r.id = m.id
      /\ r.share = PenSign(r.src, <<r.dst, r.id>>)
  BY <1>3 DEF ReplyTo
<1> HIDE DEF r, g
<1>5. signed \subseteq signed' /\ g = Signature("post", m.dst, m.hash)
  BY <1>1 DEF g
<1>6. /\ PostFragments'
      /\ \A t \in Server, c \in BlockId, w \in Server :
            ~HasSigner(orderCache[t][c], w) => ~HasSigner(orderCache[t][c], w)'
      /\ \A k \in Leaders, c \in BlockId :
            orderCache'[k][c].hash = <<k, c>> => orderCache'[k][c] = orderCache[k][c]
  <2>1. NewFragment(m.hash) \in Fragment
    BY <1>2, FragmentTypes
  <2>2. NewFragment(m.hash).sigs = << >> /\ NewFragment(m.hash).hash # <<m.dst, m.id>>
    BY <1>3, NewFragmentEmpty
  <2>3. QED
    BY <1>1, <1>2, <1>5, <2>1, <2>2, OrderCacheReplaced
<1>7. UnpublishedUnsigned'
  <2> SUFFICES ASSUME NEW l \in Leaders, NEW b \in BlockId,
                      b > blockIdCounter[l] \/ b \in publishing[l], NEW s \in Server
               PROVE  Signature("post", s, <<l, b>>) \notin signed'
    BY <1>1 DEF IInv, UnpublishedUnsigned
  <2>1. Signature("post", s, <<l, b>>) \notin signed
    BY DEF IInv, UnpublishedUnsigned
  <2>2. blockIdCounter[l] \in Int /\ b \in Int
    BY DEF IInv, TypeOK, BlockId
  <2>3. ~(l = m.src /\ b = m.id)
    BY <1>3, <2>2
  <2>4. QED
    BY <1>1, <1>3, <1>5, <2>1, <2>3, SignatureFields
<1>8. PostEntries'
  <2> SUFFICES ASSUME NEW n \in msgs \ {m}, n.type = "post"
               PROVE  Signature("post", n.dst, n.hash) # g
    BY <1>1, <1>4 DEF IInv, PostEntries
  <2>1. n \in Entry /\ n.hash = <<n.src, n.id>>
    BY EntryFields DEF IInv, PostEntries, Phase
  <2>2. SUFFICES n.dst = m.dst /\ n.hash = m.hash => FALSE
    BY <1>5, SignatureFields
  <2>3. QED
    BY <1>1, <1>2, <1>3, <2>1, SameEntry
<1>9. PostReplies'
  <2>1. ~HasSigner(orderCache[m.src][m.id], m.dst)
    BY <1>2, <1>3, <1>5 DEF IInv, PostFragments, HasSigner
  <2>2. ~HasSigner(orderCache[m.src][m.id], m.dst)'
    BY <1>2, <1>6, <2>1
  <2>3. ASSUME NEW n \in msgs, n.type = "postReply"
        PROVE  ~HasSigner(orderCache[n.dst][n.id], n.src)'
    <3>1. n.dst \in Server /\ n.id \in BlockId /\ n.src \in Server
      BY <2>3, ReplyFields DEF IInv
    <3>2. QED
      BY <1>6, <2>3, <3>1 DEF IInv, PostReplies
  <2>4. SUFFICES ASSUME NEW n \in msgs', n.type = "postReply"
                 PROVE  /\ n.share = PenSign(n.src, <<n.dst, n.id>>)
                        /\ Signature("post", n.src, <<n.dst, n.id>>) \in signed'
                        /\ ~HasSigner(orderCache[n.dst][n.id], n.src)'
    BY DEF PostReplies
  <2>5. CASE n = r
    BY <1>1, <1>3, <1>4, <1>5, <2>2, <2>5
  <2>6. CASE n \in msgs
    BY <1>5, <2>3, <2>4, <2>6 DEF IInv, PostReplies
  <2>7. QED
    BY <1>1, <2>4, <2>5, <2>6
<1>10. \A n \in msgs' : n.type # "postReply" => n \in msgs
  BY <1>1, <1>4
<1>11. \A s, h : Signature("order", s, h) \in signed' => Signature("order", s, h) \in signed
  BY <1>1, <1>5, SignatureFields
<1>12. OrderedOnce'
  <2> SUFFICES ASSUME NEW l \in Leaders, NEW b \in BlockId,
                      \/ b > blockIdCounter[l]
                      \/ orderCache'[l][b].hash = <<l, b>> /\ Len(orderCache'[l][b].sigs) < Quorum
               PROVE  Unordered(<<l, b>>)'
    BY <1>1 DEF OrderedOnce
  <2>1. Unordered(<<l, b>>)
    BY <1>6 DEF IInv, OrderedOnce
  <2>2. QED
    BY <1>1, <1>10, <1>11, <2>1, Zenon DEF Unordered
<1>13. OrderEntries' /\ RefreshingBacked'
  BY <1>1, <1>5, <1>10, <1>11, BackedStays, Zenon DEF IInv, OrderEntries, RefreshingBacked
<1>14. CommitCacheOrdered' /\ OrderReplies' /\ CommitFragments' /\ CommitEntries'
  BY <1>1, <1>5, <1>10 DEF IInv, CommitCacheOrdered, OrderReplies, CommitFragments,
                          CommitEntries, DistinctSigners, HasSigner
<1>15. OrderBacked' /\ CommitBacked'
  BY <1>1, <1>5, <1>11, QuorumPartsStay
<1>16. QED
  BY <1>6, <1>7, <1>8, <1>9, <1>12, <1>13, <1>14, <1>15 DEF IInv

LEMMA CommitEntryAcceptedStep ==
  ASSUME IInv, TypeOK', NEW m \in msgs, CommitEntryAccepted(m)
  PROVE  IInv'
<1> DEFINE h == commitCache[m.dst][m.id].hash
<1>1. /\ m.type = "commit" /\ CommitEntryVerifies(m)
      /\ committed' = [committed EXCEPT ![m.dst] = @ \cup {h}]
      /\ msgs' = msgs \ {m}
      /\ UNCHANGED <<blockIdCounter, publishing, orderCache, commitCache, refreshing, signed>>
  BY DEF CommitEntryAccepted
<1>2. /\ m.dst \in Server /\ m.src \in Server /\ m.id \in BlockId /\ m.hash \in Hash
      /\ committed \in [Server -> SUBSET Hash]
  BY <1>1, EntryFields DEF IInv, TypeOK, Phase
<1>3. m.hash \in committed[m.src] /\ h = m.hash
  BY <1>1 DEF IInv, CommitEntries, CommitEntryVerifies, PenVerify
<1>4. CommitBacked'
  <2> SUFFICES ASSUME NEW s \in Server, NEW g \in committed'[s]
               PROVE  Cardinality(OrderSigners(g)) >= Quorum
    BY <1>1 DEF CommitBacked, OrderSigners
  <2>1. g \in committed[s] \/ g = m.hash
    BY <1>1, <1>2, <1>3
  <2>2. QED
    BY <1>2, <1>3, <2>1 DEF IInv, CommitBacked
<1>5. CommitEntries'
  BY <1>1, <1>2 DEF IInv, CommitEntries
<1>6. UnpublishedUnsigned' /\ PostEntries' /\ PostReplies' /\ PostFragments'
  BY <1>1 DEF IInv, UnpublishedUnsigned, PostEntries, PostReplies, PostFragments,
              HasSigner, DistinctSigners
<1>7. OrderedOnce'
  BY <1>1 DEF IInv, OrderedOnce, Unordered
<1>8. OrderEntries' /\ RefreshingBacked' /\ OrderBacked'
  BY <1>1 DEF IInv, OrderEntries, RefreshingBacked, OrderBacked, Backed, PostSigners
<1>9. CommitCacheOrdered' /\ OrderReplies' /\ CommitFragments'
  BY <1>1 DEF IInv, CommitCacheOrdered, OrderReplies, CommitFragments, DistinctSigners, HasSigner
<1>10. QED
  BY <1>4, <1>5, <1>6, <1>7, <1>8, <1>9 DEF IInv

(* One more share in a fragment. *)
LEMMA AppendShare ==
  ASSUME NEW frag \in Fragment, NEW x \in Share(Hash), frag # NoFragment,
         DistinctSigners(frag), ~HasSigner(frag, x.signer)
  PROVE  LET new == WithSigs(frag, Append(frag.sigs, x))
         IN /\ new.hash = frag.hash
            /\ new.sigs \in Seq(Share(Hash))
            /\ Len(new.sigs) = Len(frag.sigs) + 1
            /\ DistinctSigners(new)
            /\ \A i \in DOMAIN new.sigs :
                  \/ i \in DOMAIN frag.sigs /\ new.sigs[i] = frag.sigs[i]
                  \/ new.sigs[i] = x
            /\ \A s : HasSigner(new, s) => HasSigner(frag, s) \/ s = x.signer
<1> DEFINE sigs == Append(frag.sigs, x)
           new == WithSigs(frag, sigs)
<1>1. new.hash = frag.hash /\ new.sigs = sigs
  BY DEF WithSigs
<1>2. frag.sigs \in Seq(Share(Hash))
  <2>1. frag \in [hash : Hash, sigs : Seq(Share(Hash))]
    BY DEF Fragment
  <2>2. QED
    BY <2>1
<1>3. /\ sigs \in Seq(Share(Hash)) /\ Len(sigs) = Len(frag.sigs) + 1
      /\ DOMAIN sigs = 1..Len(sigs) /\ DOMAIN frag.sigs = 1..Len(frag.sigs)
      /\ Len(frag.sigs) \in Nat
      /\ \A i \in 1..Len(frag.sigs) : sigs[i] = frag.sigs[i]
      /\ sigs[Len(sigs)] = x
  BY <1>2
<1> HIDE DEF sigs, new
<1>4. \A i \in DOMAIN sigs : (i \in DOMAIN frag.sigs /\ sigs[i] = frag.sigs[i]) \/ sigs[i] = x
  BY <1>3
<1>5. DistinctSigners(new)
  <2> SUFFICES ASSUME NEW i \in DOMAIN sigs, NEW j \in DOMAIN sigs, sigs[i].signer = sigs[j].signer
               PROVE  i = j
    BY <1>1 DEF DistinctSigners
  <2>1. CASE i \in DOMAIN frag.sigs /\ j \in DOMAIN frag.sigs
    BY <1>3, <2>1 DEF DistinctSigners
  <2>2. CASE i = Len(sigs) /\ j \in DOMAIN frag.sigs
    BY <1>3, <2>2 DEF HasSigner
  <2>3. CASE j = Len(sigs) /\ i \in DOMAIN frag.sigs
    BY <1>3, <2>3 DEF HasSigner
  <2>4. CASE i = Len(sigs) /\ j = Len(sigs)
    BY <2>4
  <2>5. QED
    BY <1>3, <2>1, <2>2, <2>3, <2>4
<1>6. \A s : HasSigner(new, s) => HasSigner(frag, s) \/ s = x.signer
  BY <1>1, <1>4 DEF HasSigner
<1>7. QED
  BY <1>1, <1>3, <1>4, <1>5, <1>6 DEF new, sigs

(* A post reply that is counted adds the share of a worker that vouched for *)
(* the block; a quorum of shares that recovers is one of the leader's own   *)
(* block, which nobody was asked to order yet.                              *)
LEMMA PostReplyQuorum ==
  ASSUME IInv, NEW m \in msgs, PostReplyCounted(m)
  PROVE  LET l == m.dst
             b == m.id
             frag == orderCache[l][b]
             new == WithSigs(frag, Append(frag.sigs, m.share))
         IN /\ new.hash = frag.hash /\ new.sigs \in Seq(Share(Hash))
            /\ Len(frag.sigs) \in Nat /\ Len(frag.sigs) < Quorum
            /\ Len(new.sigs) = Len(frag.sigs) + 1 /\ Len(new.sigs) <= Quorum
            /\ DistinctSigners(new)
            /\ \A i \in DOMAIN new.sigs :
                  \/ i \in DOMAIN frag.sigs /\ new.sigs[i] = frag.sigs[i]
                  \/ new.sigs[i] = m.share
            /\ \A s : HasSigner(new, s) => HasSigner(frag, s) \/ s = m.src
            /\ \A i \in DOMAIN new.sigs :
                  /\ new.sigs[i].msg \in {<<l, b>>, NoHash}
                  /\ Signature("post", new.sigs[i].signer, <<l, b>>) \in signed
            /\ b <= blockIdCounter[l]
            /\ Len(new.sigs) = Quorum /\ PenRecovers(new.sigs, frag.hash)
                 => frag.hash = <<l, b>> /\ Backed(<<l, b>>) /\ Unordered(<<l, b>>)
<1> DEFINE l == m.dst
           b == m.id
           frag == orderCache[l][b]
           new == WithSigs(frag, Append(frag.sigs, m.share))
           recovered == Len(new.sigs) = Quorum /\ PenRecovers(new.sigs, frag.hash)
<1>1. m.type = "postReply" /\ frag # NoFragment /\ Len(frag.sigs) # Quorum
  BY DEF PostReplyCounted, IsFull
<1>2. /\ m \in Reply /\ m.src \in Server /\ l \in Leaders /\ l \in Server /\ b \in BlockId
      /\ m.share \in Share(Hash) /\ <<l, b>> \in Hash
  BY <1>1, ReplyFields DEF IInv, Hash
<1>3. /\ m.share = PenSign(m.src, <<l, b>>)
      /\ m.share.signer = m.src /\ m.share.msg \in {<<l, b>>, NoHash}
      /\ Signature("post", m.src, <<l, b>>) \in signed
      /\ ~HasSigner(frag, m.src)
  BY <1>1, PenSignFields DEF IInv, PostReplies
<1>4. frag \in Fragment /\ frag.hash \in Hash
  BY <1>1, <1>2, FragmentTypes, Zenon DEF IInv, TypeOK
<1>5. /\ Len(frag.sigs) <= Quorum
      /\ DistinctSigners(frag)
      /\ \A i \in DOMAIN frag.sigs :
            /\ frag.sigs[i].msg \in {<<l, b>>, NoHash}
            /\ Signature("post", frag.sigs[i].signer, <<l, b>>) \in signed
  BY <1>2 DEF IInv, PostFragments
<1>6. /\ new.hash = frag.hash
      /\ new.sigs \in Seq(Share(Hash))
      /\ Len(new.sigs) = Len(frag.sigs) + 1
      /\ DistinctSigners(new)
      /\ \A i \in DOMAIN new.sigs :
            \/ i \in DOMAIN frag.sigs /\ new.sigs[i] = frag.sigs[i]
            \/ new.sigs[i] = m.share
      /\ \A s : HasSigner(new, s) => HasSigner(frag, s) \/ s = m.src
  BY <1>1, <1>2, <1>3, <1>4, <1>5, AppendShare, Zenon
<1> HIDE DEF new, recovered, frag
<1>7. Len(frag.sigs) \in Nat /\ Len(frag.sigs) < Quorum /\ Len(new.sigs) <= Quorum
  <2>1. Len(frag.sigs) \in Nat
    BY <1>1, <1>4 DEF Fragment
  <2>2. QED
    BY <1>1, <1>5, <1>6, <2>1, QuorumValues
<1>8. \A i \in DOMAIN new.sigs :
         /\ new.sigs[i].msg \in {<<l, b>>, NoHash}
         /\ Signature("post", new.sigs[i].signer, <<l, b>>) \in signed
  BY <1>3, <1>5, <1>6
<1>9. b <= blockIdCounter[l]
  <2>1. blockIdCounter[l] \in Int /\ b \in Int
    BY <1>2 DEF IInv, TypeOK, BlockId
  <2>2. ~(b > blockIdCounter[l])
    BY <1>2, <1>3 DEF IInv, UnpublishedUnsigned
  <2>3. QED
    BY <2>1, <2>2
<1>10. recovered => frag.hash = <<l, b>> /\ Backed(<<l, b>>)
  <2> SUFFICES ASSUME recovered PROVE frag.hash = <<l, b>> /\ Backed(<<l, b>>)
    OBVIOUS
  <2>1. Len(new.sigs) = Quorum /\ new.sigs[1].msg = frag.hash
    BY QuorumValues DEF PenRecovers, recovered
  <2>2. frag.hash = <<l, b>>
    <3>1. 1 \in DOMAIN new.sigs
      BY <1>6, <2>1, QuorumValues
    <3>2. new.sigs[1].msg \in {<<l, b>>, NoHash}
      BY <1>8, <3>1
    <3>3. QED
      BY <1>4, <2>1, <3>2, ReplicationAssumption
  <2>3. ASSUME NEW i \in DOMAIN new.sigs PROVE new.sigs[i].signer \in PostSigners(<<l, b>>)
    <3>1. new.sigs[i] \in Share(Hash)
      BY <1>6
    <3>2. new.sigs[i].signer \in Server
      BY <3>1 DEF Share
    <3>3. QED
      BY <1>8, <3>2 DEF PostSigners
  <2>4. PostSigners(<<l, b>>) \in SUBSET Server
    BY DEF PostSigners
  <2>5. \A i, j \in DOMAIN new.sigs : new.sigs[i].signer = new.sigs[j].signer => i = j
    BY <1>6 DEF DistinctSigners
  <2>6. Cardinality(PostSigners(<<l, b>>)) >= Quorum
    BY <1>6, <2>1, <2>3, <2>4, <2>5, QuorumOfSigners
  <2>7. QED
    BY <2>2, <2>6 DEF Backed
<1>11. recovered => Unordered(<<l, b>>)
  BY <1>2, <1>7, <1>10 DEF IInv, OrderedOnce, frag
<1>12. QED
  BY <1>6, <1>7, <1>8, <1>9, <1>10, <1>11, Zenon DEF new, recovered, frag

LEMMA PostReplyCountedStep ==
  ASSUME IInv, TypeOK', NEW m \in msgs, PostReplyCounted(m)
  PROVE  IInv'
<1> DEFINE l == m.dst
           b == m.id
           frag == orderCache[l][b]
           new == WithSigs(frag, Append(frag.sigs, m.share))
           recovered == Len(new.sigs) = Quorum /\ PenRecovers(new.sigs, frag.hash)
           sent == Broadcast(l, "order", b, frag.hash)
<1>1. /\ m.type = "postReply"
      /\ frag # NoFragment /\ Len(frag.sigs) # Quorum
      /\ orderCache' = [orderCache EXCEPT ![l][b] = new]
      /\ recovered => /\ msgs' = (msgs \ {m}) \cup sent
                      /\ refreshing' = [refreshing EXCEPT ![l] = @ \cup {b}]
      /\ ~recovered => msgs' = msgs \ {m} /\ refreshing' = refreshing
      /\ UNCHANGED <<blockIdCounter, publishing, commitCache, signed, committed>>
  BY DEF PostReplyCounted, QuorumRecovered, IsFull, WithSigs
<1>2. /\ m \in Reply /\ m.src \in Server /\ l \in Leaders /\ l \in Server /\ b \in BlockId
      /\ m.share \in Share(Hash) /\ <<l, b>> \in Hash
  BY <1>1, ReplyFields DEF IInv, Hash
<1>3. m.share = PenSign(m.src, <<l, b>>) /\ ~HasSigner(frag, m.src)
  BY <1>1 DEF IInv, PostReplies
<1>4. /\ new.hash = frag.hash /\ new.sigs \in Seq(Share(Hash))
      /\ Len(frag.sigs) \in Nat /\ Len(frag.sigs) < Quorum
      /\ Len(new.sigs) = Len(frag.sigs) + 1 /\ Len(new.sigs) <= Quorum
      /\ DistinctSigners(new)
      /\ \A s : HasSigner(new, s) => HasSigner(frag, s) \/ s = m.src
      /\ \A i \in DOMAIN new.sigs :
            /\ new.sigs[i].msg \in {<<l, b>>, NoHash}
            /\ Signature("post", new.sigs[i].signer, <<l, b>>) \in signed
      /\ b <= blockIdCounter[l]
      /\ recovered => frag.hash = <<l, b>> /\ Backed(<<l, b>>) /\ Unordered(<<l, b>>)
  BY PostReplyQuorum, Zenon
<1> HIDE DEF new, recovered, frag
<1>5. \A t \in Server, c \in BlockId :
         orderCache'[t][c] = IF t = l /\ c = b THEN new ELSE orderCache[t][c]
  <2>1. orderCache \in [Server -> [BlockId -> Fragment]]
    BY DEF IInv, TypeOK
  <2>2. QED
    BY <1>1, <1>2, <2>1, CacheUpdate
<1>6. \A n \in msgs' : n \in msgs \ {m} \/ (recovered /\ n \in sent)
  BY <1>1
<1>7. \A n \in sent : n.type = "order" /\ n.src = l /\ n.id = b /\ n.hash = frag.hash
                       /\ n.dst # l
  BY BroadcastFields
<1>8. \A n \in sent : n.dst \in Server
  BY <1>2, BroadcastDestination DEF IInv, Phase
<1> HIDE DEF sent
<1>9. \A n \in msgs' : n.type # "order" => n \in msgs \ {m}
  BY <1>6, <1>7
<1>10. PostReplies'
  <2> SUFFICES ASSUME NEW n \in msgs \ {m}, n.type = "postReply"
               PROVE  ~HasSigner(orderCache[n.dst][n.id], n.src)'
    BY <1>1, <1>9 DEF IInv, PostReplies
  <2>1. /\ n \in Reply /\ n.dst \in Server /\ n.id \in BlockId
        /\ n.share = PenSign(n.src, <<n.dst, n.id>>)
        /\ ~HasSigner(orderCache[n.dst][n.id], n.src)
    BY ReplyFields DEF IInv, PostReplies
  <2>2. CASE n.dst = l /\ n.id = b
    <3>1. n.src # m.src
      BY <1>1, <1>2, <1>3, <2>1, <2>2, SameReply
    <3>2. orderCache'[n.dst][n.id] = new
      BY <1>5, <2>1, <2>2
    <3>3. ~HasSigner(new, n.src)
      BY <1>4, <2>1, <2>2, <3>1 DEF frag
    <3>4. QED
      BY <3>2, <3>3 DEF HasSigner
  <2>3. CASE ~(n.dst = l /\ n.id = b)
    <3>1. orderCache'[n.dst][n.id] = orderCache[n.dst][n.id]
      BY <1>5, <2>1, <2>3
    <3>2. QED
      BY <2>1, <3>1, Zenon DEF HasSigner
  <2>4. QED
    BY <2>2, <2>3
<1>11. PostFragments'
  <2> SUFFICES ASSUME NEW k \in Leaders, NEW c \in BlockId
               PROVE  /\ Len(orderCache'[k][c].sigs) <= Quorum
                      /\ DistinctSigners(orderCache'[k][c])
                      /\ \A i \in DOMAIN orderCache'[k][c].sigs :
                           LET share == orderCache'[k][c].sigs[i]
                           IN /\ share.msg \in {<<k, c>>, NoHash}
                              /\ Signature("post", share.signer, <<k, c>>) \in signed'
    BY Zenon DEF PostFragments
  <2>1. signed' = signed
    BY <1>1
  <2>2. CASE k = l /\ c = b
    BY <1>2, <1>4, <1>5, <2>1, <2>2
  <2>3. CASE ~(k = l /\ c = b)
    BY <1>5, <2>1, <2>3, ReplicationAssumption DEF IInv, PostFragments
  <2>4. QED
    BY <2>2, <2>3, Zenon
<1>12. OrderedOnce'
  <2> SUFFICES ASSUME NEW k \in Leaders, NEW c \in BlockId,
                      \/ c > blockIdCounter[k]
                      \/ orderCache'[k][c].hash = <<k, c>> /\ Len(orderCache'[k][c].sigs) < Quorum
               PROVE  Unordered(<<k, c>>)'
    BY <1>1, Zenon DEF OrderedOnce
  <2>1. Unordered(<<k, c>>)
    <3>1. CASE k = l /\ c = b
      BY <1>2, <1>4, <1>5, <3>1, QuorumValues DEF IInv, OrderedOnce, frag
    <3>2. CASE ~(k = l /\ c = b)
      BY <1>5, <3>2, ReplicationAssumption DEF IInv, OrderedOnce
    <3>3. QED
      BY <3>1, <3>2
  <2>2. recovered => ~(k = l /\ c = b)
    <3> SUFFICES ASSUME recovered, k = l, c = b PROVE FALSE
      OBVIOUS
    <3>1. blockIdCounter[l] \in Int /\ b \in Int
      BY <1>2 DEF IInv, TypeOK, BlockId
    <3>2. orderCache'[k][c] = new
      BY <1>2, <1>5
    <3>3. QED
      BY <1>4, <3>1, <3>2, QuorumValues DEF recovered
  <2>3. \A n \in msgs' : n.type = "order" => n.hash # <<k, c>>
    BY <1>4, <1>6, <1>7, <2>1, <2>2 DEF Unordered
  <2>4. c \notin refreshing'[k]
    <3>1. refreshing \in [Leaders -> SUBSET BlockId]
      BY DEF IInv, TypeOK
    <3>2. QED
      BY <1>1, <2>1, <2>2, <3>1 DEF Unordered
  <2>5. QED
    BY <1>1, <2>1, <2>3, <2>4, Zenon DEF Unordered
<1>13. OrderEntries'
  <2> SUFFICES ASSUME NEW n \in msgs', n.type = "order"
               PROVE  /\ n.hash = <<n.src, n.id>> /\ n.src # n.dst
                      /\ Signature("order", n.dst, n.hash) \notin signed
                      /\ Backed(n.hash)
    BY <1>1 DEF OrderEntries, Backed, PostSigners
  <2>1. CASE n \in msgs
    BY <2>1 DEF IInv, OrderEntries
  <2>2. CASE recovered /\ n \in sent
    BY <1>4, <1>7, <1>8, <2>2 DEF Unordered
  <2>3. QED
    BY <1>6, <2>1, <2>2
<1>14. RefreshingBacked'
  <2> SUFFICES ASSUME NEW k \in Leaders, NEW c \in refreshing'[k] PROVE Backed(<<k, c>>)
    BY <1>1 DEF RefreshingBacked, Backed, PostSigners
  <2>1. refreshing \in [Leaders -> SUBSET BlockId]
    BY DEF IInv, TypeOK
  <2>2. c \in refreshing[k] \/ (recovered /\ k = l /\ c = b)
    BY <1>1, <2>1
  <2>3. QED
    BY <1>4, <2>2 DEF IInv, RefreshingBacked
<1>15. UnpublishedUnsigned' /\ PostEntries' /\ CommitEntries' /\ OrderReplies'
  BY <1>1, <1>9 DEF IInv, UnpublishedUnsigned, PostEntries, CommitEntries, OrderReplies,
                    HasSigner
<1>16. CommitCacheOrdered' /\ CommitFragments'
  BY <1>1 DEF IInv, CommitCacheOrdered, CommitFragments, DistinctSigners
<1>17. OrderBacked' /\ CommitBacked'
  BY <1>1, QuorumPartsStay
<1>18. QED
  BY <1>10, <1>11, <1>12, <1>13, <1>14, <1>15, <1>16, <1>17, Zenon DEF IInv

(* One more share for the order of a block that is backed. *)
LEMMA OrderShareAdded ==
  ASSUME IInv, NEW s \in Server, NEW h \in Hash, Backed(h),
         signed' = signed \cup {Signature("order", s, h)}, UNCHANGED committed
  PROVE  OrderBacked' /\ CommitBacked'
<1>1. CommitBacked'
  BY BackedStays DEF IInv, CommitBacked
<1>2. OrderBacked'
  <2> SUFFICES ASSUME NEW t \in Server, NEW g \in Hash, Signature("order", t, g) \in signed'
               PROVE  Backed(g)'
    BY DEF OrderBacked, Backed
  <2>1. Backed(g)
    BY SignatureFields DEF IInv, OrderBacked, Backed
  <2>2. QED
    BY <2>1, BackedStays
<1>3. QED
  BY <1>1, <1>2

LEMMA RefreshStep ==
  ASSUME IInv, TypeOK', NEW l \in Leaders, NEW b \in BlockId, RefreshCommitFragment(l, b)
  PROVE  IInv'
<1> DEFINE frag == commitCache[l][b]
           h == frag.hash
           g == Signature("order", l, h)
<1>1. /\ b \in refreshing[l] /\ l \in Server
      /\ refreshing' = [refreshing EXCEPT ![l] = @ \ {b}]
      /\ UNCHANGED <<blockIdCounter, publishing, orderCache, msgs, committed>>
  BY ReplicationAssumption DEF RefreshCommitFragment
<1>2. /\ refreshing \in [Leaders -> SUBSET BlockId]
      /\ commitCache \in [Server -> [BlockId -> Fragment]]
      /\ frag \in Fragment
  BY <1>1 DEF IInv, TypeOK
<1>3. \A k \in Leaders : refreshing'[k] \subseteq refreshing[k]
  BY <1>1, <1>2
<1>4. CASE frag = NoFragment
  <2>1. UNCHANGED <<commitCache, signed>>
    BY <1>4, Zenon DEF RefreshCommitFragment
  <2>2. UnpublishedUnsigned' /\ PostEntries' /\ PostReplies' /\ PostFragments'
    BY <1>1, <2>1 DEF IInv, UnpublishedUnsigned, PostEntries, PostReplies, PostFragments,
                      HasSigner, DistinctSigners
  <2>3. OrderedOnce'
    BY <1>1, <1>3, <2>1 DEF IInv, OrderedOnce, Unordered
  <2>4. OrderEntries' /\ OrderBacked' /\ CommitBacked'
    BY <1>1, <2>1 DEF IInv, OrderEntries, OrderBacked, CommitBacked, Backed, PostSigners,
                      OrderSigners
  <2>5. RefreshingBacked'
    BY <1>1, <1>3, <2>1, Zenon DEF IInv, RefreshingBacked, Backed, PostSigners
  <2>6. CommitCacheOrdered' /\ OrderReplies' /\ CommitFragments' /\ CommitEntries'
    BY <1>1, <2>1 DEF IInv, CommitCacheOrdered, OrderReplies, CommitFragments, CommitEntries,
                      DistinctSigners, HasSigner
  <2>7. QED
    BY <2>2, <2>3, <2>4, <2>5, <2>6 DEF IInv
<1>5. CASE frag # NoFragment
  <2> DEFINE new == WithSigs(frag, <<PenSign(l, h)>>)
  <2>1. /\ commitCache' = [commitCache EXCEPT ![l][b] = new]
        /\ signed' = signed \cup {g}
    BY <1>5 DEF RefreshCommitFragment
  <2>2. h \in Hash /\ h # NoHash /\ l \notin BadKey
    BY <1>2, <1>5, FragmentTypes, ReplicationAssumption
  <2>3. new.hash = h /\ new.sigs = <<[signer |-> l, msg |-> h]>>
    BY <2>2, PenSignFields DEF WithSigs
  <2>4. h = <<l, b>> \/ g \in signed
    BY <1>1, <2>2 DEF IInv, CommitCacheOrdered
  <2>5. Backed(h)
    BY <1>1, <2>2, <2>4 DEF IInv, RefreshingBacked, OrderBacked, Backed
  <2> HIDE DEF new
  <2>6. \A t \in Server, c \in BlockId :
           commitCache'[t][c] = IF t = l /\ c = b THEN new ELSE commitCache[t][c]
    BY <1>1, <1>2, <2>1, CacheUpdate
  <2> HIDE DEF frag, h
  <2>7. signed \subseteq signed' /\ g = Signature("order", l, h)
    BY <2>1
  <2>8. OrderBacked' /\ CommitBacked'
    BY <1>1, <2>1, <2>2, <2>5, OrderShareAdded
  <2>9. \A s, k : Signature("post", s, k) \in signed' => Signature("post", s, k) \in signed
    BY <2>1, SignatureFields
  <2>10. \A s, k : Signature("order", s, k) \in signed'
                     => Signature("order", s, k) \in signed \/ (s = l /\ k = h /\ h = <<l, b>>)
    BY <2>1, <2>4, SignatureFields
  <2> HIDE DEF g
  <2>11. UnpublishedUnsigned' /\ PostEntries'
    BY <1>1, <2>9, Zenon DEF IInv, UnpublishedUnsigned, PostEntries
  <2>12. PostReplies' /\ PostFragments'
    BY <1>1, <2>7 DEF IInv, PostReplies, PostFragments, HasSigner, DistinctSigners
  <2>13. OrderedOnce'
    <3> SUFFICES ASSUME NEW k \in Leaders, NEW c \in BlockId, Unordered(<<k, c>>)
                 PROVE  Unordered(<<k, c>>)'
      BY <1>1 DEF IInv, OrderedOnce
    <3>1. <<k, c>> # <<l, b>>
      BY <1>1 DEF Unordered
    <3>2. QED
      BY <1>1, <1>3, <2>10, <3>1 DEF Unordered
  <2>14. OrderEntries'
    <3> SUFFICES ASSUME NEW n \in msgs, n.type = "order"
                 PROVE  Signature("order", n.dst, n.hash) \notin signed' /\ Backed(n.hash)'
      BY <1>1 DEF IInv, OrderEntries
    <3>1. /\ n.hash = <<n.src, n.id>> /\ n.src # n.dst
          /\ Signature("order", n.dst, n.hash) \notin signed /\ Backed(n.hash)
      BY DEF IInv, OrderEntries
    <3>2. QED
      BY <2>7, <2>10, <3>1, BackedStays
  <2>15. RefreshingBacked'
    BY <1>3, <2>7, BackedStays DEF IInv, RefreshingBacked
  <2>16. CommitCacheOrdered'
    <3> SUFFICES ASSUME NEW t \in Server, NEW c \in BlockId,
                        commitCache'[t][c].hash # NoHash, commitCache'[t][c].hash # <<t, c>>
                 PROVE  Signature("order", t, commitCache'[t][c].hash) \in signed'
      BY DEF CommitCacheOrdered
    <3>1. commitCache'[t][c].hash = commitCache[t][c].hash
      BY <2>3, <2>6, Zenon DEF h, frag
    <3>2. QED
      BY <2>7, <3>1 DEF IInv, CommitCacheOrdered
  <2>17. OrderReplies'
    <3> SUFFICES ASSUME NEW n \in msgs, n.type = "orderReply"
                 PROVE  ~HasSigner(commitCache[n.dst][n.id], n.src)'
      BY <1>1, <2>7 DEF IInv, OrderReplies
    <3>1. /\ n.dst \in Server /\ n.id \in BlockId /\ n.src # n.dst
          /\ ~HasSigner(commitCache[n.dst][n.id], n.src)
      BY ReplyFields DEF IInv, OrderReplies
    <3>2. QED
      BY <2>3, <2>6, <3>1 DEF HasSigner
  <2>18. CommitFragments'
    <3> SUFFICES ASSUME NEW k \in Leaders, NEW c \in BlockId
                 PROVE  /\ DistinctSigners(commitCache'[k][c])
                        /\ \A i \in DOMAIN commitCache'[k][c].sigs :
                             LET share == commitCache'[k][c].sigs[i]
                                 d == IF share.signer = k THEN commitCache'[k][c].hash ELSE <<k, c>>
                             IN /\ share.msg = d /\ d # NoHash
                                /\ Signature("order", share.signer, d) \in signed'
      BY Zenon DEF CommitFragments
    <3>1. CASE k = l /\ c = b
      BY <1>1, <2>1, <2>2, <2>3, <2>6, <3>1 DEF DistinctSigners, g
    <3>2. CASE ~(k = l /\ c = b)
      BY <2>6, <2>7, <3>2, ReplicationAssumption DEF IInv, CommitFragments
    <3>3. QED
      BY <3>1, <3>2
  <2>19. CommitEntries'
    BY <1>1 DEF IInv, CommitEntries
  <2>20. QED
    BY <2>8, <2>11, <2>12, <2>13, <2>14, <2>15, <2>16, <2>17, <2>18, <2>19 DEF IInv
<1>6. QED
  BY <1>4, <1>5

LEMMA OrderEntryAcceptedStep ==
  ASSUME IInv, TypeOK', NEW m \in msgs, OrderEntryAccepted(m)
  PROVE  IInv'
<1> DEFINE h == orderCache[m.dst][m.id].hash
           r == ReplyTo(m, "orderReply", h)
           g == Signature("order", m.dst, h)
<1>1. /\ m.type = "order" /\ OrderEntryVerifies(m)
      /\ commitCache' = [commitCache EXCEPT ![m.dst][m.id] = NewFragment(h)]
      /\ msgs' = (msgs \ {m}) \cup {r}
      /\ signed' = signed \cup {g}
      /\ UNCHANGED <<blockIdCounter, publishing, orderCache, refreshing, committed>>
  BY DEF OrderEntryAccepted
<1>2. /\ m \in Entry /\ m.src \in Leaders /\ m.src \in Server /\ m.dst \in Server
      /\ m.id \in BlockId /\ m.hash \in Hash
  BY <1>1, EntryFields DEF IInv, Phase
<1>3. h = m.hash /\ m.dst \notin BadKey
  BY <1>1 DEF OrderEntryVerifies, PenVerify
<1>4. /\ m.hash = <<m.src, m.id>> /\ m.src # m.dst /\ Backed(m.hash)
      /\ Signature("order", m.dst, m.hash) \notin signed
  BY <1>1 DEF IInv, OrderEntries
<1>5. /\ r.type = "orderReply" /\ r.src = m.dst /\ r.dst = m.src /\ r.id = m.id
      /\ r.share = [signer |-> r.src, msg |-> <<r.dst, r.id>>]
  BY <1>3, <1>4, PenSignFields DEF ReplyTo
<1> HIDE DEF h, r
<1>6. signed \subseteq signed' /\ g = Signature("order", m.dst, m.hash)
  BY <1>1, <1>3
<1> HIDE DEF g
<1>7. OrderBacked' /\ CommitBacked'
  BY <1>1, <1>2, <1>4, <1>6, OrderShareAdded
<1>8. \A s, k : Signature("post", s, k) \in signed' => Signature("post", s, k) \in signed
  BY <1>1, <1>6, SignatureFields
<1>9. \A s, k : Signature("order", s, k) \in signed'
                  => Signature("order", s, k) \in signed \/ (s = m.dst /\ k = m.hash)
  BY <1>1, <1>6, SignatureFields
<1>10. \A n \in msgs' : n.type # "orderReply" => n \in msgs \ {m}
  BY <1>1, <1>5
<1>11. /\ CommitCacheOrdered' /\ CommitFragments'
       /\ \A t \in Server, c \in BlockId, w \in Server :
             ~HasSigner(commitCache[t][c], w) => ~HasSigner(commitCache[t][c], w)'
  <2> DEFINE f == NewFragment(h)
  <2>1. /\ f \in Fragment /\ f.sigs = << >> /\ f.hash = m.hash
        /\ Signature("order", m.dst, f.hash) \in signed'
    BY <1>1, <1>2, <1>3, <1>6, FragmentTypes, NewFragmentEmpty
  <2>2. commitCache' = [commitCache EXCEPT ![m.dst][m.id] = f]
    BY <1>1
  <2> HIDE DEF f
  <2>3. QED
    BY <1>2, <1>6, <2>1, <2>2, CommitCacheReplaced
<1>12. UnpublishedUnsigned' /\ PostEntries'
  BY <1>1, <1>8, <1>10 DEF IInv, UnpublishedUnsigned, PostEntries
<1>13. PostReplies' /\ PostFragments'
  BY <1>1, <1>6, <1>10 DEF IInv, PostReplies, PostFragments, HasSigner, DistinctSigners
<1>14. OrderedOnce'
  <2> SUFFICES ASSUME NEW l \in Leaders, NEW b \in BlockId, Unordered(<<l, b>>)
               PROVE  Unordered(<<l, b>>)'
    BY <1>1 DEF IInv, OrderedOnce
  <2>1. <<l, b>> # m.hash
    BY <1>1 DEF Unordered
  <2>2. QED
    BY <1>1, <1>9, <1>10, <2>1 DEF Unordered
<1>15. OrderEntries'
  <2> SUFFICES ASSUME NEW n \in msgs \ {m}, n.type = "order"
               PROVE  Signature("order", n.dst, n.hash) \notin signed' /\ Backed(n.hash)'
    BY <1>10 DEF IInv, OrderEntries
  <2>1. /\ n \in Entry /\ n.hash = <<n.src, n.id>> /\ Backed(n.hash)
        /\ Signature("order", n.dst, n.hash) \notin signed
    BY EntryFields DEF IInv, OrderEntries, Phase
  <2>2. ~(n.dst = m.dst /\ n.hash = m.hash)
    BY <1>1, <1>2, <1>4, <2>1, SameEntry
  <2>3. QED
    BY <1>6, <1>9, <2>1, <2>2, BackedStays
<1>16. RefreshingBacked'
  BY <1>1, <1>6, BackedStays DEF IInv, RefreshingBacked
<1>17. OrderReplies'
  <2>1. ~HasSigner(commitCache[m.src][m.id], m.dst)
    BY <1>2, <1>4 DEF IInv, CommitFragments, HasSigner
  <2>2. ~HasSigner(commitCache[m.src][m.id], m.dst)'
    BY <1>2, <1>11, <2>1
  <2> SUFFICES ASSUME NEW n \in msgs', n.type = "orderReply"
               PROVE  /\ n.src # n.dst
                      /\ n.share = [signer |-> n.src, msg |-> <<n.dst, n.id>>]
                      /\ Signature("order", n.src, <<n.dst, n.id>>) \in signed'
                      /\ ~HasSigner(commitCache[n.dst][n.id], n.src)'
    BY DEF OrderReplies
  <2>3. CASE n = r
    BY <1>1, <1>4, <1>5, <1>6, <2>2, <2>3
  <2>4. CASE n \in msgs
    <3>1. n.dst \in Server /\ n.id \in BlockId /\ n.src \in Server
      BY <2>4, ReplyFields DEF IInv
    <3>2. QED
      BY <1>6, <1>11, <2>4, <3>1 DEF IInv, OrderReplies
  <2>5. QED
    BY <1>1, <2>3, <2>4
<1>18. CommitEntries'
  BY <1>1, <1>10 DEF IInv, CommitEntries
<1>19. QED
  BY <1>7, <1>11, <1>12, <1>13, <1>14, <1>15, <1>16, <1>17, <1>18 DEF IInv

(* An order reply that is counted adds the share of a worker that ordered   *)
(* the block; a quorum of shares that recovers is one of the leader's own   *)
(* block.                                                                   *)
LEMMA OrderReplyQuorum ==
  ASSUME IInv, NEW m \in msgs, OrderReplyCounted(m)
  PROVE  LET l == m.dst
             b == m.id
             frag == commitCache[l][b]
             new == WithSigs(frag, Append(frag.sigs, m.share))
         IN /\ new.hash = frag.hash
            /\ DistinctSigners(new)
            /\ \A s : HasSigner(new, s) => HasSigner(frag, s) \/ s = m.src
            /\ \A i \in DOMAIN new.sigs :
                 LET share == new.sigs[i]
                     h == IF share.signer = l THEN frag.hash ELSE <<l, b>>
                 IN share.msg = h /\ h # NoHash /\ Signature("order", share.signer, h) \in signed
            /\ Len(new.sigs) = Quorum /\ PenRecovers(new.sigs, frag.hash)
                 => frag.hash = <<l, b>> /\ Cardinality(OrderSigners(<<l, b>>)) >= Quorum
<1> DEFINE l == m.dst
           b == m.id
           frag == commitCache[l][b]
           new == WithSigs(frag, Append(frag.sigs, m.share))
           recovered == Len(new.sigs) = Quorum /\ PenRecovers(new.sigs, frag.hash)
<1>1. m.type = "orderReply" /\ frag # NoFragment
  BY DEF OrderReplyCounted, QuorumRecovered, IsFull
<1>2. /\ m \in Reply /\ m.src \in Server /\ l \in Leaders /\ l \in Server /\ b \in BlockId
      /\ m.share \in Share(Hash) /\ <<l, b>> \in Hash
  BY <1>1, ReplyFields DEF IInv, Hash
<1>3. /\ m.src # l
      /\ m.share = [signer |-> m.src, msg |-> <<l, b>>]
      /\ m.share.signer = m.src /\ m.share.msg = <<l, b>>
      /\ Signature("order", m.src, <<l, b>>) \in signed
      /\ ~HasSigner(frag, m.src)
  BY <1>1 DEF IInv, OrderReplies
<1>4. frag \in Fragment /\ frag.hash \in Hash
  BY <1>1, <1>2, FragmentTypes, Zenon DEF IInv, TypeOK
<1>5. /\ DistinctSigners(frag)
      /\ \A i \in DOMAIN frag.sigs :
           LET share == frag.sigs[i]
               h == IF share.signer = l THEN frag.hash ELSE <<l, b>>
           IN share.msg = h /\ h # NoHash /\ Signature("order", share.signer, h) \in signed
  BY <1>2, Zenon DEF IInv, CommitFragments
<1>6. /\ new.hash = frag.hash
      /\ new.sigs \in Seq(Share(Hash))
      /\ DistinctSigners(new)
      /\ \A i \in DOMAIN new.sigs :
            \/ i \in DOMAIN frag.sigs /\ new.sigs[i] = frag.sigs[i]
            \/ new.sigs[i] = m.share
      /\ \A s : HasSigner(new, s) => HasSigner(frag, s) \/ s = m.src
  BY <1>1, <1>2, <1>3, <1>4, <1>5, AppendShare, Zenon
<1> HIDE DEF new, recovered
<1>7. \A i \in DOMAIN new.sigs :
        LET share == new.sigs[i]
            h == IF share.signer = l THEN frag.hash ELSE <<l, b>>
        IN share.msg = h /\ h # NoHash /\ Signature("order", share.signer, h) \in signed
  BY <1>2, <1>3, <1>5, <1>6, ReplicationAssumption, Zenon
<1> HIDE DEF frag
<1>8. recovered => frag.hash = <<l, b>> /\ Cardinality(OrderSigners(<<l, b>>)) >= Quorum
  <2> SUFFICES ASSUME recovered
               PROVE  frag.hash = <<l, b>> /\ Cardinality(OrderSigners(<<l, b>>)) >= Quorum
    OBVIOUS
  <2>1. /\ Len(new.sigs) = Quorum
        /\ new.sigs[1].msg = frag.hash /\ new.sigs[2].msg = frag.hash
    BY QuorumValues DEF PenRecovers, recovered
  <2>2. 1 \in DOMAIN new.sigs /\ 2 \in DOMAIN new.sigs
    BY <1>6, <2>1, QuorumValues
  <2>3. new.sigs[1].signer # l \/ new.sigs[2].signer # l
    <3>1. new.sigs[1].signer = new.sigs[2].signer => 1 = 2
      BY <1>6, <2>2 DEF DistinctSigners
    <3>2. QED
      BY <3>1
  <2>4. frag.hash = <<l, b>>
    BY <1>7, <2>1, <2>2, <2>3
  <2>5. ASSUME NEW i \in DOMAIN new.sigs PROVE new.sigs[i].signer \in OrderSigners(<<l, b>>)
    <3>1. new.sigs[i] \in Share(Hash)
      BY <1>6
    <3>2. new.sigs[i].signer \in Server
      BY <3>1 DEF Share
    <3>3. QED
      BY <1>7, <2>4, <3>2 DEF OrderSigners
  <2>6. OrderSigners(<<l, b>>) \in SUBSET Server
    BY DEF OrderSigners
  <2>7. \A i, j \in DOMAIN new.sigs : new.sigs[i].signer = new.sigs[j].signer => i = j
    BY <1>6 DEF DistinctSigners
  <2>8. QED
    BY <1>6, <2>1, <2>4, <2>5, <2>6, <2>7, QuorumOfSigners
<1>9. QED
  BY <1>6, <1>7, <1>8, Zenon DEF new, recovered, frag

LEMMA OrderReplyCountedStep ==
  ASSUME IInv, TypeOK', NEW m \in msgs, OrderReplyCounted(m)
  PROVE  IInv'
<1> DEFINE l == m.dst
           b == m.id
           frag == commitCache[l][b]
           new == WithSigs(frag, Append(frag.sigs, m.share))
           recovered == Len(new.sigs) = Quorum /\ PenRecovers(new.sigs, frag.hash)
           sent == Broadcast(l, "commit", b, frag.hash)
<1>1. /\ m.type = "orderReply"
      /\ frag # NoFragment
      /\ commitCache' = [commitCache EXCEPT ![l][b] = new]
      /\ recovered => /\ msgs' = (msgs \ {m}) \cup sent
                      /\ committed' = [committed EXCEPT ![l] = @ \cup {frag.hash}]
      /\ ~recovered => msgs' = msgs \ {m} /\ committed' = committed
      /\ UNCHANGED <<blockIdCounter, publishing, orderCache, refreshing, signed>>
  BY DEF OrderReplyCounted, QuorumRecovered, IsFull, WithSigs
<1>2. /\ m \in Reply /\ m.src \in Server /\ l \in Leaders /\ l \in Server /\ b \in BlockId
      /\ m.share \in Share(Hash) /\ <<l, b>> \in Hash
  BY <1>1, ReplyFields DEF IInv, Hash
<1>3. /\ m.src # l
      /\ m.share = [signer |-> m.src, msg |-> <<l, b>>]
      /\ m.share.signer = m.src /\ m.share.msg = <<l, b>>
      /\ Signature("order", m.src, <<l, b>>) \in signed
      /\ ~HasSigner(frag, m.src)
  BY <1>1 DEF IInv, OrderReplies
<1>4. /\ new.hash = frag.hash
      /\ DistinctSigners(new)
      /\ \A s : HasSigner(new, s) => HasSigner(frag, s) \/ s = m.src
      /\ \A i \in DOMAIN new.sigs :
           LET share == new.sigs[i]
               h == IF share.signer = l THEN frag.hash ELSE <<l, b>>
           IN share.msg = h /\ h # NoHash /\ Signature("order", share.signer, h) \in signed
      /\ recovered => frag.hash = <<l, b>> /\ Cardinality(OrderSigners(<<l, b>>)) >= Quorum
  BY OrderReplyQuorum, Zenon
<1>7. \A t \in Server, c \in BlockId :
         commitCache'[t][c] = IF t = l /\ c = b THEN new ELSE commitCache[t][c]
  <2>1. commitCache \in [Server -> [BlockId -> Fragment]]
    BY DEF IInv, TypeOK
  <2>2. QED
    BY <1>1, <1>2, <2>1, CacheUpdate
<1> HIDE DEF new, recovered, sent, frag
<1>10. \A n \in msgs' : n \in msgs \ {m} \/ (recovered /\ n \in sent)
  BY <1>1
<1>11. \A n \in sent : n.type = "commit" /\ n.src = l /\ n.id = b /\ n.hash = frag.hash
                       /\ n.dst # l
  BY BroadcastFields DEF sent
<1>12. \A n \in msgs' : n.type # "commit" => n \in msgs \ {m}
  BY <1>10, <1>11
<1>13. committed \in [Server -> SUBSET Hash]
  BY DEF IInv, TypeOK
<1>14. CommitBacked'
  <2> SUFFICES ASSUME NEW s \in Server, NEW h \in committed'[s]
               PROVE  Cardinality(OrderSigners(h)) >= Quorum
    BY <1>1 DEF CommitBacked, OrderSigners
  <2>1. h \in committed[s] \/ (recovered /\ h = frag.hash)
    BY <1>1, <1>2, <1>13
  <2>2. QED
    BY <1>4, <2>1 DEF IInv, CommitBacked
<1>15. CommitEntries'
  <2> SUFFICES ASSUME NEW n \in msgs', n.type = "commit"
               PROVE  n.src # n.dst /\ n.hash = <<n.src, n.id>> /\ n.hash \in committed'[n.src]
    BY DEF CommitEntries
  <2>1. CASE n \in msgs
    <3>1. n.src \in Server
      BY <2>1, EntryFields DEF IInv, Phase
    <3>2. QED
      BY <1>1, <1>2, <1>13, <2>1, <3>1 DEF IInv, CommitEntries
  <2>2. CASE recovered /\ n \in sent
    BY <1>1, <1>2, <1>4, <1>11, <1>13, <2>2
  <2>3. QED
    BY <1>10, <2>1, <2>2
<1>16. OrderReplies'
  <2> SUFFICES ASSUME NEW n \in msgs \ {m}, n.type = "orderReply"
               PROVE  ~HasSigner(commitCache[n.dst][n.id], n.src)'
    BY <1>1, <1>12 DEF IInv, OrderReplies
  <2>1. /\ n \in Reply /\ n.dst \in Server /\ n.id \in BlockId
        /\ n.share = [signer |-> n.src, msg |-> <<n.dst, n.id>>]
        /\ ~HasSigner(commitCache[n.dst][n.id], n.src)
    BY ReplyFields DEF IInv, OrderReplies
  <2>2. CASE n.dst = l /\ n.id = b
    <3>1. n.src # m.src
      BY <1>1, <1>2, <1>3, <2>1, <2>2, SameReply
    <3>2. ~HasSigner(new, n.src)
      BY <1>4, <2>1, <2>2, <3>1 DEF frag
    <3>3. commitCache'[n.dst][n.id] = new
      BY <1>7, <2>1, <2>2
    <3>4. QED
      BY <3>2, <3>3 DEF HasSigner
  <2>3. CASE ~(n.dst = l /\ n.id = b)
    <3>1. commitCache'[n.dst][n.id] = commitCache[n.dst][n.id]
      BY <1>7, <2>1, <2>3
    <3>2. QED
      BY <2>1, <3>1, Zenon DEF HasSigner
  <2>4. QED
    BY <2>2, <2>3
<1>17. CommitFragments'
  <2> SUFFICES ASSUME NEW k \in Leaders, NEW c \in BlockId
               PROVE  /\ DistinctSigners(commitCache'[k][c])
                      /\ \A i \in DOMAIN commitCache'[k][c].sigs :
                           LET share == commitCache'[k][c].sigs[i]
                               h == IF share.signer = k THEN commitCache'[k][c].hash ELSE <<k, c>>
                           IN /\ share.msg = h /\ h # NoHash
                              /\ Signature("order", share.signer, h) \in signed'
    BY Zenon DEF CommitFragments
  <2>1. signed' = signed
    BY <1>1, Zenon
  <2>2. CASE k = l /\ c = b
    BY <1>2, <1>4, <1>7, <2>1, <2>2
  <2>3. CASE ~(k = l /\ c = b)
    BY <1>7, <2>1, <2>3, ReplicationAssumption DEF IInv, CommitFragments
  <2>4. QED
    BY <2>2, <2>3, Zenon
<1>18. CommitCacheOrdered'
  <2>1. \A t \in Server, c \in BlockId : commitCache'[t][c].hash = commitCache[t][c].hash
    BY <1>4, <1>7, Zenon DEF frag
  <2>2. QED
    BY <1>1, <2>1 DEF IInv, CommitCacheOrdered
<1>19. UnpublishedUnsigned' /\ PostEntries' /\ PostReplies' /\ PostFragments'
  BY <1>1, <1>12, SMTT(60) DEF IInv, UnpublishedUnsigned, PostEntries, PostReplies, PostFragments,
                     HasSigner, DistinctSigners
<1>20. OrderedOnce'
  BY <1>1, <1>12 DEF IInv, OrderedOnce, Unordered
<1>21. OrderEntries' /\ RefreshingBacked' /\ OrderBacked'
  BY <1>1, <1>12 DEF IInv, OrderEntries, RefreshingBacked, OrderBacked, Backed, PostSigners
<1>22. QED
  BY <1>14, <1>15, <1>16, <1>17, <1>18, <1>19, <1>20, <1>21, Zenon DEF IInv

-----------------------------------------------------------------------------
(* IInv is preserved by every step. *)
LEMMA InvStep == IInv /\ [Next]_vars => IInv'
<1> SUFFICES ASSUME IInv, [Next]_vars PROVE IInv'
  OBVIOUS
<1>1. TypeOK'
  BY TypeStep DEF IInv
<1>2. ASSUME NEW m \in msgs, PostEntryRejected(m) \/ OrderEntryRejected(m) \/ CommitEntryRejected(m)
                             \/ PostReplyAfterQuorum(m) \/ OrderReplyIgnored(m)
                             \/ PostReplyWithoutFragment(m)
      PROVE IInv'
  <2>1. msgs' \subseteq msgs /\ UNCHANGED invVars
    BY <1>2 DEF PostEntryRejected, OrderEntryRejected, CommitEntryRejected, PostReplyArrived,
                PostReplyAfterQuorum, OrderReplyIgnored, PostReplyWithoutFragment, invVars
  <2>2. QED
    BY <1>1, <2>1, FewerMessages
<1>3. ASSUME NEW l \in Leaders, NEW w \in Server, NEW p \in Phase, RegisterWorker(l, w, p)
      PROVE  IInv'
  BY <1>1, <1>3, FewerMessages DEF RegisterWorker, invVars
<1>4. ASSUME NEW s \in Server, Crash(s) PROVE IInv'
  BY <1>1, <1>4, FewerMessages DEF Crash, invVars
<1>5. CASE UNCHANGED vars
  BY <1>1, <1>5, FewerMessages DEF vars, invVars
<1>6. QED
  BY <1>1, <1>2, <1>3, <1>4, <1>5, PackBlockStep, DisseminateStep, ClearCachesStep, RefreshStep,
     PostEntryAcceptedStep, PostReplyCountedStep, OrderEntryAcceptedStep, OrderReplyCountedStep,
     CommitEntryAcceptedStep DEF Next, Continue, HandleSome, Handle

(* The inductive invariant holds in every reachable state. *)
THEOREM Invariance == Spec => []IInv
BY InvInit, InvStep, PTL DEF Spec

(* A server's share for the order phase is backed by a quorum of servers    *)
(* that vouched for the digest in the post phase, for every cluster, any    *)
(* number of leaders packing at once, crashes and foreign keys.             *)
THEOREM OrdersAreBacked == Spec => []OrderBacked
<1>1. IInv => OrderBacked
  BY DEF IInv
<1>2. QED
  BY <1>1, Invariance, PTL

(* A committed block was ordered by a quorum of servers, under the same     *)
(* generality.                                                              *)
THEOREM CommitsAreBacked == Spec => []CommitBacked
<1>1. IInv => CommitBacked
  BY DEF IInv
<1>2. QED
  BY <1>1, Invariance, PTL

-----------------------------------------------------------------------------
(* Replication implements BlockCommit.                                      *)

bcVars == <<acceptedBy, preparedBy, committedBy>>

(* The mapped variables depend on the histories only. *)
LEMMA SameHistory ==
  /\ UNCHANGED signed => UNCHANGED <<acceptedBy, preparedBy>>
  /\ UNCHANGED committed => UNCHANGED committedBy
BY DEF acceptedBy, preparedBy, committedBy, PostSigners, OrderSigners

(* A new share of one phase is a new vote of that phase. *)
LEMMA PostShareVotes ==
  ASSUME NEW s \in Server, NEW h \in Hash, signed' = signed \cup {Signature("post", s, h)},
         UNCHANGED committed
  PROVE  BC!Accept(s, h)
<1>1. /\ \A g \in Hash : PostSigners(g)' = IF g = h THEN PostSigners(g) \cup {s} ELSE PostSigners(g)
      /\ \A g \in Hash : OrderSigners(g)' = OrderSigners(g)
  BY SignatureFields DEF PostSigners, OrderSigners
<1>2. acceptedBy' = [acceptedBy EXCEPT ![h] = @ \cup {s}]
  BY <1>1 DEF acceptedBy
<1>3. UNCHANGED preparedBy
  BY <1>1 DEF preparedBy
<1>4. QED
  BY <1>2, <1>3, SameHistory DEF BC!Accept

LEMMA OrderShareVotes ==
  ASSUME NEW s \in Server, NEW h \in Hash, signed' = signed \cup {Signature("order", s, h)},
         UNCHANGED committed, Backed(h)
  PROVE  BC!Prepare(s, h)
<1>1. /\ \A g \in Hash : OrderSigners(g)' = IF g = h THEN OrderSigners(g) \cup {s} ELSE OrderSigners(g)
      /\ \A g \in Hash : PostSigners(g)' = PostSigners(g)
  BY SignatureFields DEF PostSigners, OrderSigners
<1>2. preparedBy' = [preparedBy EXCEPT ![h] = @ \cup {s}]
  BY <1>1 DEF preparedBy
<1>3. UNCHANGED acceptedBy
  BY <1>1 DEF acceptedBy
<1>4. acceptedBy[h] \in Quorums
  BY DEF acceptedBy, Backed, Quorums, PostSigners
<1>5. QED
  BY <1>2, <1>3, <1>4, SameHistory DEF BC!Prepare

(* A block that a server newly holds as committed. *)
LEMMA CommitVotes ==
  ASSUME TypeOK, NEW s \in Server, NEW h \in Hash, UNCHANGED signed,
         committed' = [committed EXCEPT ![s] = @ \cup {h}],
         Cardinality(OrderSigners(h)) >= Quorum,
         s = h[1] \/ (Signature("order", s, h) \in signed /\ h[1] \in Server /\ h \in committed[h[1]])
  PROVE  BC!Commit(s, h)
<1>1. committed \in [Server -> SUBSET Hash]
  BY DEF TypeOK
<1>2. \A t \in Server, g \in Hash :
         g \in committed'[t] <=> g \in committed[t] \/ (t = s /\ g = h)
  BY <1>1
<1>3. committedBy' = [committedBy EXCEPT ![h] = @ \cup {s}]
  <2>1. \A g \in Hash : {t \in Server : g \in committed'[t]}
           = IF g = h THEN {t \in Server : g \in committed[t]} \cup {s}
                      ELSE {t \in Server : g \in committed[t]}
    BY <1>2
  <2>2. QED
    BY <2>1, ZenonT(60) DEF committedBy
<1>4. preparedBy[h] \in Quorums
  BY DEF preparedBy, Quorums, OrderSigners
<1>5. s = h[1] \/ (s \in preparedBy[h] /\ h[1] \in committedBy[h])
  BY DEF preparedBy, committedBy, OrderSigners
<1>6. QED
  BY <1>3, <1>4, <1>5, SameHistory DEF BC!Commit

-----------------------------------------------------------------------------
LEMMA RefinementInit == Init => BC!Init
BY DEF Init, BC!Init, acceptedBy, preparedBy, committedBy, PostSigners, OrderSigners

LEMMA AcceptRefines ==
  ASSUME IInv, NEW m \in msgs, PostEntryAccepted(m)
  PROVE  \E s \in Server, h \in Hash : BC!Accept(s, h)
<1>1. m.dst \in Server /\ m.hash \in Hash
  BY EntryFields DEF IInv, PostEntryAccepted, Phase
<1>2. signed' = signed \cup {Signature("post", m.dst, m.hash)} /\ UNCHANGED committed
  BY DEF PostEntryAccepted
<1>3. QED
  BY <1>1, <1>2, PostShareVotes

(* The worker's order entry carries the digest it has cached, which its     *)
(* leader broadcast after a quorum of post replies.                         *)
LEMMA OrderEntryRefines ==
  ASSUME IInv, NEW m \in msgs, OrderEntryAccepted(m)
  PROVE  \E s \in Server, h \in Hash : BC!Prepare(s, h)
<1> DEFINE h == orderCache[m.dst][m.id].hash
<1>1. m.type = "order" /\ m.dst \in Server /\ m.hash \in Hash
  BY EntryFields DEF IInv, OrderEntryAccepted, Phase
<1>2. h = m.hash
  BY DEF OrderEntryAccepted, OrderEntryVerifies, PenVerify
<1>3. signed' = signed \cup {Signature("order", m.dst, h)} /\ UNCHANGED committed
  BY DEF OrderEntryAccepted
<1>4. Backed(m.hash)
  BY <1>1 DEF IInv, OrderEntries
<1>5. QED
  BY <1>1, <1>2, <1>3, <1>4, OrderShareVotes

(* The leader's own share is for its own block, ordered by the handler that *)
(* refreshes the fragment, or for a block it ordered as a worker before.    *)
LEMMA RefreshRefines ==
  ASSUME IInv, NEW l \in Leaders, NEW b \in BlockId, RefreshCommitFragment(l, b)
  PROVE  (\E s \in Server, h \in Hash : BC!Prepare(s, h)) \/ UNCHANGED bcVars
<1> DEFINE frag == commitCache[l][b]
           h == frag.hash
<1>1. b \in refreshing[l] /\ l \in Server /\ UNCHANGED committed
  BY ReplicationAssumption DEF RefreshCommitFragment
<1>2. CASE frag = NoFragment
  <2>1. UNCHANGED signed
    BY <1>2 DEF RefreshCommitFragment
  <2>2. QED
    BY <1>1, <2>1, SameHistory DEF bcVars
<1>3. CASE frag # NoFragment
  <2>1. signed' = signed \cup {Signature("order", l, h)}
    BY <1>3 DEF RefreshCommitFragment
  <2>2. frag \in Fragment
    BY <1>1 DEF IInv, TypeOK
  <2>3. h \in Hash /\ h # NoHash
    BY <1>3, <2>2, FragmentTypes, ReplicationAssumption
  <2>4. h = <<l, b>> \/ Signature("order", l, h) \in signed
    BY <1>1, <2>3 DEF IInv, CommitCacheOrdered
  <2>5. Backed(h)
    BY <1>1, <2>3, <2>4 DEF IInv, RefreshingBacked, OrderBacked, Backed
  <2>6. QED
    BY <1>1, <2>1, <2>3, <2>5, OrderShareVotes
<1>4. QED
  BY <1>2, <1>3

LEMMA LeaderCommitRefines ==
  ASSUME IInv, NEW m \in msgs, OrderReplyCounted(m)
  PROVE  (\E s \in Server, h \in Hash : BC!Commit(s, h)) \/ UNCHANGED bcVars
<1> DEFINE l == m.dst
           b == m.id
           frag == commitCache[l][b]
           sigs == Append(frag.sigs, m.share)
           recovered == Len(sigs) = Quorum /\ PenRecovers(sigs, frag.hash)
<1>1. m.type = "orderReply" /\ UNCHANGED signed
  BY DEF OrderReplyCounted, QuorumRecovered, IsFull
<1>2. l \in Leaders /\ l \in Server /\ b \in BlockId /\ <<l, b>> \in Hash
  BY <1>1, ReplyFields DEF IInv, Hash
<1>3. CASE ~recovered
  <2>1. UNCHANGED committed
    BY <1>3 DEF OrderReplyCounted, QuorumRecovered, IsFull
  <2>2. QED
    BY <1>1, <2>1, SameHistory DEF bcVars
<1>4. CASE recovered
  <2>1. committed' = [committed EXCEPT ![l] = @ \cup {frag.hash}]
    BY <1>4 DEF OrderReplyCounted, QuorumRecovered, IsFull
  <2>2. WithSigs(frag, sigs).sigs = sigs
    BY Zenon DEF WithSigs
  <2>3. frag.hash = <<l, b>> /\ Cardinality(OrderSigners(<<l, b>>)) >= Quorum
    BY <1>4, <2>2, OrderReplyQuorum, Zenon
  <2>4. BC!Commit(l, <<l, b>>)
    BY <1>1, <1>2, <2>1, <2>3, CommitVotes DEF IInv
  <2>5. QED
    BY <1>2, <2>4
<1>5. QED
  BY <1>3, <1>4

LEMMA WorkerCommitRefines ==
  ASSUME IInv, NEW m \in msgs, CommitEntryAccepted(m)
  PROVE  \E s \in Server, h \in Hash : BC!Commit(s, h)
<1> DEFINE h == commitCache[m.dst][m.id].hash
<1>1. m.type = "commit" /\ UNCHANGED signed
  BY DEF CommitEntryAccepted
<1>2. /\ m.src \in Leaders /\ m.src \in Server /\ m.dst \in Server
      /\ m.id \in BlockId /\ m.hash \in Hash
  BY <1>1, EntryFields DEF IInv, Phase
<1>3. h = m.hash
  BY DEF CommitEntryAccepted, CommitEntryVerifies, PenVerify
<1>4. m.src # m.dst /\ m.hash = <<m.src, m.id>> /\ m.hash \in committed[m.src]
  BY <1>1 DEF IInv, CommitEntries
<1>5. m.hash[1] = m.src /\ h # NoHash /\ h # <<m.dst, m.id>>
  BY <1>2, <1>3, <1>4, ReplicationAssumption
<1>6. Signature("order", m.dst, m.hash) \in signed
  BY <1>2, <1>3, <1>5 DEF IInv, CommitCacheOrdered
<1>7. Cardinality(OrderSigners(m.hash)) >= Quorum
  BY <1>2, <1>4 DEF IInv, CommitBacked
<1>8. committed' = [committed EXCEPT ![m.dst] = @ \cup {m.hash}]
  BY <1>3 DEF CommitEntryAccepted
<1>9. BC!Commit(m.dst, m.hash)
  BY <1>1, <1>2, <1>4, <1>5, <1>6, <1>7, <1>8, CommitVotes DEF IInv
<1>10. QED
  BY <1>2, <1>9

LEMMA RefinementStep == IInv /\ [Next]_vars => [BC!Next]_bcVars
<1> SUFFICES ASSUME IInv, [Next]_vars PROVE BC!Next \/ UNCHANGED bcVars
  OBVIOUS
<1>1. ASSUME UNCHANGED <<signed, committed>> PROVE UNCHANGED bcVars
  BY <1>1, SameHistory DEF bcVars
<1>2. ASSUME NEW m \in msgs, Handle(m) PROVE BC!Next \/ UNCHANGED bcVars
  <2>1. CASE PostEntryAccepted(m)
    BY <2>1, AcceptRefines DEF BC!Next
  <2>2. CASE OrderEntryAccepted(m)
    BY <2>2, OrderEntryRefines DEF BC!Next
  <2>3. CASE OrderReplyCounted(m)
    BY <2>3, LeaderCommitRefines DEF BC!Next
  <2>4. CASE CommitEntryAccepted(m)
    BY <2>4, WorkerCommitRefines, Zenon DEF BC!Next
  <2>5. CASE \/ PostEntryRejected(m) \/ OrderEntryRejected(m) \/ CommitEntryRejected(m)
             \/ PostReplyAfterQuorum(m) \/ OrderReplyIgnored(m)
             \/ PostReplyWithoutFragment(m) \/ PostReplyCounted(m)
    BY <1>1, <2>5 DEF PostEntryRejected, OrderEntryRejected, CommitEntryRejected,
                      PostReplyAfterQuorum, IsFull, OrderReplyIgnored, PostReplyWithoutFragment,
                      PostReplyCounted, QuorumRecovered, IsFull
  <2>6. QED
    BY <1>2, <2>1, <2>2, <2>3, <2>4, <2>5 DEF Handle
<1>3. ASSUME NEW l \in Leaders, Continue(l) PROVE BC!Next \/ UNCHANGED bcVars
  <2>1. ASSUME NEW b \in BlockId, RefreshCommitFragment(l, b) PROVE BC!Next \/ UNCHANGED bcVars
    BY <2>1, RefreshRefines DEF BC!Next
  <2>2. ASSUME NEW b \in BlockId, Disseminate(l, b) \/ ClearCaches(l, b) PROVE UNCHANGED bcVars
    BY <1>1, <2>2 DEF Disseminate, ClearCaches
  <2>3. QED
    BY <1>3, <2>1, <2>2 DEF Continue
<1>4. ASSUME NEW l \in Leaders, PackBlock(l) PROVE UNCHANGED bcVars
  BY <1>1, <1>4 DEF PackBlock
<1>5. ASSUME NEW l \in Leaders, NEW w \in Server, NEW p \in Phase, RegisterWorker(l, w, p)
      PROVE  UNCHANGED bcVars
  BY <1>1, <1>5 DEF RegisterWorker
<1>6. ASSUME NEW s \in Server, Crash(s) PROVE UNCHANGED bcVars
  BY <1>1, <1>6 DEF Crash
<1>7. CASE UNCHANGED vars
  BY <1>1, <1>7 DEF vars
<1>8. QED
  BY <1>2, <1>3, <1>4, <1>5, <1>6, <1>7 DEF Next, HandleSome

(* Every behaviour of the three phases, with any number of leaders, late    *)
(* and dropped messages, reset fragments and crashes, is one of BlockCommit *)
(* (asyncPackAndDisseminateBlocks to incrementCommitIndex).                 *)
THEOREM Refinement == Spec => ImplementsBlockCommit
<1>1. IInv /\ [Next]_vars => [BC!Next]_(BC!vars)
  BY RefinementStep DEF BC!vars, bcVars
<1>2. QED
  BY RefinementInit, <1>1, Invariance, PTL DEF Spec, ImplementsBlockCommit, BC!Spec
=============================================================================
