----------------------- MODULE ReplicationCountingProofs -----------------------
(***************************************************************************)
(* What the counting of shares and commits guarantees beyond IInv: what is *)
(* ordered or committed is certified by servers with the keys of the       *)
(* cluster (CertInv), a server commits a block once (CountInv), and late   *)
(* post replies do no harm where the quorum takes every worker (PanicInv). *)
(***************************************************************************)
EXTENDS ReplicationSafetyProofs

(* A fragment without shares, as they are put into the caches. *)
Fresh(frag) == frag.sigs = << >>

LEMMA FreshFragments == Fresh(NoFragment) /\ \A h : Fresh(NewFragment(h))
BY DEF Fresh, NoFragment, NewFragment

(* What a step does to the history of shares. *)
LEMMA SignedGrows == [Next]_vars => signed \subseteq signed'
BY ZenonT(60) DEF Next, Continue, HandleSome, Handle, vars, PackBlock, Disseminate,
       RefreshCommitFragment, ClearCaches, PostEntryRejected, PostEntryAccepted, PostReplyWithoutFragment,
       PostReplyAfterQuorum, PostReplyCounted, OrderEntryRejected, OrderEntryAccepted,
       OrderReplyIgnored, OrderReplyCounted, CommitEntryRejected, CommitEntryAccepted,
       RegisterWorker, Crash

-----------------------------------------------------------------------------
(* Certificates stay certificates. *)
LEMMA CertifiedStays ==
  ASSUME signed \subseteq signed', NEW h, Certified(h)
  PROVE  Certified(h)'
<1>1. PostSigners(h) \ BadKey \subseteq (PostSigners(h) \ BadKey)'
  BY DEF PostSigners
<1>2. IsFiniteSet((PostSigners(h) \ BadKey)')
  BY FS_Subset, ServerAssumption DEF PostSigners
<1>3. Cardinality(PostSigners(h) \ BadKey) <= Cardinality((PostSigners(h) \ BadKey)')
  BY <1>1, <1>2, FS_Subset
<1>4. /\ Cardinality(PostSigners(h) \ BadKey) \in Nat
      /\ Cardinality((PostSigners(h) \ BadKey)') \in Nat
  BY <1>1, <1>2, FS_Subset, FS_CardinalityType
<1>5. QED
  BY <1>3, <1>4, QuorumValues DEF Certified

(* A step that neither counts a post reply nor adds a share of the order    *)
(* phase.                                                                   *)
LEMMA CertQuiet ==
  ASSUME CertInv, signed \subseteq signed',
         \A s \in Server, h \in Hash :
            Signature("order", s, h) \in signed' => Signature("order", s, h) \in signed,
         \A l \in Leaders, b \in BlockId :
            Fresh(orderCache'[l][b]) \/ orderCache'[l][b] = orderCache[l][b],
         \A m \in msgs' : m.type = "order" => m \in msgs,
         \A l \in Leaders : refreshing'[l] \subseteq refreshing[l]
  PROVE  CertInv'
<1>1. PostFragmentsByKey'
  BY DEF CertInv, PostFragmentsByKey, Fresh
<1>2. OrderEntriesCertified'
  BY CertifiedStays DEF CertInv, OrderEntriesCertified
<1>3. RefreshingCertified'
  BY CertifiedStays DEF CertInv, RefreshingCertified
<1>4. OrderSignersCertified'
  BY CertifiedStays DEF CertInv, OrderSignersCertified
<1>5. QED
  BY <1>1, <1>2, <1>3, <1>4 DEF CertInv

(* The shares that a recovery reads verify, so their signers hold the keys. *)
LEMMA PostReplyCertifies ==
  ASSUME IInv, CertInv, NEW m \in msgs, PostReplyCounted(m)
  PROVE  LET frag == orderCache[m.dst][m.id]
             new == WithSigs(frag, Append(frag.sigs, m.share))
         IN /\ \A i \in DOMAIN new.sigs : new.sigs[i].msg # NoHash => new.sigs[i].signer \notin BadKey
            /\ Len(new.sigs) = Quorum /\ PenRecovers(new.sigs, frag.hash) => Certified(<<m.dst, m.id>>)
<1> DEFINE h == <<m.dst, m.id>>
           frag == orderCache[m.dst][m.id]
           new == WithSigs(frag, Append(frag.sigs, m.share))
           recovered == Len(new.sigs) = Quorum /\ PenRecovers(new.sigs, frag.hash)
<1>1. m.type = "postReply" /\ frag # NoFragment
  BY DEF PostReplyCounted
<1>2. /\ m.dst \in Leaders /\ m.id \in BlockId /\ h \in Hash
      /\ m.share = PenSign(m.src, h)
  BY <1>1, ReplyFields DEF IInv, PostReplies, Hash
<1>3. /\ new.sigs \in Seq(Share(Hash))
      /\ \A i \in DOMAIN new.sigs :
            \/ i \in DOMAIN frag.sigs /\ new.sigs[i] = frag.sigs[i]
            \/ new.sigs[i] = m.share
      /\ \A i \in DOMAIN new.sigs : Signature("post", new.sigs[i].signer, h) \in signed
      /\ recovered => frag.hash = h
  BY PostReplyQuorum, Zenon
<1> HIDE DEF new
<1>4. /\ \A i \in DOMAIN new.sigs : new.sigs[i] \in Share(Hash)
      /\ Len(new.sigs) = Quorum => DOMAIN new.sigs = 1..Quorum
  BY <1>3, QuorumValues
<1>5. \A i \in DOMAIN new.sigs : new.sigs[i].msg # NoHash => new.sigs[i].signer \notin BadKey
  BY <1>2, <1>3 DEF CertInv, PostFragmentsByKey, PenSign
<1>6. ASSUME recovered PROVE Certified(h)
  <2> DEFINE S == PostSigners(h) \ BadKey
  <2>1. ASSUME NEW i \in 1..Threshold PROVE new.sigs[i].signer \in S
    <3>1. i \in DOMAIN new.sigs
      BY <1>6, <1>4, QuorumValues
    <3>2. new.sigs[i].msg = h /\ h # NoHash
      BY <1>2, <1>3, <1>6, ReplicationAssumption DEF PenRecovers
    <3>3. new.sigs[i].signer \in Server
      BY <1>4, <3>1 DEF Share
    <3>4. QED
      BY <1>3, <1>5, <3>1, <3>2, <3>3 DEF PostSigners
  <2>2. \A i, j \in 1..Threshold : new.sigs[i].signer = new.sigs[j].signer => i = j
    BY <1>6 DEF PenRecovers
  <2>3. S \in SUBSET Server /\ Threshold \in Nat
    BY QuorumValues DEF PostSigners
  <2> HIDE DEF S
  <2>4. Cardinality(S) >= Threshold
    BY <2>1, <2>2, <2>3, CountSigners
  <2>5. QED
    BY <2>4 DEF Certified, S
<1>7. QED
  BY <1>5, <1>6, Zenon DEF new

LEMMA PostReplyCountedCert ==
  ASSUME IInv, CertInv, NEW m \in msgs, PostReplyCounted(m)
  PROVE  CertInv'
<1> DEFINE l == m.dst
           b == m.id
           frag == orderCache[l][b]
           new == WithSigs(frag, Append(frag.sigs, m.share))
           recovered == Len(new.sigs) = Quorum /\ PenRecovers(new.sigs, frag.hash)
           sent == Broadcast(l, "order", b, frag.hash)
<1>1. /\ m.type = "postReply"
      /\ orderCache' = [orderCache EXCEPT ![l][b] = new]
      /\ recovered => /\ msgs' = (msgs \ {m}) \cup sent
                      /\ refreshing' = [refreshing EXCEPT ![l] = @ \cup {b}]
      /\ ~recovered => msgs' = msgs \ {m} /\ refreshing' = refreshing
      /\ UNCHANGED signed
  BY DEF PostReplyCounted, QuorumRecovered, IsFull, WithSigs
<1>2. l \in Leaders /\ l \in Server /\ b \in BlockId
  BY <1>1, ReplyFields DEF IInv
<1>3. /\ \A i \in DOMAIN new.sigs : new.sigs[i].msg # NoHash => new.sigs[i].signer \notin BadKey
      /\ recovered => frag.hash = <<l, b>> /\ Certified(<<l, b>>)
  BY PostReplyCertifies, PostReplyQuorum, Zenon
<1>4. \A t \in Server, c \in BlockId :
         orderCache'[t][c] = IF t = l /\ c = b THEN new ELSE orderCache[t][c]
  <2>1. orderCache \in [Server -> [BlockId -> Fragment]]
    BY DEF IInv, TypeOK
  <2>2. QED
    BY <1>1, <1>2, <2>1, CacheUpdate
<1> HIDE DEF new, recovered, frag
<1>5. \A n \in sent : n.hash = frag.hash
  BY BroadcastFields
<1> HIDE DEF sent
<1>6. PostFragmentsByKey'
  BY <1>3, <1>4, ReplicationAssumption DEF CertInv, PostFragmentsByKey
<1>7. OrderEntriesCertified'
  <2> SUFFICES ASSUME NEW n \in msgs', n.type = "order" PROVE Certified(n.hash)
    BY <1>1, CertifiedStays DEF OrderEntriesCertified
  <2>1. QED
    BY <1>1, <1>3, <1>5 DEF CertInv, OrderEntriesCertified
<1>8. RefreshingCertified'
  <2> SUFFICES ASSUME NEW k \in Leaders, NEW c \in refreshing'[k] PROVE Certified(<<k, c>>)
    BY <1>1, CertifiedStays DEF RefreshingCertified
  <2>1. refreshing \in [Leaders -> SUBSET BlockId]
    BY DEF IInv, TypeOK
  <2>2. c \in refreshing[k] \/ (recovered /\ k = l /\ c = b)
    BY <1>1, <2>1
  <2>3. QED
    BY <1>3, <2>2 DEF CertInv, RefreshingCertified
<1>9. OrderSignersCertified'
  BY <1>1, CertifiedStays DEF CertInv, OrderSignersCertified
<1>10. QED
  BY <1>6, <1>7, <1>8, <1>9, Zenon DEF CertInv

(* A step that adds one share of the order phase, of a certified block and  *)
(* by a server with the keys.                                               *)
LEMMA CertOrderShare ==
  ASSUME CertInv, NEW s \in Server \ BadKey, NEW h \in Hash, Certified(h),
         signed' = signed \cup {Signature("order", s, h)},
         UNCHANGED orderCache,
         \A m \in msgs' : m.type = "order" => m \in msgs,
         \A l \in Leaders : refreshing'[l] \subseteq refreshing[l]
  PROVE  CertInv'
<1>1. PostFragmentsByKey'
  BY DEF CertInv, PostFragmentsByKey
<1>2. OrderEntriesCertified'
  BY CertifiedStays DEF CertInv, OrderEntriesCertified
<1>3. RefreshingCertified'
  BY CertifiedStays DEF CertInv, RefreshingCertified
<1>4. OrderSignersCertified'
  <2> SUFFICES ASSUME NEW t \in Server, NEW g \in Hash, Signature("order", t, g) \in signed'
               PROVE  t \notin BadKey /\ Certified(g)'
    BY DEF OrderSignersCertified
  <2>1. Signature("order", t, g) \in signed \/ (t = s /\ g = h)
    BY SignatureFields
  <2>2. QED
    BY <2>1, CertifiedStays DEF CertInv, OrderSignersCertified
<1>5. QED
  BY <1>1, <1>2, <1>3, <1>4 DEF CertInv

LEMMA RefreshCert ==
  ASSUME IInv, CertInv, NEW l \in Leaders, NEW b \in BlockId, RefreshCommitFragment(l, b)
  PROVE  CertInv'
<1> DEFINE h == commitCache[l][b].hash
<1>1. /\ b \in refreshing[l]
      /\ refreshing' = [refreshing EXCEPT ![l] = @ \ {b}]
      /\ UNCHANGED <<orderCache, msgs>>
      /\ l \in Server /\ l \notin BadKey
      /\ refreshing \in [Leaders -> SUBSET BlockId]
  BY ReplicationAssumption DEF RefreshCommitFragment, IInv, TypeOK
<1>2. \A k \in Leaders : refreshing'[k] \subseteq refreshing[k]
  BY <1>1
<1>3. CASE commitCache[l][b] = NoFragment
  <2>1. UNCHANGED signed
    BY <1>3 DEF RefreshCommitFragment
  <2>2. QED
    BY <1>1, <1>2, <2>1, CertQuiet
<1>4. CASE commitCache[l][b] # NoFragment
  <2>1. h \in Hash /\ h # NoHash
    BY <1>1, <1>4, FragmentTypes, ReplicationAssumption DEF IInv, TypeOK
  <2>2. signed' = signed \cup {Signature("order", l, h)}
    BY <1>4 DEF RefreshCommitFragment
  <2>3. Certified(h)
    <3>1. CASE h = <<l, b>>
      BY <1>1, <3>1 DEF CertInv, RefreshingCertified
    <3>2. CASE h # <<l, b>>
      BY <1>1, <2>1, <3>2 DEF IInv, CommitCacheOrdered, CertInv, OrderSignersCertified
    <3>3. QED
      BY <3>1, <3>2
  <2> HIDE DEF h
  <2>4. QED
    BY <1>1, <1>2, <2>1, <2>2, <2>3, CertOrderShare
<1>5. QED
  BY <1>3, <1>4

LEMMA OrderEntryAcceptedCert ==
  ASSUME IInv, CertInv, NEW m \in msgs, OrderEntryAccepted(m)
  PROVE  CertInv'
<1> DEFINE h == orderCache[m.dst][m.id].hash
<1>1. /\ m.type = "order" /\ m.dst \notin BadKey /\ h = m.hash
      /\ msgs' = (msgs \ {m}) \cup {ReplyTo(m, "orderReply", h)}
      /\ signed' = signed \cup {Signature("order", m.dst, h)}
      /\ UNCHANGED <<orderCache, refreshing>>
  BY DEF OrderEntryAccepted, OrderEntryVerifies, PenVerify
<1>2. m.dst \in Server /\ h \in Hash
  BY <1>1, EntryFields DEF IInv, Phase
<1>3. Certified(h)
  BY <1>1 DEF CertInv, OrderEntriesCertified
<1>4. ReplyTo(m, "orderReply", h).type = "orderReply"
  BY DEF ReplyTo
<1> HIDE DEF h
<1>5. QED
  BY <1>1, <1>2, <1>3, <1>4, CertOrderShare

-----------------------------------------------------------------------------
LEMMA CertInit == Init => CertInv
<1> SUFFICES ASSUME Init PROVE CertInv
  OBVIOUS
<1>1. \A l \in Leaders, b \in BlockId : orderCache[l][b].sigs = << >>
  BY ReplicationAssumption DEF Init, NoFragment
<1>2. msgs = {} /\ signed = {} /\ \A l \in Leaders : refreshing[l] = {}
  BY DEF Init
<1>3. QED
  BY <1>1, <1>2 DEF CertInv, PostFragmentsByKey, OrderEntriesCertified, RefreshingCertified,
                    OrderSignersCertified

LEMMA CertStep == IInv /\ CertInv /\ [Next]_vars => CertInv'
<1> SUFFICES ASSUME IInv, CertInv, [Next]_vars PROVE CertInv'
  OBVIOUS
<1>1. orderCache \in [Server -> [BlockId -> Fragment]] /\ Leaders \subseteq Server
  BY ReplicationAssumption DEF IInv, TypeOK
<1>2. ASSUME NEW l \in Leaders, PackBlock(l) PROVE CertInv'
  <2> DEFINE b == blockIdCounter[l] + 1
  <2>1. /\ b \in BlockId /\ orderCache' = [orderCache EXCEPT ![l][b] = NewFragment(<<l, b>>)]
        /\ UNCHANGED <<refreshing, msgs, signed>>
    BY <1>2 DEF PackBlock
  <2>2. \A k \in Leaders, c \in BlockId :
           Fresh(orderCache'[k][c]) \/ orderCache'[k][c] = orderCache[k][c]
    BY <1>1, <2>1, CacheUpdate, FreshFragments
  <2>3. QED
    BY <2>1, <2>2, CertQuiet
<1>3. ASSUME NEW l \in Leaders, NEW b \in BlockId, Disseminate(l, b) PROVE CertInv'
  <2>1. /\ msgs' = msgs \cup Broadcast(l, "post", b, <<l, b>>)
        /\ UNCHANGED <<orderCache, refreshing, signed>>
    BY <1>3 DEF Disseminate
  <2>2. \A m \in msgs' : m.type = "order" => m \in msgs
    BY <2>1, BroadcastFields
  <2>3. QED
    BY <2>1, <2>2, CertQuiet
<1>4. ASSUME NEW l \in Leaders, NEW b \in BlockId, ClearCaches(l, b) PROVE CertInv'
  <2>1. /\ orderCache' = [orderCache EXCEPT ![l][b] = NoFragment]
        /\ UNCHANGED <<refreshing, msgs, signed>>
    BY <1>4 DEF ClearCaches
  <2>2. \A k \in Leaders, c \in BlockId :
           Fresh(orderCache'[k][c]) \/ orderCache'[k][c] = orderCache[k][c]
    BY <1>1, <2>1, CacheUpdate, FreshFragments
  <2>3. QED
    BY <2>1, <2>2, CertQuiet
<1>5. ASSUME NEW m \in msgs, PostEntryAccepted(m) PROVE CertInv'
  <2>1. /\ m.type = "post"
        /\ orderCache' = [orderCache EXCEPT ![m.dst][m.id] = NewFragment(m.hash)]
        /\ msgs' = (msgs \ {m}) \cup {ReplyTo(m, "postReply", m.hash)}
        /\ signed' = signed \cup {Signature("post", m.dst, m.hash)}
        /\ UNCHANGED refreshing
    BY <1>5 DEF PostEntryAccepted
  <2>2. m.dst \in Server /\ m.id \in BlockId
    BY <2>1, EntryFields DEF IInv, Phase
  <2>3. \A k \in Leaders, c \in BlockId :
           Fresh(orderCache'[k][c]) \/ orderCache'[k][c] = orderCache[k][c]
    BY <1>1, <2>1, <2>2, CacheUpdate, FreshFragments
  <2>4. \A n \in msgs' : n.type = "order" => n \in msgs
    BY <2>1 DEF ReplyTo
  <2>5. \A s \in Server, h \in Hash :
           Signature("order", s, h) \in signed' => Signature("order", s, h) \in signed
    BY <2>1, SignatureFields
  <2>6. QED
    BY <2>1, <2>3, <2>4, <2>5, CertQuiet
<1>6. ASSUME NEW m \in msgs, OrderReplyCounted(m) PROVE CertInv'
  <2> DEFINE sent == Broadcast(m.dst, "commit", m.id, commitCache[m.dst][m.id].hash)
  <2>1. /\ msgs' \subseteq msgs \cup sent
        /\ UNCHANGED <<orderCache, refreshing, signed>>
    BY <1>6 DEF OrderReplyCounted
  <2>2. \A n \in sent : n.type = "commit"
    BY BroadcastFields
  <2> HIDE DEF sent
  <2>3. \A n \in msgs' : n.type = "order" => n \in msgs
    BY <2>1, <2>2
  <2>4. QED
    BY <2>1, <2>3, CertQuiet
<1>7. ASSUME NEW m \in msgs,
             \/ PostEntryRejected(m) \/ PostReplyWithoutFragment(m) \/ PostReplyAfterQuorum(m)
             \/ OrderEntryRejected(m) \/ OrderReplyIgnored(m) \/ CommitEntryRejected(m)
             \/ CommitEntryAccepted(m)
      PROVE CertInv'
  <2>1. msgs' \subseteq msgs /\ UNCHANGED <<orderCache, refreshing, signed>>
    BY <1>7 DEF PostEntryRejected, PostReplyWithoutFragment, PostReplyAfterQuorum,
                PostReplyArrived, OrderEntryRejected, OrderReplyIgnored, CommitEntryRejected,
                CommitEntryAccepted
  <2>2. QED
    BY <2>1, CertQuiet
<1>8. ASSUME \/ \E l \in Leaders, w \in Server, p \in Phase : RegisterWorker(l, w, p)
             \/ \E s \in Server : Crash(s)
             \/ UNCHANGED vars
      PROVE CertInv'
  <2>1. UNCHANGED <<orderCache, refreshing, signed, msgs>>
    BY <1>8 DEF RegisterWorker, Crash, vars
  <2>2. QED
    BY <2>1, CertQuiet
<1>9. QED
  BY <1>2, <1>3, <1>4, <1>5, <1>6, <1>7, <1>8, PostReplyCountedCert, RefreshCert,
     OrderEntryAcceptedCert DEF Next, Continue, HandleSome, Handle

(* What CertInv is for. *)
LEMMA CertImplies == IInv /\ CertInv => CertifiedByThreshold
<1> SUFFICES ASSUME IInv, CertInv PROVE CertifiedByThreshold
  OBVIOUS
<1>1. \A s \in Server, h \in Hash :
         Signature("order", s, h) \in signed => Cardinality(PostSigners(h) \ BadKey) >= Threshold
  BY DEF CertInv, OrderSignersCertified, Certified
<1>2. ASSUME NEW s \in Server, NEW h \in committed[s]
      PROVE  Cardinality(OrderSigners(h) \ BadKey) >= Threshold
  <2>1. h \in Hash
    BY <1>2 DEF IInv, TypeOK
  <2>2. OrderSigners(h) \ BadKey = OrderSigners(h)
    BY <2>1 DEF CertInv, OrderSignersCertified, OrderSigners
  <2>3. IsFiniteSet(OrderSigners(h))
    BY FS_Subset, ServerAssumption DEF OrderSigners
  <2>4. Cardinality(OrderSigners(h)) \in Nat /\ Cardinality(OrderSigners(h)) >= Quorum
    BY <1>2, <2>3, FS_CardinalityType DEF IInv, CommitBacked
  <2>5. Cardinality(OrderSigners(h)) >= Threshold
    <3>1. \A n \in Nat : n >= Quorum => n >= Threshold
      BY QuorumValues
    <3>2. QED
      BY <2>4, <3>1
  <2>6. QED
    BY <2>2, <2>5
<1>3. QED
  BY <1>1, <1>2 DEF CertifiedByThreshold

LEMMA CertInvariance == Spec => []CertInv
BY CertInit, CertStep, Invariance, PTL DEF Spec

(* What is ordered or committed has Threshold signers with the keys of the  *)
(* cluster, although leaders count shares they did not verify: for every    *)
(* cluster and any number of servers with other keys.                       *)
THEOREM OrdersAreCertified == Spec => []CertifiedByThreshold
BY CertInvariance, CertImplies, Invariance, PTL

-----------------------------------------------------------------------------
(* Something was signed for a digest that has a quorum of signers. *)
LEMMA QuorumNotEmpty ==
  ASSUME NEW S, Cardinality(S) >= Quorum
  PROVE  S # {}
<1>1. Cardinality({}) = 0
  BY FS_EmptySet
<1>2. QED
  BY <1>1, QuorumValues

(* A block that was ordered or committed had been sent out. *)
LEMMA OrderedWasPublished ==
  ASSUME IInv, NEW l \in Leaders, NEW b \in BlockId, NEW s \in Server,
         \/ Backed(<<l, b>>)
         \/ Signature("order", s, <<l, b>>) \in signed
         \/ <<l, b>> \in committed[s]
  PROVE  b <= blockIdCounter[l] /\ b \notin publishing[l]
<1>1. <<l, b>> \in Hash /\ b \in Int /\ blockIdCounter[l] \in Int
  BY DEF Hash, BlockId, IInv, TypeOK
<1>2. \A t \in Server : Signature("order", t, <<l, b>>) \in signed => Backed(<<l, b>>)
  BY <1>1 DEF IInv, OrderBacked, Backed
<1>3. <<l, b>> \in committed[s] => \E t \in Server : Signature("order", t, <<l, b>>) \in signed
  BY QuorumNotEmpty DEF IInv, CommitBacked, OrderSigners
<1>4. Backed(<<l, b>>)
  BY <1>2, <1>3
<1>5. \E t \in Server : Signature("post", t, <<l, b>>) \in signed
  BY <1>4, QuorumNotEmpty DEF Backed, PostSigners
<1>6. QED
  BY <1>1, <1>5 DEF IInv, UnpublishedUnsigned

LEMMA UnorderedIsNew ==
  ASSUME IInv, NEW l \in Leaders, NEW b \in BlockId, Unordered(<<l, b>>)
  PROVE  /\ \A s \in Server : <<l, b>> \notin committed[s]
         /\ commitCache[l][b].hash = <<l, b>> => ~HasSigner(commitCache[l][b], l)
<1>1. \A s \in Server : <<l, b>> \notin committed[s]
  BY QuorumNotEmpty DEF IInv, CommitBacked, OrderSigners, Unordered
<1>2. commitCache[l][b].hash = <<l, b>> => ~HasSigner(commitCache[l][b], l)
  BY ReplicationAssumption DEF IInv, CommitFragments, HasSigner, Unordered
<1>3. QED
  BY <1>1, <1>2

(* Committed blocks stay committed. *)
LEMMA CommittedGrows ==
  ASSUME IInv, [Next]_vars, NEW s \in Server
  PROVE  committed[s] \subseteq committed'[s]
<1>1. committed \in [Server -> SUBSET Hash]
  BY DEF IInv, TypeOK
<1>2. \/ committed' = committed
      \/ \E t, h : committed' = [committed EXCEPT ![t] = @ \cup {h}]
  BY ZenonT(60) DEF Next, Continue, HandleSome, Handle, vars, PackBlock, Disseminate,
       RefreshCommitFragment, ClearCaches, PostEntryRejected, PostEntryAccepted, PostReplyWithoutFragment,
       PostReplyAfterQuorum, PostReplyCounted, OrderEntryRejected, OrderEntryAccepted,
       OrderReplyIgnored, OrderReplyCounted, CommitEntryRejected, CommitEntryAccepted,
       RegisterWorker, Crash
<1>3. QED
  BY <1>1, <1>2

(* A worker replies to an order entry when it gives its share, once. *)
LEMMA NewOrderReply ==
  ASSUME IInv, [Next]_vars, NEW m \in msgs', m.type = "orderReply", m \notin msgs
  PROVE  Signature("order", m.src, <<m.dst, m.id>>) \notin signed
<1>1. ASSUME NEW n \in msgs, OrderEntryAccepted(n)
      PROVE  Signature("order", m.src, <<m.dst, m.id>>) \notin signed
  <2>1. /\ n.type = "order"
        /\ msgs' = (msgs \ {n}) \cup {ReplyTo(n, "orderReply", orderCache[n.dst][n.id].hash)}
    BY <1>1 DEF OrderEntryAccepted
  <2>2. m.src = n.dst /\ m.dst = n.src /\ m.id = n.id
    BY <2>1 DEF ReplyTo
  <2>3. QED
    BY <2>1, <2>2 DEF IInv, OrderEntries
<1>2. ASSUME NEW l \in Leaders, NEW b \in BlockId, Disseminate(l, b) PROVE FALSE
  BY <1>2, BroadcastFields DEF Disseminate
<1>3. ASSUME NEW n \in msgs, PostReplyCounted(n) PROVE FALSE
  <2>1. msgs' \subseteq msgs \cup Broadcast(n.dst, "order", n.id, orderCache[n.dst][n.id].hash)
    BY <1>3 DEF PostReplyCounted
  <2>2. QED
    BY <2>1, BroadcastFields
<1>4. ASSUME NEW n \in msgs, OrderReplyCounted(n) PROVE FALSE
  <2>1. msgs' \subseteq msgs \cup Broadcast(n.dst, "commit", n.id, commitCache[n.dst][n.id].hash)
    BY <1>4 DEF OrderReplyCounted
  <2>2. QED
    BY <2>1, BroadcastFields
<1>5. ASSUME NEW n \in msgs, PostEntryAccepted(n) PROVE FALSE
  BY <1>5 DEF PostEntryAccepted, ReplyTo
<1>6. ASSUME \/ \E n \in msgs : \/ PostEntryRejected(n) \/ PostReplyWithoutFragment(n)
                                \/ PostReplyAfterQuorum(n) \/ OrderEntryRejected(n)
                                \/ OrderReplyIgnored(n) \/ CommitEntryRejected(n)
                                \/ CommitEntryAccepted(n)
             \/ \E l \in Leaders : PackBlock(l)
             \/ \E l \in Leaders, b \in BlockId : RefreshCommitFragment(l, b) \/ ClearCaches(l, b)
             \/ \E l \in Leaders, w \in Server, p \in Phase : RegisterWorker(l, w, p)
             \/ \E s \in Server : Crash(s)
             \/ UNCHANGED vars
      PROVE FALSE
  BY <1>6 DEF PostEntryRejected, PostReplyWithoutFragment, PostReplyAfterQuorum, PostReplyArrived,
              OrderEntryRejected, OrderReplyIgnored, CommitEntryRejected, CommitEntryAccepted,
              PackBlock, RefreshCommitFragment, ClearCaches, RegisterWorker, Crash, vars
<1>7. QED
  BY <1>1, <1>2, <1>3, <1>4, <1>5, <1>6 DEF Next, Continue, HandleSome, Handle

(* The workers still to be counted become fewer. *)
LEMMA UncountedShrinks ==
  ASSUME IInv, [Next]_vars, NEW l \in Leaders, NEW b \in BlockId
  PROVE  Uncounted(l, b)' \subseteq Uncounted(l, b)
<1> SUFFICES ASSUME NEW w \in Uncounted(l, b)' PROVE w \in Uncounted(l, b)
  OBVIOUS
<1>1. w \in Server \ {l}
  BY DEF Uncounted
<1>2. CASE Signature("order", w, <<l, b>>) \notin signed'
  BY <1>1, <1>2, SignedGrows DEF Uncounted
<1>3. CASE ReplyInFlight(l, b, w)'
  <2>1. PICK m \in msgs' : m.type = "orderReply" /\ m.src = w /\ m.dst = l /\ m.id = b
    BY <1>3 DEF ReplyInFlight
  <2>2. CASE m \in msgs
    BY <1>1, <2>1, <2>2 DEF Uncounted, ReplyInFlight
  <2>3. CASE m \notin msgs
    BY <1>1, <2>1, <2>3, NewOrderReply DEF Uncounted
  <2>4. QED
    BY <2>2, <2>3
<1>4. QED
  BY <1>2, <1>3 DEF Uncounted

LEMMA ServersCounted ==
  \A S : S \subseteq Server => IsFiniteSet(S) /\ Cardinality(S) \in Nat /\ Cardinality(S) <= N
BY FS_Subset, FS_CardinalityType, ServerAssumption DEF N

(* Too few replies stay too few. *)
LEMMA TooFewStay ==
  ASSUME IInv, [Next]_vars, NEW l \in Leaders, NEW b \in BlockId,
         TooFewLeft(l, b), b \notin refreshing'[l],
         CountedWorkers(l, b)' \subseteq CountedWorkers(l, b) \cup Uncounted(l, b)
  PROVE  TooFewLeft(l, b)'
<1> DEFINE S == Uncounted(l, b) \cup CountedWorkers(l, b)
           T == (Uncounted(l, b) \cup CountedWorkers(l, b))'
<1>1. T \subseteq S /\ S \subseteq Server
  BY UncountedShrinks DEF Uncounted, CountedWorkers
<1>2. Cardinality(S) + 1 < Quorum
  BY DEF TooFewLeft
<1> HIDE DEF S, T
<1>3. /\ Cardinality(T) <= Cardinality(S)
      /\ Cardinality(S) \in Nat /\ Cardinality(T) \in Nat
  BY <1>1, ServersCounted, FS_Subset
<1>4. Cardinality(T) + 1 < Quorum
  BY <1>2, <1>3, QuorumValues
<1>5. QED
  BY <1>4 DEF TooFewLeft, T

(* The parts about commits under a step that commits nothing. *)
LEMMA NothingCommitted ==
  ASSUME CountInv, UNCHANGED <<committed, commitIndex>>,
         \A l \in Leaders : clearing'[l] \subseteq clearing[l],
         \A m \in msgs' : m.type = "commit" => m \in msgs
  PROVE  ClearingCommitted' /\ ProposerCommitted' /\ CommitEntriesOnce' /\ CommitCounted'
BY DEF CountInv, ClearingCommitted, ProposerCommitted, CommitEntriesOnce, CommitCounted

(* The parts about fragments under a step that leaves each as it is or puts *)
(* one without shares in its place, never the leader's own after the commit.*)
LEMMA FragmentsKept ==
  ASSUME IInv, CountInv, [Next]_vars, UNCHANGED committed,
         \A l \in Leaders, b \in BlockId :
            \/ commitCache'[l][b] = commitCache[l][b]
            \/ /\ Fresh(commitCache'[l][b])
               /\ commitCache'[l][b] = NoFragment => <<l, b>> \in committed[l]
               /\ commitCache'[l][b].hash = <<l, b>> => <<l, b>> \notin committed[l],
         \A l \in Leaders, b \in BlockId :
            /\ b \in refreshing'[l] => b \in refreshing[l] \/ Unordered(<<l, b>>)
            /\ b <= blockIdCounter'[l] /\ b \notin publishing'[l]
                 => \/ b <= blockIdCounter[l] /\ b \notin publishing[l]
                    \/ commitCache'[l][b] # NoFragment
  PROVE  FragmentUntilCommitted' /\ OwnShareAfterRefresh' /\ NoSecondQuorum'
<1>1. FragmentUntilCommitted'
  BY DEF CountInv, FragmentUntilCommitted
<1>2. OwnShareAfterRefresh'
  <2> SUFFICES ASSUME NEW l \in Leaders, NEW b \in refreshing'[l],
                      commitCache'[l][b].hash = <<l, b>>
               PROVE  ~HasSigner(commitCache'[l][b], l)
    BY DEF OwnShareAfterRefresh, HasSigner
  <2>1. b \in BlockId
    BY InvStep DEF IInv, TypeOK
  <2>2. CASE Fresh(commitCache'[l][b])
    BY <2>2 DEF Fresh, HasSigner
  <2>3. CASE commitCache'[l][b] = commitCache[l][b]
    BY <2>1, <2>3, UnorderedIsNew DEF CountInv, OwnShareAfterRefresh
  <2>4. QED
    BY <2>1, <2>2, <2>3
<1>3. NoSecondQuorum'
  <2> SUFFICES ASSUME NEW l \in Leaders, NEW b \in BlockId,
                      <<l, b>> \in committed[l], commitCache'[l][b].hash = <<l, b>>,
                      ~IsFull(commitCache'[l][b])
               PROVE  TooFewLeft(l, b)'
    BY DEF NoSecondQuorum, IsFull
  <2>1. commitCache'[l][b] = commitCache[l][b]
    OBVIOUS
  <2>2. TooFewLeft(l, b)
    BY <2>1 DEF CountInv, NoSecondQuorum
  <2>3. b \notin refreshing'[l]
    BY <2>2, UnorderedIsNew, ReplicationAssumption DEF TooFewLeft
  <2>4. CountedWorkers(l, b)' = CountedWorkers(l, b)
    BY <2>1 DEF CountedWorkers, HasSigner
  <2>5. QED
    BY <2>2, <2>3, <2>4, TooFewStay
<1>4. QED
  BY <1>1, <1>2, <1>3

LEMMA PackBlockCount ==
  ASSUME IInv, CountInv, NEW l \in Leaders, PackBlock(l)
  PROVE  CountInv'
<1> DEFINE b == blockIdCounter[l] + 1
<1>1. /\ blockIdCounter' = [blockIdCounter EXCEPT ![l] = b]
      /\ publishing' = [publishing EXCEPT ![l] = @ \cup {b}]
      /\ UNCHANGED <<commitCache, refreshing, clearing, commitIndex, msgs, committed>>
      /\ [Next]_vars
  BY DEF PackBlock, Next
<1>2. blockIdCounter \in [Leaders -> Int] /\ publishing \in [Leaders -> SUBSET BlockId]
  BY DEF IInv, TypeOK
<1>3. \A k \in Leaders, c \in BlockId :
         c <= blockIdCounter'[k] /\ c \notin publishing'[k]
           => c <= blockIdCounter[k] /\ c \notin publishing[k]
  <2> SUFFICES ASSUME NEW k \in Leaders, NEW c \in BlockId,
                      c <= blockIdCounter'[k], c \notin publishing'[k]
               PROVE  c <= blockIdCounter[k] /\ c \notin publishing[k]
    OBVIOUS
  <2>1. CASE k = l
    <3>1. c # b /\ c <= b /\ c \notin publishing[l]
      BY <1>1, <1>2, <2>1
    <3>2. c <= blockIdCounter[l]
      BY <1>2, <3>1 DEF BlockId
    <3>3. QED
      BY <2>1, <3>1, <3>2
  <2>2. CASE k # l
    BY <1>1, <1>2, <2>2
  <2>3. QED
    BY <2>1, <2>2
<1>4. FragmentUntilCommitted' /\ OwnShareAfterRefresh' /\ NoSecondQuorum'
  BY <1>1, <1>3, FragmentsKept
<1>5. ClearingCommitted' /\ ProposerCommitted' /\ CommitEntriesOnce' /\ CommitCounted'
  BY <1>1, NothingCommitted
<1>6. QED
  BY <1>4, <1>5 DEF CountInv

LEMMA DisseminateCount ==
  ASSUME IInv, CountInv, NEW l \in Leaders, NEW b \in BlockId, Disseminate(l, b)
  PROVE  CountInv'
<1>1. /\ b \in publishing[l]
      /\ publishing' = [publishing EXCEPT ![l] = @ \ {b}]
      /\ commitCache' = [commitCache EXCEPT ![l][b] = NewFragment(<<l, b>>)]
      /\ msgs' = msgs \cup Broadcast(l, "post", b, <<l, b>>)
      /\ UNCHANGED <<blockIdCounter, refreshing, clearing, commitIndex, committed>>
      /\ [Next]_vars
  BY DEF Disseminate, Next, Continue
<1>2. /\ publishing \in [Leaders -> SUBSET BlockId] /\ l \in Server
      /\ commitCache \in [Server -> [BlockId -> Fragment]]
      /\ Leaders \subseteq Server
  BY ReplicationAssumption DEF IInv, TypeOK
<1>3. \A t \in Server, c \in BlockId :
         commitCache'[t][c] = IF t = l /\ c = b THEN NewFragment(<<l, b>>) ELSE commitCache[t][c]
  BY <1>1, <1>2, CacheUpdate
<1>4. NewFragment(<<l, b>>) # NoFragment /\ Fresh(NewFragment(<<l, b>>))
  BY FreshFragments, NewFragmentEmpty, NoFragmentEmpty, ReplicationAssumption DEF Hash
<1>5. <<l, b>> \notin committed[l]
  BY <1>1, <1>2, OrderedWasPublished
<1>6. \A k \in Leaders, c \in BlockId :
         \/ commitCache'[k][c] = commitCache[k][c]
         \/ /\ Fresh(commitCache'[k][c])
            /\ commitCache'[k][c] # NoFragment
            /\ <<k, c>> \notin committed[k]
  BY <1>2, <1>3, <1>4, <1>5
<1>7. \A k \in Leaders, c \in BlockId :
         c \notin publishing'[k] => c \notin publishing[k] \/ commitCache'[k][c] # NoFragment
  BY <1>1, <1>2, <1>3, <1>4
<1>8. FragmentUntilCommitted' /\ OwnShareAfterRefresh' /\ NoSecondQuorum'
  BY <1>1, <1>6, <1>7, FragmentsKept
<1>9. \A m \in msgs' : m.type = "commit" => m \in msgs
  BY <1>1, BroadcastFields
<1>10. ClearingCommitted' /\ ProposerCommitted' /\ CommitEntriesOnce' /\ CommitCounted'
  BY <1>1, <1>9, NothingCommitted
<1>11. QED
  BY <1>8, <1>10 DEF CountInv

LEMMA ClearCachesCount ==
  ASSUME IInv, CountInv, NEW l \in Leaders, NEW b \in BlockId, ClearCaches(l, b)
  PROVE  CountInv'
<1>1. /\ b \in clearing[l]
      /\ clearing' = [clearing EXCEPT ![l] = @ \ {b}]
      /\ commitCache' = [commitCache EXCEPT ![l][b] = NoFragment]
      /\ UNCHANGED <<blockIdCounter, publishing, refreshing, commitIndex, msgs, committed>>
      /\ [Next]_vars
  BY DEF ClearCaches, Next, Continue
<1>2. /\ clearing \in [Leaders -> SUBSET BlockId] /\ l \in Server
      /\ commitCache \in [Server -> [BlockId -> Fragment]]
      /\ Leaders \subseteq Server
  BY ReplicationAssumption DEF IInv, TypeOK
<1>3. \A t \in Server, c \in BlockId :
         commitCache'[t][c] = IF t = l /\ c = b THEN NoFragment ELSE commitCache[t][c]
  BY <1>1, <1>2, CacheUpdate
<1>4. <<l, b>> \in committed[l]
  BY <1>1 DEF CountInv, ClearingCommitted
<1>5. \A k \in Leaders, c \in BlockId :
         \/ commitCache'[k][c] = commitCache[k][c]
         \/ /\ Fresh(commitCache'[k][c])
            /\ commitCache'[k][c].hash # <<k, c>>
            /\ <<k, c>> \in committed[k]
  <2>1. \A k \in Leaders, c \in BlockId : <<k, c>> \in Hash
    BY DEF Hash
  <2>2. \A k \in Leaders, c \in BlockId : NoFragment.hash # <<k, c>>
    BY <2>1, NoFragmentEmpty, ReplicationAssumption
  <2>3. QED
    BY <1>2, <1>3, <1>4, <2>2, FreshFragments
<1>6. FragmentUntilCommitted' /\ OwnShareAfterRefresh' /\ NoSecondQuorum'
  BY <1>1, <1>5, FragmentsKept
<1>7. \A k \in Leaders : clearing'[k] \subseteq clearing[k]
  BY <1>1, <1>2
<1>8. ClearingCommitted' /\ ProposerCommitted' /\ CommitEntriesOnce' /\ CommitCounted'
  BY <1>1, <1>7, NothingCommitted
<1>9. QED
  BY <1>6, <1>8 DEF CountInv

LEMMA OrderEntryAcceptedCount ==
  ASSUME IInv, CountInv, NEW m \in msgs, OrderEntryAccepted(m)
  PROVE  CountInv'
<1> DEFINE h == orderCache[m.dst][m.id].hash
           f == NewFragment(h)
<1>1. /\ m.type = "order" /\ h = m.hash
      /\ commitCache' = [commitCache EXCEPT ![m.dst][m.id] = f]
      /\ msgs' = (msgs \ {m}) \cup {ReplyTo(m, "orderReply", h)}
      /\ UNCHANGED <<blockIdCounter, publishing, refreshing, clearing, commitIndex, committed>>
      /\ [Next]_vars
  BY DEF OrderEntryAccepted, OrderEntryVerifies, PenVerify, Next, HandleSome, Handle
<1>2. /\ m.dst \in Server /\ m.id \in BlockId /\ m.hash \in Hash
      /\ m.src # m.dst /\ m.hash = <<m.src, m.id>>
      /\ commitCache \in [Server -> [BlockId -> Fragment]]
      /\ Leaders \subseteq Server
  BY <1>1, EntryFields, ReplicationAssumption DEF IInv, TypeOK, Phase, OrderEntries
<1>3. \A t \in Server, c \in BlockId :
         commitCache'[t][c] = IF t = m.dst /\ c = m.id THEN f ELSE commitCache[t][c]
  BY <1>1, <1>2, CacheUpdate
<1>4. f # NoFragment /\ Fresh(f) /\ f.hash = <<m.src, m.id>>
  BY <1>1, <1>2, FreshFragments, NewFragmentEmpty, NoFragmentEmpty, ReplicationAssumption
<1> HIDE DEF f, h
<1>5. \A k \in Leaders, c \in BlockId :
         \/ commitCache'[k][c] = commitCache[k][c]
         \/ /\ Fresh(commitCache'[k][c])
            /\ commitCache'[k][c] # NoFragment
            /\ commitCache'[k][c].hash # <<k, c>>
  BY <1>2, <1>3, <1>4
<1>6. FragmentUntilCommitted' /\ OwnShareAfterRefresh' /\ NoSecondQuorum'
  BY <1>1, <1>5, FragmentsKept
<1>7. \A n \in msgs' : n.type = "commit" => n \in msgs
  BY <1>1 DEF ReplyTo
<1>8. ClearingCommitted' /\ ProposerCommitted' /\ CommitEntriesOnce' /\ CommitCounted'
  BY <1>1, <1>7, NothingCommitted
<1>9. QED
  BY <1>6, <1>8, Zenon DEF CountInv

LEMMA PostReplyCountedCount ==
  ASSUME IInv, CountInv, NEW m \in msgs, PostReplyCounted(m)
  PROVE  CountInv'
<1> DEFINE l == m.dst
           b == m.id
           frag == orderCache[l][b]
           new == WithSigs(frag, Append(frag.sigs, m.share))
           recovered == Len(new.sigs) = Quorum /\ PenRecovers(new.sigs, frag.hash)
           sent == Broadcast(l, "order", b, frag.hash)
<1>1. /\ msgs' \subseteq msgs \cup sent
      /\ recovered => refreshing' = [refreshing EXCEPT ![l] = @ \cup {b}]
      /\ ~recovered => refreshing' = refreshing
      /\ UNCHANGED <<blockIdCounter, publishing, commitCache, clearing, commitIndex, committed>>
      /\ [Next]_vars
  BY Zenon DEF PostReplyCounted, QuorumRecovered, IsFull, WithSigs, Next, HandleSome, Handle
<1>2. recovered => Unordered(<<l, b>>)
  BY PostReplyQuorum, Zenon
<1> HIDE DEF recovered
<1>3. refreshing \in [Leaders -> SUBSET BlockId]
  BY DEF IInv, TypeOK
<1>4. \A k \in Leaders, c \in BlockId :
         c \in refreshing'[k] => c \in refreshing[k] \/ Unordered(<<k, c>>)
  BY <1>1, <1>2, <1>3
<1>5. FragmentUntilCommitted' /\ OwnShareAfterRefresh' /\ NoSecondQuorum'
  BY <1>1, <1>4, FragmentsKept
<1>6. \A n \in sent : n.type = "order"
  BY BroadcastFields
<1> HIDE DEF sent
<1>7. ClearingCommitted' /\ ProposerCommitted' /\ CommitEntriesOnce' /\ CommitCounted'
  BY <1>1, <1>6, NothingCommitted
<1>8. QED
  BY <1>5, <1>7, Zenon DEF CountInv

(* Twice a quorum is more than the cluster. *)
LEMMA QuorumsMeet == N < 2 * Quorum
<1>1. N \in Nat
  BY QuorumValues
<1>2. N \div 3 \in Nat /\ N < 3 * (N \div 3) + 3 /\ N \div 3 >= 1
  BY <1>1, QuorumValues
<1>3. \A k \in Nat : k >= 1 => 3 * k + 3 <= 2 * (k * 2 + 1)
  OBVIOUS
<1>4. QED
  BY <1>1, <1>2, <1>3 DEF Quorum

(* A full fragment without the leader's own share holds a quorum of workers *)
(* whose replies are counted, so fewer than a quorum are left.              *)
LEMMA FullWithoutOwn ==
  ASSUME IInv, NEW l \in Leaders, NEW b \in BlockId,
         IsFull(commitCache[l][b]), ~HasSigner(commitCache[l][b], l)
  PROVE  Cardinality(Uncounted(l, b)) + 1 < Quorum
<1> DEFINE frag == commitCache[l][b]
           W == CountedWorkers(l, b)
           U == Uncounted(l, b)
<1>1. l \in Server /\ frag \in Fragment /\ frag \in [hash : Hash, sigs : Seq(Share(Hash))]
  BY QuorumValues, ReplicationAssumption DEF IInv, TypeOK, IsFull, Fragment, NoFragment
<1>2. frag.sigs \in Seq(Share(Hash)) /\ Len(frag.sigs) = Quorum
  BY <1>1 DEF IsFull
<1>3. \A i \in DOMAIN frag.sigs :
         /\ frag.sigs[i].signer \in Server \ {l}
         /\ Signature("order", frag.sigs[i].signer, <<l, b>>) \in signed
  <2> SUFFICES ASSUME NEW i \in DOMAIN frag.sigs
               PROVE  /\ frag.sigs[i].signer \in Server \ {l}
                      /\ Signature("order", frag.sigs[i].signer, <<l, b>>) \in signed
    OBVIOUS
  <2>1. frag.sigs[i] \in Share(Hash)
    BY <1>2
  <2>2. frag.sigs[i].signer \in Server /\ frag.sigs[i].signer # l
    BY <2>1 DEF Share, HasSigner
  <2>3. QED
    BY <2>2 DEF IInv, CommitFragments
<1>4. Cardinality(W) >= Quorum
  <2>1. \A i \in DOMAIN frag.sigs : frag.sigs[i].signer \in W
    BY <1>3 DEF CountedWorkers, HasSigner
  <2>2. \A i, j \in DOMAIN frag.sigs : frag.sigs[i].signer = frag.sigs[j].signer => i = j
    BY DEF IInv, CommitFragments, DistinctSigners
  <2>3. W \in SUBSET Server
    BY DEF CountedWorkers
  <2> HIDE DEF W, frag
  <2>4. QED
    BY <1>2, <2>1, <2>2, <2>3, QuorumOfSigners
<1>5. W \cap U = {}
  <2> SUFFICES ASSUME NEW w \in W, w \in U PROVE FALSE
    OBVIOUS
  <2>1. w \in Server \ {l} /\ HasSigner(frag, w)
    BY DEF CountedWorkers
  <2>2. Signature("order", w, <<l, b>>) \in signed
    BY <1>3, <2>1 DEF HasSigner
  <2>3. ReplyInFlight(l, b, w)
    BY <2>2 DEF Uncounted
  <2>4. QED
    BY <2>1, <2>3 DEF ReplyInFlight, IInv, OrderReplies
<1>6. W \subseteq Server /\ U \subseteq Server
  BY DEF CountedWorkers, Uncounted
<1>7. l \notin W /\ l \notin U
  BY DEF CountedWorkers, Uncounted
<1> HIDE DEF W, U
<1>8. /\ Cardinality(W \cup U) = Cardinality(W) + Cardinality(U)
      /\ Cardinality((W \cup U) \cup {l}) = Cardinality(W \cup U) + 1
      /\ Cardinality((W \cup U) \cup {l}) <= N
      /\ Cardinality(W) \in Nat /\ Cardinality(U) \in Nat /\ Cardinality(W \cup U) \in Nat
  <2>1. IsFiniteSet(W) /\ IsFiniteSet(U) /\ IsFiniteSet(W \cup U)
    BY <1>6, ServersCounted
  <2>2. Cardinality(W \cup U) = Cardinality(W) + Cardinality(U) - Cardinality(W \cap U)
    BY <2>1, FS_Union
  <2>3. /\ Cardinality(W \cap U) = 0
        /\ Cardinality(W) \in Nat /\ Cardinality(U) \in Nat /\ Cardinality(W \cup U) \in Nat
    BY <1>5, <2>1, FS_EmptySet, FS_CardinalityType
  <2>4. Cardinality((W \cup U) \cup {l}) = Cardinality(W \cup U) + 1
    BY <1>7, <2>1, FS_AddElement
  <2>5. Cardinality((W \cup U) \cup {l}) <= N
    BY <1>1, <1>6, ServersCounted
  <2>6. QED
    BY <2>2, <2>3, <2>4, <2>5
<1>9. Cardinality(U) + 1 < Quorum
  BY <1>4, <1>8, QuorumsMeet, QuorumValues
<1>10. QED
  BY <1>9 DEF U

LEMMA RefreshCount ==
  ASSUME IInv, CountInv, NEW l \in Leaders, NEW b \in BlockId, RefreshCommitFragment(l, b)
  PROVE  CountInv'
<1> DEFINE frag == commitCache[l][b]
           new == WithSigs(frag, <<PenSign(l, frag.hash)>>)
<1>1. /\ b \in refreshing[l]
      /\ refreshing' = [refreshing EXCEPT ![l] = @ \ {b}]
      /\ UNCHANGED <<blockIdCounter, publishing, clearing, commitIndex, msgs, committed>>
      /\ [Next]_vars
  BY DEF RefreshCommitFragment, Next, Continue
<1>2. /\ refreshing \in [Leaders -> SUBSET BlockId] /\ l \in Server
      /\ commitCache \in [Server -> [BlockId -> Fragment]]
      /\ Leaders \subseteq Server
  BY ReplicationAssumption DEF IInv, TypeOK
<1>3. \A k \in Leaders : refreshing'[k] \subseteq refreshing[k] /\ b \notin refreshing'[l]
  BY <1>1, <1>2
<1>4. ClearingCommitted' /\ ProposerCommitted' /\ CommitEntriesOnce' /\ CommitCounted'
  BY <1>1, NothingCommitted
<1>5. CASE frag = NoFragment
  <2>1. UNCHANGED commitCache
    BY <1>5 DEF RefreshCommitFragment
  <2>2. FragmentUntilCommitted' /\ OwnShareAfterRefresh' /\ NoSecondQuorum'
    BY <1>1, <1>3, <2>1, FragmentsKept
  <2>3. QED
    BY <1>4, <2>2 DEF CountInv
<1>6. CASE frag # NoFragment
  <2>1. commitCache' = [commitCache EXCEPT ![l] = [@ EXCEPT ![b] = new]]
    BY <1>6 DEF RefreshCommitFragment
  <2>2. \A t \in Server, c \in BlockId :
           commitCache'[t][c] = IF t = l /\ c = b THEN new ELSE commitCache[t][c]
    BY <1>2, <2>1
  <2>3. frag.hash \in Hash /\ new.hash = frag.hash /\ new.sigs = <<PenSign(l, frag.hash)>>
    BY <1>2, <1>6, FragmentTypes DEF WithSigs
  <2>4. new # NoFragment
    BY <2>3, NoFragmentEmpty, ReplicationAssumption
  <2>5. \A w : HasSigner(new, w) => w = l
    BY <2>3, PenSignFields DEF HasSigner
  <2> HIDE DEF new
  <2>6. FragmentUntilCommitted'
    BY <1>1, <1>2, <2>2, <2>4 DEF CountInv, FragmentUntilCommitted
  <2>7. OwnShareAfterRefresh'
    <3> SUFFICES ASSUME NEW k \in Leaders, NEW c \in refreshing'[k],
                        commitCache'[k][c].hash = <<k, c>>
                 PROVE  ~HasSigner(commitCache'[k][c], k)
      BY DEF OwnShareAfterRefresh, HasSigner
    <3>1. c \in BlockId /\ c \in refreshing[k] /\ ~(k = l /\ c = b)
      BY <1>2, <1>3
    <3>2. commitCache'[k][c] = commitCache[k][c]
      BY <1>2, <2>2, <3>1
    <3>3. QED
      BY <3>1, <3>2 DEF CountInv, OwnShareAfterRefresh
  <2>8. NoSecondQuorum'
    <3> SUFFICES ASSUME NEW k \in Leaders, NEW c \in BlockId,
                        <<k, c>> \in committed[k], commitCache'[k][c].hash = <<k, c>>,
                        ~IsFull(commitCache'[k][c])
                 PROVE  TooFewLeft(k, c)'
      BY <1>1 DEF NoSecondQuorum, IsFull
    <3>1. CASE k = l /\ c = b
      <4>1. frag.hash = <<l, b>> /\ IsFull(frag) /\ ~HasSigner(frag, l)
        BY <1>1, <1>2, <2>2, <2>3, <3>1 DEF CountInv, NoSecondQuorum, TooFewLeft, OwnShareAfterRefresh
      <4>2. Cardinality(Uncounted(l, b)) + 1 < Quorum
        BY <4>1, FullWithoutOwn
      <4>3. CountedWorkers(l, b)' = {}
        <5>1. commitCache'[l][b] = new
          BY <1>2, <2>2
        <5>2. \A w \in Server \ {l} : ~HasSigner(commitCache[l][b], w)'
          BY <2>5, <5>1 DEF HasSigner
        <5>3. QED
          BY <5>2 DEF CountedWorkers
      <4>4. (Uncounted(l, b) \cup CountedWorkers(l, b))' \subseteq Uncounted(l, b)
        BY <1>1, <4>3, UncountedShrinks
      <4>5. Uncounted(l, b) \subseteq Server
        BY DEF Uncounted
      <4>6. ASSUME NEW S, NEW T, T \subseteq S, S \subseteq Server, Cardinality(S) + 1 < Quorum
            PROVE  Cardinality(T) + 1 < Quorum
        <5>1. Cardinality(T) <= Cardinality(S) /\ Cardinality(S) \in Nat /\ Cardinality(T) \in Nat
          BY <4>6, ServersCounted, FS_Subset
        <5>2. QED
          BY <4>6, <5>1, QuorumValues
      <4>7. Cardinality((Uncounted(l, b) \cup CountedWorkers(l, b))') + 1 < Quorum
        BY <4>2, <4>4, <4>5, <4>6
      <4>8. QED
        BY <1>3, <3>1, <4>7 DEF TooFewLeft
    <3>2. CASE ~(k = l /\ c = b)
      <4>1. commitCache'[k][c] = commitCache[k][c]
        BY <1>2, <2>2, <3>2
      <4>2. TooFewLeft(k, c)
        BY <4>1 DEF CountInv, NoSecondQuorum
      <4>3. CountedWorkers(k, c)' = CountedWorkers(k, c) /\ c \notin refreshing'[k]
        BY <1>3, <4>1, <4>2 DEF CountedWorkers, HasSigner, TooFewLeft
      <4>4. QED
        BY <1>1, <4>2, <4>3, TooFewStay
    <3>3. QED
      BY <3>1, <3>2
  <2>9. QED
    BY <1>4, <2>6, <2>7, <2>8 DEF CountInv
<1>7. QED
  BY <1>5, <1>6

(* The order reply that completes a quorum is the first of its block to do  *)
(* so, although handlers reset fragments that are full.                     *)
LEMMA FirstCommit ==
  ASSUME IInv, CountInv, NEW m \in msgs, OrderReplyCounted(m)
  PROVE  LET l == m.dst
             b == m.id
             frag == commitCache[l][b]
         IN QuorumRecovered(frag, Append(frag.sigs, m.share))
              => frag.hash = <<l, b>> /\ <<l, b>> \notin committed[l]
<1> DEFINE l == m.dst
           b == m.id
           frag == commitCache[l][b]
           new == WithSigs(frag, Append(frag.sigs, m.share))
           recovered == Len(new.sigs) = Quorum /\ PenRecovers(new.sigs, frag.hash)
           S == Uncounted(l, b) \cup CountedWorkers(l, b)
<1>1. m.type = "orderReply" /\ ~IsFull(frag) /\ frag # NoFragment
  BY DEF OrderReplyCounted
<1>2. /\ m \in Reply /\ m.src \in Server /\ l \in Leaders /\ l \in Server /\ b \in BlockId
      /\ m.share \in Share(Hash) /\ m.src # l /\ m.share.signer = m.src
      /\ ~HasSigner(frag, m.src) /\ frag \in Fragment /\ DistinctSigners(frag)
  <2>1. /\ m \in Reply /\ m.src \in Server /\ l \in Leaders /\ l \in Server /\ b \in BlockId
        /\ m.share \in Share(Hash)
    BY <1>1, ReplyFields DEF IInv
  <2>2. /\ m.src # l /\ ~HasSigner(frag, m.src)
        /\ m.share = [signer |-> m.src, msg |-> <<l, b>>] /\ m.share.signer = m.src
    BY <1>1 DEF IInv, OrderReplies
  <2>3. frag \in Fragment /\ DistinctSigners(frag)
    BY <2>1 DEF IInv, TypeOK, CommitFragments
  <2>4. QED
    BY <2>1, <2>2, <2>3
<1>3. /\ new.sigs \in Seq(Share(Hash))
      /\ DistinctSigners(new)
      /\ \A s : HasSigner(new, s) => HasSigner(frag, s) \/ s = m.src
  BY <1>1, <1>2, AppendShare
<1>4. recovered => frag.hash = <<l, b>>
  BY OrderReplyQuorum, Zenon
<1>5. ReplyInFlight(l, b, m.src)
  BY <1>1 DEF ReplyInFlight
<1>6. recovered <=> QuorumRecovered(frag, Append(frag.sigs, m.share))
  BY DEF QuorumRecovered, WithSigs
<1> HIDE DEF new, frag
<1>7. ASSUME recovered, <<l, b>> \in committed[l] PROVE FALSE
  <2>1. Cardinality(S) + 1 < Quorum
    BY <1>1, <1>2, <1>4, <1>7 DEF CountInv, NoSecondQuorum, TooFewLeft, frag
  <2>2. ASSUME NEW i \in DOMAIN new.sigs PROVE new.sigs[i].signer \in S \cup {l}
    <3>1. new.sigs[i] \in Share(Hash)
      BY <1>3
    <3>2. new.sigs[i].signer \in Server /\ HasSigner(new, new.sigs[i].signer)
      BY <3>1 DEF Share, HasSigner
    <3>3. HasSigner(frag, new.sigs[i].signer) \/ new.sigs[i].signer = m.src
      BY <1>3, <3>2
    <3>4. QED
      BY <1>2, <1>5, <3>2, <3>3 DEF Uncounted, CountedWorkers, frag
  <2>3. \A i, j \in DOMAIN new.sigs : new.sigs[i].signer = new.sigs[j].signer => i = j
    BY <1>3 DEF DistinctSigners
  <2>4. S \cup {l} \in SUBSET Server /\ S \subseteq Server /\ l \notin S
    BY <1>2 DEF Uncounted, CountedWorkers
  <2> HIDE DEF S
  <2>5. Cardinality(S \cup {l}) >= Quorum
    <3>1. Len(new.sigs) = Quorum
      BY <1>7
    <3>2. QED
      BY <1>3, <2>2, <2>3, <2>4, <3>1, QuorumOfSigners
  <2>6. Cardinality(S \cup {l}) = Cardinality(S) + 1 /\ Cardinality(S) \in Nat
    BY <2>4, ServersCounted, FS_AddElement
  <2>7. QED
    BY <2>1, <2>5, <2>6, QuorumValues
<1>8. QED
  BY <1>4, <1>6, <1>7 DEF frag

(* A commit is counted when it is new. *)
LEMMA CountOne ==
  ASSUME IInv, CommitCounted, NEW s \in Server, NEW h \in Hash, h \notin committed[s],
         commitIndex' = [commitIndex EXCEPT ![s] = @ + 1],
         committed' = [committed EXCEPT ![s] = @ \cup {h}]
  PROVE  CommitCounted'
<1>1. committed \in [Server -> SUBSET Hash] /\ commitIndex \in [Server -> Nat]
  BY DEF IInv, TypeOK
<1>2. IsFiniteSet(committed[s])
  <2>1. IsFiniteSet(Leaders)
    BY FS_Subset, ServerAssumption, ReplicationAssumption
  <2>2. IsFiniteSet(BlockId)
    BY FS_Interval, ReplicationAssumption DEF BlockId
  <2>3. IsFiniteSet(Hash)
    BY <2>1, <2>2, FS_Product DEF Hash
  <2>4. QED
    BY <1>1, <2>3, FS_Subset
<1>3. Cardinality(committed[s] \cup {h}) = Cardinality(committed[s]) + 1
  BY <1>2, FS_AddElement
<1>4. QED
  BY <1>1, <1>3 DEF CommitCounted

LEMMA OrderReplyCountedCount ==
  ASSUME IInv, CountInv, NEW m \in msgs, OrderReplyCounted(m)
  PROVE  CountInv'
<1> DEFINE l == m.dst
           b == m.id
           frag == commitCache[l][b]
           new == WithSigs(frag, Append(frag.sigs, m.share))
           recovered == QuorumRecovered(frag, Append(frag.sigs, m.share))
           sent == Broadcast(l, "commit", b, frag.hash)
<1>1. /\ m.type = "orderReply" /\ frag # NoFragment /\ ~IsFull(frag)
      /\ commitCache' = [commitCache EXCEPT ![l][b] = new]
      /\ recovered => /\ msgs' = (msgs \ {m}) \cup sent
                      /\ commitIndex' = [commitIndex EXCEPT ![l] = @ + 1]
                      /\ committed' = [committed EXCEPT ![l] = @ \cup {frag.hash}]
                      /\ clearing' \in {clearing, [clearing EXCEPT ![l] = @ \cup {b}]}
      /\ ~recovered => /\ msgs' = msgs \ {m}
                       /\ UNCHANGED <<commitIndex, committed, clearing>>
      /\ UNCHANGED <<blockIdCounter, publishing, refreshing, signed>>
      /\ [Next]_vars
  BY DEF OrderReplyCounted, Next, HandleSome, Handle
<1>2. /\ m.src \in Server /\ l \in Leaders /\ l \in Server /\ b \in BlockId
      /\ m.src # l /\ <<l, b>> \in Hash /\ frag \in Fragment
      /\ commitCache \in [Server -> [BlockId -> Fragment]]
      /\ committed \in [Server -> SUBSET Hash]
      /\ clearing \in [Leaders -> SUBSET BlockId]
      /\ Leaders \subseteq Server
  <2>1. m.src \in Server /\ l \in Leaders /\ l \in Server /\ b \in BlockId
    BY <1>1, ReplyFields DEF IInv
  <2>2. m.src # l /\ <<l, b>> \in Hash /\ Leaders \subseteq Server
    BY <1>1, <2>1, ReplicationAssumption, Zenon DEF IInv, OrderReplies, Hash
  <2>3. frag \in Fragment
    BY <2>1 DEF IInv, TypeOK
  <2>4. QED
    BY <2>1, <2>2, <2>3 DEF IInv, TypeOK
<1>3. /\ new.hash = frag.hash /\ new # NoFragment
      /\ \A s : HasSigner(new, s) => HasSigner(frag, s) \/ s = m.src
  BY <1>1, <1>2, OrderReplyQuorum, FragmentTypes, NoFragmentEmpty, ReplicationAssumption, Zenon
<1>4. /\ recovered => frag.hash = <<l, b>> /\ <<l, b>> \notin committed[l]
      /\ recovered => IsFull(new)
  BY FirstCommit DEF QuorumRecovered, IsFull, WithSigs
<1>5. \A t \in Server, c \in BlockId :
         commitCache'[t][c] = IF t = l /\ c = b THEN new ELSE commitCache[t][c]
  BY <1>1, <1>2, CacheUpdate
<1>6. \A n \in sent : n.type = "commit" /\ n.src = l /\ n.id = b /\ n.hash = frag.hash /\ n.dst # l
  BY <1>1, BroadcastFields
<1>7. \A n \in sent : n.dst \in Server
  BY <1>2, BroadcastDestination DEF IInv, Phase
<1> HIDE DEF new, recovered, sent
<1>8. \A s \in Server : \A h : h \in committed'[s] <=> h \in committed[s] \/ (recovered /\ s = l /\ h = <<l, b>>)
  <2>1. CASE recovered
    <3>1. committed' = [committed EXCEPT ![l] = @ \cup {<<l, b>>}]
      BY <1>1, <1>4, <2>1
    <3>2. QED
      BY <1>2, <2>1, <3>1
  <2>2. CASE ~recovered
    BY <1>1, <2>2
  <2>3. QED
    BY <2>1, <2>2
<1>9. ClearingCommitted'
  <2> SUFFICES ASSUME NEW k \in Leaders, NEW c \in clearing'[k] PROVE <<k, c>> \in committed'[k]
    BY DEF ClearingCommitted
  <2>1. c \in clearing[k] \/ (recovered /\ k = l /\ c = b)
    BY <1>1, <1>2
  <2>2. QED
    BY <1>2, <1>8, <2>1 DEF CountInv, ClearingCommitted
<1>10. ProposerCommitted'
  <2> SUFFICES ASSUME NEW s \in Server, NEW h \in committed'[s] PROVE h \in committed'[h[1]]
    BY DEF ProposerCommitted
  <2>1. h \in Hash /\ h[1] \in Server
    BY <1>2, <1>8 DEF Hash
  <2>2. QED
    BY <1>2, <1>8, <2>1 DEF CountInv, ProposerCommitted
<1>11. CommitEntriesOnce'
  <2> SUFFICES ASSUME NEW n \in msgs', n.type = "commit" PROVE n.hash \notin committed'[n.dst]
    BY DEF CommitEntriesOnce
  <2>1. CASE n \in msgs
    <3>1. n.dst \in Server /\ n.src # n.dst /\ n.hash = <<n.src, n.id>> /\ n.hash \notin committed[n.dst]
      BY <2>1, EntryFields DEF IInv, CommitEntries, Phase, CountInv, CommitEntriesOnce
    <3>2. QED
      BY <1>8, <3>1
  <2>2. CASE recovered /\ n \in sent
    <3>1. n.dst \in Server /\ n.dst # l /\ n.hash = <<l, b>>
      BY <1>4, <1>6, <1>7, <2>2
    <3>2. <<l, b>> \notin committed[n.dst]
      BY <1>4, <2>2, <3>1 DEF CountInv, ProposerCommitted
    <3>3. QED
      BY <1>8, <3>1, <3>2
  <2>3. QED
    BY <1>1, <2>1, <2>2
<1>12. CommitCounted'
  <2>1. CASE recovered
    <3>1. frag.hash \in Hash /\ frag.hash \notin committed[l]
      BY <1>2, <1>4, <2>1
    <3> HIDE DEF frag
    <3>2. QED
      BY <1>1, <1>2, <2>1, <3>1, CountOne DEF CountInv
  <2>2. CASE ~recovered
    BY <1>1, <2>2 DEF CountInv, CommitCounted
  <2>3. QED
    BY <2>1, <2>2
<1>13. FragmentUntilCommitted'
  BY <1>1, <1>2, <1>3, <1>5, <1>8 DEF CountInv, FragmentUntilCommitted
<1>14. OwnShareAfterRefresh'
  <2> SUFFICES ASSUME NEW k \in Leaders, NEW c \in refreshing[k],
                      commitCache'[k][c].hash = <<k, c>>
               PROVE  ~HasSigner(commitCache'[k][c], k)
    BY <1>1 DEF OwnShareAfterRefresh, HasSigner
  <2>1. c \in BlockId
    BY DEF IInv, TypeOK
  <2>2. commitCache[k][c].hash = <<k, c>> /\ ~HasSigner(commitCache[k][c], k)
    BY <1>2, <1>3, <1>5, <2>1 DEF CountInv, OwnShareAfterRefresh
  <2>3. QED
    BY <1>2, <1>3, <1>5, <2>1, <2>2, SMTT(60)
<1>15. NoSecondQuorum'
  <2> SUFFICES ASSUME NEW k \in Leaders, NEW c \in BlockId,
                      <<k, c>> \in committed'[k], commitCache'[k][c].hash = <<k, c>>,
                      ~IsFull(commitCache'[k][c])
               PROVE  TooFewLeft(k, c)'
    BY Zenon DEF NoSecondQuorum, IsFull
  <2>1. <<k, c>> \in committed[k] /\ commitCache[k][c].hash = <<k, c>> /\ ~IsFull(commitCache[k][c])
    BY <1>1, <1>2, <1>3, <1>4, <1>5, <1>8
  <2>2. TooFewLeft(k, c) /\ c \notin refreshing'[k]
    BY <1>1, <2>1 DEF CountInv, NoSecondQuorum, TooFewLeft
  <2>3. CountedWorkers(k, c)' \subseteq CountedWorkers(k, c) \cup Uncounted(k, c)
    <3> SUFFICES ASSUME NEW w \in Server \ {k}, HasSigner(commitCache[k][c], w)'
                 PROVE  w \in CountedWorkers(k, c) \cup Uncounted(k, c)
      BY DEF CountedWorkers
    <3>1. HasSigner(commitCache'[k][c], w)
      BY DEF HasSigner
    <3>2. HasSigner(commitCache[k][c], w) \/ (k = l /\ c = b /\ w = m.src)
      BY <1>2, <1>3, <1>5, <3>1
    <3>3. QED
      BY <1>1, <3>2 DEF CountedWorkers, Uncounted, ReplyInFlight
  <2>4. QED
    BY <1>1, <2>2, <2>3, TooFewStay
<1>16. QED
  BY <1>9, <1>10, <1>11, <1>12, <1>13, <1>14, <1>15 DEF CountInv

LEMMA CommitEntryAcceptedCount ==
  ASSUME IInv, CountInv, NEW m \in msgs, CommitEntryAccepted(m)
  PROVE  CountInv'
<1>1. /\ m.type = "commit"
      /\ commitIndex' = [commitIndex EXCEPT ![m.dst] = @ + 1]
      /\ committed' = [committed EXCEPT ![m.dst] = @ \cup {m.hash}]
      /\ msgs' = msgs \ {m}
      /\ UNCHANGED <<blockIdCounter, publishing, commitCache, refreshing, clearing, signed>>
      /\ [Next]_vars
  BY DEF CommitEntryAccepted, CommitEntryVerifies, PenVerify, Next, HandleSome, Handle
<1>2. /\ m \in Entry /\ m.src \in Server /\ m.dst \in Server /\ m.hash \in Hash
      /\ m.src # m.dst /\ m.hash = <<m.src, m.id>> /\ m.hash \in committed[m.src]
      /\ m.hash \notin committed[m.dst]
      /\ committed \in [Server -> SUBSET Hash]
      /\ Leaders \subseteq Server
  BY <1>1, EntryFields, ReplicationAssumption
     DEF IInv, TypeOK, Phase, CommitEntries, CountInv, CommitEntriesOnce
<1>3. \A s \in Server : \A h : h \in committed'[s] <=> h \in committed[s] \/ (s = m.dst /\ h = m.hash)
  BY <1>1, <1>2
<1>4. \A k \in Leaders, c \in BlockId : <<k, c>> \in committed'[k] <=> <<k, c>> \in committed[k]
  BY <1>2, <1>3
<1>5. ClearingCommitted'
  BY <1>1, <1>2, <1>3 DEF CountInv, ClearingCommitted
<1>6. ProposerCommitted'
  <2> SUFFICES ASSUME NEW s \in Server, NEW h \in committed'[s] PROVE h \in committed'[h[1]]
    BY DEF ProposerCommitted
  <2>1. h \in Hash /\ h[1] \in Server
    BY <1>2, <1>3 DEF Hash
  <2>2. QED
    BY <1>2, <1>3, <2>1 DEF CountInv, ProposerCommitted
<1>7. CommitEntriesOnce'
  <2> SUFFICES ASSUME NEW n \in msgs \ {m}, n.type = "commit" PROVE n.hash \notin committed'[n.dst]
    BY <1>1 DEF CommitEntriesOnce
  <2>1. /\ n \in Entry /\ n.dst \in Server /\ n.hash = <<n.src, n.id>>
        /\ n.hash \notin committed[n.dst]
    BY EntryFields DEF IInv, Phase, CommitEntries, CountInv, CommitEntriesOnce
  <2>2. ~(n.dst = m.dst /\ n.hash = m.hash)
    BY <1>1, <1>2, <2>1, SameEntry
  <2>3. QED
    BY <1>3, <2>1, <2>2
<1>8. CommitCounted'
  BY <1>1, <1>2, CountOne DEF CountInv
<1>9. FragmentUntilCommitted'
  BY <1>1, <1>4 DEF CountInv, FragmentUntilCommitted
<1>10. OwnShareAfterRefresh'
  BY <1>1 DEF CountInv, OwnShareAfterRefresh, HasSigner
<1>11. NoSecondQuorum'
  <2> SUFFICES ASSUME NEW k \in Leaders, NEW c \in BlockId,
                      <<k, c>> \in committed[k], commitCache[k][c].hash = <<k, c>>,
                      ~IsFull(commitCache[k][c])
               PROVE  TooFewLeft(k, c)'
    BY <1>1, <1>4 DEF NoSecondQuorum, IsFull
  <2>1. TooFewLeft(k, c) /\ c \notin refreshing'[k]
    BY <1>1 DEF CountInv, NoSecondQuorum, TooFewLeft
  <2>2. CountedWorkers(k, c)' = CountedWorkers(k, c)
    BY <1>1 DEF CountedWorkers, HasSigner
  <2>3. QED
    BY <1>1, <2>1, <2>2, TooFewStay
<1>12. QED
  BY <1>5, <1>6, <1>7, <1>8, <1>9, <1>10, <1>11 DEF CountInv

-----------------------------------------------------------------------------
LEMMA CountInit == Init => CountInv
<1> SUFFICES ASSUME Init PROVE CountInv
  OBVIOUS
<1>1. /\ msgs = {} /\ \A s \in Server : committed[s] = {} /\ commitIndex[s] = 0
      /\ \A l \in Leaders : refreshing[l] = {} /\ clearing[l] = {} /\ blockIdCounter[l] = 0
      /\ Leaders \subseteq Server
  BY ReplicationAssumption DEF Init
<1>2. CommitCounted
  BY <1>1, FS_EmptySet DEF CommitCounted
<1>3. FragmentUntilCommitted
  BY <1>1 DEF FragmentUntilCommitted, BlockId
<1>4. QED
  BY <1>1, <1>2, <1>3 DEF CountInv, ClearingCommitted, ProposerCommitted, CommitEntriesOnce,
                          OwnShareAfterRefresh, NoSecondQuorum

LEMMA CountStep == IInv /\ CountInv /\ [Next]_vars => CountInv'
<1> SUFFICES ASSUME IInv, CountInv, [Next]_vars PROVE CountInv'
  OBVIOUS
<1>1. ASSUME msgs' \subseteq msgs \/ \E m \in msgs : PostEntryAccepted(m),
             UNCHANGED <<blockIdCounter, publishing, commitCache, refreshing, clearing,
                         commitIndex, committed>>
      PROVE  CountInv'
  <2>1. \A m \in msgs' : m.type = "commit" => m \in msgs
    <3>1. ASSUME NEW n \in msgs, PostEntryAccepted(n)
          PROVE  \A m \in msgs' : m.type = "commit" => m \in msgs
      BY <3>1 DEF PostEntryAccepted, ReplyTo
    <3>2. QED
      BY <1>1, <3>1
  <2>2. ClearingCommitted' /\ ProposerCommitted' /\ CommitEntriesOnce' /\ CommitCounted'
    BY <1>1, <2>1, NothingCommitted
  <2>3. FragmentUntilCommitted' /\ OwnShareAfterRefresh' /\ NoSecondQuorum'
    BY <1>1, FragmentsKept
  <2>4. QED
    BY <2>2, <2>3 DEF CountInv
<1>2. ASSUME NEW m \in msgs,
             \/ PostEntryRejected(m) \/ PostEntryAccepted(m) \/ PostReplyWithoutFragment(m)
             \/ PostReplyAfterQuorum(m) \/ OrderEntryRejected(m) \/ OrderReplyIgnored(m)
             \/ CommitEntryRejected(m)
      PROVE CountInv'
  BY <1>1, <1>2 DEF PostEntryRejected, PostEntryAccepted, PostReplyWithoutFragment,
       PostReplyAfterQuorum, PostReplyArrived, OrderEntryRejected, OrderReplyIgnored,
       CommitEntryRejected
<1>3. ASSUME \/ \E l \in Leaders, w \in Server, p \in Phase : RegisterWorker(l, w, p)
             \/ \E s \in Server : Crash(s)
             \/ UNCHANGED vars
      PROVE CountInv'
  BY <1>1, <1>3 DEF RegisterWorker, Crash, vars
<1>4. QED
  BY <1>2, <1>3, PackBlockCount, DisseminateCount, ClearCachesCount, RefreshCount,
     PostReplyCountedCount, OrderEntryAcceptedCount, OrderReplyCountedCount,
     CommitEntryAcceptedCount DEF Next, Continue, HandleSome, Handle

LEMMA CountInvariance == Spec => []CountInv
BY CountInit, CountStep, Invariance, PTL DEF Spec

(* Every server counts each block it commits once (incrementCommitIndex),   *)
(* although fragments are reset after they were full and late replies refill*)
(* them: for every cluster and any number of leaders.                       *)
THEOREM CommitsAreCounted == Spec => []CommitCounted
<1>1. CountInv => CommitCounted
  BY DEF CountInv
<1>2. QED
  BY <1>1, CountInvariance, PTL

(* "THIS SHOULD NEVER HAPPEN" does happen, but only for blocks that are     *)
(* committed: an order handler misses its commit fragment only when the     *)
(* answers to its own broadcast have committed the block.                   *)
THEOREM CommitFragmentsAreKept == Spec => []CommitFragmentKept
<1>1. IInv /\ CountInv => CommitFragmentKept
  <2> SUFFICES ASSUME IInv, CountInv, NEW l \in Leaders, NEW b \in refreshing[l],
                      commitCache[l][b] = NoFragment
               PROVE  \E h \in committed[l] : h[2] = b
    BY DEF CommitFragmentKept
  <2>1. b \in BlockId /\ l \in Server /\ Backed(<<l, b>>)
    BY ReplicationAssumption DEF IInv, TypeOK, RefreshingBacked
  <2>2. b <= blockIdCounter[l] /\ b \notin publishing[l]
    BY <2>1, OrderedWasPublished
  <2>3. <<l, b>> \in committed[l]
    BY <2>1, <2>2 DEF CountInv, FragmentUntilCommitted
  <2>4. QED
    BY <2>3
<1>2. QED
  BY <1>1, CountInvariance, Invariance, PTL

-----------------------------------------------------------------------------
(* A block that was not sent out is not ordered. *)
LEMMA UnpublishedUnordered ==
  ASSUME IInv, NEW l \in Leaders, NEW b \in publishing[l]
  PROVE  Unordered(<<l, b>>)
<1>1. b \in BlockId /\ l \in Server
  BY ReplicationAssumption DEF IInv, TypeOK
<1>2. ~Backed(<<l, b>>) /\ \A s \in Server : Signature("order", s, <<l, b>>) \notin signed
  BY <1>1, OrderedWasPublished
<1>3. QED
  BY <1>2 DEF Unordered, IInv, OrderEntries, RefreshingBacked

(* Only the reply that completes a quorum has a block ordered. *)
LEMMA UnorderedStays ==
  ASSUME IInv, [Next]_vars, NEW l \in Leaders, NEW b \in BlockId,
         Unordered(<<l, b>>), b \notin refreshing'[l]
  PROVE  Unordered(<<l, b>>)'
<1> DEFINE g == <<l, b>>
<1>1. ASSUME \A m \in msgs' : m.type = "order" => m \in msgs \/ m.hash # g,
             \A s \in Server : Signature("order", s, g) \in signed' => Signature("order", s, g) \in signed
      PROVE  Unordered(g)'
  BY <1>1 DEF Unordered
<1> HIDE DEF g
<1>2. ASSUME NEW m \in msgs, PostReplyCounted(m) PROVE Unordered(g)'
  <2> DEFINE frag == orderCache[m.dst][m.id]
             recovered == QuorumRecovered(frag, Append(frag.sigs, m.share))
             sent == Broadcast(m.dst, "order", m.id, frag.hash)
  <2>1. /\ m.type = "postReply"
        /\ recovered => /\ msgs' = (msgs \ {m}) \cup sent
                        /\ refreshing' = [refreshing EXCEPT ![m.dst] = @ \cup {m.id}]
        /\ ~recovered => msgs' = msgs \ {m}
        /\ UNCHANGED signed
    BY <1>2 DEF PostReplyCounted
  <2>2. m.dst \in Leaders /\ refreshing \in [Leaders -> SUBSET BlockId]
    BY <2>1, ReplyFields DEF IInv, TypeOK
  <2>3. recovered => frag.hash = <<m.dst, m.id>>
    BY <1>2, PostReplyQuorum, Zenon DEF QuorumRecovered, WithSigs
  <2>4. \A n \in sent : n.hash = frag.hash
    BY BroadcastFields
  <2> HIDE DEF sent, recovered, frag
  <2>5. recovered => <<m.dst, m.id>> # g
    BY <2>1, <2>2 DEF g
  <2>6. QED
    BY <1>1, <2>1, <2>3, <2>4, <2>5
<1>3. ASSUME NEW k \in Leaders, NEW c \in BlockId, RefreshCommitFragment(k, c) PROVE Unordered(g)'
  <2> DEFINE h == commitCache[k][c].hash
  <2>1. /\ c \in refreshing[k]
        /\ UNCHANGED msgs
        /\ commitCache[k][c] = NoFragment => UNCHANGED signed
        /\ commitCache[k][c] # NoFragment => signed' = signed \cup {Signature("order", k, h)}
    BY <1>3 DEF RefreshCommitFragment
  <2>2. commitCache[k][c] # NoFragment => h # g
    <3> SUFFICES ASSUME commitCache[k][c] # NoFragment, h = g PROVE FALSE
      OBVIOUS
    <3>1. k \in Server /\ h # NoHash
      BY FragmentTypes, ReplicationAssumption DEF IInv, TypeOK
    <3>2. h # <<k, c>>
      BY <2>1 DEF Unordered, g
    <3>3. Signature("order", k, h) \in signed
      BY <3>1, <3>2 DEF IInv, CommitCacheOrdered
    <3>4. QED
      BY <3>1, <3>3 DEF Unordered, g
  <2> HIDE DEF h
  <2>3. QED
    BY <1>1, <2>1, <2>2, SignatureFields
<1>4. ASSUME NEW m \in msgs, OrderEntryAccepted(m) PROVE Unordered(g)'
  <2>1. /\ m.type = "order" /\ m.hash # g
        /\ msgs' = (msgs \ {m}) \cup {ReplyTo(m, "orderReply", orderCache[m.dst][m.id].hash)}
        /\ signed' = signed \cup {Signature("order", m.dst, m.hash)}
    BY <1>4 DEF OrderEntryAccepted, OrderEntryVerifies, PenVerify, Unordered, g
  <2>2. ReplyTo(m, "orderReply", orderCache[m.dst][m.id].hash).type = "orderReply"
    BY DEF ReplyTo
  <2>3. QED
    BY <1>1, <2>1, <2>2, SignatureFields
<1>5. ASSUME NEW k \in Leaders, NEW c \in BlockId, Disseminate(k, c) PROVE Unordered(g)'
  <2>1. msgs' = msgs \cup Broadcast(k, "post", c, <<k, c>>) /\ UNCHANGED signed
    BY <1>5 DEF Disseminate
  <2>2. QED
    BY <1>1, <2>1, BroadcastFields
<1>6. ASSUME NEW m \in msgs, OrderReplyCounted(m) PROVE Unordered(g)'
  <2> DEFINE sent == Broadcast(m.dst, "commit", m.id, commitCache[m.dst][m.id].hash)
  <2>1. msgs' \subseteq msgs \cup sent /\ UNCHANGED signed
    BY <1>6 DEF OrderReplyCounted
  <2>2. \A n \in sent : n.type = "commit"
    BY BroadcastFields
  <2> HIDE DEF sent
  <2>3. QED
    BY <1>1, <2>1, <2>2
<1>7. ASSUME NEW m \in msgs, PostEntryAccepted(m) PROVE Unordered(g)'
  BY <1>1, <1>7, SignatureFields DEF PostEntryAccepted, ReplyTo
<1>8. ASSUME \/ \E m \in msgs : \/ PostEntryRejected(m) \/ PostReplyWithoutFragment(m)
                                \/ PostReplyAfterQuorum(m) \/ OrderEntryRejected(m)
                                \/ OrderReplyIgnored(m) \/ CommitEntryRejected(m)
                                \/ CommitEntryAccepted(m)
             \/ \E k \in Leaders : PackBlock(k)
             \/ \E k \in Leaders, c \in BlockId : ClearCaches(k, c)
             \/ \E k \in Leaders, w \in Server, p \in Phase : RegisterWorker(k, w, p)
             \/ \E s \in Server : Crash(s)
             \/ UNCHANGED vars
      PROVE Unordered(g)'
  <2>1. msgs' \subseteq msgs /\ UNCHANGED signed
    BY <1>8 DEF PostEntryRejected, PostReplyWithoutFragment, PostReplyAfterQuorum, PostReplyArrived,
                OrderEntryRejected, OrderReplyIgnored, CommitEntryRejected, CommitEntryAccepted,
                PackBlock, ClearCaches, RegisterWorker, Crash, vars
  <2>2. QED
    BY <1>1, <2>1
<1>9. Unordered(g)'
  BY <1>2, <1>3, <1>4, <1>5, <1>6, <1>7, <1>8 DEF Next, Continue, HandleSome, Handle
<1>10. QED
  BY <1>9 DEF g

(* Where the quorum takes every worker, the reply that completes it is the  *)
(* last message of its post phase.                                          *)
LEMMA LastPostReply ==
  ASSUME IInv, PanicInv, EveryWorkerNeeded, NEW m \in msgs, PostReplyCounted(m),
         LET frag == orderCache[m.dst][m.id]
         IN QuorumRecovered(frag, Append(frag.sigs, m.share)),
         NEW n \in msgs \ {m},
         \/ n.type = "post" /\ n.src = m.dst /\ n.id = m.id
         \/ n.type = "postReply" /\ n.dst = m.dst /\ n.id = m.id
  PROVE  FALSE
<1> DEFINE l == m.dst
           b == m.id
           frag == orderCache[l][b]
           new == WithSigs(frag, Append(frag.sigs, m.share))
           w == IF n.type = "post" THEN n.dst ELSE n.src
           S == {s \in Server \ {l} : s # w}
<1>1. m.type = "postReply"
  BY DEF PostReplyCounted
<1>2. /\ m \in Reply /\ m.src \in Server /\ l \in Leaders /\ l \in Server /\ b \in BlockId
      /\ <<l, b>> \in Hash /\ m.share = PenSign(m.src, <<l, b>>)
  BY <1>1, ReplyFields DEF IInv, Hash, PostReplies
<1>3. /\ new.sigs \in Seq(Share(Hash)) /\ Len(new.sigs) = Quorum
      /\ DistinctSigners(new)
      /\ \A s : HasSigner(new, s) => HasSigner(frag, s) \/ s = m.src
      /\ \A i \in DOMAIN new.sigs : Signature("post", new.sigs[i].signer, <<l, b>>) \in signed
  BY PostReplyQuorum, Zenon DEF QuorumRecovered, WithSigs
<1> HIDE DEF new
<1>4. /\ w \in Server /\ w # l
      /\ \/ Signature("post", w, <<l, b>>) \notin signed
         \/ ~HasSigner(new, w)
  <2>1. CASE n.type = "post"
    BY <2>1, EntryFields DEF IInv, Phase, PostEntries
  <2>2. CASE n.type = "postReply"
    <3>1. /\ n \in Reply /\ n.src \in Server /\ n.share = PenSign(n.src, <<l, b>>)
          /\ ~HasSigner(frag, n.src)
      BY <2>2, ReplyFields DEF IInv, PostReplies
    <3>2. n.src # m.src
      BY <1>1, <1>2, <2>2, <3>1, SameReply
    <3>3. n.src # l
      BY <2>2 DEF PanicInv, PostInFlightUnordered
    <3>4. QED
      BY <1>3, <2>2, <3>1, <3>2, <3>3
  <2>3. QED
    BY <2>1, <2>2
<1> HIDE DEF w, frag
<1>5. ASSUME NEW i \in DOMAIN new.sigs PROVE new.sigs[i].signer \in S
  <2>1. new.sigs[i] \in Share(Hash)
    BY <1>3
  <2>2. new.sigs[i].signer \in Server /\ HasSigner(new, new.sigs[i].signer)
    BY <2>1 DEF Share, HasSigner
  <2>3. new.sigs[i].signer # l
    <3>1. <<l, b>>[1] = l
      OBVIOUS
    <3>2. QED
      BY <1>2, <1>3, <2>2, <3>1 DEF PanicInv, PostSignedByOthers
  <2>4. QED
    BY <1>3, <1>4, <2>2, <2>3
<1>6. Cardinality(S) >= Quorum
  <2>1. S \in SUBSET Server
    OBVIOUS
  <2>2. \A i, j \in DOMAIN new.sigs : new.sigs[i].signer = new.sigs[j].signer => i = j
    BY <1>3 DEF DistinctSigners
  <2> HIDE DEF S
  <2>3. QED
    BY <1>3, <1>5, <2>1, <2>2, QuorumOfSigners
<1>7. S \subseteq Server /\ w \notin S /\ l \notin S \cup {w} /\ (S \cup {w}) \cup {l} \subseteq Server
  BY <1>2, <1>4
<1> HIDE DEF S
<1>8. /\ Cardinality(S \cup {w}) = Cardinality(S) + 1
      /\ Cardinality((S \cup {w}) \cup {l}) = Cardinality(S \cup {w}) + 1
  BY <1>7, ServersCounted, FS_AddElement
<1>9. Cardinality((S \cup {w}) \cup {l}) <= N /\ Cardinality(S) \in Nat
  BY <1>7, ServersCounted
<1>10. QED
  BY <1>6, <1>8, <1>9, QuorumValues DEF EveryWorkerNeeded

LEMMA PanicInit == Init => PanicInv
<1> SUFFICES ASSUME Init PROVE PanicInv
  OBVIOUS
<1>1. PostFragmentUntilCommitted
  BY DEF Init, PostFragmentUntilCommitted, BlockId
<1>2. QED
  BY <1>1 DEF Init, PanicInv, PostSignedByOthers, PostInFlightUnordered, NoPanic

(* A server signs the digests of others in the post phase. *)
LEMMA PostSignedByOthersStep == IInv /\ PostSignedByOthers /\ [Next]_vars => PostSignedByOthers'
<1> SUFFICES ASSUME IInv, PostSignedByOthers, [Next]_vars,
                    NEW s \in Server, NEW h \in Hash, Signature("post", s, h) \in signed'
             PROVE  s # h[1]
  BY DEF PostSignedByOthers
<1>1. CASE Signature("post", s, h) \in signed
  BY <1>1 DEF PostSignedByOthers
<1>2. CASE Signature("post", s, h) \notin signed
  <2>1. ASSUME NEW m \in msgs, PostEntryAccepted(m) PROVE s # h[1]
    <3>1. s = m.dst /\ h = m.hash /\ m.type = "post"
      BY <1>2, <2>1, SignatureFields DEF PostEntryAccepted
    <3>2. QED
      BY <3>1 DEF IInv, PostEntries
  <2>2. ASSUME NEW m \in msgs, OrderEntryAccepted(m) PROVE FALSE
    BY <1>2, <2>2, SignatureFields DEF OrderEntryAccepted
  <2>3. ASSUME NEW l \in Leaders, NEW b \in BlockId, RefreshCommitFragment(l, b) PROVE FALSE
    <3>1. UNCHANGED signed \/ signed' = signed \cup {Signature("order", l, commitCache[l][b].hash)}
      BY <2>3 DEF RefreshCommitFragment
    <3>2. QED
      BY <1>2, <3>1, SignatureFields
  <2>4. CASE UNCHANGED signed
    BY <1>2, <2>4
  <2>5. QED
    BY <2>1, <2>2, <2>3, <2>4, ZenonT(60)
       DEF Next, Continue, HandleSome, Handle, vars, PackBlock, Disseminate, ClearCaches,
           PostEntryRejected, PostReplyWithoutFragment, PostReplyAfterQuorum, PostReplyCounted,
           OrderEntryRejected, OrderReplyIgnored, OrderReplyCounted, CommitEntryRejected,
           CommitEntryAccepted, RegisterWorker, Crash
<1>3. QED
  BY <1>1, <1>2

(* The fragment for the post replies stays until the commit. *)
LEMMA PostFragmentStep ==
  IInv /\ CountInv /\ PostFragmentUntilCommitted /\ [Next]_vars => PostFragmentUntilCommitted'
<1> SUFFICES ASSUME IInv, CountInv, PostFragmentUntilCommitted, [Next]_vars
             PROVE  PostFragmentUntilCommitted'
  OBVIOUS
<1>1. /\ orderCache \in [Server -> [BlockId -> Fragment]]
      /\ blockIdCounter \in [Leaders -> Int]
      /\ Leaders \subseteq Server
  BY ReplicationAssumption DEF IInv, TypeOK
<1>2. \A h \in Hash : NewFragment(h) # NoFragment
  BY NewFragmentEmpty, NoFragmentEmpty, ReplicationAssumption
<1>3. ASSUME \A l \in Leaders, b \in BlockId :
                /\ orderCache[l][b] # NoFragment
                     => orderCache'[l][b] # NoFragment \/ <<l, b>> \in committed[l]
                /\ b <= blockIdCounter'[l] => b <= blockIdCounter[l] \/ orderCache'[l][b] # NoFragment
      PROVE  PostFragmentUntilCommitted'
  BY <1>1, <1>3, CommittedGrows DEF PostFragmentUntilCommitted
<1>4. ASSUME NEW l \in Leaders, PackBlock(l) PROVE PostFragmentUntilCommitted'
  <2> DEFINE b == blockIdCounter[l] + 1
  <2>1. /\ b \in BlockId
        /\ blockIdCounter' = [blockIdCounter EXCEPT ![l] = b]
        /\ orderCache' = [orderCache EXCEPT ![l][b] = NewFragment(<<l, b>>)]
        /\ <<l, b>> \in Hash
    BY <1>4 DEF PackBlock, Hash
  <2>2. \A t \in Server, c \in BlockId :
           orderCache'[t][c] = IF t = l /\ c = b THEN NewFragment(<<l, b>>) ELSE orderCache[t][c]
    BY <1>1, <2>1, CacheUpdate
  <2>3. \A k \in Leaders, c \in BlockId :
           orderCache[k][c] # NoFragment => orderCache'[k][c] # NoFragment
    BY <1>1, <1>2, <2>1, <2>2
  <2>4. \A k \in Leaders, c \in BlockId :
           c <= blockIdCounter'[k] => c <= blockIdCounter[k] \/ (k = l /\ c = b)
    BY <1>1, <2>1 DEF BlockId
  <2>5. orderCache'[l][b] # NoFragment
    BY <1>1, <1>2, <2>1, <2>2
  <2> HIDE DEF b
  <2>6. QED
    BY <1>3, <2>3, <2>4, <2>5
<1>5. ASSUME NEW l \in Leaders, NEW b \in BlockId, ClearCaches(l, b)
      PROVE  PostFragmentUntilCommitted'
  <2>1. /\ b \in clearing[l]
        /\ orderCache' = [orderCache EXCEPT ![l][b] = NoFragment]
        /\ UNCHANGED blockIdCounter
    BY <1>5 DEF ClearCaches
  <2>2. \A t \in Server, c \in BlockId :
           orderCache'[t][c] = IF t = l /\ c = b THEN NoFragment ELSE orderCache[t][c]
    BY <1>1, <2>1, CacheUpdate
  <2>3. <<l, b>> \in committed[l]
    BY <2>1 DEF CountInv, ClearingCommitted
  <2>4. QED
    BY <1>1, <1>3, <2>1, <2>2, <2>3
<1>6. ASSUME NEW m \in msgs, PostEntryAccepted(m) PROVE PostFragmentUntilCommitted'
  <2>1. /\ m.type = "post"
        /\ orderCache' = [orderCache EXCEPT ![m.dst][m.id] = NewFragment(m.hash)]
        /\ UNCHANGED blockIdCounter
    BY <1>6 DEF PostEntryAccepted
  <2>2. m.dst \in Server /\ m.id \in BlockId /\ m.hash \in Hash
    BY <2>1, EntryFields DEF IInv, Phase
  <2>3. \A t \in Server, c \in BlockId :
           orderCache'[t][c] = IF t = m.dst /\ c = m.id THEN NewFragment(m.hash) ELSE orderCache[t][c]
    BY <1>1, <2>1, <2>2, CacheUpdate
  <2>4. QED
    BY <1>1, <1>2, <1>3, <2>1, <2>2, <2>3
<1>7. ASSUME NEW m \in msgs, PostReplyCounted(m) PROVE PostFragmentUntilCommitted'
  <2> DEFINE frag == orderCache[m.dst][m.id]
             new == WithSigs(frag, Append(frag.sigs, m.share))
  <2>1. /\ m.type = "postReply" /\ frag # NoFragment
        /\ orderCache' = [orderCache EXCEPT ![m.dst][m.id] = new]
        /\ UNCHANGED blockIdCounter
    BY <1>7 DEF PostReplyCounted
  <2>2. m.dst \in Server /\ m.id \in BlockId
    BY <2>1, ReplyFields DEF IInv
  <2>3. new # NoFragment
    <3>1. frag.hash \in Hash /\ new.hash = frag.hash
      BY <1>1, <2>1, <2>2, FragmentTypes DEF WithSigs
    <3>2. QED
      BY <3>1, NoFragmentEmpty, ReplicationAssumption
  <2> HIDE DEF new
  <2>4. \A t \in Server, c \in BlockId :
           orderCache'[t][c] = IF t = m.dst /\ c = m.id THEN new ELSE orderCache[t][c]
    BY <1>1, <2>1, <2>2, CacheUpdate
  <2>5. QED
    BY <1>1, <1>3, <2>1, <2>3, <2>4
<1>8. CASE UNCHANGED <<orderCache, blockIdCounter>>
  BY <1>3, <1>8
<1>9. QED
  BY <1>4, <1>5, <1>6, <1>7, <1>8, ZenonT(60)
     DEF Next, Continue, HandleSome, Handle, vars, Disseminate, RefreshCommitFragment,
         PostEntryRejected, PostReplyWithoutFragment, PostReplyAfterQuorum, PostReplyArrived,
         OrderEntryRejected, OrderEntryAccepted, OrderReplyIgnored, OrderReplyCounted,
         CommitEntryRejected, CommitEntryAccepted, RegisterWorker, Crash

(* A message of the post phase is in flight only before the order phase. *)
LEMMA PostInFlightStep ==
  ASSUME IInv, PanicInv, EveryWorkerNeeded, [Next]_vars
  PROVE  PostInFlightUnordered'
<1> DEFINE Mine(n, l, b) == \/ n.type = "post" /\ n.src = l /\ n.id = b
                            \/ n.type = "postReply" /\ n.dst = l /\ n.id = b
<1>1. ASSUME NEW l \in Leaders, NEW b \in BlockId, b \notin refreshing[l], b \in refreshing'[l]
      PROVE  \E m \in msgs : /\ PostReplyCounted(m) /\ m.dst = l /\ m.id = b
                             /\ LET frag == orderCache[m.dst][m.id]
                                IN QuorumRecovered(frag, Append(frag.sigs, m.share))
                             /\ \A n \in msgs' : n.type \in {"post", "postReply"} => n \in msgs \ {m}
  <2>1. refreshing \in [Leaders -> SUBSET BlockId]
    BY DEF IInv, TypeOK
  <2>2. PICK m \in msgs : PostReplyCounted(m)
    <3>1. CASE \E k \in Leaders, c \in BlockId : RefreshCommitFragment(k, c)
      <4>1. \E k, c : refreshing' = [refreshing EXCEPT ![k] = @ \ {c}]
        BY <3>1 DEF RefreshCommitFragment
      <4>2. QED
        BY <1>1, <2>1, <4>1
    <3>2. CASE UNCHANGED refreshing
      BY <1>1, <3>2
    <3>3. QED
      BY <3>1, <3>2, ZenonT(60)
         DEF Next, Continue, HandleSome, Handle, vars, PackBlock, Disseminate, ClearCaches,
             PostEntryRejected, PostEntryAccepted, PostReplyWithoutFragment, PostReplyAfterQuorum,
             OrderEntryRejected, OrderEntryAccepted, OrderReplyIgnored, OrderReplyCounted,
             CommitEntryRejected, CommitEntryAccepted, RegisterWorker, Crash
  <2> DEFINE frag == orderCache[m.dst][m.id]
             recovered == QuorumRecovered(frag, Append(frag.sigs, m.share))
             sent == Broadcast(m.dst, "order", m.id, frag.hash)
  <2>3. /\ recovered => /\ msgs' = (msgs \ {m}) \cup sent
                        /\ refreshing' = [refreshing EXCEPT ![m.dst] = @ \cup {m.id}]
        /\ ~recovered => UNCHANGED refreshing
    BY <2>2 DEF PostReplyCounted
  <2>4. \A n \in sent : n.type = "order"
    BY BroadcastFields
  <2> HIDE DEF sent, recovered
  <2>5. recovered /\ m.dst = l /\ m.id = b
    BY <1>1, <2>1, <2>3
  <2>6. \A n \in msgs' : n.type \in {"post", "postReply"} => n \in msgs \ {m}
    BY <2>3, <2>4, <2>5
  <2>7. QED
    BY <2>2, <2>5, <2>6 DEF recovered
<1>2. ASSUME NEW l \in Leaders, NEW b \in BlockId, NEW n \in msgs', Mine(n, l, b), Unordered(<<l, b>>)
      PROVE  Unordered(<<l, b>>)'
  <2>1. CASE b \notin refreshing'[l]
    BY <1>2, <2>1, UnorderedStays
  <2>2. CASE b \in refreshing'[l]
    <3>1. b \notin refreshing[l]
      <4>1. <<l, b>>[1] = l /\ <<l, b>>[2] = b
        OBVIOUS
      <4>2. QED
        BY <1>2, <4>1 DEF Unordered
    <3>2. PICK m \in msgs :
             /\ PostReplyCounted(m) /\ m.dst = l /\ m.id = b
             /\ LET frag == orderCache[m.dst][m.id]
                IN QuorumRecovered(frag, Append(frag.sigs, m.share))
             /\ \A x \in msgs' : x.type \in {"post", "postReply"} => x \in msgs \ {m}
      BY <1>1, <2>2, <3>1
    <3>3. n \in msgs \ {m}
      BY <1>2, <3>2
    <3>4. FALSE
      BY <1>2, <3>2, <3>3, LastPostReply
    <3>5. QED
      BY <3>4
  <2>3. QED
    BY <2>1, <2>2
<1>3. ASSUME NEW n \in msgs', n.type \in {"post", "postReply"}
      PROVE  LET l == IF n.type = "post" THEN n.src ELSE n.dst
             IN /\ l \in Leaders /\ n.id \in BlockId /\ Unordered(<<l, n.id>>)
                /\ n.type = "postReply" => n.src # n.dst
  <2>1. CASE n \in msgs
    <3>1. CASE n.type = "post"
      BY <2>1, <3>1, EntryFields DEF IInv, Phase, PanicInv, PostInFlightUnordered
    <3>2. CASE n.type = "postReply"
      BY <2>1, <3>2, ReplyFields DEF IInv, PanicInv, PostInFlightUnordered
    <3>3. QED
      BY <1>3, <3>1, <3>2
  <2>2. CASE n \notin msgs
    <3>1. ASSUME NEW l \in Leaders, NEW b \in BlockId, Disseminate(l, b)
          PROVE  n.type = "post" /\ n.src = l /\ n.id = b /\ Unordered(<<l, b>>)
      <4>1. n \in Broadcast(l, "post", b, <<l, b>>) /\ b \in publishing[l]
        BY <2>2, <3>1 DEF Disseminate
      <4>2. QED
        BY <4>1, BroadcastFields, UnpublishedUnordered
    <3>2. ASSUME NEW m \in msgs, PostEntryAccepted(m)
          PROVE  /\ n.type = "postReply" /\ n.dst \in Leaders /\ n.id \in BlockId
                 /\ Unordered(<<n.dst, n.id>>) /\ n.src # n.dst
      <4>1. m.type = "post" /\ n = ReplyTo(m, "postReply", m.hash)
        BY <2>2, <3>2 DEF PostEntryAccepted
      <4>2. n.type = "postReply" /\ n.src = m.dst /\ n.dst = m.src /\ n.id = m.id
        BY <4>1 DEF ReplyTo
      <4>3. m.src \in Leaders /\ m.id \in BlockId
        BY <4>1, EntryFields DEF IInv, Phase
      <4>4. m.src # m.dst /\ Unordered(<<m.src, m.id>>)
        BY <4>1 DEF IInv, PostEntries, PanicInv, PostInFlightUnordered
      <4>5. QED
        BY <4>2, <4>3, <4>4
    <3>3. ASSUME NEW m \in msgs, PostReplyCounted(m) PROVE FALSE
      <4>1. msgs' \subseteq msgs \cup Broadcast(m.dst, "order", m.id, orderCache[m.dst][m.id].hash)
        BY <3>3 DEF PostReplyCounted
      <4>2. QED
        BY <1>3, <2>2, <4>1, BroadcastFields
    <3>4. ASSUME NEW m \in msgs, OrderReplyCounted(m) PROVE FALSE
      <4>1. msgs' \subseteq msgs \cup Broadcast(m.dst, "commit", m.id, commitCache[m.dst][m.id].hash)
        BY <3>4 DEF OrderReplyCounted
      <4>2. QED
        BY <1>3, <2>2, <4>1, BroadcastFields
    <3>5. ASSUME NEW m \in msgs, OrderEntryAccepted(m) PROVE FALSE
      BY <1>3, <2>2, <3>5 DEF OrderEntryAccepted, ReplyTo
    <3>6. CASE msgs' \subseteq msgs
      BY <2>2, <3>6
    <3>7. QED
      BY <3>1, <3>2, <3>3, <3>4, <3>5, <3>6, ZenonT(60)
         DEF Next, Continue, HandleSome, Handle, vars, PackBlock, RefreshCommitFragment, ClearCaches,
             PostEntryRejected, PostReplyWithoutFragment, PostReplyAfterQuorum, PostReplyArrived,
             OrderEntryRejected, OrderReplyIgnored, CommitEntryRejected, CommitEntryAccepted,
             RegisterWorker, Crash
  <2>3. QED
    BY <2>1, <2>2
<1>4. QED
  BY <1>2, <1>3 DEF PostInFlightUnordered

(* No post reply finds its fragment gone. *)
LEMMA NoPanicStep ==
  ASSUME IInv, PanicInv, EveryWorkerNeeded, [Next]_vars
  PROVE  NoPanic'
<1>1. ASSUME NEW m \in msgs, PostReplyWithoutFragment(m) PROVE FALSE
  <2>1. m.type = "postReply" /\ orderCache[m.dst][m.id] = NoFragment
    BY <1>1 DEF PostReplyWithoutFragment, PostReplyArrived
  <2>2. m.dst \in Leaders /\ m.dst \in Server /\ m.src \in Server /\ m.id \in BlockId
    BY <2>1, ReplyFields DEF IInv
  <2>3. Signature("post", m.src, <<m.dst, m.id>>) \in signed
    BY <2>1 DEF IInv, PostReplies
  <2>4. m.id <= blockIdCounter[m.dst]
    <3>1. blockIdCounter[m.dst] \in Int /\ m.id \in Int
      BY <2>2 DEF IInv, TypeOK, BlockId
    <3>2. QED
      BY <2>2, <2>3, <3>1 DEF IInv, UnpublishedUnsigned
  <2>5. <<m.dst, m.id>> \in committed[m.dst]
    BY <2>1, <2>2, <2>4 DEF PanicInv, PostFragmentUntilCommitted
  <2>6. Unordered(<<m.dst, m.id>>)
    BY <2>1 DEF PanicInv, PostInFlightUnordered
  <2>7. QED
    BY <2>2, <2>5, <2>6, UnorderedIsNew
<1>2. \A s \in Server : status[s] # "panicked" /\ status \in [Server -> {"up", "crashed", "panicked"}]
  BY DEF PanicInv, NoPanic, IInv, TypeOK
<1>3. ASSUME NEW s \in Server, Crash(s) PROVE NoPanic'
  BY <1>2, <1>3 DEF Crash, NoPanic
<1>4. CASE UNCHANGED status
  BY <1>2, <1>4 DEF NoPanic
<1>5. QED
  BY <1>1, <1>3, <1>4, ZenonT(60)
     DEF Next, Continue, HandleSome, Handle, vars, PackBlock, Disseminate, RefreshCommitFragment,
         ClearCaches, PostEntryRejected, PostEntryAccepted, PostReplyAfterQuorum, PostReplyCounted,
         OrderEntryRejected, OrderEntryAccepted, OrderReplyIgnored, OrderReplyCounted,
         CommitEntryRejected, CommitEntryAccepted, RegisterWorker

LEMMA PanicStep == IInv /\ CountInv /\ PanicInv /\ [Next]_vars => PanicInv'
<1> SUFFICES ASSUME IInv, CountInv, PanicInv, [Next]_vars PROVE PanicInv'
  OBVIOUS
<1>1. PostSignedByOthers' /\ PostFragmentUntilCommitted'
  BY PostSignedByOthersStep, PostFragmentStep DEF PanicInv
<1>2. EveryWorkerNeeded => PostInFlightUnordered' /\ NoPanic'
  BY PostInFlightStep, NoPanicStep
<1>3. QED
  BY <1>1, <1>2 DEF PanicInv, EveryWorkerNeeded

LEMMA PanicInvariance == Spec => []PanicInv
BY PanicInit, PanicStep, CountInvariance, Invariance, PTL DEF Spec

(* In a cluster where the quorum takes every worker, as the four servers of *)
(* the repository's cluster file, a late post reply never finds its fragment*)
(* gone: no server is stopped by a Go panic.                                *)
THEOREM NoServerPanics == EveryWorkerNeeded => (Spec => []NoPanic)
<1> SUFFICES ASSUME EveryWorkerNeeded PROVE Spec => []NoPanic
  OBVIOUS
<1>1. PanicInv => NoPanic
  BY DEF PanicInv
<1>2. QED
  BY <1>1, PanicInvariance, PTL
=============================================================================
