-------------------------- MODULE ConfirmationProofs --------------------------
(***************************************************************************)
(* The confirmations to the clients: what is proved of Replication holds   *)
(* with them too, clients are told of committed blocks only, each once,    *)
(* and no connection that fails costs another client its confirmation.     *)
(***************************************************************************)
EXTENDS Confirmation, ReplicationCountingProofs

(* The variables of Replication, without the status of the servers. *)
blockVars == <<blockIdCounter, publishing, orderCache, commitCache, refreshing,
               clearing, commitIndex, registered, msgs, signed, committed>>

(* A step is one of Replication, or stops a server in notifyClients. *)
LEMMA ConfirmSteps ==
  [ConfirmNext]_confirmVars
    => [Next]_vars \/ (UNCHANGED blockVars /\ \E s \in Server : status' = [status EXCEPT ![s] = "panicked"])
<1> SUFFICES ASSUME [ConfirmNext]_confirmVars
             PROVE  [Next]_vars \/ (UNCHANGED blockVars /\ \E s \in Server : status' = [status EXCEPT ![s] = "panicked"])
  OBVIOUS
<1>1. ASSUME Replicate PROVE Next
  BY <1>1 DEF Replicate, Lead, Next, Continue
<1>2. ASSUME NEW m \in msgs, HandleAndNotify(m) PROVE Next
  BY <1>2 DEF HandleAndNotify, Next, HandleSome
<1>3. ASSUME NEW l \in Leaders, NEW b \in BlockId, ClearAfterNotifying(l, b) PROVE Next
  BY <1>3 DEF ClearAfterNotifying, Next, Continue
<1>4. ASSUME NEW s \in Server, NEW n \in notifying[s], NEW c \in Client,
             NotifyClient(s, n, c) \/ NotifyFails(s, n, c)
      PROVE  UNCHANGED vars
  BY <1>4 DEF NotifyClient, NotifyFails
<1>5. ASSUME NEW s \in Server, NEW n \in notifying[s], NEW c \in Client, NotifyPanics(s, n, c)
      PROVE  UNCHANGED blockVars /\ status' = [status EXCEPT ![s] = "panicked"]
  BY <1>5 DEF NotifyPanics, blockVars
<1>6. ASSUME NEW s \in Server, NEW c \in Client, ClientConnects(s, c) \/ ClientLeaves(s, c)
      PROVE  UNCHANGED vars
  BY <1>6 DEF ClientConnects, ClientLeaves, LinkChanges
<1>7. CASE UNCHANGED confirmVars
  BY <1>7 DEF confirmVars
<1>8. QED
  BY <1>1, <1>2, <1>3, <1>4, <1>5, <1>6, <1>7 DEF ConfirmNext, Notify

(* A server that stops changes nothing the invariants speak of but its      *)
(* status.                                                                  *)
LEMMA PanicKeeps ==
  ASSUME IInv, CertInv, CountInv, UNCHANGED blockVars, NEW s \in Server,
         status' = [status EXCEPT ![s] = "panicked"]
  PROVE  IInv' /\ CertInv' /\ CountInv'
<1>1. TypeOK'
  BY DEF IInv, TypeOK, blockVars
<1>2. IInv'
  BY <1>1, FewerMessages DEF blockVars, invVars
<1>3. CertInv'
  BY CertQuiet DEF blockVars
<1>4. CountInv'
  <2>1. ClearingCommitted' /\ ProposerCommitted' /\ CommitEntriesOnce' /\ CommitCounted'
    BY NothingCommitted DEF blockVars
  <2>2. FragmentUntilCommitted' /\ OwnShareAfterRefresh'
    BY DEF blockVars, CountInv, FragmentUntilCommitted, OwnShareAfterRefresh, HasSigner
  <2>3. ASSUME NEW l \in Leaders, NEW b \in BlockId, TooFewLeft(l, b) PROVE TooFewLeft(l, b)'
    <3>1. Uncounted(l, b)' = Uncounted(l, b) /\ CountedWorkers(l, b)' = CountedWorkers(l, b)
      BY DEF blockVars, Uncounted, ReplyInFlight, CountedWorkers, HasSigner
    <3>2. QED
      BY <2>3, <3>1 DEF blockVars, TooFewLeft
  <2>4. NoSecondQuorum'
    BY <2>3 DEF blockVars, CountInv, NoSecondQuorum, IsFull
  <2>5. QED
    BY <2>1, <2>2, <2>4 DEF CountInv
<1>5. QED
  BY <1>2, <1>3, <1>4

BlockInv == IInv /\ CertInv /\ CountInv

LEMMA BlockInvInit == ConfirmInit => BlockInv
BY InvInit, CertInit, CountInit DEF ConfirmInit, BlockInv

LEMMA BlockInvStep == BlockInv /\ [ConfirmNext]_confirmVars => BlockInv'
BY ConfirmSteps, PanicKeeps, InvStep, CertStep, CountStep DEF BlockInv

(* What holds of the replication of blocks holds with confirmations too. *)
THEOREM BlockInvariance == ConfirmSpec => []BlockInv
BY BlockInvInit, BlockInvStep, PTL DEF ConfirmSpec

(* The replication of blocks with confirmations, with servers that stop in  *)
(* the middle of them, implements BlockCommit.                              *)
THEOREM ConfirmRefinement == ConfirmSpec => ImplementsBlockCommit
<1>1. BlockInv /\ [ConfirmNext]_confirmVars => [BC!Next]_(BC!vars)
  <2> SUFFICES ASSUME BlockInv, [ConfirmNext]_confirmVars PROVE [BC!Next]_bcVars
    BY DEF BC!vars, bcVars
  <2>1. CASE [Next]_vars
    BY <2>1, RefinementStep DEF BlockInv
  <2>2. CASE UNCHANGED blockVars
    BY <2>2, SameHistory DEF blockVars, bcVars
  <2>3. QED
    BY <2>1, <2>2, ConfirmSteps
<1>2. ConfirmInit => BC!Init
  BY RefinementInit DEF ConfirmInit
<1>3. QED
  BY <1>1, <1>2, BlockInvariance, PTL DEF ConfirmSpec, ImplementsBlockCommit, BC!Spec

-----------------------------------------------------------------------------
(* A handler that counts a commit is the only one to commit that block at   *)
(* its server.                                                              *)
LEMMA CommitsOnce ==
  ASSUME BlockInv, NEW m \in msgs, Handle(m)
  PROVE  LET h == commitCache[m.dst][m.id].hash
         IN /\ Commits(m) => /\ m.type \in {"orderReply", "commit"}
                             /\ m.dst \in Server /\ h \in Hash /\ h \notin committed[m.dst]
                             /\ committed' = [committed EXCEPT ![m.dst] = @ \cup {h}]
            /\ ~Commits(m) => UNCHANGED committed
<1> DEFINE h == commitCache[m.dst][m.id].hash
<1>1. /\ commitIndex \in [Server -> Nat]
      /\ commitCache \in [Server -> [BlockId -> Fragment]]
  BY DEF BlockInv, IInv, TypeOK
<1>2. CASE OrderReplyCounted(m)
  <2> DEFINE frag == commitCache[m.dst][m.id]
             recovered == QuorumRecovered(frag, Append(frag.sigs, m.share))
  <2>1. /\ m.type = "orderReply" /\ frag # NoFragment
        /\ recovered => /\ commitIndex' = [commitIndex EXCEPT ![m.dst] = @ + 1]
                        /\ committed' = [committed EXCEPT ![m.dst] = @ \cup {h}]
        /\ ~recovered => UNCHANGED <<commitIndex, committed>>
    BY <1>2 DEF OrderReplyCounted
  <2>2. m.dst \in Server /\ m.id \in BlockId
    BY <2>1, ReplyFields DEF BlockInv, IInv
  <2>3. h \in Hash
    BY <1>1, <2>1, <2>2, FragmentTypes
  <2>4. recovered => h \notin committed[m.dst]
    BY <1>2, FirstCommit DEF BlockInv
  <2> HIDE DEF recovered, h
  <2>5. recovered <=> Commits(m)
    BY <1>1, <2>1, <2>2 DEF Commits
  <2>6. QED
    BY <2>1, <2>2, <2>3, <2>4, <2>5 DEF h
<1>3. CASE CommitEntryAccepted(m)
  <2>1. /\ m.type = "commit" /\ h = m.hash
        /\ commitIndex' = [commitIndex EXCEPT ![m.dst] = @ + 1]
        /\ committed' = [committed EXCEPT ![m.dst] = @ \cup {h}]
    BY <1>3 DEF CommitEntryAccepted, CommitEntryVerifies, PenVerify
  <2>2. m.dst \in Server /\ m.hash \in Hash /\ m.hash \notin committed[m.dst]
    BY <2>1, EntryFields DEF BlockInv, IInv, Phase, CountInv, CommitEntriesOnce
  <2> HIDE DEF h
  <2>3. Commits(m)
    BY <1>1, <2>1, <2>2 DEF Commits
  <2>4. QED
    BY <2>1, <2>2, <2>3 DEF h
<1>4. CASE UNCHANGED <<commitIndex, committed>>
  BY <1>4 DEF Commits
<1>5. QED
  BY <1>2, <1>3, <1>4, Zenon
     DEF Handle, PostEntryRejected, PostEntryAccepted, PostReplyWithoutFragment, PostReplyAfterQuorum,
         PostReplyCounted, OrderEntryRejected, OrderEntryAccepted, OrderReplyIgnored, CommitEntryRejected

Calls == [by : {"orderReply", "commit"}, hash : Hash, left : SUBSET Client]

(* A handler starts to notify the clients of the block it has committed. *)
LEMMA HandleAndNotifyStep ==
  ASSUME BlockInv, ConfirmInv, NEW m \in msgs, HandleAndNotify(m)
  PROVE  ConfirmInv'
<1> DEFINE h == commitCache[m.dst][m.id].hash
           call == Call(m)
<1>1. /\ Handle(m)
      /\ Commits(m) => notifying' = [notifying EXCEPT ![m.dst] = @ \cup {call}]
      /\ ~Commits(m) => UNCHANGED notifying
      /\ UNCHANGED <<link, confirmed>>
  BY DEF HandleAndNotify
<1>2. /\ Commits(m) => /\ m.type \in {"orderReply", "commit"}
                       /\ m.dst \in Server /\ h \in Hash /\ h \notin committed[m.dst]
                       /\ committed' = [committed EXCEPT ![m.dst] = @ \cup {h}]
      /\ ~Commits(m) => UNCHANGED committed
  BY <1>1, CommitsOnce
<1>3. call.hash = h /\ call.left = Client /\ (Commits(m) => call \in Calls)
  BY <1>2 DEF Call, Calls
<1>4. /\ notifying \in [Server -> SUBSET Calls] /\ committed \in [Server -> SUBSET Hash]
      /\ confirmed \subseteq Server \X Hash \X Client
  BY DEF ConfirmInv, ConfirmTypeOK, Calls, BlockInv, IInv, TypeOK
<1> HIDE DEF h, call
<1>5. CASE ~Commits(m)
  <2>1. UNCHANGED <<link, notifying, confirmed, committed>>
    BY <1>1, <1>2, <1>5
  <2>2. QED
    BY <2>1 DEF ConfirmInv, ConfirmTypeOK, NotifiesCommitted, OneCallPerBlock, HeardOrLeft, DownWasUp
<1>6. CASE Commits(m)
  <2>1. /\ m.dst \in Server /\ h \in Hash /\ h \notin committed[m.dst] /\ call \in Calls
        /\ notifying' = [notifying EXCEPT ![m.dst] = @ \cup {call}]
        /\ committed' = [committed EXCEPT ![m.dst] = @ \cup {h}]
    BY <1>1, <1>2, <1>3, <1>6
  <2>2. \A s \in Server : \A n : n \in notifying'[s] <=> n \in notifying[s] \/ (s = m.dst /\ n = call)
    BY <1>4, <2>1
  <2>3. \A s \in Server : \A g : g \in committed'[s] <=> g \in committed[s] \/ (s = m.dst /\ g = h)
    BY <1>4, <2>1
  <2>4. ConfirmTypeOK'
    <3>1. notifying' \in [Server -> SUBSET Calls]
      BY <1>4, <2>1
    <3>2. QED
      BY <1>1, <3>1 DEF ConfirmInv, ConfirmTypeOK, Calls
  <2>5. NotifiesCommitted'
    <3>1. \A r \in confirmed : r[1] \in Server
      BY <1>4
    <3>2. QED
      BY <1>1, <1>3, <2>2, <2>3, <3>1 DEF ConfirmInv, NotifiesCommitted
  <2>6. OneCallPerBlock'
    <3>1. \A n \in notifying[m.dst] : n.hash # h
      BY <2>1 DEF ConfirmInv, NotifiesCommitted
    <3>2. \A c \in Client : <<m.dst, h, c>> \notin confirmed
      BY <2>1 DEF ConfirmInv, NotifiesCommitted
    <3>3. QED
      BY <1>1, <1>3, <2>2, <3>1, <3>2 DEF ConfirmInv, OneCallPerBlock
  <2>7. HeardOrLeft'
    BY <1>1, <1>3, <2>2, <2>3 DEF ConfirmInv, HeardOrLeft
  <2>8. DownWasUp'
    BY <1>1 DEF ConfirmInv, DownWasUp
  <2>9. QED
    BY <2>4, <2>5, <2>6, <2>7, <2>8 DEF ConfirmInv
<1>7. QED
  BY <1>5, <1>6

(* A client was visited: the call goes on with the others. *)
LEMMA VisitedCalls ==
  ASSUME notifying \in [Server -> SUBSET Calls], NEW s \in Server, NEW n \in notifying[s],
         NEW left \in SUBSET n.left, Visited(s, n, left)
  PROVE  /\ notifying' \in [Server -> SUBSET Calls]
         /\ \A t \in Server : \A k \in notifying'[t] :
               \/ k \in notifying[t] /\ ~(t = s /\ k = n)
               \/ t = s /\ k.hash = n.hash /\ k.left = left /\ k = [n EXCEPT !.left = left]
         /\ \A t \in Server : \A k \in notifying[t] : k \in notifying'[t] \/ (t = s /\ k = n)
         /\ left # {} => \E k \in notifying'[s] : k.hash = n.hash /\ k.left = left
<1> DEFINE new == [n EXCEPT !.left = left]
<1>1. n \in Calls
  OBVIOUS
<1>2. new \in Calls /\ new.hash = n.hash /\ new.left = left
  BY <1>1 DEF Calls
<1>3. notifying' = [notifying EXCEPT ![s] = (@ \ {n}) \cup (IF left = {} THEN {} ELSE {new})]
  BY DEF Visited
<1> HIDE DEF new
<1>4. notifying' \in [Server -> SUBSET Calls]
  BY <1>2, <1>3
<1>5. \A t \in Server : \A k \in notifying'[t] :
         \/ k \in notifying[t] /\ ~(t = s /\ k = n)
         \/ t = s /\ k = new
  BY <1>3
<1>6. \A t \in Server : \A k \in notifying[t] : k \in notifying'[t] \/ (t = s /\ k = n)
  BY <1>3
<1>7. left # {} => new \in notifying'[s]
  BY <1>3
<1>8. QED
  BY <1>2, <1>4, <1>5, <1>6, <1>7 DEF new

LEMMA NotifyClientStep ==
  ASSUME BlockInv, ConfirmInv, NEW s \in Server, NEW n \in notifying[s], NEW c \in Client,
         NotifyClient(s, n, c) \/ NotifyFails(s, n, c)
  PROVE  ConfirmInv'
<1> DEFINE left == n.left \ {c}
           told == <<s, n.hash, c>>
<1>1. /\ c \in n.left /\ Visited(s, n, left)
      /\ UNCHANGED <<link, committed>>
      /\ \/ confirmed' = confirmed \cup {told}
         \/ confirmed' = confirmed /\ link[s][c] = "down"
  BY DEF NotifyClient, NotifyFails, AfterFailure, vars
<1>2. notifying \in [Server -> SUBSET Calls] /\ confirmed \subseteq Server \X Hash \X Client
  BY DEF ConfirmInv, ConfirmTypeOK, Calls
<1>3. n.hash \in Hash /\ n.hash \in committed[s] /\ told \in Server \X Hash \X Client
  BY <1>2 DEF Calls, ConfirmInv, NotifiesCommitted
<1>4. /\ notifying' \in [Server -> SUBSET Calls]
      /\ \A t \in Server : \A k \in notifying'[t] :
            \/ k \in notifying[t] /\ ~(t = s /\ k = n)
            \/ t = s /\ k.hash = n.hash /\ k.left = left /\ k = [n EXCEPT !.left = left]
      /\ \A t \in Server : \A k \in notifying[t] : k \in notifying'[t] \/ (t = s /\ k = n)
      /\ left # {} => \E k \in notifying'[s] : k.hash = n.hash /\ k.left = left
  BY <1>1, <1>2, VisitedCalls, SMTT(60)
<1>5. ConfirmTypeOK'
  BY <1>1, <1>2, <1>3, <1>4 DEF ConfirmInv, ConfirmTypeOK, Calls
<1>6. NotifiesCommitted'
  <2>1. \A t \in Server : \A k \in notifying'[t] : k.hash \in committed[t]
    BY <1>3, <1>4 DEF ConfirmInv, NotifiesCommitted
  <2>2. \A r \in confirmed' : r[2] \in committed[r[1]]
    BY <1>1, <1>3 DEF ConfirmInv, NotifiesCommitted
  <2>3. QED
    BY <1>1, <2>1, <2>2 DEF NotifiesCommitted
<1>7. OneCallPerBlock'
  <2> SUFFICES ASSUME NEW t \in Server, NEW k \in notifying'[t]
               PROVE  /\ \A j \in notifying'[t] : j.hash = k.hash => j = k
                      /\ \A d \in k.left : <<t, k.hash, d>> \notin confirmed'
    BY DEF OneCallPerBlock
  <2>1. ASSUME NEW j \in notifying'[t], j.hash = k.hash PROVE j = k
    <3> DEFINE Old(i) == i \in notifying[t] /\ ~(t = s /\ i = n)
               New(i) == t = s /\ i.hash = n.hash /\ i = [n EXCEPT !.left = left]
    <3>1. (Old(j) \/ New(j)) /\ (Old(k) \/ New(k))
      BY <1>4
    <3>2. CASE Old(j) /\ Old(k)
      BY <2>1, <3>2 DEF ConfirmInv, OneCallPerBlock
    <3>3. CASE New(j) /\ New(k)
      BY <3>3
    <3>4. \A i : Old(i) /\ i.hash = n.hash => t # s
      BY DEF ConfirmInv, OneCallPerBlock
    <3> HIDE DEF Old
    <3>5. QED
      BY <2>1, <3>1, <3>2, <3>3, <3>4
  <2>2. ASSUME NEW d \in k.left PROVE <<t, k.hash, d>> \notin confirmed
    BY <1>4 DEF ConfirmInv, OneCallPerBlock
  <2>3. ASSUME NEW d \in k.left, <<t, k.hash, d>> = told PROVE FALSE
    <3>1. t = s /\ k.hash = n.hash /\ d = c
      BY <2>3
    <3>2. k.left = left
      BY <1>4, <3>1 DEF ConfirmInv, OneCallPerBlock
    <3>3. QED
      BY <3>1, <3>2
  <2>4. QED
    BY <1>1, <2>1, <2>2, <2>3
<1>8. HeardOrLeft'
  <2> SUFFICES ASSUME NEW t \in Server, NEW h \in Hash, NEW d \in Client,
                      h \in committed[t], <<t, h, d>> \notin confirmed', <<t, d>> \notin Left \cup Changing
               PROVE  \E k \in notifying'[t] : k.hash = h /\ d \in k.left
    BY <1>1 DEF HeardOrLeft
  <2>1. PICK k \in notifying[t] : k.hash = h /\ d \in k.left
    BY <1>1 DEF ConfirmInv, HeardOrLeft
  <2>2. CASE ~(t = s /\ k = n)
    BY <1>4, <2>1, <2>2
  <2>3. CASE t = s /\ k = n
    <3>1. d # c
      BY <1>1, <2>1, <2>3 DEF ConfirmInv, DownWasUp
    <3>2. d \in left
      BY <2>1, <2>3, <3>1
    <3>3. QED
      BY <1>4, <2>1, <2>3, <3>2
  <2>4. QED
    BY <2>2, <2>3
<1>9. DownWasUp'
  BY <1>1 DEF ConfirmInv, DownWasUp
<1>10. QED
  BY <1>5, <1>6, <1>7, <1>8, <1>9 DEF ConfirmInv

LEMMA LinkStep ==
  ASSUME BlockInv, ConfirmInv, NEW s \in Server, NEW c \in Client,
         ClientConnects(s, c) \/ ClientLeaves(s, c)
  PROVE  ConfirmInv'
<1>1. /\ <<s, c>> \in Changing
      /\ \E to \in {"up", "down"} : link' = [link EXCEPT ![s][c] = to]
      /\ UNCHANGED <<notifying, confirmed, committed>>
  BY DEF ClientConnects, ClientLeaves, LinkChanges, vars
<1>2. link \in [Server -> [Client -> {"never", "down", "up"}]]
  BY DEF ConfirmInv, ConfirmTypeOK
<1>3. PICK to \in {"up", "down"} : link' = [link EXCEPT ![s][c] = to]
  BY <1>1
<1>4. /\ link' \in [Server -> [Client -> {"never", "down", "up"}]]
      /\ \A t \in Server, d \in Client : link'[t][d] = link[t][d] \/ (t = s /\ d = c)
  BY <1>2, <1>3
<1>5. ConfirmTypeOK' /\ DownWasUp'
  BY <1>1, <1>4 DEF ConfirmInv, ConfirmTypeOK, DownWasUp
<1>6. NotifiesCommitted' /\ OneCallPerBlock' /\ HeardOrLeft'
  BY <1>1 DEF ConfirmInv, NotifiesCommitted, OneCallPerBlock, HeardOrLeft
<1>7. QED
  BY <1>5, <1>6 DEF ConfirmInv

LEMMA ConfirmInvInit == ConfirmInit => ConfirmInv
<1> SUFFICES ASSUME ConfirmInit PROVE ConfirmInv
  OBVIOUS
<1>1. /\ \A s \in Server : notifying[s] = {} /\ committed[s] = {}
      /\ notifying \in [Server -> SUBSET [by : {"orderReply", "commit"}, hash : Hash, left : SUBSET Client]]
      /\ confirmed = {}
  BY DEF ConfirmInit, Init
<1>2. /\ link \in [Server -> [Client -> {"never", "down", "up"}]]
      /\ \A s \in Server, c \in Client : link[s][c] = "down" => <<s, c>> \in Left
  BY DEF ConfirmInit
<1>3. QED
  BY <1>1, <1>2 DEF ConfirmInv, ConfirmTypeOK, NotifiesCommitted, OneCallPerBlock, HeardOrLeft, DownWasUp

LEMMA ConfirmInvStep == BlockInv /\ ConfirmInv /\ [ConfirmNext]_confirmVars => ConfirmInv'
<1> SUFFICES ASSUME BlockInv, ConfirmInv, [ConfirmNext]_confirmVars PROVE ConfirmInv'
  OBVIOUS
<1>1. ASSUME UNCHANGED <<clients, committed>> PROVE ConfirmInv'
  BY <1>1 DEF clients, ConfirmInv, ConfirmTypeOK, NotifiesCommitted, OneCallPerBlock, HeardOrLeft,
              DownWasUp
<1>2. ASSUME Replicate, UNCHANGED clients PROVE ConfirmInv'
  BY <1>1, <1>2 DEF Replicate, Lead, PackBlock, Disseminate, RefreshCommitFragment, RegisterWorker, Crash
<1>3. ASSUME NEW l \in Leaders, NEW b \in BlockId, ClearAfterNotifying(l, b) PROVE ConfirmInv'
  BY <1>1, <1>3 DEF ClearAfterNotifying, ClearCaches
<1>4. ASSUME NEW s \in Server, NEW n \in notifying[s], NEW c \in Client, NotifyPanics(s, n, c)
      PROVE  ConfirmInv'
  BY <1>1, <1>4 DEF NotifyPanics
<1>5. CASE UNCHANGED confirmVars
  BY <1>1, <1>5 DEF confirmVars, vars
<1>6. QED
  BY <1>2, <1>3, <1>4, <1>5, HandleAndNotifyStep, NotifyClientStep, LinkStep DEF ConfirmNext, Notify

LEMMA ConfirmInvariance == ConfirmSpec => [](BlockInv /\ ConfirmInv)
BY ConfirmInvInit, ConfirmInvStep, BlockInvariance, PTL DEF ConfirmSpec

(* What a client is told is committed has a quorum of shares of the order   *)
(* phase for the very block, while fragments are overwritten and cleared.   *)
THEOREM ConfirmationsAreBacked == ConfirmSpec => []ConfirmedIsBacked
<1>1. BlockInv /\ ConfirmInv => ConfirmedIsBacked
  BY DEF BlockInv, IInv, CommitBacked, ConfirmInv, ConfirmTypeOK, NotifiesCommitted, ConfirmedIsBacked
<1>2. QED
  BY <1>1, ConfirmInvariance, PTL

(* When notifyClients has returned, only clients whose connection came or   *)
(* went meanwhile were not told.                                            *)
THEOREM SteadyClientsHear == ConfirmSpec => []HeardUnlessAway
<1>1. ConfirmInv => HeardUnlessAway
  BY DEF ConfirmInv, HeardOrLeft, HeardUnlessAway, Notified
<1>2. QED
  BY <1>1, ConfirmInvariance, PTL

(* A server tells a client of a block once, although late replies refill    *)
(* fragments that lost their shares.                                        *)
THEOREM ConfirmationsAreOnce == ConfirmSpec => ConfirmedOnce
<1>1. ConfirmInv => \A s \in Server : \A n \in notifying[s], c \in Client :
                       NotifyClient(s, n, c) => <<s, n.hash, c>> \notin confirmed
  BY DEF ConfirmInv, OneCallPerBlock, NotifyClient
<1>2. QED
  BY <1>1, ConfirmInvariance, PTL DEF ConfirmedOnce
=============================================================================
