------------------------- MODULE RequestIntakeProofs -------------------------
(***************************************************************************)
(* Request intake: relays of one request enter the queue of a leader once, *)
(* a leader processes a request at most once per reading and once for all  *)
(* relays, and as long as relays lead one way, no drop of a duplicate      *)
(* loses a request.  The indexes of a leader are those of its packers.     *)
(***************************************************************************)
EXTENDS RequestIntake, SumProofs, SequenceTheorems, TLAPS

LEMMA RequestIsOne == ASSUME NEW r \in Request PROVE r # NoRequest /\ r.client \in Client
<1>1. DOMAIN r = {"client", "ts"} /\ r.client \in Client
  BY DEF Request
<1>2. DOMAIN NoRequest = {"client"}
  BY DEF NoRequest
<1>3. QED
  BY <1>1, <1>2

LEMMA RelayedIsOne ==
  ASSUME NEW m \in Relayed
  PROVE  m.req \in Request /\ m.link \in Links /\ m.link[1] \in Server /\ m.link[2] \in Leaders
BY IntakeAssumption DEF Relayed

-----------------------------------------------------------------------------
(* What a receiver's turn at the queue changes. *)
LEMMA ReaderLetsGo ==
  ASSUME TypeOK, NEW s \in Server, NEW r \in Request, TakenFromReader(s, r)
  PROVE  /\ UNCHANGED recording
         /\ Waits(s, r) /\ ~Waits(s, r)'
         /\ reader' \in [Server -> [Client -> Request \cup {NoRequest}]]
         /\ \A t \in Server, q \in Request : <<t, q>> # <<s, r>> => Waits(t, q)' = Waits(t, q)
         /\ \A t \in Server, c \in Client : reader'[t][c] # NoRequest => reader'[t][c] = reader[t][c]
<1>1. r # NoRequest /\ r.client \in Client
  BY RequestIsOne
<1>2. reader' = [reader EXCEPT ![s][r.client] = NoRequest] /\ reader[s][r.client] = r /\ UNCHANGED recording
  BY DEF TakenFromReader
<1>3. reader \in [Server -> [Client -> Request \cup {NoRequest}]]
  BY DEF TypeOK
<1>4. reader' \in [Server -> [Client -> Request \cup {NoRequest}]]
  BY <1>1, <1>2, <1>3
<1>5. \A t \in Server, c \in Client : reader'[t][c] = IF t = s /\ c = r.client THEN NoRequest ELSE reader[t][c]
  BY <1>1, <1>2, <1>3
<1>6. Waits(s, r) /\ ~Waits(s, r)'
  BY <1>1, <1>2, <1>5 DEF Waits
<1>7. ASSUME NEW t \in Server, NEW q \in Request, <<t, q>> # <<s, r>>
      PROVE  Waits(t, q)' = Waits(t, q)
  <2>1. q # NoRequest /\ q.client \in Client
    BY RequestIsOne
  <2>2. CASE t = s /\ q.client = r.client
    <3>1. reader'[t][q.client] = NoRequest /\ reader[t][q.client] = r
      BY <1>2, <1>5, <2>1, <2>2
    <3>2. q # r
      BY <1>7, <2>2
    <3>3. QED
      BY <2>1, <3>1, <3>2 DEF Waits
  <2>3. CASE ~(t = s /\ q.client = r.client)
    BY <1>5, <2>1, <2>3 DEF Waits
  <2>4. QED
    BY <2>2, <2>3
<1>8. QED
  BY <1>2, <1>4, <1>5, <1>6, <1>7

LEMMA HandlerLetsGo ==
  ASSUME TypeOK, RecordedOnce, NEW s \in Server, NEW r \in Request, TakenFromHandler(s, r)
  PROVE  /\ UNCHANGED reader /\ s \in Leaders
         /\ holders' = [holders EXCEPT ![s] = {}]
         /\ r \notin recorder[s] /\ recorder' = [recorder EXCEPT ![s] = @ \cup {r}]
         /\ entered[s][r] = 0 /\ entered' = [entered EXCEPT ![s][r] = 1]
         /\ \A m \in holders[s] : m.req = r
<1>1. PICK m \in holders[s] : m.req = r /\ holders' = [holders EXCEPT ![s] = @ \ {m}]
  BY DEF TakenFromHandler
<1>2. s \in Leaders /\ UNCHANGED reader /\ recorder' = [recorder EXCEPT ![s] = @ \cup {r}]
      /\ entered' = [entered EXCEPT ![s][r] = @ + 1]
  BY DEF TakenFromHandler
<1>3. holders[s] = {m} /\ r \notin recorder[s] /\ entered[s][r] = 0
  BY <1>1, <1>2 DEF RecordedOnce
<1>4. holders' = [holders EXCEPT ![s] = {}]
  <2>1. holders[s] \ {m} = {}
    BY <1>3
  <2>2. QED
    BY <1>1, <2>1
<1>5. entered' = [entered EXCEPT ![s][r] = 1]
  <2>1. entered[s][r] + 1 = 1
    BY <1>3
  <2>2. QED
    BY <1>2, <2>1
<1>6. QED
  BY <1>1, <1>2, <1>3, <1>4, <1>5

-----------------------------------------------------------------------------
LEMMA IntakeInit == Init => IntakeInv
<1> SUFFICES ASSUME Init PROVE IntakeInv
  OBVIOUS
<1>1. TypeOK
  <2>1. \A l \in Leaders : Cardinality(holders[l]) <= 1
    BY FS_EmptySet DEF Init
  <2>2. batch \in [Packer -> Seq(Request)] /\ \A p \in Packer : Len(batch[p]) < BatchSize
    BY EmptySeq, IntakeAssumption DEF Init
  <2>3. QED
    BY <2>1, <2>2, IntakeAssumption DEF Init, TypeOK
<1>2. RecordedOnce
  BY DEF Init, RecordedOnce
<1>3. ReadersWait
  BY DEF Init, ReadersWait
<1>4. PackedByPath
  <2>1. ASSUME NEW l \in Leaders, NEW r \in Request PROVE ~Waits(l, r)
    <3>1. l \in Server /\ r # NoRequest /\ r.client \in Client
      BY RequestIsOne, IntakeAssumption
    <3>2. QED
      BY <3>1 DEF Init, Waits
  <2>2. QED
    BY <2>1, IntakeAssumption DEF Init, PackedByPath
<1>5. QED
  BY <1>1, <1>2, <1>3, <1>4 DEF IntakeInv

(* The requests of readers, recorders and handlers keep their types.        *)
QueueTypeOK ==
  /\ reader \in [Server -> [Client -> Request \cup {NoRequest}]]
  /\ recorder \in [Leaders -> SUBSET Request]
  /\ holders \in [Leaders -> SUBSET Relayed]
  /\ \A l \in Leaders : Cardinality(holders[l]) <= 1
  /\ entered \in [Leaders -> [Request -> Nat]]

LEMMA TakenTypes ==
  ASSUME TypeOK, RecordedOnce, NEW s \in Server, NEW r \in Request, Taken(s, r)
  PROVE  QueueTypeOK'
<1>1. QueueTypeOK
  BY DEF TypeOK, QueueTypeOK
<1>2. CASE TakenFromReader(s, r)
  BY <1>1, <1>2, ReaderLetsGo DEF QueueTypeOK, recording
<1>3. CASE TakenFromHandler(s, r)
  <2>1. /\ UNCHANGED reader /\ s \in Leaders
        /\ holders' = [holders EXCEPT ![s] = {}]
        /\ recorder' = [recorder EXCEPT ![s] = @ \cup {r}]
        /\ entered' = [entered EXCEPT ![s][r] = 1]
    BY <1>3, HandlerLetsGo
  <2>2. \A l \in Leaders : Cardinality(holders'[l]) <= 1
    BY <1>1, <2>1, FS_EmptySet DEF QueueTypeOK
  <2>3. holders' \in [Leaders -> SUBSET Relayed]
    BY <1>1, <2>1 DEF QueueTypeOK
  <2>4. recorder' \in [Leaders -> SUBSET Request]
    BY <1>1, <2>1 DEF QueueTypeOK
  <2>5. entered' \in [Leaders -> [Request -> Nat]]
    BY <1>1, <2>1 DEF QueueTypeOK
  <2>6. QED
    BY <1>1, <2>1, <2>2, <2>3, <2>4, <2>5 DEF QueueTypeOK
<1>4. QED
  BY <1>2, <1>3 DEF Taken

LEMMA TypeStep == ASSUME TypeOK, RecordedOnce, [Next]_vars PROVE TypeOK'
<1> USE DEF TypeOK, clients, relays, recording, packers
<1>1. ASSUME NEW s \in Server, NEW c \in Client, ConnectClient(s, c) \/ RejectClient(s, c)
      PROVE  TypeOK'
  BY <1>1 DEF ConnectClient, RejectClient
<1>2. ASSUME NEW s \in Server, NEW r \in Request, ReadRequest(s, r) PROVE TypeOK'
  BY <1>2, RequestIsOne DEF ReadRequest
<1>3. ASSUME NEW link \in Links, RegisterDial(link) \/ StartRelay(link) PROVE TypeOK'
  <2>1. dialed' \subseteq Links /\ relay' \in [Links -> {"starting", "connected", "unconnected", "stopped"}]
    BY <1>3 DEF RegisterDial, StartRelay
  <2>2. UNCHANGED <<clients, reader, msgs, recording, packers, panicked>>
    BY <1>3 DEF RegisterDial, StartRelay
  <2>3. QED
    BY <2>1, <2>2
<1>4. ASSUME NEW link \in Links, NEW r \in Request,
             RelayRequest(link, r) \/ RelayStops(link, r) \/ RelayPanics(link, r)
      PROVE  TypeOK'
  <2>1. link[1] \in Server /\ Taken(link[1], r)
    BY <1>4, IntakeAssumption DEF RelayRequest, RelayStops, RelayPanics
  <2>2. QueueTypeOK'
    BY <2>1, TakenTypes
  <2>3. relay' \in [Links -> {"starting", "connected", "unconnected", "stopped"}]
        /\ panicked' \subseteq Server
    BY <1>4, <2>1 DEF RelayRequest, RelayStops, RelayPanics
  <2>4. msgs' \subseteq Relayed
    BY <1>4 DEF RelayRequest, RelayStops, RelayPanics, Relayed
  <2>5. UNCHANGED <<clients, dialed, packers>>
    BY <1>4 DEF RelayRequest, RelayStops, RelayPanics
  <2>6. QED
    BY <2>2, <2>3, <2>4, <2>5 DEF QueueTypeOK
<1>5. ASSUME NEW m \in msgs, DropRelayed(m) PROVE TypeOK'
  BY <1>5 DEF DropRelayed
<1>6. ASSUME NEW m \in msgs, AdmitRelayed(m) PROVE TypeOK'
  <2> DEFINE l == m.link[2]
  <2>1. l \in Leaders
    BY RelayedIsOne
  <2>2. holders' = [holders EXCEPT ![l] = {m}]
    BY <1>6, <2>1 DEF AdmitRelayed, RecorderFree
  <2>3. holders' \in [Leaders -> SUBSET Relayed]
    BY <2>1, <2>2
  <2>4. Cardinality({m}) = 1
    BY FS_Singleton
  <2>5. \A k \in Leaders : Cardinality(holders'[k]) <= 1
    BY <2>1, <2>2, <2>4
  <2>6. msgs' \subseteq Relayed
        /\ UNCHANGED <<clients, reader, dialed, relay, recorder, entered, packers, panicked>>
    BY <1>6 DEF AdmitRelayed
  <2>7. QED
    BY <2>3, <2>5, <2>6
<1>7. ASSUME NEW p \in Packer, NEW r \in Request, PackRequest(p, r) PROVE TypeOK'
  <2> DEFINE l == p[1]
             entries == Append(batch[p], r)
  <2>1. l \in Leaders /\ l \in Server /\ Taken(l, r)
    BY <1>7, IntakeAssumption DEF PackRequest, Packer
  <2>2. QueueTypeOK'
    BY <2>1, TakenTypes
  <2>3. UNCHANGED <<clients, relays, packing, panicked>>
    BY <1>7 DEF PackRequest
  <2>4. batch[p] \in Seq(Request) /\ entries \in Seq(Request) /\ Len(entries) = Len(batch[p]) + 1
    OBVIOUS
  <2>5. batch' \in [Packer -> Seq(Request)]
    BY <1>7, <2>4 DEF PackRequest
  <2>6. Len(batch'[p]) < BatchSize
    <3>1. batch'[p] = IF BatchFull(entries) THEN << >> ELSE entries
      BY <1>7 DEF PackRequest
    <3>2. QED
      BY <2>4, <3>1, EmptySeq, IntakeAssumption DEF BatchFull
  <2>7. \A q \in Packer : Len(batch'[q]) < BatchSize
    <3>1. \A q \in Packer : q # p => batch'[q] = batch[q]
      BY <1>7 DEF PackRequest
    <3>2. QED
      BY <2>6, <3>1
  <2>8. blocks' \in [Packer -> Nat] /\ logIndex' \in [Leaders -> Nat]
    BY <1>7, <2>1, SMTT(60) DEF PackRequest
  <2>9. packed' \in [Leaders -> [Request -> Nat]]
    BY <1>7, <2>1, SMTT(60) DEF PackRequest
  <2>10. QED
    BY <2>2, <2>3, <2>5, <2>7, <2>8, <2>9 DEF QueueTypeOK
<1>8. ASSUME NEW p \in Packer, NEW r \in Request, PackerStops(p, r) PROVE TypeOK'
  <2>1. p[1] \in Server /\ Taken(p[1], r)
    BY <1>8, IntakeAssumption DEF PackerStops, Packer
  <2>2. QueueTypeOK'
    BY <2>1, TakenTypes
  <2>3. /\ packing' \subseteq Packer /\ batch' = [batch EXCEPT ![p] = << >>]
        /\ UNCHANGED <<clients, relays, blocks, logIndex, packed, panicked>>
    BY <1>8 DEF PackerStops
  <2>4. batch' \in [Packer -> Seq(Request)] /\ \A q \in Packer : Len(batch'[q]) < BatchSize
    BY <2>3, EmptySeq, IntakeAssumption
  <2>5. QED
    BY <2>2, <2>3, <2>4 DEF QueueTypeOK
<1>9. CASE UNCHANGED vars
  BY <1>9 DEF vars
<1>10. QED
  BY <1>1, <1>2, <1>3, <1>4, <1>5, <1>6, <1>7, <1>8, <1>9 DEF Next, Intake, Relay, Admit, Pack

-----------------------------------------------------------------------------
(* Which steps change the recorder and what goes with it.                   *)
LEMMA RecordingChanges ==
  ASSUME TypeOK, [Next]_vars
  PROVE  \/ UNCHANGED recording
         \/ \E m \in msgs : AdmitRelayed(m)
         \/ \E s \in Server, r \in Request : TakenFromHandler(s, r)
<1>1. ASSUME NEW s \in Server, NEW r \in Request, Taken(s, r)
      PROVE  UNCHANGED recording \/ TakenFromHandler(s, r)
  BY <1>1 DEF Taken, TakenFromReader
<1>2. ASSUME NEW link \in Links PROVE link[1] \in Server
  BY IntakeAssumption
<1>3. ASSUME NEW p \in Packer PROVE p[1] \in Server
  BY IntakeAssumption DEF Packer
<1>4. CASE UNCHANGED vars
  BY <1>4 DEF vars
<1>5. CASE \E s \in Server : Intake(s)
  BY <1>5 DEF Intake, ConnectClient, RejectClient, ReadRequest
<1>6. CASE \E link \in Links : Relay(link)
  BY <1>1, <1>2, <1>6 DEF Relay, RegisterDial, StartRelay, RelayRequest, RelayStops, RelayPanics
<1>7. CASE \E m \in msgs : Admit(m)
  BY <1>7 DEF Admit, DropRelayed
<1>8. CASE \E p \in Packer : Pack(p)
  BY <1>1, <1>3, <1>8 DEF Pack, PackRequest, PackerStops
<1>9. QED
  BY <1>4, <1>5, <1>6, <1>7, <1>8 DEF Next

LEMMA RecordedStep == ASSUME TypeOK, RecordedOnce, [Next]_vars PROVE RecordedOnce'
<1>1. CASE UNCHANGED recording
  BY <1>1 DEF RecordedOnce, recording
<1>2. ASSUME NEW m \in msgs, AdmitRelayed(m) PROVE RecordedOnce'
  <2> DEFINE l == m.link[2]
  <2>1. l \in Leaders
    BY RelayedIsOne DEF TypeOK
  <2>2. holders' = [holders EXCEPT ![l] = {m}] /\ m.req \notin recorder[l] /\ UNCHANGED <<recorder, entered>>
    BY <1>2, <2>1 DEF AdmitRelayed, RecorderFree, AlreadyRelayed, TypeOK
  <2>3. holders'[l] = {m} /\ \A k \in Leaders : k # l => holders'[k] = holders[k]
    BY <2>1, <2>2 DEF TypeOK
  <2>4. QED
    BY <2>1, <2>2, <2>3 DEF RecordedOnce
<1>3. ASSUME NEW s \in Server, NEW r \in Request, TakenFromHandler(s, r) PROVE RecordedOnce'
  <2>1. /\ s \in Leaders
        /\ holders' = [holders EXCEPT ![s] = {}]
        /\ recorder' = [recorder EXCEPT ![s] = @ \cup {r}]
        /\ entered' = [entered EXCEPT ![s][r] = 1]
    BY <1>3, HandlerLetsGo
  <2>2. holders'[s] = {} /\ \A k \in Leaders : k # s => holders'[k] = holders[k] /\ recorder'[k] = recorder[k]
    BY <2>1 DEF TypeOK
  <2>3. \A l \in Leaders, q \in Request : entered'[l][q] = IF l = s /\ q = r THEN 1 ELSE entered[l][q]
    BY <2>1 DEF TypeOK
  <2>4. recorder'[s] = recorder[s] \cup {r}
    BY <2>1 DEF TypeOK
  <2>5. QED
    BY <2>2, <2>3, <2>4 DEF RecordedOnce
<1>4. QED
  BY <1>1, <1>2, <1>3, RecordingChanges

(* Which steps change what the readers wait with.                           *)
LEMMA ReaderChanges ==
  ASSUME TypeOK, [Next]_vars
  PROVE  \/ UNCHANGED <<reader, reads>>
         \/ \E s \in Server, r \in Request : ReadRequest(s, r)
         \/ UNCHANGED reads /\ \E s \in Server, r \in Request : TakenFromReader(s, r)
<1>1. ASSUME NEW s \in Server, NEW r \in Request, Taken(s, r), UNCHANGED clients
      PROVE  UNCHANGED <<reader, reads>> \/ (UNCHANGED reads /\ TakenFromReader(s, r))
  BY <1>1 DEF Taken, TakenFromHandler, clients
<1>2. ASSUME NEW link \in Links PROVE link[1] \in Server
  BY IntakeAssumption
<1>3. ASSUME NEW p \in Packer PROVE p[1] \in Server
  BY IntakeAssumption DEF Packer
<1>4. CASE UNCHANGED vars
  BY <1>4 DEF vars, clients
<1>5. CASE \E s \in Server : Intake(s)
  BY <1>5 DEF Intake, ConnectClient, RejectClient
<1>6. CASE \E link \in Links : Relay(link)
  <2>1. PICK link \in Links : Relay(link)
    BY <1>6
  <2>2. CASE RegisterDial(link) \/ StartRelay(link)
    BY <2>2 DEF RegisterDial, StartRelay, clients
  <2>3. ASSUME NEW r \in Request, RelayRequest(link, r) \/ RelayStops(link, r) \/ RelayPanics(link, r)
        PROVE  Taken(link[1], r) /\ UNCHANGED clients
    BY <2>3 DEF RelayRequest, RelayStops, RelayPanics
  <2>4. QED
    BY <1>1, <1>2, <2>1, <2>2, <2>3 DEF Relay
<1>7. CASE \E m \in msgs : Admit(m)
  BY <1>7 DEF Admit, DropRelayed, AdmitRelayed, clients
<1>8. CASE \E p \in Packer : Pack(p)
  <2>1. ASSUME NEW p \in Packer, NEW r \in Request, PackRequest(p, r) \/ PackerStops(p, r)
        PROVE  Taken(p[1], r) /\ UNCHANGED clients
    BY <2>1 DEF PackRequest, PackerStops
  <2>2. QED
    BY <1>1, <1>3, <1>8, <2>1 DEF Pack
<1>9. QED
  BY <1>4, <1>5, <1>6, <1>7, <1>8 DEF Next

(* A request that is read, or read again, is counted. *)
LEMMA ReadAgain ==
  ASSUME TypeOK, NEW s \in Server, NEW r \in Request, ReadRequest(s, r)
  PROVE  /\ reads' \in [Server -> [Request -> Nat]]
         /\ reads'[s][r] = reads[s][r] + 1 /\ reads'[s][r] > 0
         /\ \A t \in Server, q \in Request : <<t, q>> # <<s, r>> => reads'[t][q] = reads[t][q]
         /\ \A t \in Server, q \in Request : reads[t][q] > 0 => reads'[t][q] > 0
<1>1. reads \in [Server -> [Request -> Nat]] /\ reads' = [reads EXCEPT ![s][r] = @ + 1]
  BY DEF TypeOK, ReadRequest
<1>2. ASSUME NEW t \in Server, NEW q \in Request
      PROVE  reads'[t][q] = IF t = s /\ q = r THEN reads[t][q] + 1 ELSE reads[t][q]
  BY <1>1
<1>3. \A t \in Server, q \in Request : reads[t][q] \in Nat
  BY <1>1
<1>4. reads' \in [Server -> [Request -> Nat]]
  BY <1>1
<1>5. QED
  BY <1>2, <1>3, <1>4

LEMMA ReadersStep == ASSUME TypeOK, ReadersWait, [Next]_vars PROVE ReadersWait'
<1>1. CASE UNCHANGED <<reader, reads>>
  BY <1>1 DEF ReadersWait
<1>2. ASSUME NEW s \in Server, NEW r \in Request, ReadRequest(s, r) PROVE ReadersWait'
  <2>1. r.client \in Client
    BY RequestIsOne
  <2>2. \A t \in Server, c \in Client :
           reader'[t][c] = IF t = s /\ c = r.client THEN r ELSE reader[t][c]
    BY <1>2, <2>1 DEF ReadRequest, TypeOK
  <2>3. /\ reads' \in [Server -> [Request -> Nat]] /\ reads'[s][r] > 0
        /\ \A t \in Server, q \in Request : reads[t][q] > 0 => reads'[t][q] > 0
    BY <1>2, ReadAgain
  <2>4. ASSUME NEW t \in Server, NEW c \in Client, reader'[t][c] # NoRequest
        PROVE  reader'[t][c].client = c /\ reads'[t][reader'[t][c]] > 0
    <3>1. CASE t = s /\ c = r.client
      BY <2>2, <2>3, <3>1
    <3>2. CASE ~(t = s /\ c = r.client)
      <4>1. reader'[t][c] = reader[t][c] /\ reader[t][c] \in Request
        BY <2>2, <2>4, <3>2 DEF TypeOK
      <4>2. reader[t][c].client = c /\ reads[t][reader[t][c]] > 0
        BY <2>4, <4>1 DEF ReadersWait
      <4>3. QED
        BY <2>3, <4>1, <4>2
    <3>3. QED
      BY <3>1, <3>2
  <2>5. QED
    BY <2>4 DEF ReadersWait
<1>3. ASSUME UNCHANGED reads, NEW s \in Server, NEW r \in Request, TakenFromReader(s, r)
      PROVE  ReadersWait'
  <2>1. \A t \in Server, c \in Client : reader'[t][c] # NoRequest => reader'[t][c] = reader[t][c]
    BY <1>3, ReaderLetsGo
  <2>2. QED
    BY <1>3, <2>1 DEF ReadersWait
<1>4. QED
  BY <1>1, <1>2, <1>3, ReaderChanges

(* Which steps put a request in a batch.                                    *)
LEMMA PackedChanges ==
  ASSUME TypeOK, [Next]_vars
  PROVE  \/ UNCHANGED packed
         \/ \E l \in Leaders, r \in Request :
              /\ Taken(l, r) /\ r \notin Invalid /\ UNCHANGED clients
              /\ packed' = [packed EXCEPT ![l][r] = @ + 1]
<1>1. ASSUME NEW p \in Packer PROVE p[1] \in Leaders
  BY DEF Packer
<1>2. CASE UNCHANGED vars
  BY <1>2 DEF vars, packers
<1>3. CASE \E s \in Server : Intake(s)
  BY <1>3 DEF Intake, ConnectClient, RejectClient, ReadRequest, packers
<1>4. CASE \E link \in Links : Relay(link)
  BY <1>4 DEF Relay, RegisterDial, StartRelay, RelayRequest, RelayStops, RelayPanics, packers
<1>5. CASE \E m \in msgs : Admit(m)
  BY <1>5 DEF Admit, DropRelayed, AdmitRelayed, packers
<1>6. CASE \E p \in Packer : Pack(p)
  <2>1. PICK p \in Packer, r \in Request : PackRequest(p, r) \/ PackerStops(p, r)
    BY <1>6 DEF Pack
  <2>2. CASE PackRequest(p, r)
    BY <1>1, <2>2 DEF PackRequest
  <2>3. CASE PackerStops(p, r)
    BY <2>3 DEF PackerStops
  <2>4. QED
    BY <2>1, <2>2, <2>3
<1>7. QED
  BY <1>2, <1>3, <1>4, <1>5, <1>6 DEF Next

(* How often a reader let a request go, which never becomes less.           *)
LetGo(l, r) == reads[l][r] - IF Waits(l, r) THEN 1 ELSE 0

LEMMA LetGoGrows ==
  ASSUME TypeOK, ReadersWait, [Next]_vars, NEW l \in Server, NEW r \in Request
  PROVE  LetGo(l, r) \in Nat /\ LetGo(l, r)' \in Int /\ LetGo(l, r) <= LetGo(l, r)'
<1>1. reads[l][r] \in Nat /\ r # NoRequest /\ r.client \in Client
  BY RequestIsOne DEF TypeOK
<1>2. Waits(l, r) => reads[l][r] > 0
  BY <1>1 DEF ReadersWait, Waits
<1>3. LetGo(l, r) \in Nat
  BY <1>1, <1>2 DEF LetGo
<1>4. CASE UNCHANGED <<reader, reads>>
  BY <1>3, <1>4 DEF LetGo, Waits
<1>5. ASSUME NEW s \in Server, NEW q \in Request, ReadRequest(s, q)
      PROVE  LetGo(l, r)' \in Int /\ LetGo(l, r) <= LetGo(l, r)'
  <2>1. q.client \in Client /\ reader[s][q.client] = NoRequest
    BY <1>5, RequestIsOne DEF ReadRequest
  <2>2. reader'[l][r.client] = IF l = s /\ r.client = q.client THEN q ELSE reader[l][r.client]
    BY <1>1, <1>5, <2>1 DEF ReadRequest, TypeOK
  <2>3. CASE <<l, r>> = <<s, q>>
    <3>1. reads'[l][r] = reads[l][r] + 1 /\ ~Waits(l, r)
      BY <1>1, <1>5, <2>1, <2>3, ReadAgain DEF Waits
    <3>2. QED
      BY <1>1, <3>1 DEF LetGo
  <2>4. CASE <<l, r>> # <<s, q>>
    <3>1. reads'[l][r] = reads[l][r]
      BY <1>5, <2>4, ReadAgain
    <3>2. Waits(l, r)' = Waits(l, r)
      BY <1>1, <2>1, <2>2, <2>4 DEF Waits
    <3>3. QED
      BY <1>1, <3>1, <3>2 DEF LetGo
  <2>5. QED
    BY <2>3, <2>4
<1>6. ASSUME UNCHANGED reads, NEW s \in Server, NEW q \in Request, TakenFromReader(s, q)
      PROVE  LetGo(l, r)' \in Int /\ LetGo(l, r) <= LetGo(l, r)'
  <2>1. Waits(l, r)' => Waits(l, r)
    BY <1>6, ReaderLetsGo
  <2>2. QED
    BY <1>1, <1>6, <2>1 DEF LetGo
<1>7. QED
  BY <1>3, <1>4, <1>5, <1>6, ReaderChanges

LEMMA EnteredGrows ==
  ASSUME TypeOK, RecordedOnce, [Next]_vars, NEW l \in Leaders, NEW r \in Request
  PROVE  entered[l][r] \in Nat /\ entered'[l][r] \in Nat /\ entered[l][r] <= entered'[l][r]
<1>1. entered \in [Leaders -> [Request -> Nat]]
  BY DEF TypeOK
<1>2. CASE UNCHANGED recording
  BY <1>1, <1>2 DEF recording
<1>3. CASE \E m \in msgs : AdmitRelayed(m)
  BY <1>1, <1>3 DEF AdmitRelayed
<1>4. ASSUME NEW s \in Server, NEW q \in Request, TakenFromHandler(s, q)
      PROVE  entered'[l][r] \in Nat /\ entered[l][r] <= entered'[l][r]
  <2>1. s \in Leaders /\ entered[s][q] = 0 /\ entered' = [entered EXCEPT ![s][q] = 1]
    BY <1>4, HandlerLetsGo
  <2>2. entered'[l][r] = IF l = s /\ r = q THEN 1 ELSE entered[l][r]
    BY <1>1, <2>1
  <2>3. entered[l][r] \in Nat
    BY <1>1
  <2>4. QED
    BY <2>1, <2>2, <2>3
<1>5. QED
  BY <1>1, <1>2, <1>3, <1>4, RecordingChanges

LEMMA PackedStep ==
  ASSUME TypeOK, RecordedOnce, ReadersWait, PackedByPath, [Next]_vars
  PROVE  PackedByPath'
<1> SUFFICES ASSUME NEW l \in Leaders, NEW r \in Request
             PROVE  packed'[l][r] <= entered'[l][r] + LetGo(l, r)'
  BY DEF PackedByPath, LetGo
<1>1. packed[l][r] <= entered[l][r] + LetGo(l, r)
  BY DEF PackedByPath, LetGo
<1>2. packed[l][r] \in Nat /\ entered[l][r] \in Nat /\ entered'[l][r] \in Nat
      /\ entered[l][r] <= entered'[l][r]
  BY EnteredGrows DEF TypeOK
<1>3. l \in Server
  BY IntakeAssumption
<1>4. LetGo(l, r) \in Nat /\ LetGo(l, r)' \in Int /\ LetGo(l, r) <= LetGo(l, r)'
  BY <1>3, LetGoGrows
<1>5. CASE packed'[l][r] = packed[l][r]
  BY <1>1, <1>2, <1>4, <1>5
<1>6. ASSUME NEW k \in Leaders, NEW q \in Request,
             Taken(k, q), UNCHANGED clients, packed' = [packed EXCEPT ![k][q] = @ + 1]
      PROVE  packed'[l][r] <= entered'[l][r] + LetGo(l, r)'
  <2>1. packed'[l][r] = IF k = l /\ q = r THEN packed[l][r] + 1 ELSE packed[l][r]
    BY <1>6 DEF TypeOK
  <2>2. CASE ~(k = l /\ q = r)
    BY <1>5, <2>1, <2>2
  <2>3. CASE k = l /\ q = r
    <3>1. CASE TakenFromReader(l, r)
      <4>1. Waits(l, r) /\ ~Waits(l, r)' /\ reads' = reads /\ reads[l][r] \in Nat
        BY <1>3, <1>6, <3>1, ReaderLetsGo DEF clients, TypeOK
      <4>2. LetGo(l, r)' = LetGo(l, r) + 1
        BY <4>1 DEF LetGo
      <4>3. QED
        BY <1>1, <1>2, <1>4, <2>1, <2>3, <4>2
    <3>2. CASE TakenFromHandler(l, r)
      <4>1. entered[l][r] = 0 /\ entered' = [entered EXCEPT ![l][r] = 1]
        BY <1>3, <3>2, HandlerLetsGo
      <4>2. entered'[l][r] = 1
        BY <4>1 DEF TypeOK
      <4>3. QED
        BY <1>1, <1>2, <1>4, <2>1, <2>3, <4>1, <4>2
    <3>3. QED
      BY <1>6, <2>3, <3>1, <3>2 DEF Taken
  <2>4. QED
    BY <2>2, <2>3
<1>7. QED
  BY <1>5, <1>6, PackedChanges

LEMMA IntakeStep == IntakeInv /\ [Next]_vars => IntakeInv'
BY TypeStep, RecordedStep, ReadersStep, PackedStep DEF IntakeInv

THEOREM IntakeInvariance == Spec => []IntakeInv
BY IntakeInit, IntakeStep, PTL DEF Spec

(* Every variable keeps its type, and a batch never holds as many requests  *)
(* as would fill a block.                                                   *)
THEOREM TypeCorrect == Spec => []TypeOK
<1>1. IntakeInv => TypeOK
  BY DEF IntakeInv
<1>2. QED
  BY <1>1, IntakeInvariance, PTL

(* A relayed request enters the queue of a leader once, however many        *)
(* workers relay it: the handler holds the lock of the recorder until the   *)
(* queue took the request (lines 294-310 of consensus.go).                  *)
THEOREM RelaysEnterOnce == Spec => []EntersOnceByRelay
<1>1. IntakeInv => EntersOnceByRelay
  BY DEF IntakeInv, RecordedOnce, EntersOnceByRelay
<1>2. QED
  BY <1>1, IntakeInvariance, PTL

(* A leader processes a request at most once for each time it read the      *)
(* request itself and once more for all relays (lines 50 and 302 of         *)
(* consensus.go), whatever MaxSent is and whoever relays to whom.           *)
THEOREM ProcessedByPath == Spec => []ProcessedOncePerPath
<1>1. ASSUME IntakeInv PROVE ProcessedOncePerPath
  <2> SUFFICES ASSUME NEW l \in Leaders, NEW r \in Request
               PROVE  packed[l][r] <= reads[l][r] + 1
    BY DEF ProcessedOncePerPath
  <2>1. packed[l][r] \in Nat /\ entered[l][r] \in {0, 1}
    BY <1>1 DEF IntakeInv, TypeOK, RecordedOnce
  <2>2. reads[l][r] \in Nat
    BY <1>1, IntakeAssumption DEF IntakeInv, TypeOK
  <2>3. packed[l][r] <= entered[l][r] + (reads[l][r] - IF Waits(l, r) THEN 1 ELSE 0)
    BY <1>1 DEF IntakeInv, PackedByPath
  <2>4. QED
    BY <2>1, <2>2, <2>3
<1>2. QED
  BY <1>1, IntakeInvariance, PTL

-----------------------------------------------------------------------------
(* A receiver at s that took a valid request batched it or relays it.       *)
PassedOn(s, r) ==
  \/ \E m \in Relayed : m.req = r /\ m.link[1] = s /\ msgs' = msgs \cup {m}
  \/ s \in Leaders /\ Batched(r)' /\ UNCHANGED msgs

(* The steps of requests, as long as no leader panics.                      *)
LeadersUp == panicked \cap Leaders = {}

LEMMA FlowSteps ==
  ASSUME TypeOK, [Next]_vars, LeadersUp'
  PROVE  \/ UNCHANGED <<reader, reads, msgs, recording>>
         \/ \E s \in Server, r \in Request : ReadRequest(s, r)
         \/ \E m \in msgs : DropRelayed(m)
         \/ \E m \in msgs : AdmitRelayed(m)
         \/ \E s \in Server, r \in Request : Taken(s, r) /\ r \in Invalid /\ UNCHANGED <<reads, msgs>>
         \/ \E s \in Server, r \in Request : Taken(s, r) /\ PassedOn(s, r) /\ UNCHANGED reads
         \/ /\ UNCHANGED <<reads, msgs, recording>>
            /\ \E s \in Server, r \in Request : TakenFromReader(s, r) /\ s \in panicked'
<1>1. CASE UNCHANGED vars
  BY <1>1 DEF vars, clients, relays
<1>2. CASE \E s \in Server : Intake(s)
  BY <1>2 DEF Intake, ConnectClient, RejectClient, relays
<1>3. CASE \E link \in Links : Relay(link)
  <2>1. PICK link \in Links : Relay(link)
    BY <1>3
  <2>2. link[1] \in Server
    BY IntakeAssumption
  <2>3. CASE RegisterDial(link) \/ StartRelay(link)
    BY <2>3 DEF RegisterDial, StartRelay, clients
  <2>4. ASSUME NEW r \in Request, RelayRequest(link, r)
        PROVE  Taken(link[1], r) /\ PassedOn(link[1], r) /\ UNCHANGED reads
    <3> DEFINE m == [link |-> link, req |-> r]
    <3>1. m \in Relayed /\ m.req = r /\ m.link[1] = link[1]
      BY DEF Relayed
    <3>2. QED
      BY <2>4, <3>1 DEF RelayRequest, PassedOn, clients
  <2>5. ASSUME NEW r \in Request, RelayStops(link, r)
        PROVE  Taken(link[1], r) /\ r \in Invalid /\ UNCHANGED <<reads, msgs>>
    BY <2>5 DEF RelayStops, clients
  <2>6. ASSUME NEW r \in Request, RelayPanics(link, r)
        PROVE  /\ UNCHANGED <<reads, msgs, recording>>
               /\ TakenFromReader(link[1], r) /\ link[1] \in panicked'
    <3>1. link[1] \in panicked' /\ Taken(link[1], r) /\ UNCHANGED <<reads, msgs>>
      BY <2>6 DEF RelayPanics, clients, relays
    <3>2. link[1] \notin Leaders
      BY <3>1 DEF LeadersUp
    <3>3. QED
      BY <3>1, <3>2 DEF Taken, TakenFromHandler, TakenFromReader
  <2>7. QED
    BY <2>1, <2>2, <2>3, <2>4, <2>5, <2>6 DEF Relay
<1>4. CASE \E m \in msgs : Admit(m)
  BY <1>4 DEF Admit
<1>5. CASE \E p \in Packer : Pack(p)
  <2>1. PICK p \in Packer, r \in Request : PackRequest(p, r) \/ PackerStops(p, r)
    BY <1>5 DEF Pack
  <2>2. p[1] \in Leaders /\ p[1] \in Server
    BY IntakeAssumption DEF Packer
  <2>3. CASE PackRequest(p, r)
    <3>1. packed' = [packed EXCEPT ![p[1]][r] = @ + 1]
      BY <2>3 DEF PackRequest
    <3>2. packed'[p[1]][r] > 0
      BY <2>2, <3>1 DEF TypeOK
    <3>3. Taken(p[1], r) /\ UNCHANGED <<reads, msgs>>
      BY <2>3 DEF PackRequest, clients, relays
    <3>4. QED
      BY <2>2, <3>2, <3>3 DEF PassedOn, Batched
  <2>4. CASE PackerStops(p, r)
    BY <2>2, <2>4 DEF PackerStops, clients, relays
  <2>5. QED
    BY <2>1, <2>3, <2>4
<1>6. QED
  BY <1>1, <1>2, <1>3, <1>4, <1>5 DEF Next

LEMMA BatchedStays ==
  ASSUME TypeOK, [Next]_vars, NEW r \in Request, Batched(r)
  PROVE  Batched(r)'
<1>1. CASE UNCHANGED packed
  BY <1>1 DEF Batched
<1>2. ASSUME NEW l \in Leaders, NEW q \in Request, packed' = [packed EXCEPT ![l][q] = @ + 1]
      PROVE  Batched(r)'
  <2>1. PICK k \in Leaders : packed[k][r] > 0
    BY DEF Batched
  <2>2. packed'[k][r] = IF k = l /\ r = q THEN packed[k][r] + 1 ELSE packed[k][r]
    BY <1>2 DEF TypeOK
  <2>3. packed[k][r] \in Nat
    BY DEF TypeOK
  <2>4. packed'[k][r] > 0
    BY <2>1, <2>2, <2>3
  <2>5. QED
    BY <2>4 DEF Batched
<1>3. QED
  BY <1>1, <1>2, PackedChanges

LEMMA PanicsStay == ASSUME [Next]_vars PROVE panicked \subseteq panicked'
<1>1. CASE UNCHANGED panicked
  BY <1>1
<1>2. ASSUME NEW link \in Links, NEW r \in Request, RelayPanics(link, r)
      PROVE  panicked \subseteq panicked'
  BY <1>2 DEF RelayPanics
<1>3. QED
  BY <1>1, <1>2 DEF Next, vars, Intake, ConnectClient, RejectClient, ReadRequest, Relay, RegisterDial,
     StartRelay, RelayRequest, RelayStops, Admit, DropRelayed, AdmitRelayed, Pack, PackRequest, PackerStops

(* A request is on its way to, or at, one of the leaders in D.              *)
OnItsWayIn(D, r) ==
  \/ \E m \in msgs : m.req = r /\ m.link[2] \in D
  \/ \E l \in D : \E m \in holders[l] : m.req = r

(* D has with a leader all that come later on the way of a request.         *)
ClosedDown(rank, D) == \A k \in D, l \in Leaders : rank[l] < rank[k] => l \in D

LeadersBelow(rank, l) == {k \in Leaders : rank[k] < rank[l]}

LEMMA WaysBelow ==
  ASSUME TypeOK, NEW rank \in [Server -> Nat], NEW l \in Leaders, NEW r \in Request
  PROVE  OnItsWayBelow(rank, l, r) <=> OnItsWayIn(LeadersBelow(rank, l), r)
<1>1. \A m \in msgs : m.link[2] \in Leaders
  BY RelayedIsOne DEF TypeOK
<1>2. QED
  BY <1>1 DEF OnItsWayBelow, OnItsWayIn, LeadersBelow

LEMMA BelowIsClosed ==
  ASSUME NEW rank \in [Server -> Nat], NEW l \in Leaders
  PROVE  /\ LeadersBelow(rank, l) \subseteq Leaders
         /\ ClosedDown(rank, LeadersBelow(rank, l))
<1>1. \A k, j \in Leaders : rank[k] \in Nat /\ rank[j] \in Nat /\ rank[l] \in Nat
  BY IntakeAssumption
<1>2. QED
  BY <1>1 DEF LeadersBelow, ClosedDown

(* A request on its way stays on it until it is batched: what is dropped at *)
(* a leader was recorded there and is further down already.                 *)
LEMMA WayGoesOn ==
  ASSUME TypeOK, RecordedOnce, [Next]_vars, LeadersUp',
         NEW rank \in [Server -> Nat], Descends(rank), RecordedGoesOn(rank),
         NEW D \in SUBSET Leaders, ClosedDown(rank, D),
         NEW r \in Request, r \notin Invalid, OnItsWayIn(D, r)
  PROVE  Batched(r)' \/ OnItsWayIn(D, r)'
<1> USE DEF OnItsWayIn
<1>1. CASE UNCHANGED <<reader, reads, msgs, recording>>
  BY <1>1 DEF recording
<1>2. CASE \E s \in Server, q \in Request : ReadRequest(s, q)
  BY <1>2 DEF ReadRequest, relays, recording
<1>3. ASSUME NEW m \in msgs, DropRelayed(m) PROVE Batched(r)' \/ OnItsWayIn(D, r)'
  <2> DEFINE l == m.link[2]
  <2>1. msgs' = msgs \ {m} /\ UNCHANGED holders /\ m.req \in recorder[l] /\ l \in Leaders
    BY <1>3, RelayedIsOne DEF DropRelayed, AlreadyRelayed, recording, TypeOK
  <2>2. CASE m.req = r /\ l \in D
    <3>1. LeadersUp
      BY PanicsStay DEF LeadersUp
    <3>2. Batched(r) \/ OnItsWayBelow(rank, l, r)
      BY <2>1, <2>2, <3>1 DEF RecordedGoesOn, LeadersUp
    <3>3. CASE Batched(r)
      BY <3>3, BatchedStays
    <3>4. ASSUME NEW o \in msgs, o.req = r, rank[o.link[2]] < rank[l] PROVE OnItsWayIn(D, r)'
      <4>1. o.link[2] \in Leaders
        BY RelayedIsOne DEF TypeOK
      <4>2. rank[l] \in Nat
        BY <2>1, IntakeAssumption
      <4>3. o # m
        BY <3>4, <4>2
      <4>4. o \in msgs' /\ o.link[2] \in D
        BY <2>1, <2>2, <3>4, <4>1, <4>3 DEF ClosedDown
      <4>5. QED
        BY <3>4, <4>4
    <3>5. ASSUME NEW k \in Leaders, NEW o \in holders[k], o.req = r, rank[k] < rank[l]
          PROVE  OnItsWayIn(D, r)'
      <4>1. k \in D
        BY <2>2, <3>5 DEF ClosedDown
      <4>2. QED
        BY <2>1, <3>5, <4>1
    <3>6. QED
      BY <3>2, <3>3, <3>4, <3>5 DEF OnItsWayBelow
  <2>3. CASE ~(m.req = r /\ l \in D)
    BY <2>1, <2>3
  <2>4. QED
    BY <2>2, <2>3
<1>4. ASSUME NEW m \in msgs, AdmitRelayed(m) PROVE OnItsWayIn(D, r)'
  <2> DEFINE l == m.link[2]
  <2>1. l \in Leaders
    BY RelayedIsOne DEF TypeOK
  <2>2. msgs' = msgs \ {m} /\ holders'[l] = holders[l] \cup {m}
        /\ \A k \in Leaders : k # l => holders'[k] = holders[k]
    BY <1>4, <2>1 DEF AdmitRelayed, TypeOK
  <2>3. QED
    BY <2>1, <2>2
<1>5. ASSUME NEW s \in Server, NEW q \in Request, Taken(s, q),
             q \in Invalid \/ PassedOn(s, q), UNCHANGED msgs \/ PassedOn(s, q)
      PROVE  Batched(r)' \/ OnItsWayIn(D, r)'
  <2>1. msgs \subseteq msgs'
    BY <1>5 DEF PassedOn
  <2>2. CASE \E m \in msgs : m.req = r /\ m.link[2] \in D
    BY <2>1, <2>2
  <2>3. ASSUME NEW l \in D, NEW m \in holders[l], m.req = r PROVE Batched(r)' \/ OnItsWayIn(D, r)'
    <3>1. CASE UNCHANGED holders
      BY <2>3, <3>1
    <3>2. CASE TakenFromHandler(s, q)
      <4>1. /\ s \in Leaders /\ holders' = [holders EXCEPT ![s] = {}]
            /\ \A o \in holders[s] : o.req = q
        BY <3>2, HandlerLetsGo
      <4>2. CASE s # l
        BY <2>3, <4>1, <4>2 DEF TypeOK
      <4>3. CASE s = l
        <5>1. q = r /\ PassedOn(s, q)
          BY <1>5, <2>3, <4>1, <4>3
        <5>2. ASSUME NEW o \in Relayed, o.req = r, o.link[1] = l, msgs' = msgs \cup {o}
              PROVE  OnItsWayIn(D, r)'
          <6>1. o.link[2] \in Leaders /\ rank[o.link[2]] < rank[l]
            BY <5>2, RelayedIsOne DEF Descends
          <6>2. o.link[2] \in D
            BY <6>1 DEF ClosedDown
          <6>3. QED
            BY <5>2, <6>2
        <5>3. QED
          BY <4>3, <5>1, <5>2 DEF PassedOn
      <4>4. QED
        BY <4>2, <4>3
    <3>3. QED
      BY <1>5, <3>1, <3>2 DEF Taken, TakenFromReader, recording
  <2>4. QED
    BY <2>2, <2>3
<1>6. CASE UNCHANGED <<msgs, recording>>
  BY <1>6 DEF recording
<1>7. QED
  BY <1>1, <1>2, <1>3, <1>4, <1>5, <1>6, FlowSteps

LEMMA RecordedGoesOnStep ==
  ASSUME TypeOK, TypeOK', RecordedOnce, [Next]_vars,
         NEW rank \in [Server -> Nat], Descends(rank), RecordedGoesOn(rank)
  PROVE  RecordedGoesOn(rank)'
<1> SUFFICES ASSUME LeadersUp', NEW l \in Leaders, NEW r \in recorder'[l] \ Invalid
             PROVE  Batched(r)' \/ OnItsWayBelow(rank, l, r)'
  BY DEF RecordedGoesOn, LeadersUp
<1>1. r \in Request /\ LeadersUp
  BY PanicsStay DEF TypeOK, LeadersUp
<1>2. CASE r \in recorder[l]
  <2> DEFINE D == LeadersBelow(rank, l)
  <2>1. D \in SUBSET Leaders /\ ClosedDown(rank, D)
    BY BelowIsClosed
  <2>2. CASE Batched(r)
    BY <1>1, <2>2, BatchedStays
  <2>3. CASE OnItsWayBelow(rank, l, r)
    <3>1. OnItsWayIn(D, r)
      BY <1>1, <2>3, WaysBelow
    <3>2. Batched(r)' \/ OnItsWayIn(D, r)'
      <4> HIDE DEF D
      <4> QED
        BY <1>1, <2>1, <3>1, WayGoesOn
    <3>3. OnItsWayIn(D, r)' => OnItsWayBelow(rank, l, r)'
      BY DEF OnItsWayIn, OnItsWayBelow, LeadersBelow
    <3>4. QED
      BY <3>2, <3>3
  <2>4. QED
    BY <1>1, <1>2, <2>2, <2>3 DEF RecordedGoesOn, LeadersUp
<1>3. ASSUME r \notin recorder[l],
             NEW s \in Server, NEW q \in Request, Taken(s, q), q \in Invalid \/ PassedOn(s, q)
      PROVE  Batched(r)' \/ OnItsWayBelow(rank, l, r)'
  <2>1. TakenFromHandler(s, q)
    BY <1>3 DEF Taken, TakenFromReader, recording
  <2>2. s \in Leaders /\ recorder' = [recorder EXCEPT ![s] = @ \cup {q}]
    BY <2>1 DEF TakenFromHandler
  <2>3. s = l /\ q = r
    BY <1>3, <2>2 DEF TypeOK
  <2>4. PassedOn(l, r)
    BY <1>3, <2>3
  <2>5. ASSUME NEW m \in Relayed, m.req = r, m.link[1] = l, msgs' = msgs \cup {m}
        PROVE  OnItsWayBelow(rank, l, r)'
    <3>1. rank[m.link[2]] < rank[l]
      BY <2>5, RelayedIsOne DEF Descends
    <3>2. QED
      BY <2>5, <3>1 DEF OnItsWayBelow
  <2>6. QED
    BY <2>4, <2>5 DEF PassedOn
<1>4. ASSUME r \notin recorder[l], UNCHANGED recorder PROVE FALSE
  BY <1>4
<1>5. QED
  BY <1>2, <1>3, <1>4, FlowSteps DEF ReadRequest, DropRelayed, AdmitRelayed, recording

(* What was read is waiting, on its way or in a batch. *)
ReadGoesOn ==
  LeadersUp =>
    \A s \in Server \ panicked, r \in Request \ Invalid :
       reads[s][r] > 0 => Waits(s, r) \/ OnItsWayIn(Leaders, r) \/ Batched(r)

LEMMA ReadGoesOnStep ==
  ASSUME TypeOK, RecordedOnce, [Next]_vars,
         NEW rank \in [Server -> Nat], Descends(rank), RecordedGoesOn(rank), ReadGoesOn
  PROVE  ReadGoesOn'
<1> SUFFICES ASSUME LeadersUp', NEW s \in Server \ panicked', NEW r \in Request \ Invalid, reads'[s][r] > 0
             PROVE  Waits(s, r)' \/ OnItsWayIn(Leaders, r)' \/ Batched(r)'
  BY DEF ReadGoesOn
<1>1. LeadersUp /\ s \notin panicked
  BY PanicsStay DEF LeadersUp
<1>2. ASSUME OnItsWayIn(Leaders, r) PROVE Batched(r)' \/ OnItsWayIn(Leaders, r)'
  BY <1>2, WayGoesOn DEF ClosedDown
<1>3. ASSUME Batched(r) PROVE Batched(r)'
  BY <1>3, BatchedStays
<1>4. ASSUME Waits(s, r) PROVE Waits(s, r)' \/ OnItsWayIn(Leaders, r)' \/ Batched(r)'
  <2>1. CASE UNCHANGED reader
    BY <1>4, <2>1 DEF Waits
  <2>2. ASSUME NEW t \in Server, NEW q \in Request, ReadRequest(t, q) PROVE Waits(s, r)'
    <3>1. r # NoRequest /\ r.client \in Client /\ q.client \in Client
      BY RequestIsOne
    <3>2. ~(t = s /\ q.client = r.client)
      BY <1>4, <2>2, <3>1 DEF Waits, ReadRequest
    <3>3. reader'[s][r.client] = reader[s][r.client]
      BY <2>2, <3>1, <3>2 DEF ReadRequest, TypeOK
    <3>4. QED
      BY <1>4, <3>3 DEF Waits
  <2>3. ASSUME NEW t \in Server, NEW q \in Request, Taken(t, q), q \in Invalid \/ PassedOn(t, q)
        PROVE  Waits(s, r)' \/ OnItsWayIn(Leaders, r)' \/ Batched(r)'
    <3>1. CASE TakenFromHandler(t, q)
      BY <2>1, <3>1 DEF TakenFromHandler
    <3>2. CASE TakenFromReader(t, q) /\ <<s, r>> # <<t, q>>
      BY <1>4, <3>2, ReaderLetsGo
    <3>3. CASE s = t /\ r = q
      <4>1. ASSUME NEW m \in Relayed, m.req = r, msgs' = msgs \cup {m} PROVE OnItsWayIn(Leaders, r)'
        BY <4>1, RelayedIsOne DEF OnItsWayIn
      <4>2. QED
        BY <2>3, <3>3, <4>1 DEF PassedOn
    <3>4. QED
      BY <2>3, <3>1, <3>2, <3>3 DEF Taken
  <2>4. ASSUME NEW t \in Server, NEW q \in Request, TakenFromReader(t, q), t \in panicked'
        PROVE  Waits(s, r)'
    BY <1>4, <2>4, ReaderLetsGo
  <2>5. QED
    BY <2>1, <2>2, <2>3, <2>4, FlowSteps DEF DropRelayed, AdmitRelayed
<1>5. CASE reads[s][r] > 0
  BY <1>1, <1>2, <1>3, <1>4, <1>5 DEF ReadGoesOn
<1>6. ASSUME NEW t \in Server, NEW q \in Request, ReadRequest(t, q), ~(reads[s][r] > 0)
      PROVE  Waits(s, r)'
  <2>1. t = s /\ q = r
    BY <1>6, ReadAgain
  <2>2. r.client \in Client
    BY RequestIsOne
  <2>3. reader'[s][r.client] = r
    BY <1>6, <2>1, <2>2 DEF ReadRequest, TypeOK
  <2>4. QED
    BY <2>3 DEF Waits
<1>7. QED
  BY <1>5, <1>6, FlowSteps DEF DropRelayed, AdmitRelayed, clients

(* Relays lead one way as long as no server that leads, or led, relays.     *)
LEMMA FirstViewIsOneWay == (\A link \in Links : link[1] \notin Leaders) => OneWayRelays
<1> SUFFICES ASSUME \A link \in Links : link[1] \notin Leaders PROVE OneWayRelays
  OBVIOUS
<1> DEFINE rank == [s \in Server |-> IF s \in Leaders THEN 0 ELSE 1]
<1>1. rank \in [Server -> Nat]
  OBVIOUS
<1>2. \A link \in Links : link[1] \in Server /\ link[2] \in Leaders /\ link[2] \in Server
  BY IntakeAssumption
<1>3. Descends(rank)
  BY <1>2 DEF Descends
<1>4. QED
  BY <1>1, <1>3 DEF OneWayRelays

(* As long as relays lead one way and the leaders are up, a valid request   *)
(* that a server read and did not take down with it waits somewhere, is on  *)
(* its way or was batched: the recorder drops copies only (line 302 of      *)
(* consensus.go).  Two leaders that relay to each other do lose requests.   *)
THEOREM NoDropLoses == OneWayRelays => (Spec => []NoRequestLost)
<1> SUFFICES ASSUME OneWayRelays PROVE Spec => []NoRequestLost
  OBVIOUS
<1> PICK rank \in [Server -> Nat] : Descends(rank)
  BY DEF OneWayRelays
<1> DEFINE FlowInv == IntakeInv /\ RecordedGoesOn(rank) /\ ReadGoesOn
<1>1. Init => FlowInv
  BY IntakeInit DEF Init, RecordedGoesOn, ReadGoesOn
<1>2. FlowInv /\ [Next]_vars => FlowInv'
  <2> SUFFICES ASSUME FlowInv, [Next]_vars PROVE FlowInv'
    OBVIOUS
  <2>1. TypeOK /\ RecordedOnce /\ IntakeInv'
    BY IntakeStep DEF IntakeInv
  <2>2. TypeOK'
    BY <2>1 DEF IntakeInv
  <2>3. RecordedGoesOn(rank)'
    BY <2>1, <2>2, RecordedGoesOnStep
  <2>4. ReadGoesOn'
    BY <2>1, ReadGoesOnStep
  <2>5. QED
    BY <2>1, <2>3, <2>4
<1>3. FlowInv => NoRequestLost
  BY DEF NoRequestLost, ReadGoesOn, LeadersUp, Waits, OnItsWayIn
<1> HIDE DEF FlowInv
<1>4. QED
  BY <1>1, <1>2, <1>3, PTL DEF Spec

-----------------------------------------------------------------------------
(* Finitely many packers of a leader: as many as the flag says.             *)
LEMMA PackersAreFew ==
  ASSUME NEW l \in Leaders
  PROVE  IsFiniteSet(PackersOf(l)) /\ Cardinality(PackersOf(l)) = NumOfPackers
<1> DEFINE I == 1..NumOfPackers
           f == [i \in I |-> <<l, i>>]
<1>1. IsFiniteSet(I) /\ Cardinality(I) = NumOfPackers
  BY FS_Interval, IntakeAssumption
<1>2. f \in Bijection(I, PackersOf(l))
  BY DEF PackersOf, Packer, Bijection, Injection, Surjection, IsInjective
<1>3. QED
  BY <1>1, <1>2, FS_Bijection DEF ExistsBijection

LEMMA IndexedAreNumbers ==
  ASSUME TypeOK, NEW p \in Packer
  PROVE  /\ Indexed[p] = Len(batch[p]) + BatchSize * blocks[p]
         /\ Indexed[p] \in Int /\ blocks[p] \in Int /\ Len(batch[p]) \in 0..(BatchSize - 1)
<1>1. batch[p] \in Seq(Request) /\ Len(batch[p]) \in Nat /\ Len(batch[p]) < BatchSize /\ blocks[p] \in Nat
  BY DEF TypeOK
<1>2. BatchSize \in Nat /\ BatchSize * blocks[p] \in Int
  BY <1>1, IntakeAssumption
<1>3. QED
  BY <1>1, <1>2 DEF Indexed

(* A packer that takes a request holds, or has disseminated, one more, also *)
(* when its batch is full with it; the others hold what they did.           *)
LEMMA OneMoreIndexed ==
  ASSUME TypeOK, NEW p \in Packer, NEW r \in Request, PackRequest(p, r)
  PROVE  /\ Indexed'[p] = Indexed[p] + 1
         /\ \A q \in Packer : q # p => Indexed'[q] = Indexed[q]
<1> DEFINE entries == Append(batch[p], r)
<1>1. batch[p] \in Seq(Request) /\ Len(batch[p]) < BatchSize /\ blocks[p] \in Nat /\ BatchSize \in Nat
  BY IntakeAssumption DEF TypeOK
<1>2. Len(entries) = Len(batch[p]) + 1 /\ Len(batch[p]) \in Nat
  BY <1>1
<1>3. batch'[p] = IF BatchFull(entries) THEN << >> ELSE entries
  BY DEF PackRequest, TypeOK
<1>4. blocks'[p] = IF BatchFull(entries) THEN blocks[p] + 1 ELSE blocks[p]
  BY DEF PackRequest, TypeOK
<1>5. Indexed'[p] = Len(batch'[p]) + BatchSize * blocks'[p]
      /\ Indexed[p] = Len(batch[p]) + BatchSize * blocks[p]
  BY DEF Indexed
<1>6. ASSUME BatchFull(entries) PROVE Indexed'[p] = Indexed[p] + 1
  <2>1. Len(batch'[p]) = 0 /\ blocks'[p] = blocks[p] + 1
    BY <1>3, <1>4, <1>6, EmptySeq
  <2>2. BatchSize = Len(batch[p]) + 1
    BY <1>1, <1>2, <1>6 DEF BatchFull
  <2>3. BatchSize * (blocks[p] + 1) = BatchSize * blocks[p] + BatchSize
    BY <1>1
  <2>4. BatchSize * blocks[p] \in Int
    BY <1>1
  <2>5. Indexed'[p] = 0 + BatchSize * (blocks[p] + 1)
    BY <1>5, <2>1
  <2>6. \A n, a, b \in Int : b = n + 1 => 0 + (a + b) = n + a + 1
    OBVIOUS
  <2>7. 0 + (BatchSize * blocks[p] + BatchSize) = Len(batch[p]) + BatchSize * blocks[p] + 1
    BY <1>1, <1>2, <2>2, <2>4, <2>6
  <2>8. QED
    BY <1>5, <2>3, <2>5, <2>7
<1>7. ASSUME ~BatchFull(entries) PROVE Indexed'[p] = Indexed[p] + 1
  <2>1. Len(batch'[p]) = Len(batch[p]) + 1 /\ blocks'[p] = blocks[p]
    BY <1>2, <1>3, <1>4, <1>7
  <2>2. BatchSize * blocks[p] \in Int
    BY <1>1
  <2>3. Indexed'[p] = (Len(batch[p]) + 1) + BatchSize * blocks[p]
    BY <1>5, <2>1
  <2>4. (Len(batch[p]) + 1) + BatchSize * blocks[p] = Len(batch[p]) + BatchSize * blocks[p] + 1
    BY <1>2, <2>2
  <2>5. QED
    BY <1>5, <2>3, <2>4
<1>8. ASSUME NEW q \in Packer, q # p PROVE Indexed'[q] = Indexed[q]
  BY <1>8 DEF Indexed, PackRequest, TypeOK
<1>9. QED
  BY <1>6, <1>7, <1>8

(* A packer that stops no longer holds its open batch. *)
LEMMA BatchGoes ==
  ASSUME TypeOK, NEW p \in Packer, NEW r \in Request, PackerStops(p, r)
  PROVE  /\ Indexed'[p] = BatchSize * blocks[p] /\ Indexed'[p] \in Int
         /\ Indexed[p] - Indexed'[p] \in 0..(BatchSize - 1)
         /\ \A q \in Packer : q # p => Indexed'[q] = Indexed[q]
<1>1. batch' = [batch EXCEPT ![p] = << >>] /\ blocks' = blocks
  BY DEF PackerStops
<1>2. Len(batch'[p]) = 0 /\ Indexed'[p] = Len(batch'[p]) + BatchSize * blocks'[p]
  BY <1>1, EmptySeq DEF TypeOK, Indexed
<1>3. blocks[p] \in Nat /\ BatchSize \in Nat /\ BatchSize * blocks[p] \in Int
  BY IntakeAssumption DEF TypeOK
<1>4. Indexed'[p] = BatchSize * blocks[p]
  BY <1>1, <1>2, <1>3
<1>5. Indexed[p] = Len(batch[p]) + BatchSize * blocks[p] /\ Len(batch[p]) \in 0..(BatchSize - 1)
  BY IndexedAreNumbers
<1>6. Indexed[p] - Indexed'[p] \in 0..(BatchSize - 1)
  BY <1>3, <1>4, <1>5
<1>7. ASSUME NEW q \in Packer, q # p PROVE Indexed'[q] = Indexed[q]
  BY <1>1, <1>7 DEF Indexed, TypeOK
<1>8. QED
  BY <1>3, <1>4, <1>6, <1>7

(* The steps that change what the packers of l hold or what l indexed.      *)
TakesOne(l, p) ==
  /\ p \in packing /\ UNCHANGED packing
  /\ logIndex'[l] = logIndex[l] + 1
  /\ Indexed'[p] = Indexed[p] + 1

LosesBatch(l, p) ==
  /\ p \in packing /\ packing' = packing \ {p}
  /\ logIndex'[l] = logIndex[l]
  /\ Indexed'[p] = BatchSize * blocks'[p]
  /\ Indexed[p] - Indexed'[p] \in 0..(BatchSize - 1)

LEMMA IndexSteps ==
  ASSUME TypeOK, TypeOK', [Next]_vars, NEW l \in Leaders
  PROVE  \/ /\ logIndex'[l] = logIndex[l] /\ PackersOf(l) \cap packing' = PackersOf(l) \cap packing
            /\ \A q \in PackersOf(l) : Indexed'[q] = Indexed[q] /\ blocks'[q] = blocks[q]
         \/ \E p \in PackersOf(l) :
              /\ TakesOne(l, p) \/ LosesBatch(l, p)
              /\ \A q \in PackersOf(l) : q # p => Indexed'[q] = Indexed[q] /\ blocks'[q] = blocks[q]
<1>1. \A q \in PackersOf(l) : q \in Packer /\ q[1] = l
  BY DEF PackersOf
<1>2. CASE UNCHANGED <<packing, batch, blocks, logIndex>>
  <2>1. Indexed' = Indexed
    BY <1>2 DEF Indexed
  <2>2. QED
    BY <1>2, <2>1
<1>3. ASSUME NEW p \in Packer, NEW r \in Request, PackRequest(p, r)
      PROVE  /\ p \in packing /\ UNCHANGED packing /\ p[1] \in Leaders
             /\ logIndex' = [logIndex EXCEPT ![p[1]] = @ + 1]
             /\ \A q \in Packer : q # p => blocks'[q] = blocks[q]
  BY <1>3 DEF PackRequest, Packer, TypeOK
<1>4. ASSUME NEW p \in Packer, NEW r \in Request, PackRequest(p, r), p[1] = l
      PROVE  TakesOne(l, p) /\ \A q \in Packer : q # p => Indexed'[q] = Indexed[q] /\ blocks'[q] = blocks[q]
  <2>1. Indexed'[p] = Indexed[p] + 1 /\ \A q \in Packer : q # p => Indexed'[q] = Indexed[q]
    BY <1>4, OneMoreIndexed
  <2>2. logIndex'[l] = logIndex[l] + 1
    BY <1>3, <1>4 DEF TypeOK
  <2>3. QED
    BY <1>3, <1>4, <2>1, <2>2 DEF TakesOne
<1>5. ASSUME NEW p \in Packer, NEW r \in Request, PackRequest(p, r), p[1] # l
      PROVE  /\ logIndex'[l] = logIndex[l] /\ UNCHANGED packing
             /\ \A q \in PackersOf(l) : Indexed'[q] = Indexed[q] /\ blocks'[q] = blocks[q]
  <2>1. \A q \in Packer : q # p => Indexed'[q] = Indexed[q]
    BY <1>5, OneMoreIndexed
  <2>2. logIndex'[l] = logIndex[l]
    BY <1>3, <1>5 DEF TypeOK
  <2>3. QED
    BY <1>1, <1>3, <1>5, <2>1, <2>2
<1>6. ASSUME NEW p \in Packer, NEW r \in Request, PackerStops(p, r)
      PROVE  /\ p \in packing /\ packing' = packing \ {p} /\ UNCHANGED <<blocks, logIndex>>
             /\ Indexed'[p] = BatchSize * blocks'[p] /\ Indexed[p] - Indexed'[p] \in 0..(BatchSize - 1)
             /\ \A q \in Packer : q # p => Indexed'[q] = Indexed[q]
  <2>1. p \in packing /\ packing' = packing \ {p} /\ UNCHANGED <<blocks, logIndex>>
    BY <1>6 DEF PackerStops
  <2>2. QED
    BY <1>6, <2>1, BatchGoes
<1>7. ASSUME NEW p \in Packer, NEW r \in Request, PackerStops(p, r), p[1] = l
      PROVE  LosesBatch(l, p)
  BY <1>6, <1>7 DEF LosesBatch
<1>8. CASE \E p \in Packer, r \in Request : PackRequest(p, r)
  <2>1. PICK p \in Packer, r \in Request : PackRequest(p, r)
    BY <1>8
  <2>2. CASE p[1] = l
    BY <1>1, <1>4, <2>1, <2>2 DEF PackersOf
  <2>3. CASE p[1] # l
    BY <1>5, <2>1, <2>3
  <2>4. QED
    BY <2>2, <2>3
<1>9. CASE \E p \in Packer, r \in Request : PackerStops(p, r)
  <2>1. PICK p \in Packer, r \in Request : PackerStops(p, r)
    BY <1>9
  <2>2. CASE p[1] = l
    BY <1>1, <1>6, <1>7, <2>1, <2>2 DEF PackersOf
  <2>3. CASE p[1] # l
    BY <1>1, <1>6, <2>1, <2>3
  <2>4. QED
    BY <2>2, <2>3
<1>10. QED
  BY <1>2, <1>8, <1>9 DEF Next, vars, packers, Intake, ConnectClient, RejectClient, ReadRequest, Relay,
     RegisterDial, StartRelay, RelayRequest, RelayStops, RelayPanics, Admit, DropRelayed, AdmitRelayed, Pack

LEMMA IndexedBefore ==
  ASSUME TypeOK, TypeOK', NEW l \in Leaders, NEW q \in PackersOf(l)
  PROVE  Indexed[q] \in Int /\ Indexed'[q] \in Int
<1>1. q \in Packer
  BY DEF PackersOf
<1>2. Indexed[q] \in Int
  BY <1>1, IndexedAreNumbers
<1>3. batch'[q] \in Seq(Request) /\ blocks'[q] \in Nat /\ BatchSize \in Nat
  BY <1>1, IntakeAssumption DEF TypeOK
<1>4. Len(batch'[q]) \in Nat /\ BatchSize * blocks'[q] \in Nat
  BY <1>3
<1>5. Indexed'[q] = Len(batch'[q]) + BatchSize * blocks'[q]
  BY <1>1 DEF Indexed
<1>6. QED
  BY <1>2, <1>4, <1>5

LEMMA NothingIndexed ==
  ASSUME Init, NEW l \in Leaders
  PROVE  /\ SumFunctionOnSet(Indexed, PackersOf(l)) = 0 /\ logIndex[l] = 0
         /\ PackersOf(l) \ packing = {}
<1>1. TypeOK
  BY IntakeInit DEF IntakeInv
<1>2. ASSUME NEW p \in Packer PROVE Indexed[p] = 0
  <2>1. Len(batch[p]) = 0 /\ blocks[p] = 0
    BY EmptySeq DEF Init
  <2>2. QED
    BY <1>1, <2>1, IndexedAreNumbers, IntakeAssumption
<1>3. SumFunctionOnSet(Indexed, PackersOf(l)) = 0
  BY <1>2, PackersAreFew, SumOfZeros DEF PackersOf
<1>4. QED
  BY <1>3 DEF Init, PackersOf

(* What a leader indexed is held by its packers or disseminated, but for    *)
(* less than a batch with each packer that stopped, for any number of       *)
(* packers and any size of a batch (lines 103-124 of consensus.go).         *)
THEOREM IndexIsCounted == Spec => []LogIndexCounts
<1>1. Init => LogIndexCounts
  <2>1. ASSUME Init, NEW l \in Leaders
        PROVE  Gone(l) \in 0..((BatchSize - 1) * Cardinality(PackersOf(l) \ packing))
    <3>1. SumFunctionOnSet(Indexed, PackersOf(l)) = 0 /\ logIndex[l] = 0 /\ PackersOf(l) \ packing = {}
      BY <2>1, NothingIndexed
    <3>2. Gone(l) = 0
      BY <3>1 DEF Gone
    <3>3. Cardinality(PackersOf(l) \ packing) = 0
      BY <3>1, FS_EmptySet
    <3>4. BatchSize \in Int /\ (BatchSize - 1) * 0 = 0
      BY IntakeAssumption
    <3>5. QED
      BY <3>2, <3>3, <3>4
  <2>2. QED
    BY <2>1 DEF LogIndexCounts
<1>2. TypeOK /\ TypeOK' /\ LogIndexCounts /\ [Next]_vars => LogIndexCounts'
  <2> SUFFICES ASSUME TypeOK, TypeOK', LogIndexCounts, [Next]_vars, NEW l \in Leaders
               PROVE  Gone(l)' \in 0..((BatchSize - 1) * Cardinality(PackersOf(l) \ packing'))
    BY DEF LogIndexCounts, PackersOf
  <2> DEFINE P == PackersOf(l)
             sum == SumFunctionOnSet(Indexed, P)
             sumNext == SumFunctionOnSet(Indexed', P)
             n == Cardinality(P \ packing)
             nNext == Cardinality(P \ packing')
  <2>1. IsFiniteSet(P) /\ \A q \in P : Indexed[q] \in Int /\ Indexed'[q] \in Int
    BY PackersAreFew, IndexedBefore
  <2>2. sum \in Int /\ sumNext \in Int
    BY <2>1, SumOfInts
  <2>3. IsFiniteSet(P \ packing) /\ n \in Nat
    BY <2>1, FS_Subset, FS_CardinalityType
  <2>4. logIndex[l] \in Int /\ logIndex'[l] \in Int /\ BatchSize - 1 \in Nat
    BY IntakeAssumption DEF TypeOK
  <2>5. Gone(l) = logIndex[l] - sum /\ Gone(l)' = logIndex'[l] - sumNext
    BY DEF Gone, PackersOf
  <2>6. Gone(l) \in 0..((BatchSize - 1) * n)
    BY DEF LogIndexCounts
  <2>7. CASE /\ logIndex'[l] = logIndex[l] /\ P \cap packing' = P \cap packing
             /\ \A q \in P : Indexed'[q] = Indexed[q]
    <3>1. sumNext = sum
      BY <2>1, <2>7, SumsOfEquals
    <3>2. P \ packing' = P \ packing
      BY <2>7
    <3>3. QED
      BY <2>5, <2>6, <2>7, <3>1, <3>2
  <2>8. ASSUME NEW p \in P, TakesOne(l, p), \A q \in P : q # p => Indexed'[q] = Indexed[q]
        PROVE  Gone(l)' \in 0..((BatchSize - 1) * nNext)
    <3>1. sumNext = sum + (Indexed'[p] - Indexed[p])
      BY <2>1, <2>8, SumOfChanged
    <3>2. logIndex'[l] = logIndex[l] + 1 /\ Indexed'[p] - Indexed[p] = 1 /\ packing' = packing
      BY <2>1, <2>8 DEF TakesOne
    <3>3. Gone(l)' = Gone(l)
      BY <2>2, <2>4, <2>5, <3>1, <3>2
    <3>4. QED
      BY <2>6, <3>2, <3>3
  <2>9. ASSUME NEW p \in P, LosesBatch(l, p), \A q \in P : q # p => Indexed'[q] = Indexed[q]
        PROVE  Gone(l)' \in 0..((BatchSize - 1) * nNext)
    <3> DEFINE lost == Indexed[p] - Indexed'[p]
    <3>1. sumNext = sum + (Indexed'[p] - Indexed[p])
      BY <2>1, <2>9, SumOfChanged
    <3>2. logIndex'[l] = logIndex[l] /\ lost \in 0..(BatchSize - 1)
      BY <2>9 DEF LosesBatch
    <3>3. Gone(l)' = Gone(l) + lost
      BY <2>1, <2>2, <2>4, <2>5, <3>1, <3>2
    <3>4. P \ packing' = (P \ packing) \cup {p} /\ p \notin P \ packing
      BY <2>9 DEF LosesBatch
    <3>5. nNext = n + 1
      BY <2>3, <3>4, FS_AddElement
    <3>6. (BatchSize - 1) * (n + 1) = (BatchSize - 1) * n + (BatchSize - 1)
      BY <2>3, <2>4
    <3>7. (BatchSize - 1) * n \in Int
      BY <2>3, <2>4
    <3> HIDE DEF lost
    <3>8. QED
      BY <2>4, <2>6, <3>2, <3>3, <3>5, <3>6, <3>7
  <2>10. QED
    BY <2>7, <2>8, <2>9, IndexSteps
<1>3. QED
  BY <1>1, <1>2, TypeCorrect, PTL DEF Spec

(* What the packers hold, a stopped one counted with the largest batch that *)
(* may have gone with it.                                                   *)
Claimed ==
  [p \in Packer |-> IF p \in packing THEN Indexed[p] ELSE BatchSize * blocks[p] + (BatchSize - 1)]

IndexIsClaimed == \A l \in Leaders : logIndex[l] <= SumFunctionOnSet(Claimed, PackersOf(l))

LEMMA ClaimedAreNumbers ==
  ASSUME TypeOK, NEW p \in Packer
  PROVE  Claimed[p] \in Int /\ blocks[p] \in Int /\ Claimed[p] <= BatchSize * blocks[p] + (BatchSize - 1)
<1>1. /\ Indexed[p] = Len(batch[p]) + BatchSize * blocks[p]
      /\ Indexed[p] \in Int /\ blocks[p] \in Int /\ Len(batch[p]) \in 0..(BatchSize - 1)
  BY IndexedAreNumbers
<1>2. BatchSize \in Int /\ BatchSize * blocks[p] \in Int
  BY <1>1, IntakeAssumption
<1>3. QED
  BY <1>1, <1>2 DEF Claimed

LEMMA ClaimedBefore ==
  ASSUME TypeOK, TypeOK', NEW l \in Leaders, NEW q \in PackersOf(l)
  PROVE  Claimed[q] \in Int /\ Claimed'[q] \in Int
<1>1. q \in Packer /\ Indexed'[q] \in Int /\ BatchSize \in Nat /\ blocks'[q] \in Nat
  <2>1. q \in Packer
    BY DEF PackersOf
  <2>2. blocks'[q] \in Nat
    BY <2>1 DEF TypeOK
  <2>3. QED
    BY <2>1, <2>2, IndexedBefore, IntakeAssumption
<1>2. Claimed'[q] = IF q \in packing' THEN Indexed'[q] ELSE BatchSize * blocks'[q] + (BatchSize - 1)
  BY <1>1 DEF Claimed
<1>3. Claimed'[q] \in Int
  BY <1>1, <1>2
<1>4. QED
  BY <1>1, <1>3, ClaimedAreNumbers

(* No more requests of a leader are in open batches, or went with a packer, *)
(* than its packers can hold without a full one (lines 106 and 122 of       *)
(* consensus.go), for any number of packers and any size of a batch.        *)
THEOREM FewWait == Spec => []WaitingIsBounded
<1>1. Init => IndexIsClaimed
  <2>1. ASSUME Init, NEW l \in Leaders PROVE logIndex[l] <= SumFunctionOnSet(Claimed, PackersOf(l))
    <3>1. \A p \in PackersOf(l) : Claimed[p] = Indexed[p]
      BY <2>1 DEF Init, Claimed, PackersOf
    <3>2. SumFunctionOnSet(Claimed, PackersOf(l)) = SumFunctionOnSet(Indexed, PackersOf(l))
      BY <3>1, PackersAreFew, SumsOfEquals
    <3>3. QED
      BY <2>1, <3>2, NothingIndexed
  <2>2. QED
    BY <2>1 DEF IndexIsClaimed
<1>2. TypeOK /\ TypeOK' /\ IndexIsClaimed /\ [Next]_vars => IndexIsClaimed'
  <2> SUFFICES ASSUME TypeOK, TypeOK', IndexIsClaimed, [Next]_vars, NEW l \in Leaders
               PROVE  logIndex'[l] <= SumFunctionOnSet(Claimed', PackersOf(l))
    BY DEF IndexIsClaimed, PackersOf
  <2> DEFINE P == PackersOf(l)
             sum == SumFunctionOnSet(Claimed, P)
             sumNext == SumFunctionOnSet(Claimed', P)
  <2>1. IsFiniteSet(P) /\ \A q \in P : Claimed[q] \in Int /\ Claimed'[q] \in Int
    BY PackersAreFew, ClaimedBefore
  <2>2. sum \in Int /\ sumNext \in Int /\ logIndex[l] \in Int /\ logIndex[l] <= sum
    BY <2>1, SumOfInts DEF TypeOK, IndexIsClaimed
  <2>3. \A q \in P : q \in Packer
    BY DEF PackersOf
  <2>4. CASE /\ logIndex'[l] = logIndex[l] /\ P \cap packing' = P \cap packing
             /\ \A q \in P : Indexed'[q] = Indexed[q] /\ blocks'[q] = blocks[q]
    <3>1. \A q \in P : Claimed[q] = Claimed'[q]
      BY <2>3, <2>4 DEF Claimed
    <3>2. sum = sumNext
      BY <2>1, <3>1, SumsOfEquals
    <3>3. QED
      BY <2>2, <2>4, <3>2
  <2>5. ASSUME NEW p \in P, TakesOne(l, p) \/ LosesBatch(l, p),
               \A q \in P : q # p => Indexed'[q] = Indexed[q] /\ blocks'[q] = blocks[q]
        PROVE  logIndex'[l] <= sumNext
    <3>1. \A q \in P : q # p => Claimed[q] = Claimed'[q]
      BY <2>3, <2>5 DEF Claimed, TakesOne, LosesBatch
    <3>2. sumNext = sum + (Claimed'[p] - Claimed[p])
      BY <2>1, <3>1, SumOfChanged
    <3>3. p \in packing /\ Claimed[p] = Indexed[p] /\ Indexed[p] \in Int /\ Indexed'[p] \in Int
      BY <2>3, <2>5, IndexedBefore DEF Claimed, TakesOne, LosesBatch
    <3>4. CASE TakesOne(l, p)
      <4>1. Claimed'[p] = Claimed[p] + 1 /\ logIndex'[l] = logIndex[l] + 1
        BY <2>3, <3>3, <3>4 DEF Claimed, TakesOne
      <4>2. QED
        BY <2>1, <2>2, <3>2, <4>1
    <3>5. CASE LosesBatch(l, p)
      <4>1. Claimed'[p] = Indexed'[p] + (BatchSize - 1) /\ logIndex'[l] = logIndex[l]
        BY <2>3, <3>3, <3>5 DEF Claimed, LosesBatch
      <4>2. Indexed[p] - Indexed'[p] \in 0..(BatchSize - 1) /\ BatchSize \in Int
        BY <3>5, IntakeAssumption DEF LosesBatch
      <4>3. Claimed[p] <= Claimed'[p]
        BY <3>3, <4>1, <4>2
      <4>4. QED
        BY <2>1, <2>2, <3>2, <4>1, <4>3
    <3>6. QED
      BY <2>5, <3>4, <3>5
  <2>6. QED
    BY <2>4, <2>5, IndexSteps
<1>3. TypeOK /\ IndexIsClaimed => WaitingIsBounded
  <2> SUFFICES ASSUME TypeOK, IndexIsClaimed, NEW l \in Leaders
               PROVE  logIndex[l] - BatchSize * SumFunctionOnSet(blocks, PackersOf(l))
                        <= NumOfPackers * (BatchSize - 1)
    BY DEF WaitingIsBounded
  <2> DEFINE sum == SumFunctionOnSet(blocks, PackersOf(l))
             claims == SumFunctionOnSet(Claimed, PackersOf(l))
  <2>1. IsFiniteSet(PackersOf(l)) /\ Cardinality(PackersOf(l)) = NumOfPackers
        /\ PackersOf(l) \subseteq Packer
    BY PackersAreFew DEF PackersOf
  <2>2. BatchSize \in Int /\ BatchSize - 1 \in Int /\ NumOfPackers \in Int
    BY IntakeAssumption
  <2>3. \A p \in PackersOf(l) :
           Claimed[p] \in Int /\ blocks[p] \in Int /\ Claimed[p] <= BatchSize * blocks[p] + (BatchSize - 1)
    BY <2>1, ClaimedAreNumbers
  <2>4. claims <= BatchSize * sum + (BatchSize - 1) * NumOfPackers
    BY <2>1, <2>2, <2>3, SumIsBounded
  <2>5. logIndex[l] <= claims /\ logIndex[l] \in Int
    BY DEF IndexIsClaimed, TypeOK
  <2>6. sum \in Int /\ claims \in Int
    BY <2>1, <2>3, SumOfInts
  <2>7. BatchSize * sum \in Int /\ (BatchSize - 1) * NumOfPackers = NumOfPackers * (BatchSize - 1)
        /\ NumOfPackers * (BatchSize - 1) \in Int
    BY <2>2, <2>6
  <2>8. QED
    BY <2>4, <2>5, <2>6, <2>7
<1>4. QED
  BY <1>1, <1>2, <1>3, TypeCorrect, PTL DEF Spec
=============================================================================
