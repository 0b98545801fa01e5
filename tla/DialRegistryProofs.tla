-------------------------- MODULE DialRegistryProofs --------------------------
(***************************************************************************)
(* The dial registry: a leader registers a worker as who it is and only in *)
(* the view it dialed in, a server dies only of what is named, and at the  *)
(* first view a listener that closed has heard every other server.         *)
(***************************************************************************)
EXTENDS DialRegistry, FiniteSetTheorems, TLAPS

LEMMA ConnIsOne == ASSUME NEW c \in Conn PROVE c # NoConn
<1>1. DOMAIN c = {"src", "dst", "phase", "port"}
  BY DEF Conn
<1>2. DOMAIN NoConn = {"port"}
  BY DEF NoConn
<1>3. "src" \notin {"port"}
  OBVIOUS
<1>4. QED
  BY <1>1, <1>2, <1>3

LEMMA ViewsAreNat == View \subseteq Nat /\ 0 \in View /\ InitialLeadership \in Leaderships
<1>1. View \subseteq Nat /\ 0 \in View
  BY DialAssumption DEF View
<1>2. QED
  BY <1>1 DEF Leaderships

LEMMA LeadershipTypes ==
  /\ \A a \in Leaderships : a.view \in View /\ a.leader \in Server
  /\ \A a \in Elections : a \in Leaderships /\ a # InitialLeadership
<1>1. Elections \subseteq [view : View \ {0}, leader : Server] /\ InitialLeader \in Server
  BY DialAssumption
<1>2. \A a \in Elections : a.view \in View \ {0} /\ a.leader \in Server
  BY <1>1
<1>3. InitialLeadership.view = 0 /\ InitialLeadership.leader = InitialLeader
  BY DEF InitialLeadership
<1>4. QED
  BY <1>1, <1>2, <1>3, ViewsAreNat DEF Leaderships

LEMMA ServersAreMany ==
  /\ Cardinality(Server) \in Nat /\ Cardinality(Server) > 1
  /\ ~AllInvoked(0)
<1>1. Cardinality(Server) \in Nat
  BY DialAssumption, FS_CardinalityType
<1>2. QED
  BY <1>1, DialAssumption DEF AllInvoked

LEMMA DialerShape ==
  ASSUME NEW d \in Dialer
  PROVE  /\ d.pc \in {"none", "starting", "done", "dialed", "dialing"}
         /\ d.pc = "dialed" => d.to \in Server
         /\ d.pc = "dialing" => /\ d.to \in Server /\ d.phase \in Phase /\ d.port \in Nat
                                /\ d.tries \in 0..(MaxTry - 1)
                                /\ d \in [pc : {"dialing"}, to : Server, phase : Phase, port : Nat,
                                          tries : 0..(MaxTry - 1)]
BY DEF Dialer

LEMMA StartingType ==
  ASSUME NEW s \in Server, NEW l \in Server
  PROVE  /\ Starting(s, l) \in Dialer
         /\ Starting(s, l) = IF s = l THEN NoDialer ELSE [pc |-> "starting"]
         /\ NoDialer \in Dialer /\ NoDialer.pc = "none"
BY DEF Starting, NoDialer, Dialer

LEMMA PhaseOne == 1 \in Phase /\ ~PastLastPhase(1) /\ LastPhase \in Nat
BY DialAssumption DEF Phase, PastLastPhase

(* The next phase, or the last one done. *)
LEMMA DialingShape ==
  ASSUME TypeOK, NEW s \in Server, NEW l \in Server, NEW p \in Nat \ {0}
  PROVE  /\ Dialing(s, l, p) \in Dialer
         /\ Dialing(s, l, p).to = l
         /\ \/ PastLastPhase(p) /\ Dialing(s, l, p).pc = "dialed"
            \/ /\ p \in Phase /\ ~PastLastPhase(p)
               /\ Dialing(s, l, p).pc = "dialing" /\ Dialing(s, l, p).phase = p
               /\ Dialing(s, l, p).port = DialPort[s][p] + view[s]
<1>1. CASE PastLastPhase(p)
  BY <1>1 DEF Dialing, Dialer
<1>2. CASE ~PastLastPhase(p)
  <2>1. p \in Phase
    BY <1>2, DialAssumption DEF PastLastPhase, Phase
  <2>2. view[s] \in Nat /\ DialPort[s][p] \in Nat
    BY <2>1, ViewsAreNat, DialAssumption DEF TypeOK
  <2>3. LocalPort(s, p) \in Nat /\ LocalPort(s, p) = DialPort[s][p] + view[s]
    BY <2>2 DEF LocalPort
  <2>4. 0 \in 0..(MaxTry - 1)
    BY DialAssumption
  <2>5. Dialing(s, l, p) = [pc |-> "dialing", to |-> l, phase |-> p, port |-> LocalPort(s, p), tries |-> 0]
    BY <1>2 DEF Dialing
  <2>6. QED
    BY <1>2, <2>1, <2>3, <2>4, <2>5 DEF Dialer
<1>3. QED
  BY <1>1, <1>2

LEMMA NoDialerShape == NoDialer.pc = "none"
BY DEF NoDialer

LEMMA PhasesAreNat == ASSUME NEW p \in Phase PROVE p \in Nat \ {0} /\ p + 1 \in Nat \ {0}
BY DialAssumption DEF Phase

-----------------------------------------------------------------------------
(* The steps, one by one.  Views that are adopted and campaigns, with what  *)
(* start() does about them, come together: they touch nothing else.         *)
Aside(s) ==
  Campaign(s) \/ AbortCampaign(s) \/ BackToWorker(s) \/ \E v \in View : AdoptView(s, v)

Disregards(s, a) == FindAnotherLeader(s, a) \/ IgnoreInauguration(s, a)

LEMMA AsideChanges ==
  ASSUME NEW s \in Server, Aside(s)
  PROVE  UNCHANGED <<announced, booted, following, steering, worker, nilMaps, leader, panicked>>
BY DEF Aside, Campaign, StartCampaign, BecomeNominee, CampaignAborted, CampaignEnds, AbortCampaign,
   BackToWorker, AdoptView, loop

LEMMA StepCases ==
  ASSUME [Next]_vars
  PROVE  \/ UNCHANGED vars
         \/ \E s \in Server : Boot(s)
         \/ \E s \in Server : Aside(s)
         \/ \E a \in Elections : Win(a)
         \/ \E s \in Server, a \in Elections :
              StartLeaderService(s, a) \/ ChangeLeader(s, a) \/ FollowLeader(s, a) \/ Disregards(s, a)
         \/ \E s \in Server, a \in Leaderships :
              StartDialing(s, a) \/ DialConnects(s, a) \/ DialFails(s, a) \/ StartReceiving(s, a)
         \/ \E l \in Server, p \in Phase, a \in Leaderships : Listen(l, p, a)
         \/ \E l \in Server, p \in Phase : AcceptFails(l, p)
         \/ \E c \in backlog : Accept(c)
         \/ \E c \in accepted : Register(c) \/ Reject(c)
BY DEF Next, RoleLoop, Dial, Serve, Aside, Disregards

LEMMA ElectionsTypes ==
  /\ Elections \subseteq Leaderships
  /\ \A a \in Elections : a.leader \in Server /\ a.view \in View
BY LeadershipTypes

LEMMA InitType == Init => TypeOK
<1> SUFFICES ASSUME Init PROVE TypeOK
  OBVIOUS
<1>1. view \in [Server -> View]
  BY ViewsAreNat DEF Init
<1>2. dialer \in [Server -> [Leaderships -> Dialer]]
  <2>1. \A s \in Server, a \in Leaderships : Starting(s, a.leader) \in Dialer /\ NoDialer \in Dialer
    BY LeadershipTypes, StartingType
  <2>2. QED
    BY <2>1 DEF Init
<1>3. listener \in [Server -> [Phase -> [open : BOOLEAN, hasInvoked : 0..(Cardinality(Server) - 1)]]]
  <2>1. 0 \in 0..(Cardinality(Server) - 1)
    BY ServersAreMany
  <2>2. QED
    BY <2>1 DEF Init
<1>4. acceptErrors \in 0..MaxAcceptError
  BY DialAssumption DEF Init
<1>5. QED
  BY <1>1, <1>2, <1>3, <1>4, DialAssumption DEF Init, TypeOK, NoConns

-----------------------------------------------------------------------------
(* Steps that change dialers leave a dialer of the type.                    *)
DialTypeOK ==
  /\ dialer \in [Server -> [Leaderships -> Dialer]]
  /\ dialConns \in [Server -> [Server -> [Phase -> Conn \cup {NoConn}]]]
  /\ sockets \subseteq Conn
  /\ gaveUp \subseteq Server

LEMMA StartDialingType ==
  ASSUME TypeOK, ListenersOpen, NEW s \in Server, NEW a \in Leaderships, StartDialing(s, a)
  PROVE  DialTypeOK'
<1>1. coordinator[s] \in Server
  BY DEF StartDialing, ListenersOpen
<1>2. Dialing(s, coordinator[s], 1) \in Dialer
  BY <1>1, DialingShape
<1>3. dialer' = [dialer EXCEPT ![s][a] = Dialing(s, coordinator[s], 1)]
      /\ UNCHANGED <<dialConns, sockets, gaveUp>>
  BY DEF StartDialing
<1>4. QED
  BY <1>2, <1>3 DEF TypeOK, DialTypeOK

LEMMA DialConnectsType ==
  ASSUME TypeOK, NEW s \in Server, NEW a \in Leaderships, DialConnects(s, a)
  PROVE  DialTypeOK' /\ \E c \in Conn : sockets' = sockets \cup {c} /\ backlog' = backlog \cup {c}
<1> DEFINE d == dialer[s][a]
           c == [src |-> s, dst |-> d.to, phase |-> d.phase, port |-> d.port]
<1>1. d \in Dialer /\ d.pc = "dialing"
  BY DEF DialConnects, TypeOK
<1>2. d.to \in Server /\ d.phase \in Phase /\ d.port \in Nat
  BY <1>1, DialerShape
<1>3. c \in Conn
  BY <1>2 DEF Conn
<1>4. Dialing(s, d.to, d.phase + 1) \in Dialer
  BY <1>2, PhasesAreNat, DialingShape
<1>5. sockets' = sockets \cup {c} /\ backlog' = backlog \cup {c} /\ UNCHANGED gaveUp
  BY DEF DialConnects
<1>6. dialConns' \in [Server -> [Server -> [Phase -> Conn \cup {NoConn}]]]
  <2>1. dialConns' = [dialConns EXCEPT ![s][d.to][d.phase] = c] \/ UNCHANGED dialConns
    BY DEF DialConnects
  <2>2. dialConns \in [Server -> [Server -> [Phase -> Conn \cup {NoConn}]]]
    BY DEF TypeOK
  <2> HIDE DEF d, c
  <2>3. [dialConns[s][d.to] EXCEPT ![d.phase] = c] \in [Phase -> Conn \cup {NoConn}]
    BY <1>2, <1>3, <2>2
  <2>4. [dialConns[s] EXCEPT ![d.to][d.phase] = c] \in [Server -> [Phase -> Conn \cup {NoConn}]]
    BY <1>2, <2>2, <2>3
  <2>5. QED
    BY <2>1, <2>2, <2>4
<1>7. dialer' \in [Server -> [Leaderships -> Dialer]]
  <2>1. dialer' = [dialer EXCEPT ![s][a] = Dialing(s, d.to, d.phase + 1)] \/ UNCHANGED dialer
    BY DEF DialConnects
  <2>2. dialer \in [Server -> [Leaderships -> Dialer]]
    BY DEF TypeOK
  <2> HIDE DEF d
  <2>3. QED
    BY <1>4, <2>1, <2>2
<1>8. QED
  BY <1>3, <1>5, <1>6, <1>7 DEF DialTypeOK, TypeOK

LEMMA DialFailsType ==
  ASSUME TypeOK, NEW s \in Server, NEW a \in Leaderships, DialFails(s, a)
  PROVE  DialTypeOK'
<1> DEFINE d == dialer[s][a]
<1>1. d \in Dialer /\ d.pc = "dialing"
  BY DEF DialFails, TypeOK
<1>2. /\ d.to \in Server /\ d.phase \in Phase /\ d.tries \in 0..(MaxTry - 1)
      /\ d \in [pc : {"dialing"}, to : Server, phase : Phase, port : Nat, tries : 0..(MaxTry - 1)]
  BY <1>1, DialerShape
<1>3. Dialing(s, d.to, d.phase + 1) \in Dialer
  BY <1>2, PhasesAreNat, DialingShape
<1>4. dialer' \in [Server -> [Leaderships -> Dialer]]
  <2> dialer \in [Server -> [Leaderships -> Dialer]]
    BY DEF TypeOK
  <2>1. CASE d.tries + 1 = MaxTry
    <3>1. dialer' = [dialer EXCEPT ![s][a] = Dialing(s, d.to, d.phase + 1)]
      BY <2>1 DEF DialFails
    <3> HIDE DEF d
    <3>2. QED
      BY <1>3, <3>1
  <2>2. CASE d.tries + 1 # MaxTry
    <3> MaxTry \in Nat \ {0}
      BY DialAssumption
    <3>1. \A n \in 0..(MaxTry - 1) : n + 1 # MaxTry => n + 1 \in 0..(MaxTry - 1)
      OBVIOUS
    <3>2. d.tries + 1 \in 0..(MaxTry - 1)
      BY <1>2, <2>2, <3>1
    <3>3. [d EXCEPT !.tries = @ + 1] \in Dialer
      BY <1>2, <3>2 DEF Dialer
    <3>4. dialer' = [dialer EXCEPT ![s][a] = [d EXCEPT !.tries = @ + 1]]
      BY <2>2 DEF DialFails
    <3> HIDE DEF d
    <3>5. QED
      BY <3>3, <3>4
  <2>3. QED
    BY <2>1, <2>2
<1>5. gaveUp' \subseteq Server /\ UNCHANGED <<dialConns, sockets>>
  BY DEF DialFails, TypeOK
<1>6. QED
  BY <1>4, <1>5 DEF DialTypeOK, TypeOK

(* One more call of Accept. *)
LEMMA InvokedType ==
  ASSUME TypeOK, ListenersOpen, NEW l \in Server, NEW p \in Phase, listener[l][p].open, Invoked(l, p)
  PROVE  /\ listener' \in [Server -> [Phase -> [open : BOOLEAN, hasInvoked : 0..(Cardinality(Server) - 1)]]]
         /\ listener'[l][p].hasInvoked = listener[l][p].hasInvoked + 1
         /\ listener'[l][p].open = ~AllInvoked(listener[l][p].hasInvoked + 1)
         /\ \A k \in Server, q \in Phase : <<k, q>> # <<l, p>> => listener'[k][q] = listener[k][q]
<1> DEFINE k == listener[l][p].hasInvoked + 1
           n == [open |-> ~AllInvoked(k), hasInvoked |-> k]
<1>1. listener[l][p].hasInvoked \in 0..(Cardinality(Server) - 1) /\ ~AllInvoked(listener[l][p].hasInvoked)
  BY DEF TypeOK, ListenersOpen
<1>2. k \in 0..(Cardinality(Server) - 1)
  BY <1>1, ServersAreMany DEF AllInvoked
<1>3. n \in [open : BOOLEAN, hasInvoked : 0..(Cardinality(Server) - 1)]
  BY <1>2 DEF AllInvoked
<1>4. listener' = [listener EXCEPT ![l][p] = n]
  BY DEF Invoked
<1>5. n.open = ~AllInvoked(k) /\ n.hasInvoked = k
  OBVIOUS
<1> HIDE DEF n, k
<1>6. /\ listener' \in [Server -> [Phase -> [open : BOOLEAN, hasInvoked : 0..(Cardinality(Server) - 1)]]]
      /\ listener'[l][p] = n
      /\ \A j \in Server, q \in Phase : <<j, q>> # <<l, p>> => listener'[j][q] = listener[j][q]
  BY <1>3, <1>4 DEF TypeOK
<1>7. QED
  BY <1>5, <1>6 DEF n, k

LEMMA TypeStep == ASSUME TypeOK, ListenersOpen, [Next]_vars PROVE TypeOK'
<1> USE DEF TypeOK, elections, loop, worker, leader
<1>1. CASE UNCHANGED vars
  BY <1>1 DEF vars
<1>2. ASSUME NEW s \in Server, Boot(s) PROVE TypeOK'
  <2>1. toListen' \subseteq Server \X Phase \X Leaderships
    BY <1>2, ViewsAreNat DEF Boot, Service
  <2>2. coordinator' \in [Server -> Server \cup {Nobody}]
    <3>1. coordinator' = [coordinator EXCEPT ![s] = InitialLeader] \/ UNCHANGED coordinator
      BY <1>2 DEF Boot
    <3>2. coordinator \in [Server -> Server \cup {Nobody}] /\ InitialLeader \in Server
      BY DialAssumption
    <3> HIDE DEF TypeOK
    <3>3. QED
      BY <3>1, <3>2
  <2>3. dialer' \in [Server -> [Leaderships -> Dialer]]
    <3>1. Starting(s, InitialLeader) \in Dialer
      BY DialAssumption, StartingType
    <3>2. dialer' = [dialer EXCEPT ![s][InitialLeadership] = Starting(s, InitialLeader)] \/ UNCHANGED dialer
      BY <1>2 DEF Boot
    <3>3. dialer \in [Server -> [Leaderships -> Dialer]]
      OBVIOUS
    <3> HIDE DEF TypeOK
    <3>4. QED
      BY <3>1, <3>2, <3>3
  <2>4. QED
    BY <1>2, <2>1, <2>2, <2>3 DEF Boot
<1>3. ASSUME NEW s \in Server, Aside(s) PROVE TypeOK'
  <2>1. /\ view' \in [Server -> View]
        /\ role' \in [Server -> {"LEADER", "NOMINEE", "STARLET", "WORKER"}]
        /\ campaign' \in [Server -> {"none", "computing", "waiting"}]
        /\ anotherLeader' \subseteq Server
        /\ aborting' \in [Server -> {"no", "notify", "demote"}]
    <3>1. CASE StartCampaign(s)
      BY <3>1 DEF StartCampaign
    <3>2. CASE BecomeNominee(s)
      BY <3>2 DEF BecomeNominee
    <3>3. CASE CampaignAborted(s) \/ CampaignEnds(s)
      BY <3>3 DEF CampaignAborted, CampaignEnds
    <3>4. CASE AbortCampaign(s) \/ BackToWorker(s)
      BY <3>4 DEF AbortCampaign, BackToWorker
    <3>5. ASSUME NEW v \in View, AdoptView(s, v)
          PROVE  view' \in [Server -> View] /\ UNCHANGED <<role, campaign, anotherLeader, aborting>>
      BY <3>5 DEF AdoptView
    <3>6. QED
      BY <1>3, <3>1, <3>2, <3>3, <3>4, <3>5 DEF Aside, Campaign
  <2>2. QED
    BY <1>3, <2>1, AsideChanges
<1>4. ASSUME NEW a \in Elections, Win(a) PROVE TypeOK'
  <2>1. /\ view' \in [Server -> View]
        /\ role' \in [Server -> {"LEADER", "NOMINEE", "STARLET", "WORKER"}]
        /\ campaign' \in [Server -> {"none", "computing", "waiting"}]
    BY <1>4, ElectionsTypes DEF Win
  <2>2. announced' \subseteq Elections /\ following' \in [Server -> SUBSET Elections]
    BY <1>4 DEF Win
  <2>3. QED
    BY <1>4, <2>1, <2>2 DEF Win
<1>5. ASSUME NEW s \in Server, NEW a \in Elections, StartLeaderService(s, a) PROVE TypeOK'
  <2>1. following' \in [Server -> SUBSET Elections] /\ nilMaps' \subseteq Server
    BY <1>5 DEF StartLeaderService, TakeInauguration
  <2>2. dialConns' \in [Server -> [Server -> [Phase -> Conn \cup {NoConn}]]]
    BY <1>5 DEF StartLeaderService, NoConns
  <2>3. toListen' \subseteq Server \X Phase \X Leaderships
    BY <1>5, ElectionsTypes DEF StartLeaderService, Service
  <2>4. QED
    BY <1>5, <2>1, <2>2, <2>3 DEF StartLeaderService
<1>6. ASSUME NEW s \in Server, NEW a \in Elections, ChangeLeader(s, a) PROVE TypeOK'
  BY <1>6 DEF ChangeLeader, TakeInauguration
<1>7. ASSUME NEW s \in Server, NEW a \in Elections, FollowLeader(s, a) PROVE TypeOK'
  <2>1. dialer' \in [Server -> [Leaderships -> Dialer]]
    BY <1>7, ElectionsTypes, StartingType DEF FollowLeader
  <2>2. coordinator' \in [Server -> Server \cup {Nobody}] /\ steering' \in [Server -> SUBSET Elections]
    BY <1>7, ElectionsTypes DEF FollowLeader
  <2>3. QED
    BY <1>7, <2>1, <2>2 DEF FollowLeader
<1>8. ASSUME NEW s \in Server, NEW a \in Elections, Disregards(s, a) PROVE TypeOK'
  <2>1. /\ following' = [following EXCEPT ![s] = @ \ {a}]
        /\ aborting' = [aborting EXCEPT ![s] = "notify"] \/ UNCHANGED aborting
        /\ UNCHANGED <<elections, booted, steering, worker, nilMaps, leader, panicked>>
    BY <1>8 DEF Disregards, FindAnotherLeader, IgnoreInauguration, TakeInauguration
  <2>2. aborting' \in [Server -> {"no", "notify", "demote"}] /\ following' \in [Server -> SUBSET Elections]
    BY <2>1
  <2>3. QED
    BY <2>1, <2>2
<1>9. ASSUME NEW s \in Server, NEW a \in Leaderships, StartDialing(s, a) PROVE TypeOK'
  BY <1>9, StartDialingType DEF StartDialing, DialTypeOK
<1>10. ASSUME NEW s \in Server, NEW a \in Leaderships, DialConnects(s, a) PROVE TypeOK'
  <2>1. panicked' \subseteq booted
    BY <1>10 DEF DialConnects, Up
  <2>2. backlog' \subseteq sockets' /\ sockets \subseteq sockets'
    BY <1>10, DialConnectsType
  <2>3. QED
    BY <1>10, <2>1, <2>2, DialConnectsType DEF DialConnects, DialTypeOK
<1>11. ASSUME NEW s \in Server, NEW a \in Leaderships, DialFails(s, a) PROVE TypeOK'
  BY <1>11, DialFailsType DEF DialFails, DialTypeOK
<1>12. ASSUME NEW s \in Server, NEW a \in Leaderships, StartReceiving(s, a) PROVE TypeOK'
  <2> DEFINE l == dialer[s][a].to
  <2>1. dialer[s][a] \in Dialer /\ dialer[s][a].pc = "dialed"
    BY <1>12 DEF StartReceiving
  <2>2. l \in Server
    BY <2>1, DialerShape
  <2>3. [pc |-> "done"] \in Dialer
    BY DEF Dialer
  <2>4. dialer' \in [Server -> [Leaderships -> Dialer]]
    BY <1>12, <2>3 DEF StartReceiving
  <2>5. panicked' \subseteq booted /\ receiving' \subseteq Server \X Server
    BY <1>12, <2>2 DEF StartReceiving, Up
  <2>6. QED
    BY <1>12, <2>4, <2>5 DEF StartReceiving
<1>13. ASSUME NEW l \in Server, NEW p \in Phase, NEW a \in Leaderships, Listen(l, p, a) PROVE TypeOK'
  <2>1. panicked' \subseteq booted /\ toListen' \subseteq Server \X Phase \X Leaderships
    BY <1>13 DEF Listen, Up
  <2>2. 0 \in 0..(Cardinality(Server) - 1)
    BY ServersAreMany
  <2>3. listener' \in [Server -> [Phase -> [open : BOOLEAN, hasInvoked : 0..(Cardinality(Server) - 1)]]]
    <3> DEFINE n == [open |-> TRUE, hasInvoked |-> 0]
               N == [open : BOOLEAN, hasInvoked : 0..(Cardinality(Server) - 1)]
    <3>1. n \in N
      BY <2>2
    <3>2. listener' = [listener EXCEPT ![l][p] = n] \/ UNCHANGED listener
      BY <1>13 DEF Listen
    <3>3. listener \in [Server -> [Phase -> N]]
      OBVIOUS
    <3>4. listener' \in [Server -> [Phase -> N]]
      <4> HIDE DEF n, N, TypeOK
      <4>1. [listener[l] EXCEPT ![p] = n] \in [Phase -> N]
        BY <3>1, <3>3
      <4>2. [listener EXCEPT ![l] = [listener[l] EXCEPT ![p] = n]] \in [Server -> [Phase -> N]]
        BY <3>3, <4>1
      <4>3. QED
        BY <3>2, <3>3, <4>2
    <3>5. QED
      BY <3>4
  <2>4. QED
    BY <1>13, <2>1, <2>3 DEF Listen
<1>14. ASSUME NEW l \in Server, NEW p \in Phase, AcceptFails(l, p) PROVE TypeOK'
  <2>1. acceptErrors' \in 0..MaxAcceptError
    BY <1>14, DialAssumption DEF AcceptFails
  <2>2. listener' \in [Server -> [Phase -> [open : BOOLEAN, hasInvoked : 0..(Cardinality(Server) - 1)]]]
    BY <1>14, InvokedType DEF AcceptFails
  <2>3. QED
    BY <1>14, <2>1, <2>2 DEF AcceptFails
<1>15. ASSUME NEW c \in backlog, Accept(c) PROVE TypeOK'
  <2>1. c \in Conn /\ c.dst \in Server /\ c.phase \in Phase /\ listener[c.dst][c.phase].open
    BY DEF Conn, ListenersOpen
  <2>2. listener' \in [Server -> [Phase -> [open : BOOLEAN, hasInvoked : 0..(Cardinality(Server) - 1)]]]
    BY <1>15, <2>1, InvokedType DEF Accept
  <2>3. /\ backlog' \subseteq sockets /\ connected' = connected \cup {c} /\ accepted' = accepted \cup {c}
        /\ UNCHANGED <<serverConns, sockets>>
    BY <1>15 DEF Accept
  <2>4. serverConns' \in [Server -> [Phase -> [Server -> connected' \cup {NoConn}]]]
    BY <2>3
  <2>5. connected' \subseteq sockets' /\ accepted' \subseteq connected'
    BY <2>3
  <2>6. QED
    BY <1>15, <2>2, <2>3, <2>4, <2>5 DEF Accept
<1>16. ASSUME NEW c \in accepted, Register(c) \/ Reject(c) PROVE TypeOK'
  <2>1. c \in connected /\ c.dst \in Server /\ c.phase \in Phase
    BY DEF Conn
  <2>2. serverConns' \in [Server -> [Phase -> [Server -> connected \cup {NoConn}]]]
    <3>1. CASE Reject(c)
      BY <3>1 DEF Reject
    <3>2. CASE Register(c)
      <4>1. PICK sid \in Server : serverConns' = [serverConns EXCEPT ![c.dst][c.phase][sid] = c]
        BY <3>2 DEF Register, Sender, ServersAt
      <4>2. QED
        BY <2>1, <4>1
    <3>3. QED
      BY <1>16, <3>1, <3>2
  <2>3. QED
    BY <1>16, <2>2 DEF Register, Reject
<1>17. QED
  BY <1>1, <1>2, <1>3, <1>4, <1>5, <1>6, <1>7, <1>8, <1>9, <1>10, <1>11, <1>12, <1>13, <1>14,
     <1>15, <1>16, StepCases

-----------------------------------------------------------------------------
(* What becomes of one dialer.                                              *)
NextPhase(s, d) == Dialing(s, d.to, d.phase + 1)

LEMMA DialerChanges ==
  ASSUME TypeOK, [Next]_vars, NEW s \in Server, NEW a \in Leaderships
  PROVE  \/ dialer'[s][a] = dialer[s][a]
         \/ Boot(s) /\ a = InitialLeadership /\ s # InitialLeader /\ dialer'[s][a] = Starting(s, InitialLeader)
         \/ a \in Elections /\ FollowLeader(s, a) /\ dialer'[s][a] = Starting(s, a.leader)
         \/ StartDialing(s, a) /\ dialer'[s][a] = Dialing(s, coordinator[s], 1)
         \/ DialConnects(s, a) /\ dialer'[s][a] = NextPhase(s, dialer[s][a]) /\ s \notin nilMaps
         \/ DialFails(s, a) /\ s \in gaveUp' /\ dialer'[s][a] = NextPhase(s, dialer[s][a])
         \/ DialFails(s, a) /\ dialer'[s][a] = [dialer[s][a] EXCEPT !.tries = @ + 1]
         \/ StartReceiving(s, a) /\ dialer'[s][a] = [pc |-> "done"]
<1> DEFINE Goal ==
         \/ dialer'[s][a] = dialer[s][a]
         \/ Boot(s) /\ a = InitialLeadership /\ s # InitialLeader /\ dialer'[s][a] = Starting(s, InitialLeader)
         \/ a \in Elections /\ FollowLeader(s, a) /\ dialer'[s][a] = Starting(s, a.leader)
         \/ StartDialing(s, a) /\ dialer'[s][a] = Dialing(s, coordinator[s], 1)
         \/ DialConnects(s, a) /\ dialer'[s][a] = NextPhase(s, dialer[s][a]) /\ s \notin nilMaps
         \/ DialFails(s, a) /\ s \in gaveUp' /\ dialer'[s][a] = NextPhase(s, dialer[s][a])
         \/ DialFails(s, a) /\ dialer'[s][a] = [dialer[s][a] EXCEPT !.tries = @ + 1]
         \/ StartReceiving(s, a) /\ dialer'[s][a] = [pc |-> "done"]
<1> dialer \in [Server -> [Leaderships -> Dialer]] /\ InitialLeadership \in Leaderships
  BY ViewsAreNat DEF TypeOK
<1>1. CASE UNCHANGED dialer
  BY <1>1
<1>2. ASSUME NEW t \in Server, Boot(t) PROVE Goal
  <2>1. CASE t = InitialLeader
    BY <1>1, <1>2, <2>1 DEF Boot
  <2>2. CASE t # InitialLeader
    <3>1. dialer' = [dialer EXCEPT ![t][InitialLeadership] = Starting(t, InitialLeader)]
      BY <1>2, <2>2 DEF Boot
    <3>2. dialer'[s][a] = IF s = t /\ a = InitialLeadership THEN Starting(t, InitialLeader) ELSE dialer[s][a]
      BY <3>1
    <3>3. QED
      BY <1>2, <2>2, <3>2
  <2>3. QED
    BY <2>1, <2>2
<1>3. ASSUME NEW t \in Server, NEW b \in Elections, FollowLeader(t, b) PROVE Goal
  <2>1. dialer' = [dialer EXCEPT ![t][b] = Starting(t, b.leader)] /\ b \in Leaderships
    BY <1>3, LeadershipTypes DEF FollowLeader
  <2>2. dialer'[s][a] = IF s = t /\ a = b THEN Starting(t, b.leader) ELSE dialer[s][a]
    BY <2>1
  <2>3. QED
    BY <1>3, <2>2
<1>4. ASSUME NEW t \in Server, NEW b \in Leaderships, StartDialing(t, b) PROVE Goal
  <2>1. dialer' = [dialer EXCEPT ![t][b] = Dialing(t, coordinator[t], 1)]
    BY <1>4 DEF StartDialing
  <2>2. dialer'[s][a] = IF s = t /\ a = b THEN Dialing(t, coordinator[t], 1) ELSE dialer[s][a]
    BY <2>1
  <2>3. QED
    BY <1>4, <2>2
<1>5. ASSUME NEW t \in Server, NEW b \in Leaderships, DialConnects(t, b) PROVE Goal
  <2>1. CASE t \in nilMaps
    BY <1>1, <1>5, <2>1 DEF DialConnects
  <2>2. CASE t \notin nilMaps
    <3>1. dialer' = [dialer EXCEPT ![t][b] = NextPhase(t, dialer[t][b])]
      BY <1>5, <2>2 DEF DialConnects, NextPhase
    <3>2. dialer'[s][a] = IF s = t /\ a = b THEN NextPhase(t, dialer[t][b]) ELSE dialer[s][a]
      BY <3>1
    <3>3. QED
      BY <1>5, <2>2, <3>2
  <2>3. QED
    BY <2>1, <2>2
<1>6. ASSUME NEW t \in Server, NEW b \in Leaderships, DialFails(t, b) PROVE Goal
  <2>1. CASE dialer[t][b].tries + 1 = MaxTry
    <3>1. dialer' = [dialer EXCEPT ![t][b] = NextPhase(t, dialer[t][b])] /\ t \in gaveUp'
      BY <1>6, <2>1 DEF DialFails, NextPhase
    <3>2. dialer'[s][a] = IF s = t /\ a = b THEN NextPhase(t, dialer[t][b]) ELSE dialer[s][a]
      BY <3>1
    <3>3. QED
      BY <1>6, <3>1, <3>2
  <2>2. CASE dialer[t][b].tries + 1 # MaxTry
    <3>1. dialer' = [dialer EXCEPT ![t][b] = [dialer[t][b] EXCEPT !.tries = @ + 1]]
      BY <1>6, <2>2 DEF DialFails
    <3>2. dialer'[s][a] = IF s = t /\ a = b THEN [dialer[t][b] EXCEPT !.tries = @ + 1] ELSE dialer[s][a]
      BY <3>1
    <3>3. QED
      BY <1>6, <3>2
  <2>3. QED
    BY <2>1, <2>2
<1>7. ASSUME NEW t \in Server, NEW b \in Leaderships, StartReceiving(t, b) PROVE Goal
  <2>1. dialer' = [dialer EXCEPT ![t][b] = [pc |-> "done"]]
    BY <1>7 DEF StartReceiving
  <2>2. dialer'[s][a] = IF s = t /\ a = b THEN [pc |-> "done"] ELSE dialer[s][a]
    BY <2>1
  <2>3. QED
    BY <1>7, <2>2
<1>8. \/ UNCHANGED dialer
      \/ \E t \in Server : Boot(t)
      \/ \E t \in Server, b \in Elections : FollowLeader(t, b)
      \/ \E t \in Server, b \in Leaderships :
           StartDialing(t, b) \/ DialConnects(t, b) \/ DialFails(t, b) \/ StartReceiving(t, b)
  BY StepCases, AsideChanges DEF vars, worker, elections, Win, StartLeaderService, ChangeLeader, Disregards, FindAnotherLeader, IgnoreInauguration,
     Listen, AcceptFails, Accept, Register, Reject
<1>9. QED
  BY <1>1, <1>2, <1>3, <1>4, <1>5, <1>6, <1>7, <1>8

(* Who has a coordinator keeps one, and who starts to dial has one.         *)
LEMMA CoordinatorStep ==
  ASSUME TypeOK, [Next]_vars, NEW s \in Server
  PROVE  /\ coordinator[s] \in Server => coordinator'[s] \in Server
         /\ Boot(s) /\ s # InitialLeader => coordinator'[s] = InitialLeader
         /\ \A a \in Elections : FollowLeader(s, a) => coordinator'[s] \in Server
<1>1. coordinator \in [Server -> Server \cup {Nobody}] /\ InitialLeader \in Server
  BY DialAssumption DEF TypeOK
<1>2. ASSUME NEW t \in Server, Boot(t)
      PROVE  coordinator' = IF t = InitialLeader THEN coordinator ELSE [coordinator EXCEPT ![t] = InitialLeader]
  BY <1>2 DEF Boot
<1>3. ASSUME NEW t \in Server, NEW a \in Elections, FollowLeader(t, a)
      PROVE  coordinator' = [coordinator EXCEPT ![t] = a.leader] /\ a.leader \in Server
  BY <1>3, LeadershipTypes DEF FollowLeader
<1>4. \/ UNCHANGED coordinator
      \/ \E t \in Server : Boot(t)
      \/ \E t \in Server, b \in Elections : FollowLeader(t, b)
  <2>1. ASSUME NEW t \in Server, NEW a \in Leaderships,
               StartDialing(t, a) \/ DialConnects(t, a) \/ DialFails(t, a) \/ StartReceiving(t, a)
        PROVE  UNCHANGED coordinator
    BY <2>1 DEF StartDialing, DialConnects, DialFails, StartReceiving
  <2>2. ASSUME NEW t \in Server, NEW a \in Elections,
               StartLeaderService(t, a) \/ ChangeLeader(t, a) \/ Disregards(t, a)
        PROVE  UNCHANGED coordinator
    BY <2>2 DEF StartLeaderService, ChangeLeader, Disregards, FindAnotherLeader, IgnoreInauguration, worker
  <2>3. QED
    BY <2>1, <2>2, StepCases, AsideChanges DEF vars, worker, Win, Listen, AcceptFails, Accept, Register, Reject
<1>5. coordinator[s] \in Server => coordinator'[s] \in Server
  BY <1>1, <1>2, <1>3, <1>4
<1>6. Boot(s) /\ s # InitialLeader => coordinator'[s] = InitialLeader
  BY <1>1, <1>2
<1>7. \A a \in Elections : FollowLeader(s, a) => coordinator'[s] \in Server
  BY <1>1, <1>3
<1>8. QED
  BY <1>5, <1>6, <1>7

(* Which steps change the listeners and what waits at them.                 *)
LEMMA ListenerChanges ==
  ASSUME [Next]_vars
  PROVE  \/ UNCHANGED <<listener, backlog, connected, acceptErrors>>
         \/ \E s \in Server, a \in Leaderships : DialConnects(s, a)
         \/ \E l \in Server, p \in Phase, a \in Leaderships : Listen(l, p, a)
         \/ \E l \in Server, p \in Phase : AcceptFails(l, p)
         \/ \E c \in backlog : Accept(c)
BY StepCases, AsideChanges DEF vars, leader, elections, Boot, Win, StartLeaderService, ChangeLeader, FollowLeader,
   Disregards, FindAnotherLeader, IgnoreInauguration, StartDialing, DialFails, StartReceiving, Register, Reject

LEMMA ListenerEntry ==
  ASSUME TypeOK, NEW l \in Server, NEW p \in Phase, NEW a \in Leaderships, Listen(l, p, a)
  PROVE  \/ UNCHANGED listener /\ listener[l][p].open
         \/ /\ ~listener[l][p].open /\ listener'[l][p] = [open |-> TRUE, hasInvoked |-> 0]
            /\ \A k \in Server, q \in Phase : <<k, q>> # <<l, p>> => listener'[k][q] = listener[k][q]
<1> DEFINE n == [open |-> TRUE, hasInvoked |-> 0]
           N == [open : BOOLEAN, hasInvoked : 0..(Cardinality(Server) - 1)]
<1>1. listener \in [Server -> [Phase -> N]]
  BY DEF TypeOK
<1>2. \/ UNCHANGED listener /\ listener[l][p].open
      \/ ~listener[l][p].open /\ listener' = [listener EXCEPT ![l][p] = n]
  BY DEF Listen
<1> HIDE DEF n, N
<1>3. ASSUME listener' = [listener EXCEPT ![l][p] = n]
      PROVE  listener'[l][p] = n
             /\ \A k \in Server, q \in Phase : <<k, q>> # <<l, p>> => listener'[k][q] = listener[k][q]
  BY <1>1, <1>3
<1>4. QED
  BY <1>2, <1>3 DEF n

LEMMA ListenersStep == ASSUME TypeOK, ListenersOpen, [Next]_vars PROVE ListenersOpen'
<1>1. \A s \in Server, a \in Leaderships : dialer'[s][a].pc = "starting" => coordinator'[s] \in Server
  <2> SUFFICES ASSUME NEW s \in Server, NEW a \in Leaderships, dialer'[s][a].pc = "starting"
               PROVE  coordinator'[s] \in Server
    OBVIOUS
  <2>1. CASE dialer'[s][a] = dialer[s][a]
    BY <2>1, CoordinatorStep DEF ListenersOpen
  <2>2. CASE Boot(s) /\ s # InitialLeader
    BY <2>2, CoordinatorStep, DialAssumption
  <2>3. CASE a \in Elections /\ FollowLeader(s, a)
    BY <2>3, CoordinatorStep
  <2>4. CASE StartDialing(s, a) /\ dialer'[s][a] = Dialing(s, coordinator[s], 1)
    <3>1. coordinator[s] \in Server
      BY <2>4 DEF StartDialing, ListenersOpen
    <3>2. QED
      BY <2>4, <3>1, DialingShape
  <2>5. CASE dialer'[s][a] = NextPhase(s, dialer[s][a]) /\ (DialConnects(s, a) \/ DialFails(s, a))
    <3>1. dialer[s][a] \in Dialer /\ dialer[s][a].pc = "dialing"
      BY <2>5 DEF DialConnects, DialFails, TypeOK
    <3>2. dialer[s][a].to \in Server /\ dialer[s][a].phase + 1 \in Nat \ {0}
      BY <3>1, DialerShape, PhasesAreNat
    <3>3. Dialing(s, dialer[s][a].to, dialer[s][a].phase + 1).pc # "starting"
      BY <3>2, DialingShape
    <3>4. QED
      BY <2>5, <3>3 DEF NextPhase
  <2>6. CASE DialFails(s, a) /\ dialer'[s][a] = [dialer[s][a] EXCEPT !.tries = @ + 1]
    <3>1. dialer[s][a].pc = "dialing" /\ dialer[s][a] \in Dialer
      BY <2>6 DEF DialFails, TypeOK
    <3>2. [dialer[s][a] EXCEPT !.tries = @ + 1].pc = "dialing"
      BY <3>1, DialerShape
    <3>3. QED
      BY <2>6, <3>2
  <2>7. CASE dialer'[s][a] = [pc |-> "done"]
    BY <2>7
  <2>8. QED
    BY <2>1, <2>2, <2>3, <2>4, <2>5, <2>6, <2>7, DialerChanges
<1>2. /\ \A c \in backlog' : listener'[c.dst][c.phase].open
      /\ \A l \in Server, p \in Phase :
            LET n == listener'[l][p]
            IN IF n.open THEN ~AllInvoked(n.hasInvoked) ELSE n.hasInvoked = 0 \/ AllInvoked(n.hasInvoked)
  <2>0. \A c \in backlog : c.dst \in Server /\ c.phase \in Phase
    BY DEF TypeOK, Conn
  <2>1. CASE UNCHANGED <<listener, backlog, connected, acceptErrors>>
    BY <2>1 DEF ListenersOpen
  <2>2. ASSUME NEW s \in Server, NEW a \in Leaderships, DialConnects(s, a) PROVE <1>2!1 /\ <1>2!2
    <3> DEFINE d == dialer[s][a]
    <3>1. UNCHANGED listener /\ listener[d.to][d.phase].open
          /\ backlog' = backlog \cup {[src |-> s, dst |-> d.to, phase |-> d.phase, port |-> d.port]}
      BY <2>2 DEF DialConnects, Reaches
    <3>2. QED
      BY <3>1 DEF ListenersOpen
  <2>3. ASSUME NEW l \in Server, NEW p \in Phase, NEW a \in Leaderships, Listen(l, p, a)
        PROVE  <1>2!1 /\ <1>2!2
    <3>1. UNCHANGED backlog
      BY <2>3 DEF Listen
    <3>2. QED
      BY <2>0, <2>3, <3>1, ListenerEntry, ServersAreMany DEF ListenersOpen
  <2>4. ASSUME NEW l \in Server, NEW p \in Phase, Invoked(l, p), listener[l][p].open,
               backlog' \subseteq backlog \ ResetOnClose(l, p)
        PROVE  <1>2!1 /\ <1>2!2
    <3>1. /\ listener'[l][p].hasInvoked = listener[l][p].hasInvoked + 1
          /\ listener'[l][p].open = ~AllInvoked(listener[l][p].hasInvoked + 1)
          /\ \A k \in Server, q \in Phase : <<k, q>> # <<l, p>> => listener'[k][q] = listener[k][q]
      BY <2>4, InvokedType
    <3>2. ASSUME NEW c \in backlog' PROVE listener'[c.dst][c.phase].open
      <4>1. c \in backlog /\ c \notin ResetOnClose(l, p)
        BY <2>4
      <4>2. CASE c.dst = l /\ c.phase = p
        BY <4>1, <4>2 DEF ResetOnClose, Waiting
      <4>3. CASE ~(c.dst = l /\ c.phase = p)
        BY <2>0, <3>1, <4>1, <4>3 DEF ListenersOpen
      <4>4. QED
        BY <4>2, <4>3
    <3>3. ASSUME NEW k \in Server, NEW q \in Phase
          PROVE  LET n == listener'[k][q]
                 IN IF n.open THEN ~AllInvoked(n.hasInvoked) ELSE n.hasInvoked = 0 \/ AllInvoked(n.hasInvoked)
      <4>1. CASE <<k, q>> = <<l, p>>
        BY <3>1, <4>1
      <4>2. CASE <<k, q>> # <<l, p>>
        BY <3>1, <4>2 DEF ListenersOpen
      <4>3. QED
        BY <4>1, <4>2
    <3>4. QED
      BY <3>2, <3>3
  <2>5. CASE \E l \in Server, p \in Phase : AcceptFails(l, p)
    BY <2>4, <2>5 DEF AcceptFails
  <2>6. ASSUME NEW c \in backlog, Accept(c) PROVE <1>2!1 /\ <1>2!2
    <3>1. Invoked(c.dst, c.phase) /\ backlog' \subseteq backlog \ ResetOnClose(c.dst, c.phase)
      BY <2>6 DEF Accept
    <3>2. listener[c.dst][c.phase].open
      BY DEF ListenersOpen
    <3>3. QED
      BY <2>0, <2>4, <3>1, <3>2
  <2>7. QED
    BY <2>1, <2>2, <2>3, <2>5, <2>6, ListenerChanges
<1>3. QED
  BY <1>1, <1>2 DEF ListenersOpen

-----------------------------------------------------------------------------
(* Connections are dialed from ports of views, and stay.                    *)
LEMMA SocketChanges ==
  ASSUME [Next]_vars
  PROVE  UNCHANGED <<sockets, dialConns>>
         \/ (UNCHANGED sockets /\ \E s \in Server, a \in Elections : StartLeaderService(s, a))
         \/ \E s \in Server, a \in Leaderships : DialConnects(s, a)
<1>1. ASSUME NEW t \in Server, NEW a \in Leaderships,
             StartDialing(t, a) \/ DialFails(t, a) \/ StartReceiving(t, a)
      PROVE  UNCHANGED <<sockets, dialConns>>
  BY <1>1 DEF StartDialing, DialFails, StartReceiving
<1>2. ASSUME NEW t \in Server, NEW a \in Elections,
             ChangeLeader(t, a) \/ FollowLeader(t, a) \/ Disregards(t, a)
      PROVE  UNCHANGED <<sockets, dialConns>>
  BY <1>2 DEF ChangeLeader, FollowLeader, Disregards, FindAnotherLeader, IgnoreInauguration, worker
<1>3. ASSUME NEW t \in Server, NEW a \in Elections, StartLeaderService(t, a) PROVE UNCHANGED sockets
  BY <1>3 DEF StartLeaderService
<1>4. QED
  BY <1>1, <1>2, <1>3, StepCases, AsideChanges DEF vars, worker, Boot, Win, Listen, AcceptFails, Accept, Register, Reject

LEMMA PortsStep == ASSUME TypeOK, ListenersOpen, PortsOfViews, [Next]_vars PROVE PortsOfViews'
<1>1. ASSUME NEW s \in Server, NEW a \in Leaderships, dialer'[s][a].pc = "dialing"
      PROVE  PortOfAView(s, dialer'[s][a].phase, dialer'[s][a].port)
  <2> DEFINE d == dialer[s][a]
  <2>1. CASE dialer'[s][a] = d
    BY <1>1, <2>1 DEF PortsOfViews
  <2>2. ASSUME NEW l, dialer'[s][a] = Starting(s, l) PROVE FALSE
    BY <1>1, <2>2 DEF Starting, NoDialer
  <2>3. ASSUME NEW l \in Server, NEW p \in Nat \ {0}, dialer'[s][a] = Dialing(s, l, p)
        PROVE  PortOfAView(s, dialer'[s][a].phase, dialer'[s][a].port)
    <3>1. /\ Dialing(s, l, p).phase = p
          /\ Dialing(s, l, p).port = DialPort[s][p] + view[s]
      BY <1>1, <2>3, DialingShape
    <3>2. view[s] \in View
      BY DEF TypeOK
    <3>3. QED
      BY <2>3, <3>1, <3>2 DEF PortOfAView
  <2>4. CASE StartDialing(s, a) /\ dialer'[s][a] = Dialing(s, coordinator[s], 1)
    <3>1. coordinator[s] \in Server
      BY <2>4 DEF StartDialing, ListenersOpen
    <3>2. QED
      BY <2>3, <2>4, <3>1
  <2>5. CASE dialer'[s][a] = NextPhase(s, d) /\ (DialConnects(s, a) \/ DialFails(s, a))
    <3>1. d \in Dialer /\ d.pc = "dialing"
      BY <2>5 DEF DialConnects, DialFails, TypeOK
    <3>2. d.to \in Server /\ d.phase + 1 \in Nat \ {0}
      BY <3>1, DialerShape, PhasesAreNat
    <3>3. QED
      BY <2>3, <2>5, <3>2 DEF NextPhase
  <2>6. CASE DialFails(s, a) /\ dialer'[s][a] = [d EXCEPT !.tries = @ + 1]
    <3>1. d.pc = "dialing" /\ d \in Dialer
      BY <2>6 DEF DialFails, TypeOK
    <3>2. [d EXCEPT !.tries = @ + 1].phase = d.phase /\ [d EXCEPT !.tries = @ + 1].port = d.port
      BY <3>1, DialerShape
    <3>3. PortOfAView(s, d.phase, d.port)
      BY <3>1 DEF PortsOfViews
    <3>4. QED
      BY <2>6, <3>2, <3>3
  <2>7. CASE dialer'[s][a] = [pc |-> "done"]
    BY <1>1, <2>7
  <2>8. QED
    BY <2>1, <2>2, <2>4, <2>5, <2>6, <2>7, DialerChanges
<1>2. ASSUME NEW c \in sockets' PROVE PortOfAView(c.src, c.phase, c.port)
  <2>1. CASE UNCHANGED sockets
    BY <1>2, <2>1 DEF PortsOfViews
  <2>2. ASSUME NEW s \in Server, NEW a \in Leaderships, DialConnects(s, a)
        PROVE  PortOfAView(c.src, c.phase, c.port)
    <3> DEFINE d == dialer[s][a]
    <3>1. sockets' = sockets \cup {[src |-> s, dst |-> d.to, phase |-> d.phase, port |-> d.port]}
          /\ d.pc = "dialing"
      BY <2>2 DEF DialConnects
    <3>2. PortOfAView(s, d.phase, d.port)
      BY <3>1 DEF PortsOfViews
    <3>3. QED
      BY <3>1, <3>2 DEF PortsOfViews
  <2>3. QED
    BY <2>1, <2>2, SocketChanges
<1>3. QED
  BY <1>1, <1>2 DEF PortsOfViews, PortOfAView

-----------------------------------------------------------------------------
(* Dials given up and dropped maps are remembered.                          *)
LEMMA MarksGrow ==
  ASSUME [Next]_vars
  PROVE  gaveUp \subseteq gaveUp' /\ nilMaps \subseteq nilMaps' /\ announced \subseteq announced'
         /\ booted \subseteq booted'
<1>1. ASSUME NEW t \in Server, NEW a \in Leaderships,
             StartDialing(t, a) \/ DialConnects(t, a) \/ DialFails(t, a) \/ StartReceiving(t, a)
      PROVE  gaveUp \subseteq gaveUp' /\ UNCHANGED <<nilMaps, announced, booted>>
  BY <1>1 DEF StartDialing, DialConnects, DialFails, StartReceiving, elections
<1>2. ASSUME NEW t \in Server, NEW a \in Elections,
             StartLeaderService(t, a) \/ ChangeLeader(t, a) \/ FollowLeader(t, a) \/ Disregards(t, a)
      PROVE  UNCHANGED <<gaveUp, announced, booted>> /\ nilMaps \subseteq nilMaps'
  BY <1>2 DEF StartLeaderService, ChangeLeader, FollowLeader, Disregards, FindAnotherLeader, IgnoreInauguration, worker, elections
<1>3. ASSUME NEW t \in Server, Boot(t)
      PROVE  UNCHANGED <<gaveUp, nilMaps, announced>> /\ booted \subseteq booted'
  BY <1>3 DEF Boot, elections
<1>4. QED
  BY <1>1, <1>2, <1>3, StepCases, AsideChanges
     DEF vars, worker, elections, Win, Listen, AcceptFails, Accept, Register, Reject

(* Who keeps its maps loses no connection from them. *)
LEMMA DialConnsStay ==
  ASSUME TypeOK, [Next]_vars, NEW s \in Server, s \notin nilMaps', NEW l \in Server, NEW p \in Phase,
         dialConns[s][l][p] # NoConn
  PROVE  dialConns'[s][l][p] # NoConn
<1>1. CASE UNCHANGED dialConns
  BY <1>1
<1>2. ASSUME NEW t \in Server, NEW a \in Elections, StartLeaderService(t, a)
      PROVE  dialConns'[s][l][p] # NoConn
  <2>1. s # t
    BY <1>2 DEF StartLeaderService
  <2>2. QED
    BY <1>2, <2>1 DEF StartLeaderService, TypeOK
<1>3. ASSUME NEW t \in Server, NEW a \in Leaderships, DialConnects(t, a)
      PROVE  dialConns'[s][l][p] # NoConn
  <2> DEFINE d == dialer[t][a]
             c == [src |-> t, dst |-> d.to, phase |-> d.phase, port |-> d.port]
  <2>1. d \in Dialer /\ d.pc = "dialing"
    BY <1>3 DEF DialConnects, TypeOK
  <2>2. d.to \in Server /\ d.phase \in Phase /\ d.port \in Nat
    BY <2>1, DialerShape
  <2>3. c \in Conn
    BY <2>2 DEF Conn
  <2>4. c # NoConn
    BY <2>3, ConnIsOne
  <2>5. dialConns' = [dialConns EXCEPT ![t][d.to][d.phase] = c] \/ UNCHANGED dialConns
    BY <1>3 DEF DialConnects
  <2>6. dialConns \in [Server -> [Server -> [Phase -> Conn \cup {NoConn}]]]
    BY DEF TypeOK
  <2> HIDE DEF c, d
  <2>7. CASE dialConns' = [dialConns EXCEPT ![t][d.to][d.phase] = c]
    <3>1. dialConns'[s][l][p] = IF s = t /\ l = d.to /\ p = d.phase THEN c ELSE dialConns[s][l][p]
      BY <2>2, <2>6, <2>7
    <3>2. QED
      BY <2>4, <3>1
  <2>8. QED
    BY <2>5, <2>7
<1>4. QED
  BY <1>1, <1>2, <1>3, SocketChanges

LEMMA DialedPhasesStep == ASSUME TypeOK, ListenersOpen, DialedPhases, [Next]_vars PROVE DialedPhases'
<1> SUFFICES ASSUME NEW s \in Server, s \notin gaveUp', s \notin nilMaps', NEW a \in Leaderships, NEW p \in Phase,
                    \/ dialer'[s][a].pc = "dialed"
                    \/ dialer'[s][a].pc = "dialing" /\ p < dialer'[s][a].phase
             PROVE  dialConns'[s][dialer'[s][a].to][p] # NoConn
  BY DEF DialedPhases
<1> DEFINE d == dialer[s][a]
<1>1. s \notin gaveUp /\ s \notin nilMaps
  BY MarksGrow
<1>2. d \in Dialer
  BY DEF TypeOK
<1>3. ASSUME d.pc = "dialed" \/ (d.pc = "dialing" /\ p < d.phase)
      PROVE  dialConns'[s][d.to][p] # NoConn
  <2>1. d.to \in Server
    BY <1>2, <1>3, DialerShape
  <2>2. dialConns[s][d.to][p] # NoConn
    BY <1>1, <1>3 DEF DialedPhases
  <2> HIDE DEF d
  <2>3. QED
    BY <2>1, <2>2, DialConnsStay
<1>4. CASE dialer'[s][a] = d
  BY <1>3, <1>4
<1>5. ASSUME NEW l, dialer'[s][a] = Starting(s, l) PROVE FALSE
  BY <1>5 DEF Starting, NoDialer
<1>6. CASE StartDialing(s, a) /\ dialer'[s][a] = Dialing(s, coordinator[s], 1)
  <2>1. coordinator[s] \in Server
    BY <1>6 DEF StartDialing, ListenersOpen
  <2>2. dialer'[s][a].pc = "dialing" /\ dialer'[s][a].phase = 1
    BY <1>6, <2>1, PhaseOne, DialingShape
  <2>3. QED
    BY <2>2 DEF Phase
<1>7. CASE DialConnects(s, a) /\ dialer'[s][a] = NextPhase(s, d) /\ s \notin nilMaps
  <2> DEFINE c == [src |-> s, dst |-> d.to, phase |-> d.phase, port |-> d.port]
  <2>1. d.pc = "dialing" /\ dialConns' = [dialConns EXCEPT ![s][d.to][d.phase] = c]
    BY <1>7 DEF DialConnects
  <2>2. d.to \in Server /\ d.phase \in Phase /\ d.port \in Nat
    BY <1>2, <2>1, DialerShape
  <2>3. d.phase \in Nat \ {0} /\ d.phase + 1 \in Nat \ {0}
    BY <2>2, PhasesAreNat
  <2>4. /\ dialer'[s][a].to = d.to
        /\ \/ PastLastPhase(d.phase + 1)
           \/ dialer'[s][a].pc = "dialing" /\ dialer'[s][a].phase = d.phase + 1
    BY <1>7, <2>2, <2>3, DialingShape DEF NextPhase
  <2>5. p <= d.phase
    <3>1. p \in Nat /\ p <= LastPhase /\ LastPhase \in Nat
      BY DialAssumption DEF Phase
    <3>2. CASE PastLastPhase(d.phase + 1)
      BY <2>3, <3>1, <3>2 DEF PastLastPhase
    <3>3. CASE dialer'[s][a].pc = "dialing" /\ dialer'[s][a].phase = d.phase + 1
      BY <2>3, <3>1, <3>3
    <3>4. QED
      BY <2>4, <3>2, <3>3
  <2>6. c # NoConn
    <3>1. c \in Conn
      BY <2>2 DEF Conn
    <3>2. QED
      BY <3>1, ConnIsOne
  <2>7. CASE p = d.phase
    <3>1. dialConns \in [Server -> [Server -> [Phase -> Conn \cup {NoConn}]]]
      BY DEF TypeOK
    <3>2. dialConns'[s][d.to][p] = c
      <4> HIDE DEF c, d
      <4> QED
        BY <2>1, <2>2, <2>7, <3>1
    <3>3. QED
      BY <2>4, <2>6, <3>2
  <2>8. CASE p < d.phase
    BY <1>3, <2>1, <2>4, <2>8
  <2>9. QED
    BY <2>3, <2>5, <2>7, <2>8 DEF Phase
<1>8. CASE DialFails(s, a) /\ dialer'[s][a] = [d EXCEPT !.tries = @ + 1]
  <2>1. d.pc = "dialing"
    BY <1>8 DEF DialFails
  <2>2. dialer'[s][a].pc = "dialing" /\ dialer'[s][a].phase = d.phase /\ dialer'[s][a].to = d.to
    BY <1>2, <1>8, <2>1, DialerShape
  <2>3. QED
    BY <1>3, <2>1, <2>2
<1>9. CASE dialer'[s][a] = [pc |-> "done"]
  BY <1>9
<1>10. QED
  BY <1>4, <1>5, <1>6, <1>7, <1>8, <1>9, DialerChanges

-----------------------------------------------------------------------------
(* The leaderships of a server.                                             *)
LEMMA LeadsAreFinite ==
  ASSUME TypeOK, NEW s \in Server
  PROVE  IsFiniteSet(Leads(s)) /\ Cardinality(Leads(s)) \in Nat /\ Leads(s) \subseteq Leaderships
<1>1. IsFiniteSet(Elections \cup {InitialLeadership})
  <2>1. IsFiniteSet(Elections) /\ IsFiniteSet({InitialLeadership})
    BY DialAssumption, FS_Singleton
  <2>2. QED
    BY <2>1, FS_Union
<1>2. Leads(s) \subseteq Elections \cup {InitialLeadership}
  BY DEF Leads, TypeOK
<1>3. IsFiniteSet(Leads(s))
  BY <1>1, <1>2, FS_Subset
<1>4. QED
  BY <1>2, <1>3, FS_CardinalityType DEF Leaderships

LEMMA TwoLeads ==
  ASSUME TypeOK, NEW s \in Server, NEW a \in Leads(s), NEW b \in Leads(s), a # b
  PROVE  Cardinality(Leads(s)) > 1
<1>1. Cardinality({a, b}) = 2
  <2>1. IsFiniteSet({a}) /\ Cardinality({a}) = 1
    BY FS_Singleton
  <2>2. Cardinality({a} \cup {b}) = Cardinality({a}) + 1
    BY <2>1, FS_AddElement
  <2>3. {a} \cup {b} = {a, b}
    OBVIOUS
  <2>4. QED
    BY <2>1, <2>2, <2>3
<1>2. Cardinality({a, b}) <= Cardinality(Leads(s))
  <2>1. {a, b} \subseteq Leads(s)
    OBVIOUS
  <2>2. QED
    BY <2>1, LeadsAreFinite, FS_Subset
<1>3. QED
  BY <1>1, <1>2, LeadsAreFinite

LEMMA LeadsGrow ==
  ASSUME TypeOK, TypeOK', [Next]_vars, NEW s \in Server
  PROVE  Leads(s) \subseteq Leads(s)' /\ (Cardinality(Leads(s)) > 1 => Cardinality(Leads(s)') > 1)
<1>1. Leads(s) \subseteq Leads(s)'
  BY MarksGrow DEF Leads
<1>2. Leads(s)' \subseteq Elections \cup {InitialLeadership}
  BY DEF Leads, TypeOK
<1>3. IsFiniteSet(Elections \cup {InitialLeadership})
  <2>1. IsFiniteSet(Elections) /\ IsFiniteSet({InitialLeadership})
    BY DialAssumption, FS_Singleton
  <2>2. QED
    BY <2>1, FS_Union
<1>4. IsFiniteSet(Leads(s)')
  BY <1>2, <1>3, FS_Subset
<1>5. Cardinality(Leads(s)) <= Cardinality(Leads(s)') /\ Cardinality(Leads(s)') \in Nat
  BY <1>1, <1>4, FS_Subset, FS_CardinalityType
<1>6. Cardinality(Leads(s)) \in Nat
  BY LeadsAreFinite
<1>7. QED
  BY <1>1, <1>5, <1>6

(* Which steps change what is to be followed and to listen.                 *)
LEMMA ServiceChanges ==
  ASSUME [Next]_vars
  PROVE  \/ UNCHANGED <<following, announced, toListen, listener, booted>>
         \/ \E s \in Server : Boot(s)
         \/ \E a \in Elections : Win(a)
         \/ UNCHANGED <<announced, toListen, listener, booted>>
            /\ \E s \in Server, a \in Elections : TakeInauguration(s, a)
         \/ \E s \in Server, a \in Elections : StartLeaderService(s, a)
         \/ UNCHANGED <<following, announced, booted>>
            /\ \E l \in Server, p \in Phase, a \in Leaderships : Listen(l, p, a)
         \/ UNCHANGED <<following, announced, toListen, booted>>
            /\ \E l \in Server, p \in Phase : AcceptFails(l, p)
         \/ UNCHANGED <<following, announced, toListen, booted>> /\ \E c \in backlog : Accept(c)
<1>1. ASSUME NEW t \in Server, NEW a \in Leaderships,
             StartDialing(t, a) \/ DialConnects(t, a) \/ DialFails(t, a) \/ StartReceiving(t, a)
      PROVE  UNCHANGED <<following, announced, toListen, listener, booted>>
  BY <1>1, Zenon DEF StartDialing, DialConnects, DialFails, StartReceiving, elections, loop, leader
<1>2. ASSUME NEW t \in Server, NEW a \in Elections, ChangeLeader(t, a) \/ Disregards(t, a)
      PROVE  UNCHANGED <<announced, toListen, listener, booted>> /\ TakeInauguration(t, a)
  BY <1>2 DEF ChangeLeader, Disregards, FindAnotherLeader, IgnoreInauguration, elections, leader
<1>3. ASSUME NEW t \in Server, NEW a \in Elections, FollowLeader(t, a)
      PROVE  UNCHANGED <<following, announced, toListen, listener, booted>>
  BY <1>3 DEF FollowLeader, elections, leader
<1>4. ASSUME NEW t \in Server, Aside(t)
      PROVE  UNCHANGED <<following, announced, toListen, listener, booted>>
  BY <1>4, AsideChanges DEF leader
<1>5. ASSUME NEW c \in accepted, Register(c) \/ Reject(c)
      PROVE  UNCHANGED <<following, announced, toListen, listener, booted>>
  BY <1>5 DEF Register, Reject, elections, loop
<1>6. ASSUME NEW l \in Server, NEW p \in Phase, NEW a \in Leaderships, Listen(l, p, a)
      PROVE  UNCHANGED <<following, announced, booted>>
  BY <1>6 DEF Listen, elections, loop
<1>7. ASSUME NEW l \in Server, NEW p \in Phase, AcceptFails(l, p)
      PROVE  UNCHANGED <<following, announced, toListen, booted>>
  BY <1>7 DEF AcceptFails, elections, loop
<1>8. ASSUME NEW c \in backlog, Accept(c) PROVE UNCHANGED <<following, announced, toListen, booted>>
  BY <1>8 DEF Accept, elections, loop
<1>9. UNCHANGED vars => UNCHANGED <<following, announced, toListen, listener, booted>>
  BY DEF vars, elections, loop, leader
<1>10. QED
  BY <1>1, <1>2, <1>3, <1>4, <1>5, <1>6, <1>7, <1>8, <1>9, StepCases

LEMMA BegunStays ==
  ASSUME TypeOK, ListensPerLeadership, [Next]_vars, NEW s \in Server, NEW a, Begun(s, a)
  PROVE  Begun(s, a)'
<1>1. a \in Leads(s)' /\ (a = InitialLeadership => s \in booted')
  BY MarksGrow DEF Begun, Leads
<1>2. ASSUME NEW b \in Elections, Win(b) PROVE a \notin following'[s]
  <2>1. following'[s] = following[s] \cup {b} /\ b \notin announced
    BY <1>2 DEF Win
  <2>2. a # b
    BY <2>1, LeadershipTypes DEF Begun, Leads
  <2>3. QED
    BY <2>1, <2>2 DEF Begun
<1>3. ASSUME NEW t \in Server, NEW b \in Elections, TakeInauguration(t, b) PROVE a \notin following'[s]
  BY <1>3 DEF TakeInauguration, Begun, TypeOK
<1>4. ASSUME UNCHANGED following PROVE a \notin following'[s]
  BY <1>4 DEF Begun
<1>5. ASSUME NEW t \in Server, Boot(t) PROVE UNCHANGED following
  BY <1>5 DEF Boot, loop
<1>6. a \notin following'[s]
  BY <1>2, <1>3, <1>4, <1>5, ServiceChanges DEF StartLeaderService
<1>7. QED
  BY <1>1, <1>6 DEF Begun

LEMMA ListensStep == ASSUME TypeOK, ListenersOpen, ListensPerLeadership, [Next]_vars PROVE ListensPerLeadership'
<1>1. ASSUME NEW s \in Server PROVE following'[s] \subseteq announced'
  <2>1. following[s] \subseteq announced
    BY DEF ListensPerLeadership
  <2>2. ASSUME NEW a \in Elections, Win(a) PROVE following'[s] \subseteq announced'
    BY <2>1, <2>2 DEF Win
  <2>3. ASSUME NEW t \in Server, NEW a \in Elections, TakeInauguration(t, a)
        PROVE  following'[s] \subseteq following[s]
    BY <2>3 DEF TakeInauguration, TypeOK
  <2>4. announced \subseteq announced'
    BY MarksGrow
  <2>5. ASSUME NEW t \in Server, Boot(t) PROVE UNCHANGED following
    BY <2>5 DEF Boot, loop
  <2>6. QED
    BY <2>1, <2>2, <2>3, <2>4, <2>5, ServiceChanges DEF StartLeaderService
<1>2. ASSUME NEW entry \in toListen' PROVE Begun(entry[1], entry[3])'
  <2>1. CASE entry \in toListen
    <3>1. entry[1] \in Server /\ Begun(entry[1], entry[3])
      BY <2>1 DEF ListensPerLeadership, TypeOK
    <3>2. QED
      BY <3>1, BegunStays
  <2>2. ASSUME NEW s \in Server, Boot(s), entry \notin toListen PROVE Begun(entry[1], entry[3])'
    <3>1. /\ s = InitialLeader /\ entry \in Service(s, InitialLeadership)
          /\ booted' = booted \cup {s} /\ UNCHANGED <<following, announced>>
      BY <1>2, <2>2 DEF Boot, loop, elections
    <3>2. entry[1] = s /\ entry[3] = InitialLeadership
      BY <3>1 DEF Service
    <3>3. InitialLeadership \notin following[s]
      BY LeadershipTypes DEF TypeOK
    <3>4. InitialLeadership \in Leads(s)'
      BY <3>1 DEF Leads, InitialLeadership
    <3>5. QED
      BY <3>1, <3>2, <3>3, <3>4 DEF Begun
  <2>3. ASSUME NEW s \in Server, NEW a \in Elections, StartLeaderService(s, a), entry \notin toListen
        PROVE  Begun(entry[1], entry[3])'
    <3>1. /\ entry \in Service(s, a) /\ a \in following[s] /\ a.leader = s
          /\ following' = [following EXCEPT ![s] = @ \ {a}] /\ UNCHANGED <<announced, booted>>
      BY <1>2, <2>3 DEF StartLeaderService, TakeInauguration, elections
    <3>2. entry[1] = s /\ entry[3] = a
      BY <3>1 DEF Service
    <3>3. a \notin following'[s]
      BY <3>1 DEF TypeOK
    <3>4. a \in Leads(s)' /\ a # InitialLeadership
      BY <3>1, LeadershipTypes DEF Leads, ListensPerLeadership
    <3>5. QED
      BY <3>2, <3>3, <3>4 DEF Begun
  <2>4. ASSUME NEW a \in Elections, Win(a) PROVE UNCHANGED toListen
    BY <2>4 DEF Win, leader
  <2>5. QED
    BY <1>2, <2>1, <2>2, <2>3, <2>4, ServiceChanges DEF Listen
<1>3. ASSUME NEW l \in Server, NEW p \in Phase, listener'[l][p].open
      PROVE  \E a \in Leaderships : Begun(l, a)' /\ <<l, p, a>> \notin toListen'
  <2>1. ASSUME listener[l][p].open PROVE \E a \in Leaderships : Begun(l, a)' /\ <<l, p, a>> \notin toListen'
    <3>1. PICK a \in Leaderships : Begun(l, a) /\ <<l, p, a>> \notin toListen
      BY <2>1 DEF ListensPerLeadership
    <3>2. Begun(l, a)'
      BY <3>1, BegunStays
    <3>3. ASSUME NEW s \in Server, Boot(s) PROVE <<l, p, a>> \notin toListen'
      <4>1. toListen' = toListen \/ (toListen' = toListen \cup Service(s, InitialLeadership) /\ s \notin booted)
        BY <3>3 DEF Boot
      <4>2. QED
        BY <3>1, <4>1 DEF Service, Begun
    <3>4. ASSUME NEW s \in Server, NEW b \in Elections, StartLeaderService(s, b) PROVE <<l, p, a>> \notin toListen'
      <4>1. toListen' = toListen \cup Service(s, b) /\ b \in following[s]
        BY <3>4 DEF StartLeaderService, TakeInauguration
      <4>2. QED
        BY <3>1, <4>1 DEF Service, Begun
    <3>5. ASSUME NEW b \in Elections, Win(b) PROVE UNCHANGED toListen
      BY <3>5 DEF Win, leader
    <3>6. <<l, p, a>> \notin toListen'
      BY <3>1, <3>3, <3>4, <3>5, ServiceChanges DEF Listen
    <3>7. QED
      BY <3>2, <3>6
  <2>2. ASSUME ~listener[l][p].open, NEW k \in Server, NEW q \in Phase, NEW a \in Leaderships, Listen(k, q, a)
        PROVE  \E b \in Leaderships : Begun(l, b)' /\ <<l, p, b>> \notin toListen'
    <3>1. k = l /\ q = p
      BY <1>3, <2>2, ListenerEntry
    <3>2. <<l, p, a>> \in toListen /\ toListen' = toListen \ {<<l, p, a>>}
      BY <2>2, <3>1 DEF Listen
    <3>3. Begun(l, a)
      BY <3>2 DEF ListensPerLeadership
    <3>4. QED
      BY <3>2, <3>3, BegunStays
  <2>3. ASSUME ~listener[l][p].open, NEW k \in Server, NEW q \in Phase, Invoked(k, q), listener[k][q].open
        PROVE  FALSE
    BY <1>3, <2>3, InvokedType, SMTT(60)
  <2>4. ASSUME NEW c \in backlog, Accept(c)
        PROVE  /\ c.dst \in Server /\ c.phase \in Phase
               /\ Invoked(c.dst, c.phase) /\ listener[c.dst][c.phase].open
    BY <2>4 DEF Accept, ListenersOpen, TypeOK, Conn
  <2>5. UNCHANGED listener => listener[l][p].open
    BY <1>3
  <2>6. QED
    BY <2>1, <2>2, <2>3, <2>4, <2>5, ServiceChanges DEF AcceptFails, Boot, Win, StartLeaderService, leader
<1>4. QED
  BY <1>1, <1>2, <1>3 DEF ListensPerLeadership

-----------------------------------------------------------------------------
(* Which steps stop a server. *)
LEMMA PanicChanges ==
  ASSUME [Next]_vars
  PROVE  \/ UNCHANGED panicked
         \/ \E s \in Server, a \in Leaderships : DialConnects(s, a) \/ StartReceiving(s, a)
         \/ \E l \in Server, p \in Phase, a \in Leaderships : Listen(l, p, a)
<1>1. ASSUME NEW t \in Server, NEW a \in Leaderships, StartDialing(t, a) \/ DialFails(t, a)
      PROVE  UNCHANGED panicked
  BY <1>1 DEF StartDialing, DialFails
<1>2. ASSUME NEW t \in Server, NEW a \in Elections,
             StartLeaderService(t, a) \/ ChangeLeader(t, a) \/ FollowLeader(t, a) \/ Disregards(t, a)
      PROVE  UNCHANGED panicked
  BY <1>2 DEF StartLeaderService, ChangeLeader, FollowLeader, Disregards, FindAnotherLeader, IgnoreInauguration
<1>3. QED
  BY <1>1, <1>2, StepCases, AsideChanges DEF vars, Boot, Win, AcceptFails, Accept, Register, Reject

LEMMA SurviveStep ==
  ASSUME DialInv, TypeOK', [Next]_vars
  PROVE  DialersSurvive'
<1> USE DEF DialInv
<1> SUFFICES ASSUME NEW s \in panicked'
             PROVE  s \in gaveUp' \cup nilMaps' \/ Cardinality(Leads(s)') > 1
  BY DEF DialersSurvive
<1>1. s \in Server
  <2>1. panicked' \subseteq booted' /\ booted' \subseteq Server
    BY DEF TypeOK
  <2>2. QED
    BY <2>1
<1>2. CASE s \in panicked
  BY <1>1, <1>2, MarksGrow, LeadsGrow DEF DialersSurvive
<1>3. ASSUME s \notin panicked, NEW t \in Server, NEW a \in Leaderships, DialConnects(t, a)
      PROVE  s \in nilMaps'
  BY <1>3 DEF DialConnects
<1>4. ASSUME s \notin panicked, NEW t \in Server, NEW a \in Leaderships, StartReceiving(t, a)
      PROVE  s \in gaveUp' \cup nilMaps'
  <2> DEFINE l == dialer[t][a].to
  <2>1. /\ s = t /\ dialer[t][a].pc = "dialed"
        /\ \E p \in Phase : dialConns[t][l][p] = NoConn
    BY <1>4 DEF StartReceiving
  <2>2. s \in gaveUp \cup nilMaps
    BY <1>1, <2>1 DEF DialedPhases
  <2>3. QED
    BY <2>2, MarksGrow
<1>5. ASSUME s \notin panicked, NEW l \in Server, NEW p \in Phase, NEW a \in Leaderships, Listen(l, p, a)
      PROVE  Cardinality(Leads(s)') > 1
  <2>1. s = l /\ listener[l][p].open /\ <<l, p, a>> \in toListen
    BY <1>5 DEF Listen
  <2>2. a \in Leads(s)
    BY <2>1 DEF ListensPerLeadership, Begun
  <2>3. PICK b \in Leaderships : Begun(l, b) /\ <<l, p, b>> \notin toListen
    BY <2>1 DEF ListensPerLeadership
  <2>4. b \in Leads(s) /\ a # b
    BY <2>1, <2>3 DEF Begun
  <2>5. QED
    BY <1>1, <2>2, <2>4, TwoLeads, LeadsGrow
<1>6. QED
  BY <1>2, <1>3, <1>4, <1>5, PanicChanges

LEMMA DialInit == Init => DialInv
<1> SUFFICES ASSUME Init PROVE DialInv
  OBVIOUS
<1>1. TypeOK
  BY InitType
<1>2. \A s \in Server, a \in Leaderships :
         dialer[s][a] = NoDialer
         \/ (s \in Booted /\ s # InitialLeader /\ dialer[s][a] = Starting(s, InitialLeader))
  BY DEF Init, InitialLeadership, Starting
<1>3. \A s \in Server, a \in Leaderships :
         /\ dialer[s][a].pc \in {"none", "starting"}
         /\ dialer[s][a].pc = "starting" => s \in Booted /\ s # InitialLeader
  BY <1>2 DEF NoDialer, Starting
<1>4. \A l \in Server, p \in Phase :
         listener[l][p] = [open |-> l = InitialLeader /\ l \in Booted, hasInvoked |-> 0]
  BY DEF Init
<1>5. \A l \in Server, p \in Phase :
         listener[l][p].hasInvoked = 0 /\ (listener[l][p].open => l = InitialLeader /\ l \in Booted)
  <2> SUFFICES ASSUME NEW l \in Server, NEW p \in Phase
               PROVE  /\ listener[l][p].hasInvoked = 0
                      /\ listener[l][p].open => l = InitialLeader /\ l \in Booted
    OBVIOUS
  <2>1. CASE l = InitialLeader /\ l \in Booted
    <3>1. listener[l][p] = [open |-> l = InitialLeader /\ l \in Booted, hasInvoked |-> 0]
      BY <1>4
    <3>2. listener[l][p].hasInvoked = 0
      BY <3>1
    <3>3. QED
      BY <2>1, <3>2
  <2>2. CASE ~(l = InitialLeader /\ l \in Booted)
    <3>1. listener[l][p] = [open |-> FALSE, hasInvoked |-> 0]
      BY <1>4, <2>2
    <3>2. QED
      BY <3>1
  <2>3. QED
    BY <2>1, <2>2
<1>6. ListenersOpen
  <2>1. \A s \in Server, a \in Leaderships : dialer[s][a].pc = "starting" => coordinator[s] \in Server
    BY <1>3, DialAssumption DEF Init
  <2>2. backlog = {}
    BY DEF Init
  <2>3. QED
    BY <1>5, <2>1, <2>2, ServersAreMany DEF ListenersOpen
<1>7. PortsOfViews /\ DialedPhases
  BY <1>3, SMTT(60) DEF PortsOfViews, DialedPhases, Init
<1>8. ListensPerLeadership
  <2>1. \A s \in Server : following[s] = {}
    BY DEF Init
  <2>2. toListen = {} /\ booted = Booted
    BY DEF Init
  <2>3. InitialLeadership \in Leaderships /\ InitialLeadership \in Leads(InitialLeader)
    BY ViewsAreNat DEF Leads, InitialLeadership
  <2>4. QED
    BY <1>5, <2>1, <2>2, <2>3 DEF ListensPerLeadership, Begun
<1>9. DialersSurvive
  BY DEF Init, DialersSurvive
<1>10. QED
  BY <1>1, <1>6, <1>7, <1>8, <1>9 DEF DialInv

LEMMA DialStep == DialInv /\ [Next]_vars => DialInv'
<1> SUFFICES ASSUME DialInv, [Next]_vars PROVE DialInv'
  OBVIOUS
<1>1. TypeOK /\ ListenersOpen /\ PortsOfViews /\ DialedPhases /\ ListensPerLeadership
  BY DEF DialInv
<1>2. TypeOK' /\ ListenersOpen' /\ PortsOfViews' /\ DialedPhases' /\ ListensPerLeadership'
  BY <1>1, TypeStep, ListenersStep, PortsStep, DialedPhasesStep, ListensStep
<1>3. DialersSurvive'
  BY <1>2, SurviveStep
<1>4. QED
  BY <1>2, <1>3 DEF DialInv

THEOREM DialInvariance == Spec => []DialInv
BY DialInit, DialStep, PTL DEF Spec

(* Every variable keeps its type; what is accepted was connected, and what  *)
(* is registered was accepted.                                              *)
THEOREM TypeCorrect == Spec => []TypeOK
<1>1. DialInv => TypeOK
  BY DEF DialInv
<1>2. QED
  BY <1>1, DialInvariance, PTL

(* A server that stops gave up a dial, dropped its maps at a victory, or    *)
(* led twice (lines 119-136 and 331-350 of comply.go, 177 of handlers.go    *)
(* and 60 of connections.go): nothing else in the registry stops it.        *)
THEOREM OnlyNamedPanics == Spec => []DialersSurvive
<1>1. DialInv => DialersSurvive
  BY DEF DialInv
<1>2. QED
  BY <1>1, DialInvariance, PTL

-----------------------------------------------------------------------------
(* Whom the leader takes a connection for: who dialed it, when the leader   *)
(* is in the view it was dialed in, and otherwise nobody.                   *)
LEMMA SenderIsDialer ==
  ASSUME PortsApart, TypeOK, PortsOfViews, NEW c \in accepted
  PROVE  Sender(c.dst, c) = IF DialedIn(c) = view[c.dst] THEN {c.src} ELSE {}
<1> DEFINE l == c.dst
           home == DialPort[c.src][c.phase]
<1>1. c \in sockets /\ c.src \in Server /\ l \in Server /\ c.phase \in Phase /\ c.port \in Nat
  BY DEF TypeOK, Conn
<1>2. PICK v \in View : c.port = home + v
  BY <1>1 DEF PortsOfViews, PortOfAView
<1>3. view[l] \in View /\ \A w \in View : w \in Nat
  BY <1>1, ViewsAreNat DEF TypeOK
<1>4. \A s \in Server, p \in Phase : DialPort[s][p] \in Nat
  BY DialAssumption
<1>5. DialedIn(c) = v
  BY <1>1, <1>2, <1>3, <1>4 DEF DialedIn
<1>6. ASSUME NEW s \in Server, NEW p \in Phase, Host[s] = Host[c.src], DialPort[s][p] = c.port - view[l]
      PROVE  s = c.src /\ view[l] = v
  <2>1. DialPort[s][p] + view[l] = DialPort[c.src][c.phase] + v
    BY <1>1, <1>2, <1>3, <1>4, <1>6
  <2>2. QED
    BY <1>1, <1>3, <1>6, <2>1 DEF PortsApart
<1>7. ASSUME view[l] = v PROVE DialPort[c.src][c.phase] = c.port - view[l]
  BY <1>1, <1>2, <1>3, <1>4, <1>7
<1>8. Sender(l, c) = {s \in Server : Host[s] = Host[c.src] /\ \E p \in Phase : DialPort[s][p] = c.port - view[l]}
  BY DEF Sender, ServersAt, RegisteredPort
<1>9. QED
  BY <1>1, <1>5, <1>6, <1>7, <1>8

(* A leader registers a worker as the server that dialed, and only when it  *)
(* dialed in the view the leader is in by then (lines 212-214 of            *)
(* consensus.go undo lines 75-98 of comply.go); the cluster file has to     *)
(* keep the dial ports of a host further apart than the views go.           *)
THEOREM RegistersWhoDialed == PortsApart => (Spec => RegisteredInItsView)
<1> SUFFICES ASSUME PortsApart PROVE Spec => RegisteredInItsView
  OBVIOUS
<1> DEFINE Registers ==
      \A c \in accepted \ accepted' :
         serverConns' = IF DialedIn(c) = view[c.dst]
                        THEN [serverConns EXCEPT ![c.dst][c.phase][c.src] = c]
                        ELSE serverConns
<1>1. DialInv /\ [Next]_vars => [Registers]_vars
  <2> SUFFICES ASSUME DialInv, [Next]_vars, NEW c \in accepted \ accepted'
               PROVE  serverConns' = IF DialedIn(c) = view[c.dst]
                                     THEN [serverConns EXCEPT ![c.dst][c.phase][c.src] = c]
                                     ELSE serverConns
    OBVIOUS
  <2>1. TypeOK /\ PortsOfViews
    BY DEF DialInv
  <2>2. \E d \in accepted : Register(d) \/ Reject(d)
    <3>1. ASSUME NEW t \in Server, NEW a \in Leaderships,
                 StartDialing(t, a) \/ DialConnects(t, a) \/ DialFails(t, a) \/ StartReceiving(t, a)
          PROVE  UNCHANGED accepted
      BY <3>1, Zenon DEF StartDialing, DialConnects, DialFails, StartReceiving, leader
    <3>2. ASSUME NEW t \in Server, NEW a \in Elections,
                 StartLeaderService(t, a) \/ ChangeLeader(t, a) \/ FollowLeader(t, a) \/ Disregards(t, a)
          PROVE  UNCHANGED accepted
      BY <3>2 DEF StartLeaderService, ChangeLeader, FollowLeader, Disregards, FindAnotherLeader, IgnoreInauguration, leader
    <3>3. ASSUME NEW d \in backlog, Accept(d) PROVE accepted \subseteq accepted'
      BY <3>3 DEF Accept
    <3>4. QED
      BY <3>1, <3>2, <3>3, StepCases, AsideChanges DEF vars, leader, Boot, Win, Listen, AcceptFails
  <2>3. PICK d \in accepted : Register(d) \/ Reject(d)
    BY <2>2
  <2>4. d = c
    BY <2>3 DEF Register, Reject
  <2>5. Sender(c.dst, c) = IF DialedIn(c) = view[c.dst] THEN {c.src} ELSE {}
    BY <2>1, SenderIsDialer
  <2>6. CASE Register(c)
    <3>1. PICK sid \in Sender(c.dst, c) : serverConns' = [serverConns EXCEPT ![c.dst][c.phase][sid] = c]
      BY <2>6 DEF Register
    <3>2. DialedIn(c) = view[c.dst] /\ sid = c.src
      BY <2>5, <3>1
    <3>3. QED
      BY <3>1, <3>2
  <2>7. CASE Reject(c)
    <3>1. Sender(c.dst, c) = {} /\ serverConns' = serverConns
      BY <2>7 DEF Reject
    <3>2. QED
      BY <2>5, <3>1
  <2>8. QED
    BY <2>3, <2>4, <2>6, <2>7
<1>2. RegisteredInItsView <=> [][Registers]_vars
  BY PTL DEF RegisteredInItsView
<1> HIDE DEF Registers
<1>3. QED
  BY <1>1, <1>2, DialInvariance, PTL DEF Spec

-----------------------------------------------------------------------------
(* Before the first election nobody takes an inauguration.                  *)
LEMMA FirstSteps ==
  ASSUME TypeOK, NoneElected, [Next]_vars, announced' = {}
  PROVE  /\ UNCHANGED <<nilMaps, following, steering>>
         /\ \/ UNCHANGED vars
            \/ \E s \in Server : Boot(s)
            \/ \E s \in Server : Aside(s)
            \/ \E s \in Server, a \in Leaderships :
                 StartDialing(s, a) \/ DialConnects(s, a) \/ DialFails(s, a) \/ StartReceiving(s, a)
            \/ \E l \in Server, p \in Phase, a \in Leaderships : Listen(l, p, a)
            \/ \E l \in Server, p \in Phase : AcceptFails(l, p)
            \/ \E c \in backlog : Accept(c)
            \/ \E c \in accepted : Register(c) \/ Reject(c)
<1>1. ASSUME NEW a \in Elections, Win(a) PROVE FALSE
  BY <1>1 DEF Win
<1>2. ASSUME NEW s \in Server, NEW a \in Elections, TakeInauguration(s, a) PROVE FALSE
  BY <1>2 DEF TakeInauguration, NoneElected
<1>3. ASSUME NEW s \in Server, NEW a \in Elections, FollowLeader(s, a) PROVE FALSE
  BY <1>3 DEF FollowLeader, NoneElected
<1>4. ASSUME NEW s \in Server, NEW a \in Leaderships,
             StartDialing(s, a) \/ DialConnects(s, a) \/ DialFails(s, a) \/ StartReceiving(s, a)
      PROVE  UNCHANGED <<nilMaps, following, steering>>
  BY <1>4, Zenon DEF StartDialing, DialConnects, DialFails, StartReceiving, loop
<1>5. \/ UNCHANGED vars
      \/ \E s \in Server : Boot(s)
      \/ \E s \in Server : Aside(s)
      \/ \E s \in Server, a \in Leaderships :
           StartDialing(s, a) \/ DialConnects(s, a) \/ DialFails(s, a) \/ StartReceiving(s, a)
      \/ \E l \in Server, p \in Phase, a \in Leaderships : Listen(l, p, a)
      \/ \E l \in Server, p \in Phase : AcceptFails(l, p)
      \/ \E c \in backlog : Accept(c)
      \/ \E c \in accepted : Register(c) \/ Reject(c)
  BY <1>1, <1>2, <1>3, StepCases DEF StartLeaderService, ChangeLeader, Disregards, FindAnotherLeader, IgnoreInauguration
<1>6. UNCHANGED <<nilMaps, following, steering>>
  BY <1>4, <1>5, AsideChanges DEF vars, loop, Boot, Listen, AcceptFails, Accept, Register, Reject
<1>7. QED
  BY <1>5, <1>6

LEMMA NoneElectedStep ==
  ASSUME TypeOK, ListenersOpen, NoneElected, [Next]_vars, announced' = {}
  PROVE  NoneElected'
<1>1. UNCHANGED <<nilMaps, following, steering>> /\ booted \subseteq booted'
  BY FirstSteps, MarksGrow
<1>2. ASSUME NEW s \in Server, NEW a \in Elections, FollowLeader(s, a) PROVE FALSE
  BY <1>2 DEF FollowLeader, NoneElected
<1>3. ASSUME NEW s \in Server, NEW a \in Leaderships,
             a # InitialLeadership \/ s = InitialLeader \/ s \notin booted'
      PROVE  dialer'[s][a] = NoDialer
  <2>1. dialer[s][a] = NoDialer /\ NoDialer.pc = "none"
    BY <1>1, <1>3, NoDialerShape DEF NoneElected
  <2>2. ~StartDialing(s, a) /\ ~DialConnects(s, a) /\ ~DialFails(s, a) /\ ~StartReceiving(s, a)
    BY <2>1 DEF StartDialing, DialConnects, DialFails, StartReceiving
  <2>3. ASSUME Boot(s) PROVE s \in booted'
    BY <2>3 DEF Boot
  <2>4. QED
    BY <1>2, <1>3, <2>1, <2>2, <2>3, DialerChanges
<1>4. ASSUME NEW s \in Server
      PROVE  /\ dialer'[s][InitialLeadership].pc = "starting" => coordinator'[s] = InitialLeader
             /\ dialer'[s][InitialLeadership].pc \in {"dialing", "dialed"}
                  => dialer'[s][InitialLeadership].to = InitialLeader
  <2> DEFINE a == InitialLeadership
             d == dialer[s][a]
             Goal == /\ dialer'[s][a].pc = "starting" => coordinator'[s] = InitialLeader
                     /\ dialer'[s][a].pc \in {"dialing", "dialed"} => dialer'[s][a].to = InitialLeader
  <2>0. a \in Leaderships /\ d \in Dialer
    BY ViewsAreNat DEF TypeOK
  <2>1. ASSUME dialer'[s][a] = d PROVE Goal
    <3>1. ASSUME NEW t \in Server, Boot(t)
          PROVE  coordinator' = coordinator \/ coordinator' = [coordinator EXCEPT ![t] = InitialLeader]
      BY <3>1 DEF Boot
    <3>2. ASSUME NEW t \in Server, NEW b \in Leaderships,
                 StartDialing(t, b) \/ DialConnects(t, b) \/ DialFails(t, b) \/ StartReceiving(t, b)
          PROVE  UNCHANGED coordinator
      BY <3>2, Zenon DEF StartDialing, DialConnects, DialFails, StartReceiving
    <3>3. coordinator' = coordinator \/ \E t \in Server : coordinator' = [coordinator EXCEPT ![t] = InitialLeader]
      BY <3>1, <3>2, FirstSteps, AsideChanges DEF vars, worker, Listen, AcceptFails, Accept, Register, Reject
    <3>4. coordinator[s] = InitialLeader => coordinator'[s] = InitialLeader
      BY <3>3 DEF TypeOK
    <3>5. QED
      BY <2>1, <3>4 DEF NoneElected
  <2>2. ASSUME Boot(s), s # InitialLeader, dialer'[s][a] = Starting(s, InitialLeader) PROVE Goal
    <3>1. coordinator'[s] = InitialLeader
      BY <2>2, CoordinatorStep
    <3>2. dialer'[s][a].pc = "starting"
      BY <2>2 DEF Starting
    <3>3. QED
      BY <3>1, <3>2
  <2>3. ASSUME NEW p \in Nat \ {0}, dialer'[s][a] = Dialing(s, InitialLeader, p) PROVE Goal
    <3>1. InitialLeader \in Server
      BY DialAssumption
    <3>2. QED
      BY <2>3, <3>1, DialingShape
  <2>4. ASSUME StartDialing(s, a), dialer'[s][a] = Dialing(s, coordinator[s], 1) PROVE Goal
    <3>1. coordinator[s] = InitialLeader
      BY <2>4 DEF StartDialing, NoneElected
    <3>2. QED
      BY <2>3, <2>4, <3>1
  <2>5. ASSUME DialConnects(s, a) \/ DialFails(s, a), dialer'[s][a] = NextPhase(s, d) PROVE Goal
    <3>1. d.pc = "dialing"
      BY <2>5 DEF DialConnects, DialFails
    <3>2. d.to = InitialLeader /\ d.phase + 1 \in Nat \ {0}
      BY <2>0, <3>1, DialerShape, PhasesAreNat DEF NoneElected
    <3>3. dialer'[s][a] = Dialing(s, InitialLeader, d.phase + 1)
      BY <2>5, <3>2 DEF NextPhase
    <3> HIDE DEF d, Goal
    <3>4. QED
      BY <2>3, <3>2, <3>3
  <2>6. ASSUME DialFails(s, a), dialer'[s][a] = [d EXCEPT !.tries = @ + 1] PROVE Goal
    <3>1. d.pc = "dialing"
      BY <2>6 DEF DialFails
    <3>2. dialer'[s][a].pc = "dialing" /\ dialer'[s][a].to = d.to
      BY <2>0, <2>6, <3>1, DialerShape
    <3>3. QED
      BY <3>1, <3>2 DEF NoneElected
  <2>7. ASSUME dialer'[s][a] = [pc |-> "done"] PROVE Goal
    BY <2>7
  <2> HIDE DEF Goal
  <2>8. Goal
    BY <1>2, <2>0, <2>1, <2>2, <2>4, <2>5, <2>6, <2>7, DialerChanges
  <2>9. QED
    BY <2>8 DEF Goal
<1>5. QED
  BY <1>1, <1>3, <1>4 DEF NoneElected

(* A dialer that went past a phase stays past it.                           *)
Past(s, p) ==
  LET d == dialer[s][InitialLeadership]
  IN d.pc \in {"dialed", "done"} \/ (d.pc = "dialing" /\ p < d.phase)

LEMMA PastStays ==
  ASSUME TypeOK, NoneElected, [Next]_vars, NEW s \in Server, NEW p \in Phase, Past(s, p)
  PROVE  Past(s, p)'
<1> DEFINE a == InitialLeadership
           d == dialer[s][a]
<1>1. a \in Leaderships /\ d \in Dialer /\ d.pc \in {"dialed", "done", "dialing"}
  BY ViewsAreNat DEF TypeOK, Past
<1>2. ~Boot(s)
  <2>1. NoDialer.pc = "none"
    BY NoDialerShape
  <2>2. s \notin booted => d = NoDialer
    BY <1>1 DEF NoneElected
  <2>3. QED
    BY <1>1, <2>1, <2>2 DEF Boot
<1>3. ~(a \in Elections) /\ ~StartDialing(s, a)
  BY <1>1, LeadershipTypes DEF StartDialing
<1>4. CASE dialer'[s][a] = d
  BY <1>4 DEF Past
<1>5. ASSUME DialConnects(s, a) \/ DialFails(s, a), dialer'[s][a] = NextPhase(s, d) PROVE Past(s, p)'
  <2>1. d.pc = "dialing"
    BY <1>5 DEF DialConnects, DialFails
  <2>2. d.to \in Server /\ d.phase \in Nat \ {0} /\ d.phase + 1 \in Nat \ {0}
    BY <1>1, <2>1, DialerShape, PhasesAreNat
  <2>3. \/ dialer'[s][a].pc = "dialed"
        \/ dialer'[s][a].pc = "dialing" /\ dialer'[s][a].phase = d.phase + 1
    BY <1>5, <2>2, DialingShape DEF NextPhase
  <2>4. p < d.phase /\ p \in Nat
    BY <2>1, PhasesAreNat DEF Past
  <2>5. p < d.phase + 1
    BY <2>2, <2>4
  <2>6. QED
    BY <2>3, <2>5 DEF Past
<1>6. ASSUME DialFails(s, a), dialer'[s][a] = [d EXCEPT !.tries = @ + 1] PROVE Past(s, p)'
  <2>1. d.pc = "dialing"
    BY <1>6 DEF DialFails
  <2>2. dialer'[s][a].pc = "dialing" /\ dialer'[s][a].phase = d.phase
    BY <1>1, <1>6, <2>1, DialerShape
  <2>3. QED
    BY <2>1, <2>2 DEF Past
<1>7. CASE dialer'[s][a] = [pc |-> "done"]
  BY <1>7 DEF Past
<1>8. QED
  BY <1>1, <1>2, <1>3, <1>4, <1>5, <1>6, <1>7, DialerChanges

(* What a worker dials before the first election.                           *)
LEMMA FirstDial ==
  ASSUME TypeOK, NoneElected, DialedOnce, NEW s \in Server, NEW a \in Leaderships, DialConnects(s, a)
  PROVE  \E c \in Conn :
           /\ sockets' = sockets \cup {c} /\ backlog' = backlog \cup {c}
           /\ c.src = s /\ c.dst = InitialLeader /\ s # InitialLeader /\ c.phase \in Phase
           /\ Past(s, c.phase)'
           /\ \A e \in sockets : ~(e.src = s /\ e.phase = c.phase)
<1> DEFINE d == dialer[s][a]
<1>1. d \in Dialer /\ d.pc = "dialing"
  BY DEF DialConnects, TypeOK
<1>2. PICK p \in Phase, port \in Nat : d.phase = p /\ d.port = port
  BY <1>1, DialerShape
<1>3. a = InitialLeadership /\ s # InitialLeader /\ s \notin nilMaps
  BY <1>1, NoDialerShape DEF NoneElected
<1>4. d.to = InitialLeader /\ InitialLeader \in Server
  BY <1>1, <1>3, DialAssumption DEF NoneElected
<1>5. PICK c \in Conn : c = [src |-> s, dst |-> InitialLeader, phase |-> p, port |-> port]
  BY <1>4 DEF Conn
<1>6. c.src = s /\ c.dst = InitialLeader /\ c.phase = p
  BY <1>5
<1>7. sockets' = sockets \cup {c} /\ backlog' = backlog \cup {c}
  BY <1>2, <1>4, <1>5 DEF DialConnects
<1>8. Past(s, p)'
  <2>1. dialer' = [dialer EXCEPT ![s][a] = Dialing(s, d.to, d.phase + 1)]
    BY <1>3 DEF DialConnects
  <2>2. dialer \in [Server -> [Leaderships -> Dialer]]
    BY DEF TypeOK
  <2>3. dialer'[s][a] = Dialing(s, InitialLeader, p + 1)
    <3> HIDE DEF d
    <3> QED
      BY <1>2, <1>4, <2>1, <2>2
  <2>4. p \in Nat \ {0} /\ p + 1 \in Nat \ {0}
    BY PhasesAreNat
  <2>5. \/ dialer'[s][a].pc = "dialed"
        \/ dialer'[s][a].pc = "dialing" /\ dialer'[s][a].phase = p + 1
    BY <1>4, <2>3, <2>4, DialingShape
  <2>6. p < p + 1
    BY <2>4
  <2>7. QED
    BY <1>3, <2>5, <2>6 DEF Past
<1>9. ASSUME NEW e \in sockets, e.src = s, e.phase = p PROVE FALSE
  <2>1. p < p
    BY <1>1, <1>2, <1>3, <1>9 DEF DialedOnce
  <2>2. p \in Nat
    BY PhasesAreNat
  <2>3. QED
    BY <2>1, <2>2
<1>10. Past(s, c.phase)'
  BY <1>6, <1>8 DEF Past
<1>11. QED
  BY <1>3, <1>6, <1>7, <1>9, <1>10

LEMMA DialedOnceStep ==
  ASSUME TypeOK, NoneElected, DialedOnce, [Next]_vars, announced' = {}
  PROVE  DialedOnce'
<1>1. \A c \in sockets : c.src \in Server /\ c.phase \in Phase
  BY DEF TypeOK, Conn
<1>2. \A c \in sockets : Past(c.src, c.phase)
  BY DEF DialedOnce, Past
<1>3. ASSUME NEW c \in sockets PROVE Past(c.src, c.phase)'
  <2>1. PICK s \in Server, p \in Phase : s = c.src /\ p = c.phase
    BY <1>1
  <2>2. Past(s, p)'
    BY <1>2, <2>1, PastStays
  <2>3. c = c
    OBVIOUS
  <2>4. QED
    BY <2>1, <2>2 DEF Past
<1>4. CASE UNCHANGED sockets
  BY <1>3, <1>4 DEF DialedOnce, Past
<1>5. ASSUME NEW s \in Server, NEW a \in Leaderships, DialConnects(s, a) PROVE DialedOnce'
  <2>1. PICK c \in Conn :
           /\ sockets' = sockets \cup {c}
           /\ c.src = s /\ c.dst = InitialLeader /\ s # InitialLeader
           /\ Past(s, c.phase)'
           /\ \A e \in sockets : ~(e.src = s /\ e.phase = c.phase)
    BY <1>5, FirstDial
  <2>2. \A e \in sockets' : Past(e.src, e.phase)'
    BY <1>3, <2>1 DEF Past
  <2>3. \A e \in sockets' : e.dst = InitialLeader /\ e.src # InitialLeader
    BY <2>1 DEF DialedOnce
  <2>4. \A e, f \in sockets' : e.src = f.src /\ e.phase = f.phase => e = f
    BY <2>1 DEF DialedOnce
  <2>5. QED
    BY <2>2, <2>3, <2>4 DEF DialedOnce, Past
<1>6. UNCHANGED sockets \/ \E s \in Server, a \in Leaderships : DialConnects(s, a)
  BY SocketChanges
<1>7. QED
  BY <1>4, <1>5, <1>6

(* Only the goroutines of the initial leadership are to listen.             *)
LEMMA FirstToListen ==
  ASSUME ListensPerLeadership, announced = {}, NEW entry \in toListen
  PROVE  entry[3] = InitialLeadership
BY DEF ListensPerLeadership, Begun, Leads

LEMMA ListensOnceStep ==
  ASSUME TypeOK, ListenersOpen, ListensPerLeadership, NoneElected, ListensOnce, [Next]_vars,
         announced = {}, announced' = {}
  PROVE  ListensOnce'
<1> SUFFICES ASSUME NEW l \in Server, NEW p \in Phase,
                    l \notin booted' \/ \E a \in Leaderships : <<l, p, a>> \in toListen'
             PROVE  listener'[l][p] = [open |-> FALSE, hasInvoked |-> 0]
  BY DEF ListensOnce
<1> DEFINE fresh == [open |-> FALSE, hasInvoked |-> 0]
<1>1. ASSUME l \notin booted \/ \E a \in Leaderships : <<l, p, a>> \in toListen
      PROVE  listener[l][p] = fresh
  BY <1>1 DEF ListensOnce
<1>2. booted \subseteq booted'
  BY MarksGrow
<1>3. ASSUME UNCHANGED <<toListen, listener>> PROVE listener'[l][p] = fresh
  BY <1>1, <1>2, <1>3
<1>4. ASSUME NEW s \in Server, Boot(s) PROVE listener'[l][p] = fresh
  <2>1. /\ s \notin booted /\ UNCHANGED listener
        /\ toListen' = toListen \/ toListen' = toListen \cup Service(s, InitialLeadership)
    BY <1>4 DEF Boot
  <2>2. \A a : <<l, p, a>> \in Service(s, InitialLeadership) => l = s
    BY DEF Service
  <2>3. QED
    BY <1>1, <1>2, <2>1, <2>2
<1>5. ASSUME NEW k \in Server, NEW q \in Phase, NEW a \in Leaderships, Listen(k, q, a)
      PROVE  listener'[l][p] = fresh
  <2>1. toListen' = toListen \ {<<k, q, a>>} /\ <<k, q, a>> \in toListen /\ k \in booted
    BY <1>5 DEF Listen, Up
  <2>2. booted' = booted
    BY <1>5 DEF Listen
  <2>3. a = InitialLeadership
    BY <2>1, FirstToListen
  <2>4. CASE l = k /\ p = q
    <3>1. PICK b \in Leaderships : <<l, p, b>> \in toListen'
      BY <2>1, <2>2, <2>4
    <3>2. b = InitialLeadership
      BY <2>1, <3>1, FirstToListen
    <3>3. QED
      BY <2>1, <2>3, <2>4, <3>1, <3>2
  <2>5. CASE ~(l = k /\ p = q)
    <3>1. listener'[l][p] = listener[l][p]
      BY <1>5, <2>5, ListenerEntry
    <3>2. QED
      BY <1>1, <2>1, <2>2, <3>1
  <2>6. QED
    BY <2>4, <2>5
<1>6. ASSUME NEW k \in Server, NEW q \in Phase, Invoked(k, q), listener[k][q].open,
             UNCHANGED <<toListen, booted>>
      PROVE  listener'[l][p] = fresh
  <2>1. listener[l][p] = fresh
    BY <1>1, <1>6
  <2>2. <<l, p>> # <<k, q>>
    BY <1>6, <2>1
  <2>3. QED
    BY <1>6, <2>1, <2>2, InvokedType
<1>7. ASSUME NEW k \in Server, NEW q \in Phase, AcceptFails(k, q) PROVE listener'[l][p] = fresh
  BY <1>6, <1>7 DEF AcceptFails
<1>8. ASSUME NEW c \in backlog, Accept(c) PROVE listener'[l][p] = fresh
  <2>1. /\ c.dst \in Server /\ c.phase \in Phase /\ listener[c.dst][c.phase].open
        /\ Invoked(c.dst, c.phase) /\ UNCHANGED <<toListen, booted>>
    BY <1>8, SMTT(60) DEF Accept, ListenersOpen, TypeOK, Conn
  <2>2. QED
    BY <1>6, <2>1
<1>9. ASSUME NEW s \in Server, NEW a \in Leaderships,
             StartDialing(s, a) \/ DialConnects(s, a) \/ DialFails(s, a) \/ StartReceiving(s, a)
      PROVE  UNCHANGED <<toListen, listener>>
  BY <1>9 DEF StartDialing, DialConnects, DialFails, StartReceiving, leader
<1>10. ASSUME NEW c \in accepted, Register(c) \/ Reject(c) PROVE UNCHANGED <<toListen, listener>>
  BY <1>10 DEF Register, Reject
<1>11. ASSUME NEW s \in Server, Aside(s) PROVE UNCHANGED <<toListen, listener>>
  BY <1>11, AsideChanges DEF leader
<1>12. UNCHANGED vars => UNCHANGED <<toListen, listener>>
  BY DEF vars, leader
<1> HIDE DEF fresh
<1>13. listener'[l][p] = fresh
  BY <1>3, <1>4, <1>5, <1>7, <1>8, <1>9, <1>10, <1>11, <1>12, FirstSteps
<1>14. QED
  BY <1>13 DEF fresh

(* A listener counts the servers that connected to it.                      *)
Counted(l, p) ==
  IsFiniteSet(ConnectedTo(l, p)) /\ listener[l][p].hasInvoked = Cardinality(ConnectedTo(l, p))

LEMMA InvokedCountsStep ==
  ASSUME TypeOK, ListenersOpen, NoneElected, DialedOnce, ListensOnce, InvokedCounts, [Next]_vars
  PROVE  InvokedCounts'
<1> SUFFICES /\ backlog' \cap connected' = {}
             /\ acceptErrors' = 0 => \A l \in Server, p \in Phase : Counted(l, p)'
  BY DEF InvokedCounts, Counted
<1>1. acceptErrors = 0 => \A l \in Server, p \in Phase : Counted(l, p)
  BY DEF InvokedCounts, Counted
<1>2. backlog \cap connected = {}
  BY DEF InvokedCounts
<1>3. CASE UNCHANGED <<listener, backlog, connected, acceptErrors>>
  BY <1>1, <1>2, <1>3 DEF Counted, ConnectedTo
<1>4. ASSUME NEW s \in Server, NEW a \in Leaderships, DialConnects(s, a)
      PROVE  /\ backlog' \cap connected' = {}
             /\ acceptErrors' = 0 => \A l \in Server, p \in Phase : Counted(l, p)'
  <2>1. PICK c \in Conn :
           /\ sockets' = sockets \cup {c} /\ backlog' = backlog \cup {c}
           /\ c.src = s /\ \A e \in sockets : ~(e.src = s /\ e.phase = c.phase)
    BY <1>4, FirstDial
  <2>2. c \notin connected
    BY <2>1 DEF TypeOK
  <2>3. UNCHANGED <<listener, connected, acceptErrors>>
    BY <1>4 DEF DialConnects
  <2>4. acceptErrors' = 0 => \A l \in Server, p \in Phase : Counted(l, p)'
    BY <1>1, <2>3 DEF Counted, ConnectedTo
  <2>5. QED
    BY <1>2, <2>1, <2>2, <2>3, <2>4
<1>5. ASSUME NEW k \in Server, NEW q \in Phase, NEW a \in Leaderships, Listen(k, q, a)
      PROVE  /\ backlog' \cap connected' = {}
             /\ acceptErrors' = 0 => \A l \in Server, p \in Phase : Counted(l, p)'
  <2>1. UNCHANGED <<backlog, connected, acceptErrors>> /\ <<k, q, a>> \in toListen
    BY <1>5 DEF Listen
  <2>2. listener[k][q].hasInvoked = 0
    <3>1. listener[k][q] = [open |-> FALSE, hasInvoked |-> 0]
      BY <2>1 DEF ListensOnce
    <3>2. QED
      BY <3>1
  <2>3. ASSUME NEW l \in Server, NEW p \in Phase PROVE listener'[l][p].hasInvoked = listener[l][p].hasInvoked
    <3>1. CASE <<l, p>> = <<k, q>>
      BY <1>5, <2>2, <3>1, ListenerEntry
    <3>2. CASE <<l, p>> # <<k, q>>
      BY <1>5, <3>2, ListenerEntry
    <3>3. QED
      BY <3>1, <3>2
  <2>4. QED
    BY <1>1, <1>2, <2>1, <2>3 DEF Counted, ConnectedTo
<1>6. ASSUME NEW k \in Server, NEW q \in Phase, AcceptFails(k, q)
      PROVE  /\ backlog' \cap connected' = {}
             /\ acceptErrors' = 0 => \A l \in Server, p \in Phase : Counted(l, p)'
  <2>1. acceptErrors' = acceptErrors + 1 /\ backlog' \subseteq backlog /\ UNCHANGED connected
    BY <1>6 DEF AcceptFails
  <2>2. acceptErrors \in Nat
    BY DialAssumption DEF TypeOK
  <2>3. acceptErrors' # 0
    BY <2>1, <2>2
  <2>4. QED
    BY <1>2, <2>1, <2>3
<1>7. ASSUME NEW c \in backlog, Accept(c)
      PROVE  /\ backlog' \cap connected' = {}
             /\ acceptErrors' = 0 => \A l \in Server, p \in Phase : Counted(l, p)'
  <2>1. PICK k \in Server, q \in Phase : c.dst = k /\ c.phase = q /\ listener[k][q].open
    BY DEF ListenersOpen, TypeOK, Conn
  <2>2. /\ Invoked(k, q) /\ connected' = connected \cup {c}
        /\ backlog' \subseteq backlog \ {c} /\ UNCHANGED acceptErrors
    BY <1>7, <2>1 DEF Accept
  <2>3. backlog' \cap connected' = {}
    BY <1>2, <2>2
  <2>4. ASSUME acceptErrors' = 0, NEW l \in Server, NEW p \in Phase PROVE Counted(l, p)'
    <3>1. Counted(l, p)
      BY <1>1, <2>2, <2>4
    <3>2. /\ listener'[k][q].hasInvoked = listener[k][q].hasInvoked + 1
          /\ \A j \in Server, r \in Phase : <<j, r>> # <<k, q>> => listener'[j][r] = listener[j][r]
      BY <2>1, <2>2, InvokedType
    <3>3. CASE <<l, p>> # <<k, q>>
      <4>1. ConnectedTo(l, p)' = ConnectedTo(l, p)
        BY <2>1, <2>2, <3>3 DEF ConnectedTo
      <4>2. QED
        BY <3>1, <3>2, <3>3, <4>1 DEF Counted
    <3>4. CASE <<l, p>> = <<k, q>>
      <4>1. ConnectedTo(l, p)' = ConnectedTo(l, p) \cup {c.src}
        BY <2>1, <2>2, <3>4 DEF ConnectedTo
      <4>2. c.src \notin ConnectedTo(l, p)
        <5>1. ASSUME NEW e \in connected, e.dst = l, e.phase = p, e.src = c.src PROVE FALSE
          <6>1. e \in sockets /\ c \in sockets /\ e.phase = c.phase
            BY <2>1, <3>4, <5>1 DEF TypeOK
          <6>2. e = c
            BY <5>1, <6>1 DEF DialedOnce
          <6>3. QED
            BY <1>2, <5>1, <6>2
        <5>2. QED
          BY <5>1 DEF ConnectedTo
      <4>3. PICK S, x : S = ConnectedTo(l, p) /\ x = c.src
        OBVIOUS
      <4>4. IsFiniteSet(S) /\ listener[l][p].hasInvoked = Cardinality(S) /\ x \notin S
        BY <3>1, <4>2, <4>3 DEF Counted
      <4>5. IsFiniteSet(S \cup {x}) /\ Cardinality(S \cup {x}) = Cardinality(S) + 1
        BY <4>4, FS_AddElement
      <4>6. listener'[l][p].hasInvoked = Cardinality(S \cup {x})
        BY <3>2, <3>4, <4>4, <4>5
      <4>7. QED
        BY <4>1, <4>3, <4>5, <4>6 DEF Counted
    <3>5. QED
      BY <3>3, <3>4
  <2>5. QED
    BY <2>3, <2>4
<1>8. QED
  BY <1>3, <1>4, <1>5, <1>6, <1>7, ListenerChanges

LEMMA FirstViewInit == Init => FirstView
<1> SUFFICES ASSUME Init PROVE FirstView
  OBVIOUS
<1>1. NoneElected
  <2>1. ASSUME NEW s \in Server, NEW a \in Leaderships
        PROVE  /\ a # InitialLeadership \/ s = InitialLeader \/ s \notin booted => dialer[s][a] = NoDialer
               /\ dialer[s][a].pc \in {"none", "starting"}
               /\ dialer[s][a].pc = "starting" => s \in Booted /\ s # InitialLeader
    BY <2>1 DEF Init, Starting, InitialLeadership, NoDialer
  <2>2. \A s \in Server : s \in Booted /\ s # InitialLeader => coordinator[s] = InitialLeader
    BY DEF Init
  <2>3. nilMaps = {} /\ \A s \in Server : following[s] = {} /\ steering[s] = {}
    BY DEF Init
  <2>4. QED
    BY <2>1, <2>2, <2>3, ViewsAreNat DEF NoneElected
<1>2. DialedOnce
  BY DEF Init, DialedOnce
<1>3. \A l \in Server, p \in Phase :
         listener[l][p] = [open |-> l = InitialLeader /\ l \in Booted, hasInvoked |-> 0]
  BY DEF Init
<1>4. ListensOnce
  <2>1. toListen = {} /\ booted = Booted
    BY DEF Init
  <2>2. QED
    BY <1>3, <2>1 DEF ListensOnce
<1>5. InvokedCounts
  <2>1. backlog = {} /\ connected = {}
    BY DEF Init
  <2>2. \A l \in Server, p \in Phase : ConnectedTo(l, p) = {}
    BY <2>1 DEF ConnectedTo
  <2>3. IsFiniteSet({}) /\ Cardinality({}) = 0
    BY FS_EmptySet
  <2>4. ASSUME NEW l \in Server, NEW p \in Phase PROVE listener[l][p].hasInvoked = 0
    <3>1. listener[l][p] = [open |-> l = InitialLeader /\ l \in Booted, hasInvoked |-> 0]
      BY <1>3
    <3>2. QED
      BY <3>1
  <2>5. QED
    BY <2>1, <2>2, <2>3, <2>4 DEF InvokedCounts
<1>6. QED
  BY <1>1, <1>2, <1>4, <1>5 DEF FirstView

LEMMA FirstViewStep == DialInv /\ FirstView /\ [Next]_vars => FirstView'
<1> SUFFICES ASSUME DialInv, FirstView, [Next]_vars, announced' = {}
             PROVE  NoneElected' /\ DialedOnce' /\ ListensOnce' /\ InvokedCounts'
  BY DEF FirstView
<1>1. announced = {}
  BY MarksGrow
<1>2. TypeOK /\ ListenersOpen /\ ListensPerLeadership
  BY DEF DialInv
<1>3. NoneElected /\ DialedOnce /\ ListensOnce /\ InvokedCounts
  BY <1>1 DEF FirstView
<1>4. QED
  BY <1>1, <1>2, <1>3, NoneElectedStep, DialedOnceStep, ListensOnceStep, InvokedCountsStep

(* Before the first election and as long as Accept does not fail, a         *)
(* listener that closed heard all other servers, as its last line says      *)
(* ("All servers connected", lines 78, 108 and 139 of connections.go): each *)
(* of the n-1 connections it took came from another worker.                 *)
THEOREM FirstListenersHearAll == Spec => []AllConnectedAtFirst
<1>1. Init => DialInv /\ FirstView
  BY DialInit, FirstViewInit
<1>2. DialInv /\ FirstView /\ [Next]_vars => DialInv' /\ FirstView'
  BY DialStep, FirstViewStep
<1>3. ASSUME DialInv, FirstView PROVE AllConnectedAtFirst
  <2> SUFFICES ASSUME acceptErrors = 0, announced = {}, NEW l \in Server, NEW p \in Phase,
                      listener[l][p].hasInvoked > 0, ~listener[l][p].open
               PROVE  ConnectedTo(l, p) = Server \ {l}
    BY DEF AllConnectedAtFirst
  <2>1. TypeOK /\ ListenersOpen /\ DialedOnce /\ InvokedCounts
    BY <1>3 DEF DialInv, FirstView
  <2>2. AllInvoked(listener[l][p].hasInvoked)
    BY <2>1 DEF ListenersOpen
  <2>3. Cardinality(ConnectedTo(l, p)) = Cardinality(Server) - 1
    BY <2>1, <2>2 DEF InvokedCounts, AllInvoked
  <2>4. ConnectedTo(l, p) \subseteq Server \ {l}
    BY <2>1 DEF ConnectedTo, DialedOnce, TypeOK, Conn
  <2>5. IsFiniteSet(Server \ {l}) /\ Cardinality(Server \ {l}) = Cardinality(Server) - 1
    BY DialAssumption, FS_RemoveElement
  <2>6. QED
    BY <2>3, <2>4, <2>5, FS_Subset
<1>4. QED
  BY <1>1, <1>2, <1>3, PTL DEF Spec
=============================================================================
