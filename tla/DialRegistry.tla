---------------------------- MODULE DialRegistry ----------------------------
(***************************************************************************)
(* How workers and leaders get connected: the dialing of a new leader      *)
(* (comply.go), the listeners of the leader service (connections.go), the  *)
(* registration of workers by their ports (consensus.go, loadconf.go), and *)
(* the part of start() that drives both (handlers.go).                     *)
(*                                                                         *)
(* A worker dials the three phases one after another, from its registered  *)
(* port plus its view; the leader takes its own view off the port it sees  *)
(* and looks the rest up in the cluster file.  A listener takes n-1        *)
(* connections, whatever becomes of them, and closes.  No connection is    *)
(* ever closed by the program, so a local port stays in use.               *)
(*                                                                         *)
(* Elections are the environment: who wins which view is a constant, and   *)
(* who may adopt a view at any time, as voters do.  Of the campaigns of    *)
(* the candidates, which may be lost as well, this module has what start() *)
(* meets: the role, and whether requestVC waits in its select.  Of those   *)
(* of other servers it has the victories.  Election has all of them.       *)
(*                                                                         *)
(* Definitions whose name says what is wrong with them (LastPhaseSkipped,  *)
(* ...) are used by no action: each stands for a plausible bug in the      *)
(* definition after it, which the runs have to detect.                     *)
(***************************************************************************)
EXTENDS Integers, FiniteSets

CONSTANTS Server,
          InitialLeader, (* server 0                                          *)
          Booted,        (* servers that started before the behaviour; the    *)
                         (* initial leader among them listens already         *)
          Elections,     (* leaderships won later: [view, leader]             *)
          MaxView,       (* bound: highest view anybody campaigns in          *)
          Voters,        (* servers that may adopt a view of others           *)
          Candidates,    (* servers whose campaigns are followed step by step *)
          Host,          (* per server: its address in the cluster file       *)
          DialPort,      (* per server: the ports it dials from, by phase     *)
          LastPhase,     (* phases; post, order and commit in the code        *)
          MaxTry,        (* dials of one phase; 10 in the code                *)
          MaxAcceptError (* bound: calls of Accept that fail                  *)

InitialLeadership == [view |-> 0, leader |-> InitialLeader]
Leaderships == Elections \cup {InitialLeadership}
View == 0..MaxView

Phase == 1..LastPhase

ASSUME DialAssumption ==
       /\ IsFiniteSet(Server) /\ Cardinality(Server) > 1
       /\ InitialLeader \in Server /\ Booted \subseteq Server
       /\ MaxView \in Nat
       /\ IsFiniteSet(Elections) /\ Elections \subseteq [view : View \ {0}, leader : Server]
       /\ Voters \subseteq Server /\ Candidates \subseteq Server
       /\ DOMAIN Host = Server
       /\ DialPort \in [Server -> [Phase -> Nat]]
       /\ LastPhase \in Nat \ {0} /\ MaxTry \in Nat \ {0}
       /\ MaxAcceptError \in Nat

Nobody == "nobody"
NoConn == [port |-> 0]
NoDialer == [pc |-> "none"]

(* A connection, with the local address of the server that dialed it. *)
Conn == [src : Server, dst : Server, phase : Phase, port : Nat]

VARIABLES
  view,        (* per server: state.view                                     *)
  role,        (* per server: state.role                                     *)
  booted,      (* servers whose start() took the initial leadership          *)
  announced,   (* elections won                                              *)
  campaign,    (* per server: whether it computes a penalty or waits in the  *)
               (* select of requestVC                                        *)
  anotherLeader, (* servers whose notifyOfAnotherLeaderFound is full         *)
  following,   (* per server: inaugurations start() has not taken yet        *)
  steering,    (* per server: the inauguration it waits to follow            *)
  aborting,    (* per server: whether start() is to fill anotherLeader, or   *)
               (* to go back to worker                                       *)
  coordinator, (* per server: coordinatorIdOfPhases                          *)
  dialer,      (* per server and leadership: runAsWorkerStartDialingLeader   *)
  dialConns,   (* per server: DialogConnRegistry.conns                       *)
  nilMaps,     (* servers whose DialogConnRegistry maps are nil              *)
  sockets,     (* connections dialed: they keep their local ports            *)
  receiving,   (* <<s, l>>: s runs the receivers of leader l                 *)
  toListen,    (* <<l, p, a>>: accept goroutines that have not listened yet  *)
  listener,    (* per server and phase: whether it is open, and hasInvoked   *)
  backlog,     (* connections not accepted yet                               *)
  accepted,    (* connections accepted, whose handler has not registered     *)
  serverConns, (* per server and phase: serverConnNav, worker -> connection  *)
  acceptErrors,(* history: calls of Accept that failed                       *)
  gaveUp,      (* history: servers a dial of which failed MaxTry times       *)
  connected,   (* history: connections ever accepted                         *)
  panicked     (* servers stopped by a Go panic                              *)

elections == <<view, role, announced, campaign, anotherLeader>>
worker == <<coordinator, dialer, dialConns, sockets, receiving, gaveUp>>
leader == <<toListen, listener, backlog, accepted, serverConns, acceptErrors, connected>>

loop == <<following, steering, aborting>>

vars == <<elections, booted, loop, worker, nilMaps, leader, panicked>>

Up(s) == s \in booted \ panicked

NoConns == [l \in Server |-> [p \in Phase |-> NoConn]]
Starting(s, l) == IF s = l THEN NoDialer ELSE [pc |-> "starting"]
Service(l, a) == {<<l, p, a>> : p \in Phase}

Init ==
  /\ view = [s \in Server |-> 0]
  /\ role = [s \in Server |-> IF s = InitialLeader THEN "LEADER" ELSE "WORKER"]
  /\ booted = Booted
  /\ announced = {}
  /\ campaign = [s \in Server |-> "none"]
  /\ anotherLeader = {}
  /\ aborting = [s \in Server |-> "no"]
  /\ following = [s \in Server |-> {}]
  /\ steering = [s \in Server |-> {}]
  /\ coordinator = [s \in Server |-> IF s \in Booted \ {InitialLeader} THEN InitialLeader
                                     ELSE Nobody]
  /\ dialer = [s \in Server |-> [a \in Leaderships |->
                 IF s \in Booted /\ a = InitialLeadership THEN Starting(s, a.leader)
                 ELSE NoDialer]]
  /\ dialConns = [s \in Server |-> NoConns]
  /\ nilMaps = {}
  /\ sockets = {} /\ receiving = {}
  /\ toListen = {}
  /\ listener = [s \in Server |-> [p \in Phase |->
                   [open |-> s = InitialLeader /\ s \in Booted, hasInvoked |-> 0]]]
  /\ backlog = {} /\ accepted = {}
  /\ serverConns = [s \in Server |-> [p \in Phase |-> [w \in Server |-> NoConn]]]
  /\ acceptErrors = 0
  /\ gaveUp = {} /\ connected = {}
  /\ panicked = {}

-----------------------------------------------------------------------------
(* start() operates with the initial leadership: server 0 starts the leader *)
(* service, the others dial it.                                             *)
Boot(s) ==
  /\ s \notin booted
  /\ booted' = booted \cup {s}
  /\ IF s = InitialLeader
     THEN /\ toListen' = toListen \cup Service(s, InitialLeadership)
          /\ UNCHANGED <<coordinator, dialer>>
     ELSE /\ coordinator' = [coordinator EXCEPT ![s] = InitialLeader]
          /\ dialer' = [dialer EXCEPT ![s][InitialLeadership] = Starting(s, InitialLeader)]
          /\ UNCHANGED toListen
  /\ UNCHANGED <<elections, loop, dialConns, nilMaps, sockets, receiving, listener,
                 backlog, accepted, serverConns, acceptErrors, gaveUp, connected, panicked>>

(* A voter sets its view, and may set an earlier one again, as it compares  *)
(* before it sets (Election!ViewsAdvance is refuted).                       *)
AdoptView(s, v) ==
  /\ Up(s) /\ s \in Voters /\ v \in View \ {0, view[s]}
  /\ view' = [view EXCEPT ![s] = v]
  /\ UNCHANGED <<role, announced, campaign, anotherLeader, booted, loop, worker, nilMaps,
                 leader, panicked>>

(* A campaign computes its penalty, becomes a nominee of the next view and  *)
(* waits in the select, until it is told of another leader or else succeeds *)
(* or times out.                                                            *)
StartCampaign(s) ==
  /\ Up(s) /\ s \in Candidates /\ campaign[s] = "none" /\ view[s] + 1 \in View
  /\ campaign' = [campaign EXCEPT ![s] = "computing"]
  /\ role' = [role EXCEPT ![s] = "STARLET"]
  /\ UNCHANGED <<view, announced, anotherLeader, booted, loop, worker, nilMaps, leader, panicked>>

BecomeNominee(s) ==
  /\ Up(s) /\ campaign[s] = "computing" /\ view[s] + 1 \in View
  /\ campaign' = [campaign EXCEPT ![s] = "waiting"]
  /\ view' = [view EXCEPT ![s] = @ + 1]
  /\ role' = [role EXCEPT ![s] = "NOMINEE"]
  /\ UNCHANGED <<announced, anotherLeader, booted, loop, worker, nilMaps, leader, panicked>>

CampaignAborted(s) ==
  /\ Up(s) /\ campaign[s] = "waiting" /\ s \in anotherLeader
  /\ campaign' = [campaign EXCEPT ![s] = "none"]
  /\ anotherLeader' = anotherLeader \ {s}
  /\ UNCHANGED <<view, role, announced, booted, loop, worker, nilMaps, leader, panicked>>

CampaignEnds(s) ==
  /\ Up(s) /\ campaign[s] = "waiting"
  /\ campaign' = [campaign EXCEPT ![s] = "none"]
  /\ UNCHANGED <<view, role, announced, anotherLeader, booted, loop, worker, nilMaps, leader,
                 panicked>>

(* A campaign that wins, from its start to the announcement, and for a      *)
(* server that is no candidate to its end.  The inauguration reaches        *)
(* everybody, and sets the view of nobody.                                  *)
Win(a) ==
  /\ a \in Elections \ announced
  /\ Up(a.leader) /\ view[a.leader] <= a.view
  /\ announced' = announced \cup {a}
  /\ view' = [view EXCEPT ![a.leader] = a.view]
  /\ role' = [role EXCEPT ![a.leader] = "NOMINEE"]
  /\ campaign' = [campaign EXCEPT ![a.leader] = IF a.leader \in Candidates THEN "waiting" ELSE @]
  /\ following' = [s \in Server |-> following[s] \cup {a}]
  /\ UNCHANGED <<anotherLeader, booted, steering, aborting, worker, nilMaps, leader, panicked>>

(* The dialers of a server hold the lock of its coordinator ids for reading *)
(* until they are through; start() needs it for writing.                    *)
CoordinatorKeptLocked(s) == \E a \in Leaderships : dialer[s][a].pc \in {"dialing", "done"}
CoordinatorLocked(s) == \E a \in Leaderships : dialer[s][a].pc = "dialing"

(* start() takes an inauguration.  A nominee that won drops its dial maps   *)
(* and starts the leader service, ...                                       *)
TakeInauguration(s, a) ==
  /\ Up(s) /\ a \in following[s] /\ steering[s] = {} /\ aborting[s] = "no"
  /\ following' = [following EXCEPT ![s] = @ \ {a}]

StartLeaderService(s, a) ==
  /\ TakeInauguration(s, a)
  /\ a.leader = s /\ role[s] = "NOMINEE"
  /\ nilMaps' = nilMaps \cup {s}
  /\ dialConns' = [dialConns EXCEPT ![s] = NoConns]
  /\ toListen' = toListen \cup Service(s, a)
  /\ UNCHANGED <<elections, booted, steering, aborting, coordinator, dialer, sockets, receiving, listener,
                 backlog, accepted, serverConns, acceptErrors, gaveUp, connected, panicked>>

(* ... a worker and a leader that steps down turn to the new leader, and    *)
(* take no other inauguration until they have the lock, ...                 *)
ChangeLeader(s, a) ==
  /\ TakeInauguration(s, a)
  /\ a.leader # s /\ role[s] \in {"LEADER", "WORKER"}
  /\ steering' = [steering EXCEPT ![s] = {a}]
  /\ UNCHANGED <<elections, booted, aborting, worker, nilMaps, leader, panicked>>

FollowLeader(s, a) ==
  /\ Up(s) /\ a \in steering[s]
  /\ ~CoordinatorLocked(s)
  /\ steering' = [steering EXCEPT ![s] = {}]
  /\ coordinator' = [coordinator EXCEPT ![s] = a.leader]
  /\ dialer' = [dialer EXCEPT ![s][a] = Starting(s, a.leader)]
  /\ UNCHANGED <<elections, booted, following, aborting, dialConns, sockets, receiving, gaveUp,
                 nilMaps, leader, panicked>>

(* ... another nominee tells its campaign, which waits as long as the       *)
(* channel of capacity 1 is full, and goes back to worker without dialing   *)
(* anybody.  The token stays in the channel when the campaign had ended.    *)
FindAnotherLeader(s, a) ==
  /\ TakeInauguration(s, a)
  /\ a.leader # s /\ role[s] = "NOMINEE"
  /\ aborting' = [aborting EXCEPT ![s] = "notify"]
  /\ UNCHANGED <<elections, booted, steering, worker, nilMaps, leader, panicked>>

AbortCampaign(s) ==
  /\ Up(s) /\ aborting[s] = "notify" /\ s \notin anotherLeader
  /\ anotherLeader' = anotherLeader \cup {s}
  /\ aborting' = [aborting EXCEPT ![s] = "demote"]
  /\ UNCHANGED <<view, role, announced, campaign, booted, following, steering, worker, nilMaps,
                 leader, panicked>>

BackToWorker(s) ==
  /\ Up(s) /\ aborting[s] = "demote"
  /\ aborting' = [aborting EXCEPT ![s] = "no"]
  /\ role' = [role EXCEPT ![s] = "WORKER"]
  /\ UNCHANGED <<view, announced, campaign, anotherLeader, booted, following, steering, worker,
                 nilMaps, leader, panicked>>

(* Nothing is done by a server that computes its penalty, and the own       *)
(* inauguration of a server that is no nominee is only logged.              *)
IgnoreInauguration(s, a) ==
  /\ TakeInauguration(s, a)
  /\ IF a.leader = s THEN role[s] # "NOMINEE" ELSE role[s] = "STARLET"
  /\ UNCHANGED <<elections, booted, steering, aborting, worker, nilMaps, leader, panicked>>

-----------------------------------------------------------------------------
(* runAsWorkerStartDialingLeader.  establishDialConn fixes the local port   *)
(* before its tries.                                                        *)
LocalPort(s, p) == DialPort[s][p] + view[s]

LastPhaseSkipped(p) == p >= LastPhase
PastLastPhase(p) == p > LastPhase

Dialing(s, l, p) ==
  IF PastLastPhase(p) THEN [pc |-> "dialed", to |-> l]
  ELSE [pc |-> "dialing", to |-> l, phase |-> p, port |-> LocalPort(s, p), tries |-> 0]

StartDialing(s, a) ==
  /\ Up(s) /\ dialer[s][a].pc = "starting"
  /\ dialer' = [dialer EXCEPT ![s][a] = Dialing(s, coordinator[s], 1)]
  /\ UNCHANGED <<elections, booted, loop, coordinator, dialConns, sockets, receiving,
                 gaveUp, nilMaps, leader, panicked>>

PortInUse(s, port) == \E c \in sockets : Host[c.src] = Host[s] /\ c.port = port

Reaches(s, d) == /\ Up(d.to) /\ listener[d.to][d.phase].open
                 /\ ~PortInUse(s, d.port)

(* A dial gets through and is registered, which panics when the maps are    *)
(* nil.                                                                     *)
DialConnects(s, a) ==
  LET d == dialer[s][a]
      c == [src |-> s, dst |-> d.to, phase |-> d.phase, port |-> d.port]
  IN /\ Up(s) /\ d.pc = "dialing" /\ Reaches(s, d)
     /\ sockets' = sockets \cup {c}
     /\ backlog' = backlog \cup {c}
     /\ IF s \in nilMaps
        THEN /\ panicked' = panicked \cup {s}
             /\ UNCHANGED <<dialer, dialConns>>
        ELSE /\ dialConns' = [dialConns EXCEPT ![s][d.to][d.phase] = c]
             /\ dialer' = [dialer EXCEPT ![s][a] = Dialing(s, d.to, d.phase + 1)]
             /\ UNCHANGED panicked
     /\ UNCHANGED <<elections, booted, loop, coordinator, receiving, gaveUp, nilMaps,
                    toListen, listener, accepted, serverConns, acceptErrors, connected>>

(* The last try that fails leaves the phase unregistered, and goes on. *)
DialFails(s, a) ==
  LET d == dialer[s][a]
  IN /\ Up(s) /\ d.pc = "dialing" /\ ~Reaches(s, d)
     /\ IF d.tries + 1 = MaxTry
        THEN /\ dialer' = [dialer EXCEPT ![s][a] = Dialing(s, d.to, d.phase + 1)]
             /\ gaveUp' = gaveUp \cup {s}
        ELSE /\ dialer' = [dialer EXCEPT ![s][a].tries = @ + 1]
             /\ UNCHANGED gaveUp
     /\ UNCHANGED <<elections, booted, loop, coordinator, dialConns, sockets, receiving,
                    nilMaps, leader, panicked>>

(* The receivers use what the registry holds by then: a connection that is  *)
(* missing is a nil pointer.                                                *)
StartReceiving(s, a) ==
  LET l == dialer[s][a].to
  IN /\ Up(s) /\ dialer[s][a].pc = "dialed"
     /\ dialer' = [dialer EXCEPT ![s][a] = [pc |-> "done"]]
     /\ IF \E p \in Phase : dialConns[s][l][p] = NoConn
        THEN panicked' = panicked \cup {s} /\ UNCHANGED receiving
        ELSE receiving' = receiving \cup {<<s, l>>} /\ UNCHANGED panicked
     /\ UNCHANGED <<elections, booted, loop, coordinator, dialConns, sockets, gaveUp,
                    nilMaps, leader>>

-----------------------------------------------------------------------------
(* acceptPostPhaseConnections and its two likes.  When the listener of an   *)
(* earlier leadership is still open, Listen fails and the deferred close    *)
(* calls a nil listener.                                                    *)
Listen(l, p, a) ==
  /\ Up(l) /\ <<l, p, a>> \in toListen
  /\ toListen' = toListen \ {<<l, p, a>>}
  /\ IF listener[l][p].open
     THEN panicked' = panicked \cup {l} /\ UNCHANGED listener
     ELSE /\ listener' = [listener EXCEPT ![l][p] = [open |-> TRUE, hasInvoked |-> 0]]
          /\ UNCHANGED panicked
  /\ UNCHANGED <<elections, booted, loop, worker, nilMaps, backlog, accepted, serverConns,
                 acceptErrors, connected>>

(* Every return of Accept counts; the listener closes after the (n-1)st,    *)
(* and what is in its backlog is reset.                                     *)
AllInvokedEarly(k) == k >= Cardinality(Server) - 2
AllInvokedLate(k) == k = Cardinality(Server)
AllInvoked(k) == k = Cardinality(Server) - 1

Invoked(l, p) ==
  LET k == listener[l][p].hasInvoked + 1
  IN listener' = [listener EXCEPT ![l][p] = [open |-> ~AllInvoked(k), hasInvoked |-> k]]

Waiting(l, p) == {c \in backlog : c.dst = l /\ c.phase = p}
ResetOnClose(l, p) == IF listener'[l][p].open THEN {} ELSE Waiting(l, p)

Accept(c) ==
  LET l == c.dst
      p == c.phase
  IN /\ Up(l) /\ c \in backlog
     /\ Invoked(l, p)
     /\ backlog' = backlog \ (ResetOnClose(l, p) \cup {c})
     /\ accepted' = accepted \cup {c}
     /\ connected' = connected \cup {c}
     /\ UNCHANGED <<elections, booted, loop, worker, nilMaps, toListen, serverConns,
                    acceptErrors, panicked>>

AcceptFails(l, p) ==
  /\ Up(l) /\ listener[l][p].open
  /\ acceptErrors < MaxAcceptError
  /\ acceptErrors' = acceptErrors + 1
  /\ Invoked(l, p)
  /\ backlog' = backlog \ ResetOnClose(l, p)
  /\ UNCHANGED <<elections, booted, loop, worker, nilMaps, toListen, accepted, serverConns,
                 connected, panicked>>

(* registerIncomingWorkerServers: parseClusterConf mapped each of the three *)
(* dial ports of a server to it.                                            *)
ServersAt(host, port) == {s \in Server : Host[s] = host /\ \E p \in Phase : DialPort[s][p] = port}

RegisteredPortOfNextView(l, c) == c.port - (view[l] + 1)
RegisteredPort(l, c) == c.port - view[l]

Sender(l, c) == ServersAt(Host[c.src], RegisteredPort(l, c))

Register(c) ==
  LET l == c.dst
  IN /\ Up(l) /\ c \in accepted
     /\ accepted' = accepted \ {c}
     /\ \E sid \in Sender(l, c) :
          serverConns' = [serverConns EXCEPT ![l][c.phase][sid] = c]
     /\ UNCHANGED <<elections, booted, loop, worker, nilMaps, toListen, listener, backlog,
                    acceptErrors, connected, panicked>>

(* "incoming connection conf was not loaded": the handler returns. *)
Reject(c) ==
  LET l == c.dst
  IN /\ Up(l) /\ c \in accepted
     /\ Sender(l, c) = {}
     /\ accepted' = accepted \ {c}
     /\ UNCHANGED <<elections, booted, loop, worker, nilMaps, toListen, listener, backlog,
                    serverConns, acceptErrors, connected, panicked>>

-----------------------------------------------------------------------------
Campaign(s) == StartCampaign(s) \/ BecomeNominee(s) \/ CampaignAborted(s) \/ CampaignEnds(s)

RoleLoop(s) ==
  \/ \E a \in Elections :
        \/ StartLeaderService(s, a) \/ ChangeLeader(s, a) \/ FollowLeader(s, a)
        \/ FindAnotherLeader(s, a) \/ IgnoreInauguration(s, a)
  \/ AbortCampaign(s) \/ BackToWorker(s)

Dial(s) ==
  \E a \in Leaderships :
     StartDialing(s, a) \/ DialConnects(s, a) \/ DialFails(s, a) \/ StartReceiving(s, a)

Serve(l) ==
  \/ \E p \in Phase, a \in Leaderships : Listen(l, p, a)
  \/ \E c \in backlog : c.dst = l /\ Accept(c)
  \/ \E c \in accepted : c.dst = l /\ (Register(c) \/ Reject(c))

Next ==
  \/ \E s \in Server : Boot(s) \/ Campaign(s) \/ RoleLoop(s) \/ Dial(s) \/ Serve(s)
  \/ \E s \in Server, v \in View : AdoptView(s, v)
  \/ \E a \in Elections : Win(a)
  \/ \E l \in Server, p \in Phase : AcceptFails(l, p)

Spec == Init /\ [][Next]_vars

(* A server whose role loop, dials or campaign can go on does something of  *)
(* them: a dial ends one way or the other, and the select of a campaign has *)
(* a timer.  Each takes finitely many steps, so none is left out.  Nothing  *)
(* makes servers boot, campaign, vote or win; leaders that accept and       *)
(* register are assumed where it matters.  Every step of GoOn changes one   *)
(* of the variables of going.                                               *)
GoOn(s) == RoleLoop(s) \/ Dial(s) \/ CampaignAborted(s) \/ CampaignEnds(s)
going == <<loop, dialer, campaign>>

FairSpec == Spec /\ \A s \in Candidates : WF_going(GoOn(s))

ServedSpec == Spec /\ \A s \in Server : WF_going(GoOn(s)) /\ WF_vars(Serve(s))

-----------------------------------------------------------------------------
(* The type invariant. *)
Dialer ==
  [pc : {"none", "starting", "done"}] \cup [pc : {"dialed"}, to : Server]
    \cup [pc : {"dialing"}, to : Server, phase : Phase, port : Nat, tries : 0..(MaxTry - 1)]

TypeOK ==
  /\ view \in [Server -> View]
  /\ role \in [Server -> {"LEADER", "NOMINEE", "STARLET", "WORKER"}]
  /\ campaign \in [Server -> {"none", "computing", "waiting"}]
  /\ anotherLeader \subseteq Server
  /\ aborting \in [Server -> {"no", "notify", "demote"}]
  /\ booted \subseteq Server /\ panicked \subseteq booted
  /\ announced \subseteq Elections
  /\ following \in [Server -> SUBSET Elections] /\ steering \in [Server -> SUBSET Elections]
  /\ coordinator \in [Server -> Server \cup {Nobody}]
  /\ dialer \in [Server -> [Leaderships -> Dialer]]
  /\ dialConns \in [Server -> [Server -> [Phase -> Conn \cup {NoConn}]]]
  /\ nilMaps \subseteq Server /\ gaveUp \subseteq Server
  /\ sockets \subseteq Conn
  /\ receiving \subseteq Server \X Server
  /\ toListen \subseteq Server \X Phase \X Leaderships
  /\ listener \in [Server -> [Phase -> [open : BOOLEAN, hasInvoked : 0..(Cardinality(Server) - 1)]]]
  /\ backlog \subseteq sockets /\ connected \subseteq sockets /\ accepted \subseteq connected
  /\ serverConns \in [Server -> [Phase -> [Server -> connected \cup {NoConn}]]]
  /\ acceptErrors \in 0..MaxAcceptError

(* The leader takes a worker for the server that dialed, and only when it   *)
(* dialed in the view that the leader is in by then (lines 212-214 of       *)
(* consensus.go undo lines 75-98 of comply.go): the ports of two views, two *)
(* phases and two servers never meet.                                       *)
DialedIn(c) == c.port - DialPort[c.src][c.phase]

RegisteredInItsView ==
  [][\A c \in accepted \ accepted' :
        serverConns' = IF DialedIn(c) = view[c.dst]
                       THEN [serverConns EXCEPT ![c.dst][c.phase][c.src] = c]
                       ELSE serverConns]_vars

(* "All servers connected; ... closing %s Listener" (lines 78, 108 and 139  *)
(* of connections.go).                                                      *)
ConnectedTo(l, p) == {c.src : c \in {x \in connected : x.dst = l /\ x.phase = p}}

AllServersConnected ==
  \A l \in Server, p \in Phase :
     AllInvoked(listener[l][p].hasInvoked) => ConnectedTo(l, p) = Server \ {l}

(* That is so of a listener that closed, as long as Accept does not fail    *)
(* and nobody is elected: a worker dials each phase once.                   *)
AllConnectedAtFirst ==
  acceptErrors = 0 /\ announced = {} =>
     \A l \in Server, p \in Phase :
        listener[l][p].hasInvoked > 0 /\ ~listener[l][p].open
          => ConnectedTo(l, p) = Server \ {l}

(* A server that dialed all it was to dial survives: a panic takes a phase  *)
(* given up before (lines 119-136 and 331-350 of comply.go), maps dropped   *)
(* at an earlier victory (line 177 of handlers.go), or two leaderships of   *)
(* one server (line 60 of connections.go).                                  *)
Leads(s) == {a \in announced \cup {InitialLeadership} : a.leader = s}

DialersSurvive ==
  \A s \in panicked : s \in gaveUp \cup nilMaps \/ Cardinality(Leads(s)) > 1

-----------------------------------------------------------------------------
(* What the proofs of DialRegistryProofs rest on.  Who starts to dial knows *)
(* whom, connections wait at open listeners only, and those are not through *)
(* with their n-1 calls of Accept.                                          *)
ListenersOpen ==
  /\ \A s \in Server, a \in Leaderships : dialer[s][a].pc = "starting" => coordinator[s] \in Server
  /\ \A c \in backlog : listener[c.dst][c.phase].open
  /\ \A l \in Server, p \in Phase :
        LET n == listener[l][p]
        IN IF n.open THEN ~AllInvoked(n.hasInvoked) ELSE n.hasInvoked = 0 \/ AllInvoked(n.hasInvoked)

(* A port that is dialed from is a registered one plus a view.              *)
PortOfAView(s, p, port) == \E v \in View : port = DialPort[s][p] + v

PortsOfViews ==
  /\ \A s \in Server, a \in Leaderships :
        LET d == dialer[s][a] IN d.pc = "dialing" => PortOfAView(s, d.phase, d.port)
  /\ \A c \in sockets : PortOfAView(c.src, c.phase, c.port)

(* A server that gave up no dial and kept its maps has the connections of   *)
(* the phases it went through.                                              *)
DialedPhases ==
  \A s \in Server \ (gaveUp \cup nilMaps), a \in Leaderships, p \in Phase :
     LET d == dialer[s][a]
     IN d.pc = "dialed" \/ (d.pc = "dialing" /\ p < d.phase) => dialConns[s][d.to][p] # NoConn

(* A listener that is open was opened for a leadership whose accept         *)
(* goroutines of that phase are not to come any more.                       *)
Begun(s, a) == a \in Leads(s) /\ a \notin following[s] /\ (a = InitialLeadership => s \in booted)

ListensPerLeadership ==
  /\ \A s \in Server : following[s] \subseteq announced
  /\ \A entry \in toListen : Begun(entry[1], entry[3])
  /\ \A l \in Server, p \in Phase :
        listener[l][p].open => \E a \in Leaderships : Begun(l, a) /\ <<l, p, a>> \notin toListen

DialInv == TypeOK /\ ListenersOpen /\ PortsOfViews /\ DialedPhases /\ ListensPerLeadership
           /\ DialersSurvive

(* Until somebody is elected, only workers dial, only the initial leader is *)
(* dialed, and each phase of a worker once.                                 *)
NoneElected ==
  /\ nilMaps = {}
  /\ \A s \in Server : following[s] = {} /\ steering[s] = {}
  /\ \A s \in Server, a \in Leaderships :
        a # InitialLeadership \/ s = InitialLeader \/ s \notin booted => dialer[s][a] = NoDialer
  /\ \A s \in Server :
        LET d == dialer[s][InitialLeadership]
        IN /\ d.pc = "starting" => coordinator[s] = InitialLeader
           /\ d.pc \in {"dialing", "dialed"} => d.to = InitialLeader

DialedOnce ==
  /\ \A c \in sockets :
        /\ c.dst = InitialLeader /\ c.src # InitialLeader
        /\ LET d == dialer[c.src][InitialLeadership]
           IN d.pc \in {"dialed", "done"} \/ (d.pc = "dialing" /\ c.phase < d.phase)
  /\ \A c, d \in sockets : c.src = d.src /\ c.phase = d.phase => c = d

(* What is to listen has not listened before, and a listener counts the     *)
(* servers that connected.                                                  *)
ListensOnce ==
  \A l \in Server, p \in Phase :
     (l \notin booted \/ \E a \in Leaderships : <<l, p, a>> \in toListen)
        => listener[l][p] = [open |-> FALSE, hasInvoked |-> 0]

InvokedCounts ==
  /\ backlog \cap connected = {}
  /\ acceptErrors = 0 =>
       \A l \in Server, p \in Phase :
          /\ IsFiniteSet(ConnectedTo(l, p))
          /\ listener[l][p].hasInvoked = Cardinality(ConnectedTo(l, p))

FirstView == announced = {} => NoneElected /\ DialedOnce /\ ListensOnce /\ InvokedCounts

(* The ports that two servers of one address dial from differ, in any views *)
(* and phases, and so do those of one server in two views: the cluster file *)
(* leaves more room between its dial ports than there are views.            *)
PortsApart ==
  \A s, t \in Server, p, q \in Phase, v, w \in View :
     Host[s] = Host[t] /\ DialPort[s][p] + v = DialPort[t][q] + w => s = t /\ v = w

-----------------------------------------------------------------------------
(* The token of a campaign that had ended before start() sent it: start()   *)
(* waits to send the next, and nobody is there to receive.                  *)
TokenLeft(s) == aborting[s] = "notify" /\ s \in anotherLeader /\ campaign[s] # "waiting"

(* A candidate that lives takes every inauguration it heard of and is ready *)
(* for the next, again and again: the dialers hold the lock that start()    *)
(* needs for a bounded number of tries (lines 15-28 of comply.go, 210-235   *)
(* of handlers.go), and a campaign in its select takes the token of line    *)
(* 213 of handlers.go or ends.  What holds start() up is the token of an    *)
(* earlier campaign.  Said of the servers whose campaigns are followed step *)
(* by step; nothing of it rests on what other servers do.                   *)
Ready(s) == following[s] \cup steering[s] = {} /\ aborting[s] = "no"

InaugurationIsTaken ==
  \A s \in Candidates : []<>(s \in booted => Ready(s) \/ s \in panicked \/ TokenLeft(s))

(* As long as everybody is in the first view, a worker that runs along with *)
(* the leader gets all its connections registered, or gives up one.         *)
Linked(l, w) == \A p \in Phase : serverConns[l][p][w] # NoConn
InFirstView == \A s \in Server : view[s] = 0

WorkersLink ==
  \A w \in Server \ {InitialLeader} :
     {InitialLeader, w} \subseteq booted
       ~> Linked(InitialLeader, w) \/ w \in gaveUp \/ acceptErrors > 0 \/ ~InFirstView
=============================================================================
