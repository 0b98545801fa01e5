--------------------------- MODULE LeaderElection ---------------------------
(***************************************************************************)
(* What the view changes promise, without caches, locks and messages:      *)
(* servers endorse campaigns one at a time, a campaign is won only with    *)
(* the endorsements of a deciding set of servers, and nobody follows or    *)
(* serves as anyone but the initial leader and those who won.              *)
(***************************************************************************)
CONSTANTS Server,        (* the servers                                     *)
          Campaigns,     (* pairs of the server that campaigns and a view   *)
          Deciding,      (* sets of servers whose endorsements decide       *)
          InitialLeader  (* the leader before any campaign                  *)

VARIABLES endorsed, (* pairs of a server and a campaign it endorsed          *)
          won,      (* the campaigns that were won                           *)
          leader,   (* per server: whom it follows                           *)
          serving   (* the servers that lead                                 *)

vars == <<endorsed, won, leader, serving>>

Init ==
  /\ endorsed = {}
  /\ won = {}
  /\ leader = [s \in Server |-> InitialLeader]
  /\ serving = {InitialLeader}

HasWon(s) == \E c \in won : c[1] = s

Endorse ==
  /\ UNCHANGED <<won, leader, serving>>
  /\ \E s \in Server, c \in Campaigns : endorsed' = endorsed \cup {<<s, c>>}

Win ==
  /\ UNCHANGED <<endorsed, leader, serving>>
  /\ \E c \in Campaigns :
       /\ {s \in Server : <<s, c>> \in endorsed} \in Deciding
       /\ won' = won \cup {c}

Follow ==
  /\ UNCHANGED <<endorsed, won, serving>>
  /\ \E s, l \in Server : HasWon(l) /\ leader' = [leader EXCEPT ![s] = l]

Serve ==
  /\ UNCHANGED <<endorsed, won, leader>>
  /\ \E s \in Server : HasWon(s) /\ serving' = serving \cup {s}

Next == Endorse \/ Win \/ Follow \/ Serve

Spec == Init /\ [][Next]_vars
=============================================================================
