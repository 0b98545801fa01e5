--------------------------- MODULE MCDialRegistry ---------------------------
(***************************************************************************)
(* The cluster file of the runs of DialRegistry, after                     *)
(* config/cluster_localhost.conf: all servers share an address, the three  *)
(* dial ports of a server are further apart than the views of a run, and   *)
(* those of two servers further than its phases.                           *)
(***************************************************************************)
EXTENDS DialRegistry, TLC

CONSTANTS s0, s1, s2

LocalHost == [s \in Server |-> "127.0.0.1"]
Row == s0 :> 0 @@ s1 :> 1 @@ s2 :> 2
LocalPorts == [s \in Server |-> [p \in Phase |-> 100 * Row[s] + 10 * p]]

Elected(v, s) == [view |-> v, leader |-> s]
NoElections == {}
TwiceTheSame == {Elected(1, s1), Elected(2, s1)}
=============================================================================
