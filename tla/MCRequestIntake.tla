--------------------------- MODULE MCRequestIntake ---------------------------
(***************************************************************************)
(* Values for the runs of RequestIntake.                                   *)
(***************************************************************************)
EXTENDS RequestIntake

CONSTANTS s0, s1, s2, c1, c2

(* Two workers relay to the leader s0. *)
WorkerLinks == {<<s1, s0>>, <<s2, s0>>}

OneLink == {<<s1, s0>>}
NoLinks == {}

(* After a view change: s1 leads, its relay to s0 still runs, s0 stepped    *)
(* down and relays to s1.                                                   *)
LinksAfterViewChange == {<<s1, s0>>, <<s0, s1>>, <<s2, s0>>}

NoRequests == {}
FirstOfC1 == {[client |-> c1, ts |-> 1]}

(* Bounds of the run without liveness: how many requests all servers read,  *)
(* those that were sent again included.  A server that keeps its clients    *)
(* locked goes on as one that nobody else connects to: it is not followed.  *)
MaxReads == 4
FewReads ==
  /\ SumFunction([s \in Server |-> SumFunction(reads[s])]) <= MaxReads
  /\ clientLock = {}
=============================================================================
