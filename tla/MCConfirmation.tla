--------------------------- MODULE MCConfirmation ---------------------------
(***************************************************************************)
(* Values for the runs of Confirmation: everybody is connected everywhere, *)
(* or the clients know the leader s0 alone, where c2 comes and goes, and   *)
(* c2 knows a server that commits nothing.                                 *)
(***************************************************************************)
EXTENDS Confirmation, MCReplication

CONSTANTS c1, c2, s0, s3

AllLinked == Server \X Client
NotTheSecond == Server \X {c1}
LeftTheLeader == {<<s0, c2>>}
KnowTheLeader == {s0} \X Client \cup {<<s3, c2>>}
Unsteady == {<<s0, c2>>, <<s3, c2>>}
=============================================================================
