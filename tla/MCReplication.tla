---------------------------- MODULE MCReplication ----------------------------
(***************************************************************************)
(* Values and symmetry for the runs of Replication.  The leaders are named *)
(* by their constants, so only servers that are neither leaders nor hold   *)
(* other keys may be permuted.                                             *)
(***************************************************************************)
EXTENDS Replication, TLC

Workers == Server \ (Leaders \cup BadKey)

WorkerSymmetry == Permutations(Workers)

(* Bound of the runs with two leaders: messages in flight at one time. *)
MaxInFlight == 4
FewInFlight == Cardinality(msgs) <= MaxInFlight

(* There a worker that comes late registers before the first block, and     *)
(* nothing is followed past a crash: ReplicationN5 has both at any time.    *)
AllRegistered == \A l \in Leaders, p \in Phase : registered[l][p] = Server \ {l}
RegisteredFirst == AllRegistered \/ \A l \in Leaders : blockIdCounter[l] = 0
NobodyCrashed == \A s \in Server : status[s] # "crashed"
=============================================================================
