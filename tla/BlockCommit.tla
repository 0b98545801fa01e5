----------------------------- MODULE BlockCommit -----------------------------
(***************************************************************************)
(* What the replication of blocks promises, without caches and messages:   *)
(* a block is accepted by servers one at a time, prepared only once a      *)
(* quorum accepted it, and committed only once a quorum prepared it, by    *)
(* the server that proposed it first.                                      *)
(***************************************************************************)
CONSTANTS Server,   (* the servers                                         *)
          Block,    (* pairs of the proposing server and a block id        *)
          Quorums   (* sets of servers whose votes decide a phase          *)

VARIABLES accepted,   (* per block: the servers that vouched for its digest *)
          prepared,   (* per block: the servers that saw a quorum accept it *)
          committed   (* per block: the servers that committed it           *)

vars == <<accepted, prepared, committed>>

Init ==
  /\ accepted = [h \in Block |-> {}]
  /\ prepared = [h \in Block |-> {}]
  /\ committed = [h \in Block |-> {}]

Accept(s, h) ==
  /\ accepted' = [accepted EXCEPT ![h] = @ \cup {s}]
  /\ UNCHANGED <<prepared, committed>>

Prepare(s, h) ==
  /\ accepted[h] \in Quorums
  /\ prepared' = [prepared EXCEPT ![h] = @ \cup {s}]
  /\ UNCHANGED <<accepted, committed>>

(* A server other than the proposer commits what it prepared itself, after  *)
(* the proposer did.                                                        *)
Commit(s, h) ==
  /\ prepared[h] \in Quorums
  /\ s = h[1] \/ (s \in prepared[h] /\ h[1] \in committed[h])
  /\ committed' = [committed EXCEPT ![h] = @ \cup {s}]
  /\ UNCHANGED <<accepted, prepared>>

Next == \E s \in Server, h \in Block : Accept(s, h) \/ Prepare(s, h) \/ Commit(s, h)

Spec == Init /\ [][Next]_vars
=============================================================================
