---------------------------- MODULE PenSignature ----------------------------
(***************************************************************************)
(* Quorum arithmetic (parameters.go) and the threshold signature wrapper   *)
(* (penKeyGen/thresholdSignature.go, utilities.go).  The pairing crypto    *)
(* itself is abstracted: a share verifies on exactly the message it was    *)
(* made for, and a combined signature is identified with the message it    *)
(* verifies on.                                                            *)
(*                                                                         *)
(* QuorumOffByOne and PenRecoversUnchecked are used by no definition: each  *)
(* stands for a plausible bug in the one after it, for the runs to detect.  *)
(***************************************************************************)
EXTENDS Integers, FiniteSets, Sequences

CONSTANTS Server,   (* the servers of the cluster file                    *)
          BadKey,   (* servers whose cluster file holds other secrets:    *)
                    (* they derive a different polynomial                 *)
          NoHash    (* the digest of nothing                              *)

ASSUME ServerAssumption ==
       /\ IsFiniteSet(Server)
       /\ Cardinality(Server) >= 3
       /\ BadKey \subseteq Server

-----------------------------------------------------------------------------
(* Go's integer division: NumOfServers/3*2 + 1 *)
N         == Cardinality(Server)
QuorumOffByOne == (N \div 3) * 2
Quorum    == (N \div 3) * 2 + 1
Threshold == Quorum - 1

(* A partial signature: the index of the key share and the digest that the  *)
(* cluster's public polynomial verifies it on.                              *)
Share(Digest) == [signer : Server, msg : Digest \cup {NoHash}]

PenSign(s, digest) ==
  [signer |-> s, msg |-> IF s \in BadKey THEN NoHash ELSE digest]

(* Partial verification at server s: a server with other secrets evaluates  *)
(* another public polynomial, so nothing of the cluster verifies there.     *)
PenVerifyPartially(s, digest, share) == s \notin BadKey /\ share.msg = digest

(* Recover reads the shares in order, stops after Threshold of them, fails  *)
(* at the first that does not verify, and interpolation fails when two of   *)
(* them carry the same index.                                               *)
PenRecoversUnchecked(shares, digest) == Len(shares) >= Threshold

PenRecovers(shares, digest) ==
  /\ Len(shares) >= Threshold
  /\ \A i \in 1..Threshold : shares[i].msg = digest
  /\ \A i, j \in 1..Threshold : i # j => shares[i].signer # shares[j].signer

(* Verification at server s of the combined signature on digest `signed'. *)
PenVerify(s, digest, signed) == s \notin BadKey /\ signed = digest
=============================================================================
