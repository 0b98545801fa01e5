---------------------------- MODULE PaidElection ----------------------------
(***************************************************************************)
(* Elections in which a campaign pays for its penalty first                *)
(* (startNewElectionCampaignAsStarlet with the -r flag, vchanges.go; the   *)
(* threads that search a nonce, paypenalty.go; the engine, Reputation).    *)
(*                                                                         *)
(* The threads of a server are alike, so they are counted by where they    *)
(* are: before the test of nonceFound, or between it and the next one.     *)
(* nonceFound belongs to the process: nothing resets it.  Threads read and *)
(* write it without a lock; a read of an old value is a read before the    *)
(* write, since every round of the loop loads it again.                    *)
(***************************************************************************)
EXTENDS Election, Reputation

CONSTANTS Threads,       (* NumOfPenaltyThreads                              *)
          PastPenalties, (* 1 to 5 in the code, a "test case"                *)
          TLeft, TAll,   (* 200 and 400 in the code                          *)
          DigestLength,  (* hexadecimal digits; 64 in the code               *)
          EngineMayFail  (* whether the process of the engine may fail       *)

ASSUME PaymentAssumption ==
       /\ Threads \in Nat
       /\ PastPenalties \in Seq(Nat) /\ PastPenalties # << >>
       /\ TLeft \in Nat /\ TAll \in Nat
       /\ DigestLength \in Nat \ {0}
       /\ EngineMayFail \in BOOLEAN

VARIABLES
  nonceFound, (* per server: the global nonceFound                           *)
  search      (* per server: the penalty, whether payPenalty waits, and its  *)
              (* threads                                                     *)

payment == <<nonceFound, search>>
paidVars == <<vars, payment>>

NoSearch == [penalty |-> 0, searching |-> FALSE, checking |-> 0, hashing |-> 0]
AtWork(s) == search[s].checking + search[s].hashing

PaidInit ==
  /\ Init
  /\ nonceFound = [s \in Server |-> FALSE]
  /\ search = [s \in Server |-> NoSearch]

Penalty(s) == Calculate(PastPenalties, view[s], view[s] + 1, TLeft, TAll)

Payable(s) == campaign[s].pc = "computing" /\ Reputation /\ ~search[s].searching

(* The engine fails, or payPenalty starts its threads. *)
CalculationFails(s) ==
  /\ Payable(s)
  /\ EngineMayFail \/ EngineFails(PastPenalties, TAll)
  /\ PenaltyFails(s)
  /\ UNCHANGED payment

PayPenalty(s) ==
  /\ Payable(s)
  /\ ~EngineFails(PastPenalties, TAll)
  /\ search' = [search EXCEPT ![s] = [penalty |-> Penalty(s), searching |-> TRUE,
                                      checking |-> Threads, hashing |-> 0]]
  /\ UNCHANGED <<vars, nonceFound>>

(* computationStarter: the test of nonceFound, ... *)
CheckNonce(s) ==
  /\ search[s].checking > 0
  /\ search' = IF nonceFound[s]
               THEN [search EXCEPT ![s].checking = @ - 1]
               ELSE [search EXCEPT ![s].checking = @ - 1, ![s].hashing = @ + 1]
  /\ UNCHANGED <<vars, nonceFound>>

(* ... and the digest of a nonce, which starts with run equal digits. *)
HashNonce(s, run) ==
  /\ search[s].hashing > 0
  /\ IF ValidateHashRes(run, search[s].penalty)
     THEN /\ nonceFound' = [nonceFound EXCEPT ![s] = TRUE]
          /\ search' = [search EXCEPT ![s].hashing = @ - 1]
     ELSE /\ search' = [search EXCEPT ![s].hashing = @ - 1, ![s].checking = @ + 1]
          /\ UNCHANGED nonceFound
  /\ UNCHANGED vars

(* payPenalty returns when all threads did (wg.Wait), and the server goes   *)
(* on to ask for votes.                                                     *)
SomeThreadReturned(s) == search[s].searching /\ AtWork(s) < Threads
AllThreadsReturned(s) == search[s].searching /\ AtWork(s) = 0

BecomePaidNominee(s) ==
  /\ Reputation => AllThreadsReturned(s)
  /\ BecomeNominee(s)
  /\ search' = [search EXCEPT ![s].searching = FALSE]
  /\ UNCHANGED nonceFound

-----------------------------------------------------------------------------
Pay(s) ==
  \/ CalculationFails(s) \/ PayPenalty(s) \/ CheckNonce(s)
  \/ \E run \in 1..DigestLength : HashNonce(s, run)
  \/ BecomePaidNominee(s)

(* The steps of Election but PenaltyFails and BecomeNominee. *)
CampaignUnpaid(s) ==
  \/ StartCampaign(s) \/ RequestRefused(s) \/ RequestVotes(s)
  \/ CampaignAborted(s) \/ CampaignTimedOut(s) \/ CampaignSucceeded(s)

Elect ==
  \/ \E s \in Server : CampaignUnpaid(s) \/ Win(s) \/ RoleLoop(s)
  \/ AnswerRequest
  \/ CountGrant
  \/ \E m \in msgs : AdmitLeadership(m)

PaidNext == (Elect /\ UNCHANGED payment) \/ \E s \in Server : Pay(s)

PaidSpec == PaidInit /\ [][PaidNext]_paidVars

(* Besides the fairness of Election: threads run, and one that hashes again *)
(* and again is lucky in the end, when the digest has digits enough.        *)
Lucky(s) == HashNonce(s, DigestLength)

PaidFairness ==
  /\ WF_paidVars(AnswerRequest /\ UNCHANGED payment)
  /\ WF_paidVars(CountGrant /\ UNCHANGED payment)
  /\ WF_paidVars(\E m \in msgs : AdmitLeadership(m) /\ UNCHANGED payment)
  /\ \A s \in Server :
       /\ WF_paidVars(Pay(s)) /\ SF_paidVars(Lucky(s))
       /\ WF_paidVars((Proceed(s) /\ ~BecomeNominee(s)) /\ UNCHANGED payment)
       /\ WF_paidVars(Win(s) /\ UNCHANGED payment)
       /\ WF_paidVars(RoleLoop(s) /\ UNCHANGED payment)

PaidFairSpec == PaidSpec /\ PaidFairness

-----------------------------------------------------------------------------
(* A server that asks for votes has found a nonce and has no thread that    *)
(* still searches, whatever the threads did in between (lines 58-79 of      *)
(* vchanges.go, 28-76 of paypenalty.go).                                    *)
AsksAfterPaying ==
  \A s \in Server :
     /\ AtWork(s) > 0 => campaign[s].pc = "computing"
     /\ Reputation /\ campaign[s].pc \in {"requesting", "waiting"} => nonceFound[s]

(* "do hash computation work here..." (line 58 of vchanges.go): the nonce   *)
(* that lets a campaign go on is one that the campaign searched.            *)
WorksForCampaign == [][\A s \in Server : PayPenalty(s) => ~nonceFound[s]]_paidVars

(* When one server campaigns, only the reputation engine ends a campaign    *)
(* with the semaphore taken (lines 66-72 and 110-113 of vchanges.go), and   *)
(* it does so only for penalties that are all the same, unless its process  *)
(* fails (line 17 of repu.py).                                              *)
SameAsLatest == \A i \in DOMAIN PastPenalties : PastPenalties[i] = Latest(PastPenalties)

OnlyUnpaidDie ==
  \A s \in Server : campaign[s].pc = "dead" => EngineMayFail \/ TAll = 0 \/ SameAsLatest

(* The semaphore of campaigns is free again after every campaign (lines     *)
(* 55-58 and 138-154 of vchanges.go): threads do not wait for each other,   *)
(* and neither the leader-to-be nor its voters leave it waiting.            *)
CampaignEnds ==
  \A c \in Candidates : campaign[c].pc # "idle" ~> campaign[c].pc = "idle"
=============================================================================
