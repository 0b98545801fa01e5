--------------------------- MODULE MCPaidElection ---------------------------
(***************************************************************************)
(* The constants of the runs of PaidElection.                              *)
(***************************************************************************)
EXTENDS PaidElection, MCElection

TestCase == <<1, 2, 3, 4, 5>>

(* The test case costs a campaign 6: equation (1) asks for 6, and only its  *)
(* deviation times 1 / 2 could be taken off.                                *)
ASSUME TestCasePenalty == Calculate(TestCase, 0, 1, 200, 400) = 6
=============================================================================
