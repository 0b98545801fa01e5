----------------------------- MODULE Reputation -----------------------------
(***************************************************************************)
(* The reputation engine (repu.py, which repueng/repu.go runs in a process *)
(* of its own) and the test of a digest that pays a penalty                *)
(* (paypenalty.go).                                                        *)
(*                                                                         *)
(* The engine compares a square root with rationals; here both sides are   *)
(* squared, and nothing is rounded but by the floor.  EngineFailsOnLatest  *)
(* is a plausible bug that the runs have to detect: it looks at the latest *)
(* penalty only.                                                           *)
(***************************************************************************)
EXTENDS Integers, Sequences, FiniteSetsExt, Functions

Square(x) == x * x

Latest(penalties) == penalties[Len(penalties)]
Total(penalties) == SumFunction(penalties)
SumOfSquares(penalties) == SumFunction([i \in DOMAIN penalties |-> Square(penalties[i])])

(* n * (latest - mean), and (n * sigma)^2. *)
Excess(penalties) == Len(penalties) * Latest(penalties) - Total(penalties)
Spread(penalties) == Len(penalties) * SumOfSquares(penalties) - Square(Total(penalties))

(* (1) of the engine. *)
Penalization(curView, newView, penalty) == (newView - curView) * penalty + 1

(* (2): the floor of t_left / t_all * (latest - mean) / sigma, at least 0.  *)
(* It is at most t_left / t_all * n: no value of n is further from their    *)
(* mean than the root of n - 1 times sigma.                                 *)
Deducible(d, penalties, tLeft, tAll) ==
  Square(d * tAll) * Spread(penalties) <= Square(tLeft * Excess(penalties))

Deduction(penalties, tLeft, tAll) ==
  IF Excess(penalties) <= 0 THEN 0
  ELSE Max({d \in 0..((tLeft * Len(penalties)) \div tAll) :
              Deducible(d, penalties, tLeft, tAll)})

EngineFailsOnLatest(penalties, tAll) == tAll = 0 \/ Spread(<<Latest(penalties)>>) = 0

(* The script dies when it divides by zero, and Calculate returns an error. *)
EngineFails(penalties, tAll) == tAll = 0 \/ Spread(penalties) = 0

Calculate(penalties, curView, newView, tLeft, tAll) ==
  Penalization(curView, newView, Latest(penalties)) - Deduction(penalties, tLeft, tAll)

(* validateHashRes: a hexadecimal digest pays when its first limen + 1      *)
(* digits are equal, and any digest pays nothing or less.  Of a digest only *)
(* the number of equal digits it starts with matters.                       *)
ValidateHashRes(run, limen) == limen <= 0 \/ run >= limen + 1
=============================================================================
