------------------------------ MODULE SumProofs ------------------------------
(***************************************************************************)
(* Induction over numbers and over finite sets, and what it shows of the   *)
(* sums that the models are written with (SumFunctionOnSet of Functions).  *)
(*                                                                         *)
(* The induction theorems of the library are about operators.  These are   *)
(* about sets, so that a proof names what it inducts over: they follow     *)
(* from the least elements that a well-founded order has.                  *)
(***************************************************************************)
EXTENDS Integers, FiniteSets, Functions, FiniteSetTheorems, WellFoundedInduction, TLAPS

(* A set of numbers with 0 and the successor of each of its members is Nat. *)
LEMMA NumbersInduct ==
  ASSUME NEW G, 0 \in G, \A n \in Nat : n \in G => n + 1 \in G
  PROVE  Nat \subseteq G
<1> DEFINE Rest == Nat \ G
<1> SUFFICES ASSUME Rest # {} PROVE FALSE
  OBVIOUS
<1>1. IsWellFoundedOn(OpToRel(<, Nat), Nat)
  BY NatLessThanWellFounded
<1>2. PICK m \in Rest : \A k \in Rest : ~(<<k, m>> \in OpToRel(<, Nat))
  BY <1>1, WFMin, Rest \subseteq Nat
<1>3. \A k \in Rest : ~(k < m)
  BY <1>2 DEF OpToRel
<1>4. m # 0 /\ m - 1 \in Nat /\ m - 1 \notin Rest
  BY <1>3
<1>5. QED
  BY <1>4

(* A family that has a set whenever it has all its smaller subsets has every *)
(* subset of a finite set.                                                  *)
LEMMA SubsetsInduct ==
  ASSUME NEW S, IsFiniteSet(S), NEW G,
         \A s \in SUBSET S : (\A t \in SUBSET s : t # s => t \in G) => s \in G
  PROVE  SUBSET S \subseteq G
<1> DEFINE Rest == (SUBSET S) \ G
<1> SUFFICES ASSUME Rest # {} PROVE FALSE
  OBVIOUS
<1>1. FiniteSubsetsOf(S) = SUBSET S
  BY FS_FiniteSubsetsOfFinite, Zenon
<1>2. IsWellFoundedOn(StrictSubsetOrdering(S), SUBSET S)
  <2>1. IsWellFoundedOn(StrictSubsetOrdering(S), FiniteSubsetsOf(S))
    BY FS_StrictSubsetOrderingWellFounded, Zenon
  <2>2. QED
    BY <1>1, <2>1, Zenon
<1>3. PICK s \in Rest : \A t \in Rest : ~(<<t, s>> \in StrictSubsetOrdering(S))
  <2>1. Rest \subseteq SUBSET S
    OBVIOUS
  <2>2. \E s \in Rest : \A t \in Rest : ~(<<t, s>> \in StrictSubsetOrdering(S))
    <3> HIDE DEF Rest
    <3>1. QED
      BY <1>2, <2>1, WFMin, SMT
  <2>3. QED
    BY <2>2
<1>4. \A t \in SUBSET s : t # s => t \notin Rest
  BY <1>3 DEF StrictSubsetOrdering
<1>5. QED
  BY <1>4

-----------------------------------------------------------------------------
(* The recursion that a sum is: g sums up fun over the subsets of S.        *)
Pick(s) == CHOOSE x \in s : TRUE
SumsUp(g, fun, S) ==
  g = [s \in SUBSET S |-> IF s = {} THEN 0
                          ELSE LET x == CHOOSE y \in s : TRUE IN fun[x] + g[s \ {x}]]

(* Up to a size: a function that is right for all subsets with at most k    *)
(* elements can be extended to those with k + 1.                            *)
SumsUpTo(k, g, fun, S) ==
  \A s \in SUBSET S : Cardinality(s) <= k =>
     g[s] = IF s = {} THEN 0 ELSE fun[Pick(s)] + g[s \ {Pick(s)}]

LEMMA Picked == ASSUME NEW s, s # {} PROVE Pick(s) \in s
BY DEF Pick

LEMMA SumsGoOn ==
  ASSUME NEW S, IsFiniteSet(S), NEW fun, NEW k \in Nat, NEW g, SumsUpTo(k, g, fun, S)
  PROVE  \E h : SumsUpTo(k + 1, h, fun, S)
<1> DEFINE Next(s) == IF s = {} THEN 0 ELSE fun[Pick(s)] + g[s \ {Pick(s)}]
           h == [s \in SUBSET S |-> Next(s)]
<1>1. ASSUME NEW s \in SUBSET S, Cardinality(s) <= k + 1
      PROVE  h[s] = IF s = {} THEN 0 ELSE fun[Pick(s)] + h[s \ {Pick(s)}]
  <2>1. CASE s = {}
    BY <2>1
  <2>2. CASE s # {}
    <3> DEFINE t == s \ {Pick(s)}
    <3>1. Pick(s) \in s /\ IsFiniteSet(s)
      BY <2>2, Picked, FS_Subset
    <3>2. t \in SUBSET S /\ Cardinality(t) = Cardinality(s) - 1 /\ Cardinality(s) \in Nat
      BY <3>1, FS_RemoveElement, FS_CardinalityType
    <3>3. g[t] = Next(t)
      <4>1. Cardinality(t) <= k
        BY <1>1, <3>2
      <4>2. QED
        BY <3>2, <4>1 DEF SumsUpTo
    <3>4. h[t] = g[t]
      BY <3>2, <3>3
    <3>5. QED
      BY <2>2, <3>4
  <2>3. QED
    BY <2>1, <2>2
<1>2. SumsUpTo(k + 1, h, fun, S)
  BY <1>1 DEF SumsUpTo
<1>3. QED
  BY <1>2

LEMMA SumsExist ==
  ASSUME NEW S, IsFiniteSet(S), NEW fun
  PROVE  \E g : SumsUp(g, fun, S)
<1> DEFINE G == {k \in Nat : \E g : SumsUpTo(k, g, fun, S)}
<1>1. 0 \in G
  <2> DEFINE g == [s \in SUBSET S |-> 0]
  <2>1. \A s \in SUBSET S : Cardinality(s) <= 0 => s = {}
    BY FS_Subset, FS_EmptySet, FS_CardinalityType
  <2>2. SumsUpTo(0, g, fun, S)
    BY <2>1 DEF SumsUpTo
  <2>3. QED
    BY <2>2
<1>2. \A k \in Nat : k \in G => k + 1 \in G
  BY SumsGoOn
<1>3. Nat \subseteq G
  <2> HIDE DEF G
  <2>1. QED
    BY <1>1, <1>2, NumbersInduct
<1>4. PICK g : SumsUpTo(Cardinality(S), g, fun, S)
  BY <1>3, FS_CardinalityType
<1> DEFINE h == [s \in SUBSET S |-> g[s]]
<1>5. ASSUME NEW s \in SUBSET S
      PROVE  h[s] = IF s = {} THEN 0 ELSE fun[Pick(s)] + h[s \ {Pick(s)}]
  <2>1. g[s] = IF s = {} THEN 0 ELSE fun[Pick(s)] + g[s \ {Pick(s)}]
    BY <1>4, FS_Subset DEF SumsUpTo
  <2>2. s \ {Pick(s)} \in SUBSET S
    OBVIOUS
  <2>3. QED
    BY <2>1, <2>2
<1>6. h = [s \in SUBSET S |-> IF s = {} THEN 0 ELSE fun[Pick(s)] + h[s \ {Pick(s)}]]
  BY <1>5
<1>7. SumsUp(h, fun, S)
  BY <1>6 DEF SumsUp, Pick
<1>8. QED
  BY <1>7

LEMMA SumIsOfThem ==
  ASSUME NEW S, IsFiniteSet(S), NEW fun
  PROVE  \E g : SumsUp(g, fun, S) /\ SumFunctionOnSet(fun, S) = g[S]
<1>1. SumFunctionOnSet(fun, S) = (CHOOSE g : SumsUp(g, fun, S))[S]
  BY Zenon DEF SumFunctionOnSet, FoldFunctionOnSet, MapThenFoldSet, SumsUp
<1>2. SumsUp(CHOOSE g : SumsUp(g, fun, S), fun, S)
  BY SumsExist, Zenon
<1>3. QED
  BY <1>1, <1>2

LEMMA SumWithin ==
  ASSUME NEW S, IsFiniteSet(S), NEW fun, NEW g, SumsUp(g, fun, S), NEW T \in SUBSET S
  PROVE  SumFunctionOnSet(fun, T) = g[T]
<1>1. IsFiniteSet(T)
  BY FS_Subset
<1>2. PICK h : SumsUp(h, fun, T) /\ SumFunctionOnSet(fun, T) = h[T]
  BY <1>1, SumIsOfThem
<1> DEFINE G == {s \in SUBSET T : h[s] = g[s]}
<1>3. ASSUME NEW s \in SUBSET T, \A t \in SUBSET s : t # s => t \in G
      PROVE  s \in G
  <2>1. h[s] = IF s = {} THEN 0 ELSE fun[Pick(s)] + h[s \ {Pick(s)}]
    BY <1>2 DEF SumsUp, Pick
  <2>2. g[s] = IF s = {} THEN 0 ELSE fun[Pick(s)] + g[s \ {Pick(s)}]
    <3>1. s \in SUBSET S
      OBVIOUS
    <3>2. QED
      BY <3>1 DEF SumsUp, Pick
  <2>3. CASE s = {}
    BY <2>1, <2>2, <2>3
  <2>4. CASE s # {}
    <3>1. Pick(s) \in s
      BY <2>4, Picked
    <3>2. h[s \ {Pick(s)}] = g[s \ {Pick(s)}]
      BY <1>3, <3>1
    <3>3. QED
      BY <2>1, <2>2, <2>4, <3>2
  <2>5. QED
    BY <2>3, <2>4
<1>4. SUBSET T \subseteq G
  <2> HIDE DEF G
  <2>1. QED
    BY <1>1, <1>3, SubsetsInduct
<1>5. QED
  BY <1>2, <1>4

LEMMA SumOfNone == ASSUME NEW fun PROVE SumFunctionOnSet(fun, {}) = 0
<1>1. IsFiniteSet({})
  BY FS_EmptySet
<1>2. PICK g : SumsUp(g, fun, {}) /\ SumFunctionOnSet(fun, {}) = g[{}]
  BY <1>1, SumIsOfThem
<1>3. QED
  BY <1>2 DEF SumsUp

LEMMA SumOfPicked ==
  ASSUME NEW S, IsFiniteSet(S), S # {}, NEW fun
  PROVE  SumFunctionOnSet(fun, S) = fun[Pick(S)] + SumFunctionOnSet(fun, S \ {Pick(S)})
<1>1. PICK g : SumsUp(g, fun, S) /\ SumFunctionOnSet(fun, S) = g[S]
  BY SumIsOfThem
<1>2. g[S] = fun[Pick(S)] + g[S \ {Pick(S)}]
  BY <1>1 DEF SumsUp, Pick
<1>3. SumFunctionOnSet(fun, S \ {Pick(S)}) = g[S \ {Pick(S)}]
  BY <1>1, SumWithin
<1>4. QED
  BY <1>1, <1>2, <1>3

(* A sum of integers is one, and no order of summing matters.               *)
LEMMA SumOfInts ==
  ASSUME NEW S, IsFiniteSet(S), NEW fun, \A x \in S : fun[x] \in Int
  PROVE  SumFunctionOnSet(fun, S) \in Int
<1> DEFINE G == {s \in SUBSET S : SumFunctionOnSet(fun, s) \in Int}
<1>1. ASSUME NEW s \in SUBSET S, \A t \in SUBSET s : t # s => t \in G
      PROVE  s \in G
  <2>1. IsFiniteSet(s)
    BY FS_Subset
  <2>2. CASE s = {}
    BY <2>2, SumOfNone
  <2>3. CASE s # {}
    <3>1. Pick(s) \in s
      BY <2>3, Picked
    <3>2. SumFunctionOnSet(fun, s \ {Pick(s)}) \in Int /\ fun[Pick(s)] \in Int
      BY <1>1, <3>1
    <3>3. SumFunctionOnSet(fun, s) = fun[Pick(s)] + SumFunctionOnSet(fun, s \ {Pick(s)})
      BY <2>1, <2>3, SumOfPicked, Zenon
    <3>4. QED
      BY <3>2, <3>3
  <2>4. QED
    BY <2>2, <2>3
<1>2. SUBSET S \subseteq G
  <2> HIDE DEF G
  <2>1. QED
    BY <1>1, SubsetsInduct
<1>3. QED
  BY <1>2

LEMMA SumOfOneMore ==
  ASSUME NEW S, IsFiniteSet(S), NEW fun, \A x \in S : fun[x] \in Int, NEW x \in S
  PROVE  SumFunctionOnSet(fun, S) = fun[x] + SumFunctionOnSet(fun, S \ {x})
<1> DEFINE Sum(s) == SumFunctionOnSet(fun, s)
           G == {s \in SUBSET S : \A y \in s : Sum(s) = fun[y] + Sum(s \ {y})}
<1>0. \A s \in SUBSET S : IsFiniteSet(s) /\ Sum(s) \in Int
  BY SumOfInts, FS_Subset
<1>1. ASSUME NEW s \in SUBSET S, \A t \in SUBSET s : t # s => t \in G
      PROVE  s \in G
  <2> SUFFICES ASSUME NEW y \in s PROVE Sum(s) = fun[y] + Sum(s \ {y})
    OBVIOUS
  <2> DEFINE p == Pick(s)
  <2>1. p \in s /\ Sum(s) = fun[p] + Sum(s \ {p})
    BY <1>0, Picked, SumOfPicked
  <2>2. CASE y = p
    BY <2>1, <2>2
  <2>3. CASE y # p
    <3>1. Sum(s \ {p}) = fun[y] + Sum((s \ {p}) \ {y})
      BY <1>1, <2>1, <2>3
    <3>2. Sum(s \ {y}) = fun[p] + Sum((s \ {y}) \ {p})
      BY <1>1, <2>1, <2>3
    <3>3. (s \ {p}) \ {y} = (s \ {y}) \ {p}
      OBVIOUS
    <3>4. fun[p] \in Int /\ fun[y] \in Int /\ Sum((s \ {y}) \ {p}) \in Int
      BY <1>0, <2>1
    <3>5. QED
      <4> DEFINE rest == Sum((s \ {y}) \ {p})
      <4>1. Sum(s \ {p}) = fun[y] + rest
        BY <3>1, <3>3, Zenon
      <4>2. Sum(s) = fun[p] + (fun[y] + rest)
        BY <2>1, <4>1, Zenon
      <4>3. Sum(s \ {y}) = fun[p] + rest
        BY <3>2, Zenon
      <4>4. fun[p] + (fun[y] + rest) = fun[y] + (fun[p] + rest)
        <5> HIDE DEF rest, p
        <5>1. QED
          BY <3>4 DEF rest
      <4>5. QED
        BY <4>2, <4>3, <4>4, Zenon
  <2>4. QED
    BY <2>2, <2>3
<1>2. SUBSET S \subseteq G
  <2> HIDE DEF G
  <2>1. QED
    BY <1>1, SubsetsInduct
<1>3. QED
  BY <1>2

-----------------------------------------------------------------------------
(* Sums of functions that differ in one place, and of functions one of      *)
(* which is at most a multiple of the other and a constant for each.        *)
LEMMA SumsOfEquals ==
  ASSUME NEW S, IsFiniteSet(S), NEW f, NEW g, \A x \in S : f[x] = g[x]
  PROVE  SumFunctionOnSet(f, S) = SumFunctionOnSet(g, S)
<1> DEFINE G == {s \in SUBSET S : SumFunctionOnSet(f, s) = SumFunctionOnSet(g, s)}
<1>1. ASSUME NEW s \in SUBSET S, \A t \in SUBSET s : t # s => t \in G
      PROVE  s \in G
  <2>1. IsFiniteSet(s)
    BY FS_Subset
  <2>2. CASE s = {}
    BY <2>2, SumOfNone
  <2>3. CASE s # {}
    <3> DEFINE p == Pick(s)
    <3>1. p \in s
      BY <2>3, Picked
    <3>2. SumFunctionOnSet(f, s \ {p}) = SumFunctionOnSet(g, s \ {p}) /\ f[p] = g[p]
      BY <1>1, <3>1
    <3>3. SumFunctionOnSet(f, s) = f[p] + SumFunctionOnSet(f, s \ {p})
      BY <2>1, <2>3, SumOfPicked, Zenon
    <3>4. SumFunctionOnSet(g, s) = g[p] + SumFunctionOnSet(g, s \ {p})
      BY <2>1, <2>3, SumOfPicked, Zenon
    <3>5. QED
      BY <3>2, <3>3, <3>4
  <2>4. QED
    BY <2>2, <2>3
<1>2. SUBSET S \subseteq G
  <2> HIDE DEF G
  <2>1. QED
    BY <1>1, SubsetsInduct
<1>3. QED
  BY <1>2

LEMMA SumOfChanged ==
  ASSUME NEW S, IsFiniteSet(S), NEW f, NEW g, NEW x \in S,
         \A y \in S : f[y] \in Int /\ g[y] \in Int,
         \A y \in S : y # x => f[y] = g[y]
  PROVE  SumFunctionOnSet(g, S) = SumFunctionOnSet(f, S) + (g[x] - f[x])
<1> DEFINE Rest == S \ {x}
<1>1. IsFiniteSet(Rest)
  BY FS_Subset
<1>2. SumFunctionOnSet(f, Rest) = SumFunctionOnSet(g, Rest) /\ SumFunctionOnSet(f, Rest) \in Int
  BY <1>1, SumsOfEquals, SumOfInts
<1>3. SumFunctionOnSet(f, S) = f[x] + SumFunctionOnSet(f, Rest)
  BY SumOfOneMore
<1>4. SumFunctionOnSet(g, S) = g[x] + SumFunctionOnSet(g, Rest)
  BY SumOfOneMore
<1>5. QED
  BY <1>2, <1>3, <1>4

LEMMA SumIsBounded ==
  ASSUME NEW S, IsFiniteSet(S), NEW f, NEW g, NEW k \in Int, NEW c \in Int,
         \A x \in S : f[x] \in Int /\ g[x] \in Int /\ f[x] <= k * g[x] + c
  PROVE  SumFunctionOnSet(f, S) <= k * SumFunctionOnSet(g, S) + c * Cardinality(S)
<1> DEFINE F(s) == SumFunctionOnSet(f, s)
           H(s) == SumFunctionOnSet(g, s)
           G == {s \in SUBSET S : F(s) <= k * H(s) + c * Cardinality(s)}
<1>0. \A s \in SUBSET S : IsFiniteSet(s) /\ F(s) \in Int /\ H(s) \in Int /\ Cardinality(s) \in Nat
  BY SumOfInts, FS_Subset, FS_CardinalityType
<1>1. ASSUME NEW s \in SUBSET S, \A t \in SUBSET s : t # s => t \in G
      PROVE  s \in G
  <2>1. CASE s = {}
    <3>1. F({}) = 0 /\ H({}) = 0 /\ Cardinality({}) = 0
      BY SumOfNone, FS_EmptySet
    <3>2. QED
      BY <2>1, <3>1
  <2>2. CASE s # {}
    <3> DEFINE p == Pick(s)
               t == s \ {p}
    <3>1. p \in s /\ t \in SUBSET S
      BY <2>2, Picked
    <3>2. F(t) <= k * H(t) + c * Cardinality(t)
      BY <1>1, <3>1
    <3>3. F(s) = f[p] + F(t) /\ H(s) = g[p] + H(t)
      BY <1>0, <2>2, SumOfPicked, Zenon
    <3>4. Cardinality(s) = Cardinality(t) + 1
      BY <1>0, <3>1, FS_RemoveElement
    <3>5. F(t) \in Int /\ H(t) \in Int /\ f[p] \in Int /\ g[p] \in Int /\ Cardinality(t) \in Int
          /\ f[p] <= k * g[p] + c
      BY <1>0, <3>1
    <3>6. F(s) <= k * H(s) + c * Cardinality(s)
      <4>1. \A a, b, d, e, n \in Int : a <= k * b + c * n /\ d <= k * e + c
                                         => d + a <= k * (e + b) + c * (n + 1)
        OBVIOUS
      <4>2. f[p] + F(t) <= k * (g[p] + H(t)) + c * (Cardinality(t) + 1)
        <5> HIDE DEF F, H, t, p
        <5>1. QED
          BY <3>2, <3>5, <4>1
      <4>3. QED
        BY <3>3, <3>4, <4>2
    <3>7. QED
      BY <3>6
  <2>3. QED
    BY <2>1, <2>2
<1>2. SUBSET S \subseteq G
  <2> HIDE DEF G
  <2>1. QED
    BY <1>1, SubsetsInduct
<1>3. QED
  BY <1>2

LEMMA SumOfZeros ==
  ASSUME NEW S, IsFiniteSet(S), NEW f, \A x \in S : f[x] = 0
  PROVE  SumFunctionOnSet(f, S) = 0
<1> DEFINE G == {s \in SUBSET S : SumFunctionOnSet(f, s) = 0}
<1>1. ASSUME NEW s \in SUBSET S, \A t \in SUBSET s : t # s => t \in G
      PROVE  s \in G
  <2>1. IsFiniteSet(s)
    BY FS_Subset
  <2>2. CASE s = {}
    BY <2>2, SumOfNone
  <2>3. CASE s # {}
    <3>1. Pick(s) \in s
      BY <2>3, Picked
    <3>2. SumFunctionOnSet(f, s \ {Pick(s)}) = 0 /\ f[Pick(s)] = 0
      BY <1>1, <3>1
    <3>3. SumFunctionOnSet(f, s) = f[Pick(s)] + SumFunctionOnSet(f, s \ {Pick(s)})
      BY <2>1, <2>3, SumOfPicked, Zenon
    <3>4. QED
      BY <3>2, <3>3
  <2>4. QED
    BY <2>2, <2>3
<1>2. SUBSET S \subseteq G
  <2> HIDE DEF G
  <2>1. QED
    BY <1>1, SubsetsInduct
<1>3. QED
  BY <1>2
=============================================================================
