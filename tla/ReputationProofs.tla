-------------------------- MODULE ReputationProofs --------------------------
(***************************************************************************)
(* The reputation engine for every history of penalties: when the division *)
(* by the deviation fails, that Deduction is the floor the engine asks     *)
(* for, and how much a history can take off a penalty at most.             *)
(***************************************************************************)
EXTENDS Reputation, SumProofs

(* Squares of integers. *)
LEMMA SquareType == ASSUME NEW x \in Int PROVE Square(x) \in Nat /\ (Square(x) = 0 <=> x = 0)
BY DEF Square

LEMMA SquaresGrow ==
  ASSUME NEW x \in Nat, NEW y \in Nat
  PROVE  /\ x <= y => Square(x) <= Square(y)
         /\ Square(x) <= Square(y) => x <= y
<1>1. x <= y => Square(x) <= Square(y)
  BY DEF Square
<1>2. x > y => Square(x) > Square(y)
  BY DEF Square
<1>3. QED
  <2>1. Square(x) \in Int /\ Square(y) \in Int
    BY SquareType
  <2>2. QED
    BY <1>1, <1>2, <2>1

LEMMA SquareOfProduct ==
  ASSUME NEW x \in Int, NEW y \in Int PROVE Square(x * y) = Square(x) * Square(y)
BY DEF Square

(* A sum is linear. *)
Combines(S, h, a, f, b, g, c) ==
  \A x \in S : f[x] \in Int /\ g[x] \in Int /\ h[x] = a * f[x] + b * g[x] + c

LEMMA SumOfCombination ==
  ASSUME NEW S, IsFiniteSet(S), NEW f, NEW g, NEW h, NEW a \in Int, NEW b \in Int, NEW c \in Int,
         Combines(S, h, a, f, b, g, c)
  PROVE  SumFunctionOnSet(h, S)
           = a * SumFunctionOnSet(f, S) + b * SumFunctionOnSet(g, S) + c * Cardinality(S)
<1> DEFINE F(s) == SumFunctionOnSet(f, s)
           H(s) == SumFunctionOnSet(g, s)
           K(s) == SumFunctionOnSet(h, s)
           G == {s \in SUBSET S : K(s) = a * F(s) + b * H(s) + c * Cardinality(s)}
<1>0. \A x \in S : f[x] \in Int /\ g[x] \in Int /\ h[x] \in Int /\ h[x] = a * f[x] + b * g[x] + c
  BY DEF Combines
<1>1. \A s \in SUBSET S : IsFiniteSet(s) /\ F(s) \in Int /\ H(s) \in Int /\ K(s) \in Int
                          /\ Cardinality(s) \in Nat
  BY <1>0, SumOfInts, FS_Subset, FS_CardinalityType
<1>2. ASSUME NEW s \in SUBSET S, \A t \in SUBSET s : t # s => t \in G
      PROVE  s \in G
  <2>1. CASE s = {}
    <3>1. F({}) = 0 /\ H({}) = 0 /\ K({}) = 0 /\ Cardinality({}) = 0
      BY SumOfNone, FS_EmptySet
    <3>2. QED
      BY <2>1, <3>1
  <2>2. CASE s # {}
    <3> DEFINE p == Pick(s)
               t == s \ {p}
    <3>1. p \in s /\ t \in SUBSET s /\ t # s
      BY <2>2, Picked
    <3>2. K(t) = a * F(t) + b * H(t) + c * Cardinality(t)
      BY <1>2, <3>1
    <3>3. F(s) = f[p] + F(t) /\ H(s) = g[p] + H(t) /\ K(s) = h[p] + K(t)
      BY <1>1, <2>2, SumOfPicked, Zenon
    <3>4. Cardinality(t) = Cardinality(s) - 1
      BY <1>1, <3>1, FS_RemoveElement
    <3>5. /\ h[p] = a * f[p] + b * g[p] + c /\ f[p] \in Int /\ g[p] \in Int /\ h[p] \in Int
          /\ F(t) \in Int /\ H(t) \in Int /\ K(t) \in Int
          /\ Cardinality(s) \in Int /\ Cardinality(t) \in Int
      <4>1. t \in SUBSET S
        BY <3>1
      <4>2. QED
        BY <1>0, <1>1, <3>1, <4>1
    <3> HIDE DEF p, t, F, H, K
    <3>6. K(s) = (a * f[p] + b * g[p] + c) + (a * F(t) + b * H(t) + c * (Cardinality(s) - 1))
      BY <3>2, <3>3, <3>4, <3>5
    <3>7. K(s) = a * (f[p] + F(t)) + b * (g[p] + H(t)) + c * Cardinality(s)
      BY <3>5, <3>6
    <3>8. QED
      BY <3>3, <3>7
  <2>3. QED
    BY <2>1, <2>2
<1>3. SUBSET S \subseteq G
  <2> HIDE DEF G
  <2>1. QED
    BY <1>2, SubsetsInduct
<1>4. QED
  BY <1>3

LEMMA SumOfNats ==
  ASSUME NEW S, IsFiniteSet(S), NEW f, \A x \in S : f[x] \in Nat
  PROVE  /\ SumFunctionOnSet(f, S) \in Nat
         /\ \A x \in S : f[x] <= SumFunctionOnSet(f, S)
<1> DEFINE zero == [x \in S |-> 0]
<1>1. ASSUME NEW T \in SUBSET S PROVE SumFunctionOnSet(f, T) \in Nat
  <2>1. IsFiniteSet(T)
    BY FS_Subset
  <2>2. SumFunctionOnSet(zero, T) = 0
    BY <2>1, SumOfZeros, Zenon
  <2>3. SumFunctionOnSet(f, T) \in Int /\ Cardinality(T) \in Nat
    BY <2>1, SumOfInts, FS_CardinalityType
  <2>4. \A x \in T : zero[x] \in Int /\ f[x] \in Int /\ zero[x] <= 1 * f[x] + 0
    OBVIOUS
  <2> HIDE DEF zero
  <2>5. SumFunctionOnSet(zero, T) <= 1 * SumFunctionOnSet(f, T) + 0 * Cardinality(T)
    <3>1. 1 \in Int /\ 0 \in Int
      OBVIOUS
    <3>2. QED
      BY <2>1, <2>4, <3>1, SumIsBounded, Zenon
  <2>6. QED
    BY <2>2, <2>3, <2>5
<1>2. ASSUME NEW x \in S PROVE f[x] <= SumFunctionOnSet(f, S)
  <2>1. SumFunctionOnSet(f, S) = f[x] + SumFunctionOnSet(f, S \ {x})
    BY SumOfOneMore
  <2>2. SumFunctionOnSet(f, S \ {x}) \in Nat
    BY <1>1
  <2>3. QED
    BY <2>1, <2>2
<1>3. QED
  BY <1>1, <1>2

LEMMA SumOfEquals ==
  ASSUME NEW S, IsFiniteSet(S), NEW f, NEW c \in Int, \A x \in S : f[x] = c
  PROVE  SumFunctionOnSet(f, S) = c * Cardinality(S)
<1> DEFINE zero == [x \in S |-> 0]
<1>1. Combines(S, f, 0, zero, 0, zero, c)
  BY DEF Combines
<1>2. SumFunctionOnSet(zero, S) = 0
  BY SumOfZeros, Zenon
<1>3. Cardinality(S) \in Nat /\ 0 \in Int
  BY FS_CardinalityType
<1> HIDE DEF zero
<1>4. SumFunctionOnSet(f, S) = 0 * SumFunctionOnSet(zero, S) + 0 * SumFunctionOnSet(zero, S) + c * Cardinality(S)
  BY <1>1, <1>3, SumOfCombination
<1>5. QED
  BY <1>2, <1>3, <1>4

-----------------------------------------------------------------------------
(* The number, the sum and the sum of the squares of the values of f, and   *)
(* n times the deviation of each.                                           *)
Squares(S, f) == [x \in S |-> Square(f[x])]
Deviations(S, f) ==
  [x \in S |-> Cardinality(S) * f[x] - SumFunctionOnSet(f, S)]
Spreading(S, f) ==
  Cardinality(S) * SumFunctionOnSet(Squares(S, f), S) - Square(SumFunctionOnSet(f, S))

LEMMA SumTypes ==
  ASSUME NEW S, IsFiniteSet(S), NEW f, \A x \in S : f[x] \in Int
  PROVE  /\ Cardinality(S) \in Nat /\ SumFunctionOnSet(f, S) \in Int
         /\ SumFunctionOnSet(Squares(S, f), S) \in Int
         /\ Spreading(S, f) \in Int
         /\ \A x \in S : Squares(S, f)[x] \in Nat /\ Deviations(S, f)[x] \in Int
<1>1. Cardinality(S) \in Nat /\ SumFunctionOnSet(f, S) \in Int
  BY SumOfInts, FS_CardinalityType
<1>2. \A x \in S : Squares(S, f)[x] \in Nat
  BY SquareType DEF Squares
<1>3. SumFunctionOnSet(Squares(S, f), S) \in Int
  BY <1>2, SumOfInts
<1>4. \A x \in S : Deviations(S, f)[x] \in Int
  BY <1>1 DEF Deviations
<1>5. Spreading(S, f) \in Int
  BY <1>1, <1>3, SquareType DEF Spreading
<1>6. QED
  BY <1>1, <1>2, <1>3, <1>4, <1>5

(* The deviations add up to nothing, their squares to n times the spread.   *)
LEMMA SumOfDeviations ==
  ASSUME NEW S, IsFiniteSet(S), NEW f, \A x \in S : f[x] \in Int
  PROVE  /\ SumFunctionOnSet(Deviations(S, f), S) = 0
         /\ SumFunctionOnSet(Squares(S, Deviations(S, f)), S) = Cardinality(S) * Spreading(S, f)
<1> DEFINE n == Cardinality(S)
           T == SumFunctionOnSet(f, S)
           Q == SumFunctionOnSet(Squares(S, f), S)
<1>1. n \in Nat /\ T \in Int /\ Q \in Int
  BY SumTypes
<1>2. \A x \in S : /\ Squares(S, f)[x] \in Int /\ Squares(S, f)[x] = Square(f[x])
                   /\ Deviations(S, f)[x] = n * f[x] - T
                   /\ Squares(S, Deviations(S, f))[x] = Square(n * f[x] - T)
  <2>1. \A x \in S : Squares(S, f)[x] \in Int
    BY SumTypes
  <2>2. QED
    BY <2>1 DEF Squares, Deviations
<1> HIDE DEF n, T, Q
<1>3. SumFunctionOnSet(Deviations(S, f), S) = 0
  <2>1. Combines(S, Deviations(S, f), n, f, 0, f, -T)
    BY <1>1, <1>2 DEF Combines
  <2>2. n \in Int /\ 0 \in Int /\ -T \in Int
    BY <1>1
  <2>3. SumFunctionOnSet(Deviations(S, f), S)
          = n * SumFunctionOnSet(f, S) + 0 * SumFunctionOnSet(f, S) + (-T) * Cardinality(S)
    BY <2>1, <2>2, SumOfCombination
  <2>4. n = Cardinality(S) /\ T = SumFunctionOnSet(f, S)
    BY DEF n, T
  <2>5. QED
    BY <1>1, <2>3, <2>4
<1>4. SumFunctionOnSet(Squares(S, Deviations(S, f)), S) = n * Spreading(S, f)
  <2>1. ASSUME NEW x \in S
        PROVE  Squares(S, Deviations(S, f))[x]
                 = (n * n) * Squares(S, f)[x] + (-(2 * n * T)) * f[x] + T * T
    <3>1. f[x] \in Int
      OBVIOUS
    <3>2. Squares(S, Deviations(S, f))[x] = (n * f[x] - T) * (n * f[x] - T)
      BY <1>2 DEF Square
    <3>3. Squares(S, f)[x] = f[x] * f[x]
      BY <1>2 DEF Square
    <3>4. QED
      BY <1>1, <3>1, <3>2, <3>3
  <2>2. n * n \in Int /\ -(2 * n * T) \in Int /\ T * T \in Int
    BY <1>1
  <2>3. Combines(S, Squares(S, Deviations(S, f)), n * n, Squares(S, f), -(2 * n * T), f, T * T)
    BY <1>2, <2>1 DEF Combines
  <2>4. SumFunctionOnSet(Squares(S, Deviations(S, f)), S)
          = (n * n) * SumFunctionOnSet(Squares(S, f), S) + (-(2 * n * T)) * SumFunctionOnSet(f, S)
              + (T * T) * Cardinality(S)
    BY <2>2, <2>3, SumOfCombination
  <2>5. n = Cardinality(S) /\ T = SumFunctionOnSet(f, S) /\ Q = SumFunctionOnSet(Squares(S, f), S)
    BY DEF n, T, Q
  <2>6. Spreading(S, f) = n * Q - T * T
    BY <2>5, Zenon DEF Spreading, Square
  <2>7. (n * n) * Q + (-(2 * n * T)) * T + (T * T) * n = n * (n * Q - T * T)
    BY <1>1
  <2>8. QED
    BY <2>4, <2>5, <2>6, <2>7
<1>5. QED
  BY <1>3, <1>4 DEF n

(* The spread is never negative, ...                                        *)
LEMMA SpreadIsNat ==
  ASSUME NEW S, IsFiniteSet(S), NEW f, \A x \in S : f[x] \in Int
  PROVE  Spreading(S, f) \in Nat
<1>1. Cardinality(S) \in Nat /\ Spreading(S, f) \in Int
  BY SumTypes
<1>2. CASE S = {}
  <2>1. /\ SumFunctionOnSet(f, S) = 0 /\ Cardinality(S) = 0
        /\ SumFunctionOnSet(Squares(S, f), S) = 0
    BY <1>2, SumOfNone, FS_EmptySet
  <2>2. QED
    BY <2>1 DEF Spreading, Square
<1>3. CASE S # {}
  <2>1. Cardinality(S) # 0
    BY <1>3, FS_EmptySet
  <2>2. \A x \in S : Squares(S, Deviations(S, f))[x] \in Nat
    BY SumTypes, SquareType DEF Squares
  <2>3. SumFunctionOnSet(Squares(S, Deviations(S, f)), S) \in Nat
    BY <2>2, SumOfNats
  <2>4. Cardinality(S) * Spreading(S, f) >= 0
    BY <2>3, SumOfDeviations
  <2>5. QED
    BY <1>1, <2>1, <2>4
<1>4. QED
  BY <1>2, <1>3

(* ... and it is zero exactly when all values are the same.                 *)
LEMMA NoSpreadOfEquals ==
  ASSUME NEW S, IsFiniteSet(S), NEW f, \A x \in S : f[x] \in Int
  PROVE  Spreading(S, f) = 0 <=> \A x, y \in S : f[x] = f[y]
<1>1. ASSUME Spreading(S, f) = 0 PROVE \A x, y \in S : f[x] = f[y]
  <2>1. \A x \in S : Squares(S, Deviations(S, f))[x] \in Nat
    BY SumTypes, SquareType DEF Squares
  <2>2. Cardinality(S) \in Nat /\ SumFunctionOnSet(f, S) \in Int
    BY SumTypes
  <2>3. SumFunctionOnSet(Squares(S, Deviations(S, f)), S) = 0
    BY <1>1, <2>2, SumOfDeviations
  <2>4. ASSUME NEW x \in S PROVE Cardinality(S) * f[x] = SumFunctionOnSet(f, S)
    <3>1. Squares(S, Deviations(S, f))[x] <= 0
      BY <2>1, <2>3, SumOfNats
    <3>2. Square(Deviations(S, f)[x]) = 0
      BY <2>1, <3>1 DEF Squares
    <3>3. Deviations(S, f)[x] = 0
      BY <3>2, SumTypes, SquareType
    <3>4. QED
      BY <2>2, <3>3 DEF Deviations
  <2>5. TAKE x, y \in S
  <2>6. Cardinality(S) # 0
    BY FS_EmptySet
  <2>7. Cardinality(S) * f[x] = Cardinality(S) * f[y]
    BY <2>4, Zenon
  <2>8. f[x] \in Int /\ f[y] \in Int
    OBVIOUS
  <2>9. QED
    BY <2>2, <2>6, <2>7, <2>8
<1>2. ASSUME \A x, y \in S : f[x] = f[y] PROVE Spreading(S, f) = 0
  <2>1. CASE S = {}
    <3>1. /\ SumFunctionOnSet(f, S) = 0 /\ Cardinality(S) = 0
          /\ SumFunctionOnSet(Squares(S, f), S) = 0
      BY <2>1, SumOfNone, FS_EmptySet
    <3>2. QED
      BY <3>1 DEF Spreading, Square
  <2>2. CASE S # {}
    <3>1. PICK p \in S : TRUE
      BY <2>2
    <3> DEFINE c == f[p]
    <3>2. c \in Int /\ \A x \in S : f[x] = c
      BY <1>2
    <3>3. c * c \in Int /\ \A x \in S : Squares(S, f)[x] = c * c
      BY <3>2 DEF Squares, Square
    <3> HIDE DEF c
    <3>4. SumFunctionOnSet(f, S) = c * Cardinality(S)
      BY <3>2, SumOfEquals, Zenon
    <3>5. SumFunctionOnSet(Squares(S, f), S) = (c * c) * Cardinality(S)
      BY <3>3, SumOfEquals, Zenon
    <3>6. Cardinality(S) \in Nat
      BY SumTypes
    <3>7. QED
      BY <3>2, <3>4, <3>5, <3>6 DEF Spreading, Square
  <2>3. QED
    BY <2>1, <2>2
<1>3. QED
  BY <1>1, <1>2

(* No value is further from the mean than the root of n - 1 times sigma:    *)
(* the deviations of the others add up to its own, with the sign changed.   *)
LEMMA DeviationIsBounded ==
  ASSUME NEW S, IsFiniteSet(S), NEW f, \A x \in S : f[x] \in Int, NEW x \in S
  PROVE  Square(Deviations(S, f)[x]) <= (Cardinality(S) - 1) * Spreading(S, f)
<1> DEFINE g == Deviations(S, f)
           n == Cardinality(S)
           e == g[x]
           R == S \ {x}
           q == SumFunctionOnSet(Squares(R, g), R)
           P == Spreading(S, f)
<1>1. /\ IsFiniteSet(R) /\ Cardinality(R) = n - 1
      /\ \A y \in S : g[y] \in Int
      /\ n \in Nat /\ n >= 1 /\ e \in Int /\ P \in Nat
  <2>1. \A y \in S : g[y] \in Int
    BY SumTypes
  <2>2. IsFiniteSet(R) /\ Cardinality(R) = n - 1 /\ n \in Nat
    BY FS_RemoveElement, FS_CardinalityType
  <2>3. Cardinality(R) \in Nat
    BY <2>2, FS_CardinalityType
  <2>4. n >= 1
    BY <2>2, <2>3
  <2>5. P \in Nat
    BY SpreadIsNat
  <2>6. QED
    BY <2>1, <2>2, <2>4, <2>5
<1>2. q \in Int /\ SumFunctionOnSet(g, R) \in Int
  BY <1>1, SumTypes
<1>3. SumFunctionOnSet(g, R) = -e
  <2>1. SumFunctionOnSet(g, S) = 0
    BY SumOfDeviations
  <2>2. SumFunctionOnSet(g, S) = g[x] + SumFunctionOnSet(g, R)
    BY <1>1, SumOfOneMore, Zenon
  <2>3. QED
    BY <1>1, <1>2, <2>1, <2>2
<1>4. Square(e) + q = n * P
  <2>1. SumFunctionOnSet(Squares(S, g), S) = n * P
    BY SumOfDeviations
  <2>2. \A y \in S : Squares(S, g)[y] \in Int
    BY <1>1, SquareType DEF Squares
  <2>3. SumFunctionOnSet(Squares(S, g), S)
          = Squares(S, g)[x] + SumFunctionOnSet(Squares(S, g), R)
    BY <2>2, SumOfOneMore, Zenon
  <2>4. Squares(S, g)[x] = Square(e)
    BY DEF Squares
  <2>5. \A y \in R : Squares(S, g)[y] = Squares(R, g)[y]
    BY DEF Squares
  <2>6. SumFunctionOnSet(Squares(S, g), R) = q
    BY <1>1, <2>5, SumsOfEquals, Zenon
  <2>7. QED
    BY <2>1, <2>3, <2>4, <2>6
<1>5. (n - 1) * q >= e * e
  <2>1. Spreading(R, g) \in Nat
    BY <1>1, SpreadIsNat
  <2>2. Spreading(R, g) = (n - 1) * q - Square(-e)
    BY <1>1, <1>3, Zenon DEF Spreading
  <2>3. Square(-e) = e * e
    BY <1>1 DEF Square
  <2> HIDE DEF n, e, q
  <2>4. QED
    BY <1>1, <1>2, <2>1, <2>2, <2>3
<1> HIDE DEF n, e, q, P, g, R
<1>6. e * e <= (n - 1) * P
  <2>1. e * e + q = n * P
    BY <1>4 DEF Square
  <2>2. (n - 1) * q = (n - 1) * (n * P - e * e)
    BY <1>1, <1>2, <2>1
  <2>3. (n - 1) * (n * P - e * e) = n * ((n - 1) * P) - n * (e * e) + e * e
    BY <1>1
  <2>4. n * ((n - 1) * P) >= n * (e * e)
    BY <1>1, <1>5, <2>2, <2>3
  <2> DEFINE u == (n - 1) * P
             w == e * e
  <2>5. u \in Int /\ w \in Int /\ n * u >= n * w
    BY <1>1, <2>4
  <2> HIDE DEF u, w
  <2>6. u >= w
    BY <1>1, <2>5
  <2>7. QED
    BY <2>6 DEF u, w
<1>7. QED
  BY <1>6 DEF Square, n, e, P, g

(* A set of numbers with a bound and a member has a greatest member.        *)
LEMMA GreatestExists ==
  ASSUME NEW B \in Nat, NEW D \in SUBSET (0..B), D # {}
  PROVE  Max(D) \in D /\ \A d \in D : d <= Max(D)
<1> DEFINE HasMax(s) == \E m \in s : \A d \in s : m >= d
           G == {n \in Nat : \A s \in SUBSET (0..n) : s # {} => HasMax(s)}
<1>1. 0 \in G
  <2> SUFFICES ASSUME NEW s \in SUBSET (0..0), s # {} PROVE HasMax(s)
    OBVIOUS
  <2>1. \A d \in s : d = 0
    OBVIOUS
  <2>2. PICK m \in s : TRUE
    OBVIOUS
  <2>3. \A d \in s : m >= d
    BY <2>1, <2>2
  <2>4. QED
    BY <2>2, <2>3, Zenon
<1>2. ASSUME NEW n \in Nat, n \in G PROVE n + 1 \in G
  <2> SUFFICES ASSUME NEW s \in SUBSET (0..(n + 1)), s # {} PROVE HasMax(s)
    OBVIOUS
  <2>1. CASE n + 1 \in s
    BY <2>1
  <2>2. CASE n + 1 \notin s
    <3>1. s \in SUBSET (0..n)
      BY <2>2
    <3>2. QED
      BY <1>2, <3>1
  <2>3. QED
    BY <2>1, <2>2
<1> HIDE DEF G
<1>3. B \in G
  BY <1>1, <1>2, NumbersInduct
<1>4. HasMax(D)
  BY <1>3 DEF G
<1>5. QED
  BY <1>4 DEF Max

-----------------------------------------------------------------------------
(* A history is a sequence of penalties that is not empty.                  *)
History == Seq(Int) \ {<< >>}

LEMMA OfHistories ==
  ASSUME NEW h \in History
  PROVE  /\ Len(h) \in Nat \ {0} /\ DOMAIN h = 1..Len(h) /\ Len(h) \in DOMAIN h
         /\ IsFiniteSet(DOMAIN h) /\ Cardinality(DOMAIN h) = Len(h)
         /\ \A i \in DOMAIN h : h[i] \in Int
         /\ Spread(h) = Spreading(DOMAIN h, h) /\ Spread(h) \in Nat
         /\ Excess(h) = Deviations(DOMAIN h, h)[Len(h)] /\ Excess(h) \in Int
<1>1. /\ Len(h) \in Nat \ {0} /\ DOMAIN h = 1..Len(h) /\ Len(h) \in DOMAIN h
      /\ \A i \in DOMAIN h : h[i] \in Int
  BY DEF History
<1>2. IsFiniteSet(DOMAIN h) /\ Cardinality(DOMAIN h) = Len(h)
  <2>1. IsFiniteSet(1..Len(h)) /\ Cardinality(1..Len(h)) = Len(h) - 1 + 1
    BY <1>1, FS_Interval
  <2>2. QED
    BY <1>1, <2>1
<1>3. Spread(h) = Spreading(DOMAIN h, h)
  BY <1>2, Zenon DEF Spread, Spreading, Total, SumOfSquares, Squares, SumFunction
<1>4. Spread(h) \in Nat
  BY <1>1, <1>2, <1>3, SpreadIsNat
<1>5. Excess(h) = Deviations(DOMAIN h, h)[Len(h)]
  BY <1>1, <1>2 DEF Excess, Latest, Total, Deviations, SumFunction
<1>6. Excess(h) \in Int
  BY <1>1, <1>2, <1>5, SumTypes
<1>7. QED
  BY <1>1, <1>2, <1>3, <1>4, <1>5, <1>6

(* The division by the deviation fails exactly when all past penalties are  *)
(* the same, the history of one penalty included: pstdev is then 0 (line 17 *)
(* of repu.py), and the first campaign of a server cannot be paid for.      *)
THEOREM EngineFailsForEquals ==
  ASSUME NEW h \in History, NEW tAll \in Nat \ {0}
  PROVE  EngineFails(h, tAll) <=> \A i \in DOMAIN h : h[i] = Latest(h)
<1>1. Spread(h) = 0 <=> \A i, j \in DOMAIN h : h[i] = h[j]
  <2>1. /\ IsFiniteSet(DOMAIN h) /\ \A i \in DOMAIN h : h[i] \in Int
        /\ Spread(h) = Spreading(DOMAIN h, h)
    BY OfHistories
  <2>2. QED
    BY <2>1, NoSpreadOfEquals
<1>2. (\A i, j \in DOMAIN h : h[i] = h[j]) <=> \A i \in DOMAIN h : h[i] = Latest(h)
  <2>1. Len(h) \in DOMAIN h
    BY OfHistories
  <2>2. QED
    BY <2>1 DEF Latest
<1>3. QED
  BY <1>1, <1>2 DEF EngineFails

(* What a deduction could be at most, before the floor: t_left / t_all      *)
(* times the root of n - 1.                                                 *)
LEMMA DeducibleIsBounded ==
  ASSUME NEW h \in History, NEW tLeft \in Nat, NEW tAll \in Nat, ~EngineFails(h, tAll),
         NEW d \in Nat, Deducible(d, h, tLeft, tAll)
  PROVE  /\ Square(d * tAll) <= Square(tLeft) * (Len(h) - 1)
         /\ d \in 0..((tLeft * Len(h)) \div tAll)
<1> DEFINE P == Spread(h)
           E == Excess(h)
           n == Len(h)
           u == Square(d * tAll)
           v == Square(tLeft)
<1>1. /\ P \in Nat \ {0} /\ E \in Int /\ n \in Nat \ {0} /\ tAll > 0
      /\ u \in Nat /\ v \in Nat
  <2>1. P \in Nat /\ E \in Int /\ n \in Nat \ {0}
    BY OfHistories
  <2>2. d * tAll \in Int /\ tLeft \in Int
    OBVIOUS
  <2>3. u \in Nat /\ v \in Nat
    BY <2>2, SquareType
  <2>4. QED
    BY <2>1, <2>3 DEF EngineFails
<1>2. Square(E) <= (n - 1) * P
  BY OfHistories, DeviationIsBounded
<1>3. Square(E) \in Nat
  BY <1>1, SquareType
<1>4. u * P <= v * Square(E)
  BY <1>1, SquareOfProduct DEF Deducible
<1>5. Square(n) >= n - 1 /\ Square(n) \in Nat
  BY <1>1 DEF Square
<1> HIDE DEF P, E, n, u, v
<1>6. u <= v * (n - 1)
  <2>1. v * Square(E) <= v * ((n - 1) * P)
    BY <1>1, <1>2, <1>3
  <2> DEFINE w == v * (n - 1)
  <2>2. w \in Int /\ v * ((n - 1) * P) = w * P
    BY <1>1
  <2> HIDE DEF w
  <2>3. u * P <= w * P
    BY <1>1, <1>3, <1>4, <2>1, <2>2
  <2>4. u <= w
    BY <1>1, <2>2, <2>3
  <2>5. QED
    BY <2>4 DEF w
<1>7. d * tAll <= tLeft * n
  <2>1. v * (n - 1) <= v * Square(n)
    BY <1>1, <1>5
  <2>2. Square(d * tAll) <= Square(tLeft * n)
    <3>1. Square(tLeft * n) = v * Square(n)
      BY <1>1, SquareOfProduct DEF v
    <3>2. QED
      BY <1>1, <1>5, <1>6, <2>1, <3>1 DEF u
  <2>3. d * tAll \in Nat /\ tLeft * n \in Nat
    BY <1>1
  <2>4. QED
    BY <2>2, <2>3, SquaresGrow
<1>8. d <= (tLeft * n) \div tAll
  <2> DEFINE m == tLeft * n
             k == m \div tAll
  <2>1. m \in Nat /\ tAll \in Nat /\ tAll > 0
    BY <1>1
  <2>2. k \in Nat /\ m < (k + 1) * tAll
    BY <2>1
  <2>3. d * tAll < (k + 1) * tAll
    BY <1>7, <2>1, <2>2
  <2> HIDE DEF k, m
  <2>4. d < k + 1
    BY <2>1, <2>2, <2>3
  <2>5. QED
    BY <2>2, <2>4 DEF k, m
<1>9. (tLeft * n) \div tAll \in Int
  BY <1>1
<1>10. QED
  BY <1>6, <1>8, <1>9 DEF u, v, n

(* Less than what is deducible is deducible. *)
LEMMA DeducibleDownwards ==
  ASSUME NEW h \in History, NEW tLeft \in Nat, NEW tAll \in Nat,
         NEW d \in Nat, Deducible(d, h, tLeft, tAll), NEW c \in Nat, c <= d
  PROVE  Deducible(c, h, tLeft, tAll)
<1>1. c * tAll \in Nat /\ d * tAll \in Nat /\ c * tAll <= d * tAll
  OBVIOUS
<1>2. Square(c * tAll) <= Square(d * tAll)
  BY <1>1, SquaresGrow
<1>3. Spread(h) \in Nat /\ Excess(h) \in Int
  BY OfHistories
<1>4. Square(c * tAll) \in Nat /\ Square(d * tAll) \in Nat /\ Square(tLeft * Excess(h)) \in Nat
  <2>1. tLeft * Excess(h) \in Int
    BY <1>3
  <2>2. QED
    BY <1>1, <2>1, SquareType
<1>5. Square(c * tAll) * Spread(h) <= Square(d * tAll) * Spread(h)
  BY <1>2, <1>3, <1>4
<1>6. QED
  BY <1>3, <1>4, <1>5 DEF Deducible

(* max(0, floor(...)) (lines 18-19 of repu.py): what the model takes off is *)
(* a number, it is 0 unless the latest penalty is above the mean, and then  *)
(* it is the floor: of all numbers, those up to it, and no others, are at   *)
(* most t_left / t_all * (latest - mean) / sigma.  So the bound of the      *)
(* search in Deduction cuts nothing off, whatever the history.              *)
THEOREM DeductionIsTheFloor ==
  ASSUME NEW h \in History, NEW tLeft \in Nat, NEW tAll \in Nat, ~EngineFails(h, tAll)
  PROVE  /\ Deduction(h, tLeft, tAll) \in Nat
         /\ Excess(h) <= 0 => Deduction(h, tLeft, tAll) = 0
         /\ Excess(h) > 0
              => \A d \in Nat : d <= Deduction(h, tLeft, tAll) <=> Deducible(d, h, tLeft, tAll)
<1>1. Excess(h) \in Int /\ Len(h) \in Nat /\ tAll > 0
  BY OfHistories DEF EngineFails
<1>2. CASE Excess(h) <= 0
  BY <1>1, <1>2 DEF Deduction
<1>3. CASE Excess(h) > 0
  <2> DEFINE B == (tLeft * Len(h)) \div tAll
             D == {d \in 0..B : Deducible(d, h, tLeft, tAll)}
  <2>1. B \in Nat
    <3>1. tLeft * Len(h) \in Nat
      BY <1>1
    <3>2. QED
      BY <1>1, <3>1
  <2>2. Deducible(0, h, tLeft, tAll)
    <3>1. Spread(h) \in Nat /\ tLeft * Excess(h) \in Int
      BY <1>1, OfHistories
    <3>2. Square(tLeft * Excess(h)) \in Nat
      BY <3>1, SquareType
    <3>3. Square(0 * tAll) * Spread(h) = 0
      BY <3>1 DEF Square
    <3>4. QED
      BY <3>2, <3>3 DEF Deducible
  <2>3. Max(D) \in D /\ \A d \in D : d <= Max(D)
    <3>1. D # {} /\ D \in SUBSET (0..B)
      BY <2>1, <2>2
    <3> HIDE DEF D, B
    <3>2. QED
      BY <2>1, <3>1, GreatestExists
  <2>4. Deduction(h, tLeft, tAll) = Max(D)
    BY <1>1, <1>3 DEF Deduction
  <2>5. Max(D) \in Nat /\ Deducible(Max(D), h, tLeft, tAll)
    BY <2>3
  <2>6. ASSUME NEW d \in Nat, d <= Max(D) PROVE Deducible(d, h, tLeft, tAll)
    BY <2>5, <2>6, DeducibleDownwards
  <2>7. ASSUME NEW d \in Nat, Deducible(d, h, tLeft, tAll) PROVE d <= Max(D)
    <3>1. d \in D
      BY <2>7, DeducibleIsBounded
    <3> HIDE DEF D
    <3>2. QED
      BY <2>3, <3>1
  <2> HIDE DEF D
  <2>8. QED
    BY <1>1, <1>3, <2>4, <2>5, <2>6, <2>7
<1>4. QED
  BY <1>1, <1>2, <1>3

(* No history makes up for more than t_left / t_all times the root of       *)
(* n - 1: with the five penalties and the half of the time of the test case *)
(* of startNewElectionCampaignAsStarlet a deduction is 1 at most.           *)
THEOREM DeductionIsBounded ==
  ASSUME NEW h \in History, NEW tLeft \in Nat, NEW tAll \in Nat, ~EngineFails(h, tAll)
  PROVE  Square(Deduction(h, tLeft, tAll) * tAll) <= Square(tLeft) * (Len(h) - 1)
<1>1. Excess(h) \in Int /\ Len(h) \in Nat \ {0} /\ Square(tLeft) \in Nat
  <2>1. tLeft \in Int
    OBVIOUS
  <2>2. QED
    BY <2>1, OfHistories, SquareType
<1>2. CASE Excess(h) <= 0
  <2>1. Deduction(h, tLeft, tAll) = 0
    BY <1>2, DeductionIsTheFloor
  <2>2. Square(tLeft) * (Len(h) - 1) >= 0
    BY <1>1
  <2>3. QED
    BY <2>1, <2>2 DEF Square
<1>3. CASE Excess(h) > 0
  <2>1. /\ Deduction(h, tLeft, tAll) \in Nat
        /\ Deducible(Deduction(h, tLeft, tAll), h, tLeft, tAll)
    BY <1>3, DeductionIsTheFloor
  <2>2. QED
    BY <2>1, DeducibleIsBounded
<1>4. QED
  BY <1>1, <1>2, <1>3
=============================================================================
