---------------------------- MODULE StrategyProofs ----------------------------
(***************************************************************************)
(* Theorems about the strategies and the indicators, for every set of      *)
(* symbols, any prices, every size of the history, any number of entries   *)
(* per symbol and any number of ticks.                                     *)
(***************************************************************************)
EXTENDS StrategyProperties, MarketDataProofs, SumTheorems

-----------------------------------------------------------------------------
(* Sums over sequences of prices. *)
LEMMA SeqFacts ==
  ASSUME NEW xs \in Seq(Nat)
  PROVE  /\ DOMAIN xs = 1 .. Len(xs) /\ Len(xs) \in Nat
         /\ IsFiniteSet(DOMAIN xs) /\ Cardinality(DOMAIN xs) = Len(xs)
         /\ \A i \in DOMAIN xs : xs[i] \in Nat
<1>1. DOMAIN xs = 1 .. Len(xs) /\ Len(xs) \in Nat
  OBVIOUS
<1> DEFINE n == Len(xs)
<1> HIDE DEF n
<1>2. n \in Nat => IsFiniteSet(1 .. n) /\ Cardinality(1 .. n) = n
  <2>1. ASSUME n \in Nat
        PROVE  1 .. n = {} <=> n = 0
    BY <2>1
  <2>2. ASSUME n \in Nat
        PROVE  IsFiniteSet(1 .. n) /\ Cardinality(1 .. n) = IF 1 > n THEN 0 ELSE n - 1 + 1
    BY <2>2, FS_Interval
  <2> QED
    BY <2>2
<1> QED
  BY <1>1, <1>2 DEF n

(* How far the prices of a window spread, by their sum and the sum of      *)
(* their squares: calculateVolatility() is the mean square of the          *)
(* distances from the mean.                                                *)
Squares(xs) == SumFunction([i \in DOMAIN xs |-> xs[i] * xs[i]])
Spread(xs) == Len(xs) * Squares(xs) - SumFunction(xs) * SumFunction(xs)

LEMMA SumsOfPrices ==
  ASSUME NEW xs \in Seq(Nat)
  PROVE  SumFunction(xs) \in Nat /\ Squares(xs) \in Nat /\ Spread(xs) \in Int
<1>1. IsFiniteSet(DOMAIN xs) /\ Len(xs) \in Nat /\ \A i \in DOMAIN xs : xs[i] \in Nat
  BY SeqFacts
<1>2. SumFunction(xs) \in Nat
  BY <1>1, SumNat DEF SumFunction
<1> DEFINE squares == [i \in DOMAIN xs |-> xs[i] * xs[i]]
<1>3. \A i \in DOMAIN xs : squares[i] \in Nat
  BY <1>1
<1>4. SumFunctionOnSet(squares, DOMAIN xs) \in Nat
  <2> HIDE DEF squares
  <2> QED
    BY <1>1, <1>3, SumNat
<1>5. Squares(xs) \in Nat
  BY <1>4 DEF Squares, SumFunction
<1> QED
  BY <1>1, <1>2, <1>5 DEF Spread

LEMMA VarianceIs ==
  ASSUME NEW xs \in Seq(Nat)
  PROVE  Variance(xs) = <<Len(xs) * Spread(xs), Len(xs) * Len(xs) * Len(xs)>>
<1> DEFINE n == Len(xs)
           S == SumFunction(xs)
           Q == Squares(xs)
           D == DOMAIN xs
           distance == [i \in DOMAIN xs |-> n * xs[i] - S]
           squares == [i \in DOMAIN xs |-> xs[i] * xs[i]]
           h == [i \in DOMAIN xs |-> distance[i] * distance[i]]
<1>1. IsFiniteSet(D) /\ Cardinality(D) = n /\ n \in Nat /\ \A i \in D : xs[i] \in Nat
  BY SeqFacts
<1>2. S \in Nat /\ Q \in Nat
  BY SumsOfPrices
<1>3. S = SumFunctionOnSet(xs, D) /\ Q = SumFunctionOnSet(squares, D)
  BY DEF SumFunction, Squares
<1>4. Variance(xs) = <<SumFunctionOnSet(h, D), n * n * n>>
  BY DEF Variance, SumFunction
<1>5. ASSUME NEW i \in D
      PROVE  /\ squares[i] \in Int /\ xs[i] \in Int
             /\ h[i] = (n * n) * squares[i] + (-2 * (n * S)) * xs[i] + S * S
  <2> DEFINE x == xs[i]
  <2>1. x \in Nat
    BY <1>1
  <2>2. h[i] = (n * x - S) * (n * x - S) /\ squares[i] = x * x
    OBVIOUS
  <2> HIDE DEF x, n, S, h, squares
  <2>3. (n * x - S) * (n * x - S) = (n * n) * (x * x) + (-2 * (n * S)) * x + S * S
    BY <1>1, <1>2, <2>1
  <2> QED
    BY <2>1, <2>2, <2>3 DEF x
<1>6. (n * n) \in Int /\ (-2 * (n * S)) \in Int /\ S * S \in Int
  <2> HIDE DEF n, S
  <2> QED
    BY <1>1, <1>2
<1>7. SumFunctionOnSet(h, D) = (n * n) * Q + (-2 * (n * S)) * S + (S * S) * n
  <2> DEFINE a == n * n
             b == -2 * (n * S)
             c == S * S
  <2>1. \A i \in D : squares[i] \in Int /\ xs[i] \in Int /\ h[i] = a * squares[i] + b * xs[i] + c
    BY <1>5
  <2>2. a \in Int /\ b \in Int /\ c \in Int
    BY <1>6
  <2>4. Combines(h, D, a, squares, b, xs, c)
    <3> HIDE DEF a, b, c, squares, h, D
    <3> QED
      BY <2>1 DEF Combines
  <2> HIDE DEF a, b, c, squares, h, n, S, Q, D
  <2>3. SumFunctionOnSet(h, D)
          = a * SumFunctionOnSet(squares, D) + b * SumFunctionOnSet(xs, D) + c * Cardinality(D)
    BY <1>1, <2>2, <2>4, SumLinear
  <2> QED
    BY <1>1, <1>3, <2>3 DEF a, b, c
<1> HIDE DEF n, S, Q, h, D
<1>8. (n * n) * Q + (-2 * (n * S)) * S + (S * S) * n = n * (n * Q - S * S)
  BY <1>1, <1>2
<1>9. Spread(xs) = n * Q - S * S
  BY DEF Spread, n, S, Q
<1> QED
  BY <1>4, <1>7, <1>8, <1>9 DEF n

(* The squared differences of all pairs of prices. *)
LEMMA SpreadIs ==
  ASSUME NEW xs \in Seq(Nat)
  PROVE  SumFunction([ij \in (DOMAIN xs) \X (DOMAIN xs) |->
                        (xs[ij[1]] - xs[ij[2]]) * (xs[ij[1]] - xs[ij[2]])]) = 2 * Spread(xs)
<1> DEFINE n == Len(xs)
           S == SumFunction(xs)
           Q == Squares(xs)
           D == DOMAIN xs
           squares == [i \in DOMAIN xs |-> xs[i] * xs[i]]
           f == [ij \in (DOMAIN xs) \X (DOMAIN xs) |->
                   (xs[ij[1]] - xs[ij[2]]) * (xs[ij[1]] - xs[ij[2]])]
           row(i) == [j \in D |-> f[<<i, j>>]]
           rows == [i \in D |-> SumFunctionOnSet(row(i), D)]
<1>1. IsFiniteSet(D) /\ Cardinality(D) = n /\ n \in Nat /\ \A i \in D : xs[i] \in Nat
  BY SeqFacts
<1>2. S \in Nat /\ Q \in Nat
  BY SumsOfPrices
<1>3. S = SumFunctionOnSet(xs, D) /\ Q = SumFunctionOnSet(squares, D)
  BY DEF SumFunction, Squares
<1>4. \A i \in D : squares[i] \in Int /\ squares[i] = xs[i] * xs[i]
  BY <1>1
<1>5. \A i, j \in D : f[<<i, j>>] = (xs[i] - xs[j]) * (xs[i] - xs[j])
  OBVIOUS
<1>6. \A i, j \in D : f[<<i, j>>] \in Int
  <2> TAKE i \in D, j \in D
  <2> DEFINE x == xs[i]  y == xs[j]
  <2>1. x \in Nat /\ y \in Nat /\ f[<<i, j>>] = (x - y) * (x - y)
    BY <1>1
  <2> HIDE DEF x, y, f
  <2> QED
    BY <2>1
<1>7. ASSUME NEW i \in D
      PROVE  rows[i] = n * squares[i] + (-2 * S) * xs[i] + Q
  <2> DEFINE x == xs[i]
             r == row(i)
             a == 1
             b == -2 * x
             c == x * x
  <2>1. x \in Nat
    BY <1>1
  <2>2. \A j \in D : squares[j] \in Int /\ xs[j] \in Int /\ r[j] = a * squares[j] + b * xs[j] + c
    <3> TAKE j \in D
    <3> DEFINE y == xs[j]
    <3>1. y \in Nat /\ r[j] = (x - y) * (x - y) /\ squares[j] = y * y
      BY <1>1, <1>5
    <3> HIDE DEF x, y, r, squares
    <3>2. (x - y) * (x - y) = 1 * (y * y) + (-2 * x) * y + x * x
      BY <2>1, <3>1
    <3> QED
      BY <3>1, <3>2 DEF y
  <2>3. a \in Int /\ b \in Int /\ c \in Int
    <3> HIDE DEF x
    <3> QED
      BY <2>1
  <2>4. rows[i] = SumFunctionOnSet(r, D)
    OBVIOUS
  <2> HIDE DEF a, b, c, r, squares, rows, D
  <2>8. Combines(r, D, a, squares, b, xs, c)
    BY <2>2 DEF Combines
  <2>5. SumFunctionOnSet(r, D)
          = a * SumFunctionOnSet(squares, D) + b * SumFunctionOnSet(xs, D) + c * Cardinality(D)
    BY <1>1, <2>3, <2>8, SumLinear
  <2>6. squares[i] = x * x
    BY <1>4
  <2> HIDE DEF x, S, Q, n
  <2>7. 1 * Q + (-2 * x) * S + (x * x) * n = n * (x * x) + (-2 * S) * x + Q
    BY <1>1, <1>2, <2>1
  <2> QED
    BY <1>1, <1>3, <2>4, <2>5, <2>6, <2>7 DEF a, b, c, x
<1>8. SumFunction(f) = SumFunctionOnSet(rows, D)
  <2>1. SumFunction(f) = SumFunctionOnSet(f, D \X D)
    BY DEF SumFunction
  <2>2. \A i \in D : rows[i] = SumFunctionOnSet([j \in D |-> f[<<i, j>>]], D)
    OBVIOUS
  <2>8. SumsOfRows(rows, f, D, D)
    BY <2>2 DEF SumsOfRows
  <2>9. \A i \in D, j \in D : f[<<i, j>>] \in Int
    BY <1>6
  <2> HIDE DEF f, rows, D
  <2>3. SumFunctionOnSet(f, D \X D) = SumFunctionOnSet(rows, D)
    BY <1>1, <2>8, <2>9, SumPairs
  <2> QED
    BY <2>1, <2>3
<1>9. SumFunctionOnSet(rows, D) = n * Q + (-2 * S) * S + Q * n
  <2> DEFINE b == -2 * S
  <2>1. n \in Int /\ b \in Int /\ Q \in Int
    <3> HIDE DEF n, S, Q
    <3> QED
      BY <1>1, <1>2
  <2>2. \A i \in D : squares[i] \in Int /\ xs[i] \in Int
                     /\ rows[i] = n * squares[i] + b * xs[i] + Q
    <3> TAKE i \in D
    <3>1. xs[i] \in Int
      BY <1>1
    <3> HIDE DEF rows, squares, n, Q, S, D
    <3> QED
      BY <1>4, <1>7, <3>1
  <2> HIDE DEF b, rows, squares, n, Q, D
  <2>4. Combines(rows, D, n, squares, b, xs, Q)
    BY <2>2 DEF Combines
  <2>3. SumFunctionOnSet(rows, D)
          = n * SumFunctionOnSet(squares, D) + b * SumFunctionOnSet(xs, D) + Q * Cardinality(D)
    BY <1>1, <2>1, <2>4, SumLinear
  <2> QED
    BY <1>1, <1>3, <2>3 DEF b
<1> HIDE DEF n, S, Q, rows, D
<1>10. n * Q + (-2 * S) * S + Q * n = 2 * (n * Q - S * S)
  BY <1>1, <1>2
<1>11. Spread(xs) = n * Q - S * S
  BY DEF Spread, n, S, Q
<1>12. SumFunction(f) = 2 * Spread(xs)
  BY <1>8, <1>9, <1>10, <1>11
<1> QED
  BY <1>12

-----------------------------------------------------------------------------
(* Prices that never move: the volatility is zero exactly then, and only   *)
(* then are there neither gains nor losses.                                *)
Still(xs) == \A i \in DOMAIN xs : xs[i] = xs[1]

LEMMA VolatilityOfStill ==
  ASSUME NEW xs \in Seq(Nat), xs # <<>>
  PROVE  Variance(xs)[1] = 0 <=> Still(xs)
<1> DEFINE n == Len(xs)
           S == SumFunction(xs)
           D == DOMAIN xs
           distance == [i \in DOMAIN xs |-> n * xs[i] - S]
           h == [i \in DOMAIN xs |-> distance[i] * distance[i]]
<1>1. IsFiniteSet(D) /\ Cardinality(D) = n /\ n \in Nat /\ \A i \in D : xs[i] \in Nat
  BY SeqFacts
<1>2. S \in Nat /\ n > 0 /\ 1 \in D /\ xs[1] \in Nat
  <2>1. n > 0 /\ 1 \in D
    BY <1>1, SeqFacts, EmptySeq
  <2> QED
    BY <1>1, <2>1, SumsOfPrices
<1>3. Variance(xs)[1] = SumFunctionOnSet(h, D)
  BY DEF Variance, SumFunction
<1>4. ASSUME NEW i \in D
      PROVE  h[i] \in Nat /\ (h[i] = 0 <=> n * xs[i] = S)
  <2> DEFINE x == xs[i]
             d == n * x - S
  <2>1. x \in Nat /\ h[i] = d * d
    BY <1>1
  <2> HIDE DEF x, n, S, h
  <2>2. d \in Int
    BY <1>1, <1>2, <2>1
  <2> HIDE DEF d
  <2>3. d * d \in Nat /\ (d * d = 0 <=> d = 0)
    BY <2>2
  <2>4. d = 0 <=> n * x = S
    BY <1>1, <1>2, <2>1 DEF d
  <2> QED
    BY <2>1, <2>3, <2>4 DEF x
<1>5. ASSUME SumFunctionOnSet(h, D) = 0
      PROVE  Still(xs)
  <2>1. \A i \in D : h[i] \in Nat
    BY <1>4
  <2>2. \A i \in D : h[i] = 0
    <3> HIDE DEF h, D
    <3> QED
      BY <1>1, <1>5, <2>1, SumZero
  <2>3. ASSUME NEW i \in D
        PROVE  xs[i] = xs[1]
    <3> DEFINE x == xs[i]  y == xs[1]
    <3>1. n * x = S /\ n * y = S
      BY <1>2, <1>4, <2>2
    <3>2. x \in Nat /\ y \in Nat
      BY <1>1, <1>2
    <3> HIDE DEF x, y, n, S
    <3>3. x = y
      <4>1. n * x = n * y
        BY <3>1
      <4>2. CASE x < y
        <5>1. PICK d \in Nat : y = x + d /\ d > 0
          <6>1. y - x \in Nat /\ y = x + (y - x) /\ y - x > 0
            BY <3>2, <4>2
          <6> QED
            BY <6>1
        <5>2. n * y = n * x + n * d /\ n * d > 0
          BY <1>1, <1>2, <3>2, <5>1
        <5>3. n * x \in Nat /\ n * d \in Nat
          BY <1>1, <3>2
        <5> QED
          BY <4>1, <5>2, <5>3
      <4>3. CASE y < x
        <5>1. PICK d \in Nat : x = y + d /\ d > 0
          <6>1. x - y \in Nat /\ x = y + (x - y) /\ x - y > 0
            BY <3>2, <4>3
          <6> QED
            BY <6>1
        <5>2. n * x = n * y + n * d /\ n * d > 0
          BY <1>1, <1>2, <3>2, <5>1
        <5>3. n * y \in Nat /\ n * d \in Nat
          BY <1>1, <3>2
        <5> QED
          BY <4>1, <5>2, <5>3
      <4> QED
        BY <3>2, <4>2, <4>3
    <3> QED
      BY <3>3 DEF x, y
  <2> QED
    BY <2>3 DEF Still
<1>6. ASSUME Still(xs)
      PROVE  SumFunctionOnSet(h, D) = 0
  <2> DEFINE c == xs[1]
             zero == [i \in D |-> 0]
             none == 0
  <2>1. \A i \in D : zero[i] \in Int /\ xs[i] = none * zero[i] + none * zero[i] + c
    BY <1>1, <1>6 DEF Still
  <2>2. c \in Int /\ none \in Int
    BY <1>2
  <2>3. S = SumFunctionOnSet(xs, D)
    BY DEF SumFunction
  <2> HIDE DEF zero, none, c, D, n, S, h
  <2>4. Combines(xs, D, none, zero, none, zero, c)
    BY <2>1 DEF Combines
  <2>5. /\ SumFunctionOnSet(zero, D) \in Int
        /\ SumFunctionOnSet(xs, D)
             = none * SumFunctionOnSet(zero, D) + none * SumFunctionOnSet(zero, D)
                 + c * Cardinality(D)
    BY <1>1, <2>2, <2>4, SumLinear
  <2>6. S = c * n
    <3> DEFINE z == SumFunctionOnSet(zero, D)
    <3> HIDE DEF z, n, S
    <3>1. z \in Int /\ S = none * z + none * z + c * n
      BY <1>1, <2>3, <2>5 DEF z
    <3> QED
      BY <1>1, <2>2, <3>1 DEF none
  <2>7. \A i \in D : h[i] \in Nat /\ h[i] <= 0
    <3> TAKE i \in D
    <3>1. xs[i] = c
      BY <1>6 DEF Still, D, c
    <3>2. n * xs[i] = S
      BY <1>1, <2>2, <2>6, <3>1
    <3>3. h[i] = 0
      BY <1>4, <3>2
    <3> QED
      BY <3>3
  <2>8. SumFunctionOnSet(h, D) <= Cardinality(D) * 0 /\ SumFunctionOnSet(h, D) \in Nat
    BY <1>1, <2>7, SumBounded, SumNat
  <2> QED
    BY <1>1, <2>8
<1> QED
  BY <1>3, <1>5, <1>6

LEMMA GainsAndLosses ==
  ASSUME NEW xs \in Seq(Nat), xs # <<>>
  PROVE  /\ Gains(Steps(xs)) \in Nat /\ Losses(Steps(xs)) \in Nat
         /\ Gains(Steps(xs)) - Losses(Steps(xs)) = xs[Len(xs)] - xs[1]
         /\ Gains(Steps(xs)) = 0 /\ Losses(Steps(xs)) = 0 <=> Still(xs)
<1> DEFINE m == Len(xs) - 1
           D == 1 .. m
           steps == Steps(xs)
           up == [i \in DOMAIN steps |-> IF steps[i] > 0 THEN steps[i] ELSE 0]
           minus == [i \in DOMAIN steps |-> -steps[i]]
           down == [i \in DOMAIN minus |-> IF minus[i] > 0 THEN minus[i] ELSE 0]
<1>1. /\ Len(xs) \in Nat /\ DOMAIN xs = 1 .. Len(xs) /\ Len(xs) > 0
      /\ \A i \in 1 .. Len(xs) : xs[i] \in Nat
  BY SeqFacts, EmptySeq
<1>2. m \in Nat /\ Len(xs) = m + 1
  BY <1>1
<1>3. IsFiniteSet(D)
  <2> HIDE DEF m
  <2> QED
    BY <1>2, FS_Interval
<1>4. DOMAIN steps = D /\ \A i \in D : steps[i] = xs[i + 1] - xs[i]
  BY DEF Steps
<1>5. ASSUME NEW i \in D
      PROVE  xs[i] \in Nat /\ xs[i + 1] \in Nat /\ steps[i] \in Int
  <2>1. i \in 1 .. Len(xs) /\ i + 1 \in 1 .. Len(xs)
    BY <1>1
  <2>2. xs[i] \in Nat /\ xs[i + 1] \in Nat
    BY <1>1, <2>1
  <2> QED
    BY <1>4, <2>2
<1>6. Gains(steps) = SumFunctionOnSet(up, D)
  BY <1>4 DEF Gains, SumFunction
<1>7. Losses(steps) = SumFunctionOnSet(down, D)
  BY <1>4 DEF Losses, Gains, SumFunction
<1>8. ASSUME NEW i \in D
      PROVE  /\ up[i] \in Nat /\ down[i] \in Nat
             /\ steps[i] = up[i] - down[i]
             /\ steps[i] = 0 <=> up[i] = 0 /\ down[i] = 0
  <2>1. /\ up[i] = IF steps[i] > 0 THEN steps[i] ELSE 0
        /\ down[i] = IF -steps[i] > 0 THEN -steps[i] ELSE 0
    BY <1>4
  <2> HIDE DEF up, down, steps
  <2> QED
    BY <1>5, <2>1
<1> HIDE DEF up, down, steps
<1>9. SumFunctionOnSet(up, D) \in Nat /\ SumFunctionOnSet(down, D) \in Nat
  <2> HIDE DEF D
  <2> QED
    BY <1>3, <1>8, SumNat
<1>10. SumFunctionOnSet(steps, D) = SumFunctionOnSet(up, D) - SumFunctionOnSet(down, D)
  <2> DEFINE one == 1  minusOne == -1  none == 0
  <2>1. \A i \in D : up[i] \in Int /\ down[i] \in Int
                     /\ steps[i] = one * up[i] + minusOne * down[i] + none
    <3> TAKE i \in D
    <3> DEFINE u == up[i]  d == down[i]
    <3>1. u \in Nat /\ d \in Nat /\ steps[i] = u - d
      BY <1>8
    <3> HIDE DEF u, d
    <3>2. u - d = one * u + minusOne * d + none
      BY <3>1
    <3> QED
      BY <3>1, <3>2 DEF u, d
  <2>2. one \in Int /\ minusOne \in Int /\ none \in Int
    OBVIOUS
  <2> HIDE DEF one, minusOne, none, D
  <2>3. Combines(steps, D, one, up, minusOne, down, none)
    BY <2>1 DEF Combines
  <2>4. /\ Cardinality(D) \in Nat
        /\ SumFunctionOnSet(steps, D)
             = one * SumFunctionOnSet(up, D) + minusOne * SumFunctionOnSet(down, D)
                 + none * Cardinality(D)
    BY <1>3, <2>2, <2>3, SumLinear
  <2> QED
    BY <1>9, <2>4 DEF one, minusOne, none
<1>11. SumFunctionOnSet(steps, D) = xs[m + 1] - xs[1]
  <2>1. \A i \in 1 .. m + 1 : xs[i] \in Int
    BY <1>1, <1>2
  <2> HIDE DEF m
  <2> QED
    BY <1>2, <1>4, <2>1, SumOfSteps
<1>12. ASSUME SumFunctionOnSet(up, D) = 0, SumFunctionOnSet(down, D) = 0
       PROVE  Still(xs)
  <2>1. \A i \in D : up[i] = 0
    <3> HIDE DEF D
    <3> QED
      BY <1>3, <1>8, <1>12, SumZero
  <2>2. \A i \in D : down[i] = 0
    <3> HIDE DEF D
    <3> QED
      BY <1>3, <1>8, <1>12, SumZero
  <2>3. \A i \in D : xs[i + 1] = xs[i]
    <3> TAKE i \in D
    <3>1. steps[i] = 0
      BY <1>8, <2>1, <2>2
    <3> QED
      BY <1>4, <1>5, <3>1
  <2> DEFINE Good == {k \in Nat : k <= m => xs[k + 1] = xs[1]}
  <2>4. 0 \in Good
    OBVIOUS
  <2>5. \A k \in Nat : k \in Good => k + 1 \in Good
    <3> SUFFICES ASSUME NEW k \in Nat, k \in Good, k + 1 <= m
                 PROVE  xs[k + 2] = xs[1]
      OBVIOUS
    <3>1. k + 1 \in D /\ (k + 1) + 1 = k + 2
      BY <1>2
    <3>2. xs[k + 1] = xs[1]
      BY <1>2
    <3> QED
      BY <2>3, <3>1, <3>2
  <2>6. \A k \in Nat : k \in Good
    <3> HIDE DEF Good
    <3> QED
      BY <2>4, <2>5, NaturalInduction
  <2>7. ASSUME NEW i \in DOMAIN xs
        PROVE  xs[i] = xs[1]
    <3>1. i - 1 \in Nat /\ i - 1 <= m /\ (i - 1) + 1 = i
      BY <1>1, <2>7
    <3> QED
      BY <2>6, <3>1
  <2> QED
    BY <2>7 DEF Still
<1>13. ASSUME Still(xs)
       PROVE  SumFunctionOnSet(up, D) = 0 /\ SumFunctionOnSet(down, D) = 0
  <2>1. \A i \in D : steps[i] = 0
    <3> TAKE i \in D
    <3>1. i \in DOMAIN xs /\ i + 1 \in DOMAIN xs
      BY <1>1
    <3>2. xs[i] = xs[1] /\ xs[i + 1] = xs[1]
      BY <1>13, <3>1 DEF Still
    <3> QED
      BY <1>4, <1>5, <3>2
  <2>2. \A i \in D : up[i] \in Nat /\ up[i] <= 0 /\ down[i] \in Nat /\ down[i] <= 0
    <3> TAKE i \in D
    <3>1. up[i] = 0 /\ down[i] = 0
      BY <1>8, <2>1
    <3> QED
      BY <3>1
  <2> HIDE DEF D
  <2>3. Cardinality(D) \in Nat
    BY <1>3, FS_CardinalityType
  <2>4. SumFunctionOnSet(up, D) <= Cardinality(D) * 0
    BY <1>3, <2>2, SumBounded
  <2>5. SumFunctionOnSet(down, D) <= Cardinality(D) * 0
    BY <1>3, <2>2, SumBounded
  <2> QED
    BY <1>9, <2>3, <2>4, <2>5
<1> QED
  BY <1>2, <1>6, <1>7, <1>9, <1>10, <1>11, <1>12, <1>13 DEF steps

-----------------------------------------------------------------------------
(* The prices that the handler computes with are those of the last ticks.  *)
TicksTyped ==
  /\ tickPrice \in [Symbols -> Seq(TickPrices)]
  /\ \A symbol \in Symbols : Len(tickPrice[symbol]) = published[symbol]["tick"]

LEMMA WindowIs ==
  ASSUME MarketDataInv, TicksTyped, NEW symbol \in Symbols, NEW limit \in Nat
  PROVE  LET n == published[symbol]["tick"]
             m == Lesser(n, Lesser(limit, MAX_HISTORY_SIZE))
         IN /\ n \in Nat /\ m \in Nat /\ m <= n /\ m <= limit
            /\ Window(symbol, limit) = [i \in 1 .. m |-> tickPrice[symbol][(n - m) + i]]
            /\ \A i \in 1 .. m : tickPrice[symbol][(n - m) + i] \in TickPrices
<1> DEFINE n == published[symbol]["tick"]
           m == Lesser(n, Lesser(limit, MAX_HISTORY_SIZE))
           ticks == getHistory(symbol, "tick", limit)
<1>1. n \in Nat /\ "tick" \in Kinds
  BY PastIsRecent DEF Kinds
<1>2. m \in Nat /\ m <= n /\ m <= limit
  BY <1>1, MarketDataAssumption DEF MarketDataAssumption, Lesser
<1>3. ticks = Through(n - m, n)
  BY <1>1, HistoryQueried
<1> HIDE DEF m
<1>4. /\ n - m \in Nat /\ n - m <= n /\ n - (n - m) = m
  BY <1>1, <1>2
<1>5. DOMAIN ticks = 1 .. m /\ \A i \in 1 .. m : ticks[i] = (n - m) + i
  BY <1>3, <1>4 DEF Through
<1>6. Window(symbol, limit) = [i \in 1 .. m |-> tickPrice[symbol][(n - m) + i]]
  BY <1>5 DEF Window
<1>7. ASSUME NEW i \in 1 .. m
      PROVE  tickPrice[symbol][(n - m) + i] \in TickPrices
  <2>1. tickPrice[symbol] \in Seq(TickPrices) /\ Len(tickPrice[symbol]) = n
    BY DEF TicksTyped
  <2>2. (n - m) + i \in 1 .. n
    BY <1>1, <1>2
  <2> HIDE DEF n
  <2> QED
    BY <2>1, <2>2, ElementOfSeq
<1> QED
  BY <1>1, <1>2, <1>6, <1>7 DEF m

LEMMA WindowPrices ==
  ASSUME MarketDataInv, TicksTyped, NEW symbol \in Symbols, NEW limit \in Nat
  PROVE  Window(symbol, limit) \in Seq(Nat) /\ Len(Window(symbol, limit)) <= limit
<1> DEFINE n == published[symbol]["tick"]
           m == Lesser(n, Lesser(limit, MAX_HISTORY_SIZE))
<1>1. /\ m \in Nat /\ m <= limit
      /\ Window(symbol, limit) = [i \in 1 .. m |-> tickPrice[symbol][(n - m) + i]]
      /\ \A i \in 1 .. m : tickPrice[symbol][(n - m) + i] \in TickPrices
  BY WindowIs
<1>2. \A i \in 1 .. m : tickPrice[symbol][(n - m) + i] \in Nat
  BY <1>1, StrategiesAssumption DEF StrategiesAssumption
<1> HIDE DEF m, n
<1>3. Window(symbol, limit) \in [1 .. m -> Nat]
  BY <1>1, <1>2
<1> QED
  BY <1>1, <1>3, SeqDef

LEMMA WindowsAreNumbers == ASSUME NEW w \in Windows PROVE w \in Nat /\ w + 1 \in Nat
BY MarketDataAssumption DEF MarketDataAssumption, Windows

-----------------------------------------------------------------------------
LEMMA SpreadOfVolatility ==
  ASSUME MarketDataInv, TicksTyped
  PROVE  VolatilityIsTheSpread
<1> SUFFICES
      ASSUME NEW symbol \in Symbols, NEW window \in Windows
      PROVE  LET xs == Window(symbol, window)
                 volatility == calculateVolatility(symbol, window)
                 squares == SumFunction([ij \in (DOMAIN xs) \X (DOMAIN xs) |->
                              (xs[ij[1]] - xs[ij[2]]) * (xs[ij[1]] - xs[ij[2]])])
             IN /\ volatility[2] > 0
                /\ volatility[1] * 2 * Len(xs) * Len(xs) = squares * volatility[2]
  BY DEF VolatilityIsTheSpread
<1> DEFINE xs == Window(symbol, window)
           n == Len(xs)
           s == Spread(xs)
           volatility == calculateVolatility(symbol, window)
           squares == SumFunction([ij \in (DOMAIN xs) \X (DOMAIN xs) |->
                        (xs[ij[1]] - xs[ij[2]]) * (xs[ij[1]] - xs[ij[2]])])
<1>1. xs \in Seq(Nat)
  BY WindowPrices, WindowsAreNumbers
<1>2. volatility = IF n < 2 THEN Zero ELSE Variance(xs)
  BY DEF calculateVolatility
<1>3. squares = 2 * s
  <2> HIDE DEF xs
  <2> QED
    BY <1>1, SpreadIs
<1> HIDE DEF xs
<1>4. n \in Nat /\ s \in Int
  BY <1>1, SeqFacts, SumsOfPrices
<1>5. CASE n < 2
  <2>1. volatility = <<0, 1>>
    BY <1>2, <1>5 DEF Zero
  <2>2. s = 0
    <3>1. CASE n = 0
      <4>1. xs = <<>>
        BY <1>1, <3>1, EmptySeq
      <4>2. DOMAIN xs = {}
        BY <1>1, <3>1, SeqFacts
      <4>3. SumFunction(xs) = 0
        BY <4>2, SumEmpty DEF SumFunction
      <4>4. Len(xs) * Squares(xs) = 0
        <5>1. Squares(xs) \in Nat
          BY <1>1, SumsOfPrices
        <5> QED
          BY <3>1, <5>1
      <4> QED
        BY <4>3, <4>4 DEF Spread
    <3>2. CASE n = 1
      <4>1. xs # <<>> /\ Still(xs)
        <5>1. DOMAIN xs = {1}
          BY <1>1, <3>2, SeqFacts
        <5>2. xs # <<>>
          BY <3>2, EmptySeq
        <5> QED
          BY <5>1, <5>2 DEF Still
      <4>2. Variance(xs)[1] = 0
        BY <1>1, <4>1, VolatilityOfStill
      <4>3. Variance(xs) = <<n * s, n * n * n>>
        BY <1>1, VarianceIs
      <4> HIDE DEF n, s
      <4>4. n * s = 0
        BY <4>2, <4>3
      <4> QED
        BY <1>4, <3>2, <4>4
    <3>3. n = 0 \/ n = 1
      <4> HIDE DEF n
      <4> QED
        BY <1>4, <1>5
    <3> QED
      BY <3>1, <3>2, <3>3
  <2> HIDE DEF n, s, volatility, squares
  <2>3. volatility[1] = 0 /\ volatility[2] = 1 /\ squares = 0
    BY <1>3, <2>1, <2>2
  <2>4. 0 * 2 * n * n = 0 * 1
    BY <1>4
  <2>5. /\ volatility[2] > 0
        /\ volatility[1] * 2 * n * n = squares * volatility[2]
    BY <2>3, <2>4
  <2> QED
    BY <2>5 DEF n, volatility, squares, xs
<1>6. CASE ~(n < 2)
  <2>1. volatility = <<n * s, n * n * n>>
    BY <1>1, <1>2, <1>6, VarianceIs
  <2> HIDE DEF n, s, volatility, squares
  <2>2. n * n * n > 0
    <3>1. n \in Nat /\ n > 0
      BY <1>4, <1>6
    <3>2. n * n > 0 /\ n * n \in Nat
      BY <3>1
    <3> QED
      BY <3>1, <3>2
  <2>3. (n * s) * 2 * n * n = (2 * s) * (n * n * n)
    BY <1>4
  <2>4. /\ volatility[2] > 0
        /\ volatility[1] * 2 * n * n = squares * volatility[2]
    BY <1>3, <2>1, <2>2, <2>3
  <2> QED
    BY <2>4 DEF n, volatility, squares, xs
<1> QED
  BY <1>5, <1>6

LEMMA RSIAndMomentum ==
  ASSUME MarketDataInv, TicksTyped
  PROVE  RSIFollowsMomentum
<1> SUFFICES
      ASSUME NEW symbol \in Symbols, NEW period \in Windows \ {0}
      PROVE  LET xs == Window(symbol, period + 1)
                 momentum == calculateMomentum(symbol, period + 1)
                 rsi == calculateRSI(symbol, period)
                 above50 == 2 * rsi[1] - 100 * rsi[2]
             IN IF Len(xs) <= period THEN above50 = 0
                ELSE IF calculateVolatility(symbol, period + 1)[1] = 0
                     THEN Same(rsi, <<100, 1>>) /\ momentum[1] = 0
                     ELSE /\ momentum[1] > 0 <=> above50 > 0
                          /\ momentum[1] < 0 <=> above50 < 0
  BY DEF RSIFollowsMomentum
<1> DEFINE xs == Window(symbol, period + 1)
           momentum == calculateMomentum(symbol, period + 1)
           rsi == calculateRSI(symbol, period)
           above50 == 2 * rsi[1] - 100 * rsi[2]
           gains == Gains(Steps(xs))
           losses == Losses(Steps(xs))
<1>1. period \in Nat /\ period > 0
  BY WindowsAreNumbers
<1>2. xs \in Seq(Nat) /\ Len(xs) \in Nat
  BY WindowPrices, WindowsAreNumbers, SeqFacts
<1>3. rsi = IF Len(xs) < period + 1 THEN <<50, 1>> ELSE Ratio(gains, losses)
  BY <1>1 DEF calculateRSI
<1>4. momentum = IF Len(xs) < 2 THEN Zero ELSE Change(xs)
  BY DEF calculateMomentum
<1>5. calculateVolatility(symbol, period + 1) = IF Len(xs) < 2 THEN Zero ELSE Variance(xs)
  BY DEF calculateVolatility
<1> HIDE DEF xs
<1>6. CASE Len(xs) <= period
  <2>1. rsi = <<50, 1>>
    BY <1>1, <1>2, <1>3, <1>6
  <2> HIDE DEF rsi
  <2>2. above50 = 0
    BY <2>1
  <2> QED
    BY <1>6, <2>2 DEF rsi, xs
<1>7. CASE ~(Len(xs) <= period)
  <2>1. ~(Len(xs) < 2) /\ ~(Len(xs) < period + 1) /\ xs # <<>>
    BY <1>1, <1>2, <1>7, EmptySeq
  <2>2. /\ gains \in Nat /\ losses \in Nat
        /\ gains - losses = xs[Len(xs)] - xs[1]
        /\ gains = 0 /\ losses = 0 <=> Still(xs)
    BY <1>2, <2>1, GainsAndLosses
  <2>3. rsi = IF losses = 0 THEN <<100, 1>> ELSE <<100 * gains, gains + losses>>
    BY <1>3, <2>1 DEF Ratio
  <2>4. momentum[1] = 100 * (gains - losses)
    BY <1>4, <2>1, <2>2 DEF Change
  <2>5. calculateVolatility(symbol, period + 1)[1] = 0 <=> gains = 0 /\ losses = 0
    BY <1>2, <1>5, <2>1, <2>2, VolatilityOfStill
  <2> HIDE DEF rsi, momentum, gains, losses
  <2>6. CASE losses = 0
    <3>1. above50 = 100 /\ rsi = <<100, 1>>
      BY <2>3, <2>6
    <3>2. momentum[1] = 100 * gains
      BY <2>2, <2>4, <2>6
    <3>3. Same(rsi, <<100, 1>>)
      BY <3>1 DEF Same
    <3> HIDE DEF above50
    <3> DEFINE u == momentum[1]
    <3> HIDE DEF u
    <3>4. CASE gains = 0
      <4>1. u = 0
        BY <3>2, <3>4 DEF u
      <4> QED
        BY <1>7, <2>5, <2>6, <3>3, <3>4, <4>1 DEF u, rsi, momentum, xs
    <3>5. CASE gains # 0
      <4>1. u > 0 /\ ~(u < 0) /\ above50 > 0 /\ ~(above50 < 0)
        BY <2>2, <3>1, <3>2, <3>5 DEF u
      <4> QED
        BY <1>7, <2>5, <3>5, <4>1 DEF u, above50, rsi, momentum, xs
    <3> QED
      BY <3>4, <3>5
  <2>7. CASE losses # 0
    <3>1. above50 = 100 * (gains - losses)
      BY <2>2, <2>3, <2>7
    <3>2. above50 = momentum[1] /\ above50 \in Int
      BY <2>2, <2>4, <3>1
    <3> QED
      BY <1>7, <2>5, <2>7, <3>2 DEF rsi, momentum, xs
  <2> QED
    BY <2>6, <2>7
<1> QED
  BY <1>6, <1>7

LEMMA NumbersOfIndicators ==
  ASSUME MarketDataInv, TicksTyped
  PROVE  IndicatorsAreNumbers
<1> SUFFICES
      ASSUME NEW symbol \in Symbols, NEW period \in Windows
      PROVE  LET rsi == calculateRSI(symbol, period)
                 momentum == calculateMomentum(symbol, period)
             IN /\ rsi[2] = 0 => period = 0
                /\ 0 <= rsi[1] /\ rsi[1] <= 100 * rsi[2]
                /\ momentum[2] = 0 => Window(symbol, period)[1] = 0 /\ period > 1
                /\ momentum[2] # 0 => momentum[1] >= -100 * momentum[2]
  BY DEF IndicatorsAreNumbers
<1> DEFINE rsi == calculateRSI(symbol, period)
           momentum == calculateMomentum(symbol, period)
<1>1. period \in Nat /\ period + 1 \in Nat
  BY WindowsAreNumbers
<1>2. /\ rsi[2] = 0 => period = 0
      /\ 0 <= rsi[1] /\ rsi[1] <= 100 * rsi[2]
  <2> DEFINE xs == Window(symbol, period + 1)
             gains == Gains(Steps(xs))
             losses == Losses(Steps(xs))
  <2>1. xs \in Seq(Nat) /\ Len(xs) \in Nat
    BY <1>1, WindowPrices, SeqFacts
  <2>2. rsi = IF Len(xs) < period + 1 THEN <<50, 1>>
              ELSE IF period = 0 THEN <<0, 0>> ELSE Ratio(gains, losses)
    BY DEF calculateRSI
  <2> HIDE DEF xs, rsi
  <2>3. CASE rsi = <<50, 1>> \/ (period = 0 /\ rsi = <<0, 0>>)
    BY <2>3
  <2>4. CASE ~(Len(xs) < period + 1) /\ rsi = Ratio(gains, losses)
    <3>1. xs # <<>>
      BY <1>1, <2>1, <2>4, EmptySeq
    <3>2. gains \in Nat /\ losses \in Nat
      BY <2>1, <3>1, GainsAndLosses
    <3> HIDE DEF gains, losses
    <3>3. rsi = IF losses = 0 THEN <<100, 1>> ELSE <<100 * gains, gains + losses>>
      BY <2>4 DEF Ratio
    <3> QED
      BY <3>2, <3>3
  <2> QED
    BY <2>2, <2>3, <2>4
<1>3. /\ momentum[2] = 0 => Window(symbol, period)[1] = 0 /\ period > 1
      /\ momentum[2] # 0 => momentum[1] >= -100 * momentum[2]
  <2> DEFINE xs == Window(symbol, period)
  <2>1. xs \in Seq(Nat) /\ Len(xs) <= period /\ Len(xs) \in Nat
    BY <1>1, WindowPrices, SeqFacts
  <2>2. momentum = IF Len(xs) < 2 THEN Zero ELSE Change(xs)
    BY DEF calculateMomentum
  <2> HIDE DEF xs, momentum
  <2>3. CASE Len(xs) < 2
    BY <2>2, <2>3 DEF Zero
  <2>4. CASE ~(Len(xs) < 2)
    <3>1. 1 \in DOMAIN xs /\ Len(xs) \in DOMAIN xs /\ xs[1] \in Nat /\ xs[Len(xs)] \in Nat
      BY <2>1, <2>4, SeqFacts
    <3> DEFINE first == xs[1]  last == xs[Len(xs)]
    <3>2. momentum = <<100 * (last - first), first>>
      BY <2>2, <2>4 DEF Change
    <3>3. first \in Nat /\ last \in Nat
      BY <3>1
    <3> HIDE DEF first, last
    <3>4. 100 * (last - first) >= -100 * first
      BY <3>3
    <3>5. period > 1
      BY <1>1, <2>1, <2>4
    <3> QED
      BY <3>2, <3>3, <3>4, <3>5 DEF first, xs
  <2> QED
    BY <2>3, <2>4
<1> QED
  BY <1>2, <1>3

-----------------------------------------------------------------------------
(* The inductive invariant of the strategies.                              *)
(*                                                                         *)
(* Between them, the entries of a strategy were called with the ticks it   *)
(* has collected the prices of.  In which order a strategy with several    *)
(* entries heard them does not matter to what it computes: any sum over    *)
(* its prices is the sum over all ticks its entries have heard.            *)
Total(phi, xs) == SumFunction([i \in DOMAIN xs |-> phi[xs[i]]])

HeardPrices(at) ==
  LET heard == Entry(at).heard["tick"]
  IN [i \in DOMAIN heard |-> tickPrice[at[1]][heard[i]]]

PricesAreHeard ==
  \A strategy \in Collecting, phi \in [TickPrices -> Int] :
    Total(phi, prices[strategy])
      = SumFunction([at \in Entries(strategy) |-> Total(phi, HeardPrices(at))])

(* What a strategy that listens to one symbol alone has heard first, and   *)
(* what it has heard last once one of its entries is up to date.           *)
FirstIsHeard ==
  \A strategy \in Collecting, symbol \in Symbols :
    ListensFromTheStart(strategy, symbol) /\ prices[strategy] # <<>> =>
      tickPrice[symbol] # <<>> /\ prices[strategy][1] = tickPrice[symbol][1]

HasLatest(strategy, symbol) ==
  /\ published[symbol]["tick"] > 0
  /\ \E at \in Entries(strategy) :
       Len(Entry(at).heard["tick"]) = published[symbol]["tick"]

LatestKept(strategy, price) ==
  /\ strategy \in Collecting =>
       prices[strategy] # <<>> /\ prices[strategy][Len(prices[strategy])] = price
  /\ strategy = "MarketMaking" => lastTick = {price}

LastIsHeard ==
  \A symbol \in Symbols, strategy \in Listeners :
    ListensFromTheStart(strategy, symbol) /\ HasLatest(strategy, symbol) =>
      LatestKept(strategy, tickPrice[symbol][published[symbol]["tick"]])

CollectedTyped ==
  /\ prices \in [Collecting -> Seq(TickPrices)]
  /\ lastTick \subseteq TickPrices /\ Cardinality(lastTick) <= 1

EntriesFinite == \A strategy \in Collecting : IsFiniteSet(Entries(strategy))

HandlerFacts == MarketDataInv /\ owned = Listeners /\ TicksTyped

StrategiesInv ==
  /\ HandlerFacts
  /\ CollectedTyped
  /\ EntriesFinite
  /\ PricesAreHeard
  /\ FirstIsHeard
  /\ LastIsHeard

-----------------------------------------------------------------------------
(* The market data handler under the strategies is the one of its own      *)
(* module, with listeners that nobody drops.                               *)
LEMMA StrategiesInMarketData ==
  ASSUME [StrategiesNext]_strategiesVars
  PROVE  [MarketDataNext]_mdVars /\ owned' = owned
<1>1. ASSUME NEW symbol \in Symbols, PublishTick(symbol)
      PROVE  MarketDataNext /\ owned' = owned
  BY <1>1 DEF PublishTick, MarketDataNext, Kinds, publish
<1>2. ASSUME NEW p \in publication, NotifyStrategy(p)
      PROVE  MarketDataNext /\ owned' = owned
  BY <1>2 DEF NotifyStrategy, MarketDataNext, notify
<1>3. CASE HandlerStep
  BY <1>3 DEF HandlerStep, MarketDataNext, Kinds, subscribe, publish, publishReturns
<1>4. CASE UNCHANGED strategiesVars
  BY <1>4 DEF strategiesVars, mdVars
<1> QED
  BY <1>1, <1>2, <1>3, <1>4 DEF StrategiesNext

(* The strategies use the handler as its specification allows: what is     *)
(* proved of the handler holds under them, and they add no call to it.     *)
THEOREM StrategiesImplementMarketData == StrategiesSpec => MarketDataSpec
<1>1. StrategiesInit => MarketDataInit
  BY DEF StrategiesInit
<1>2. [StrategiesNext]_strategiesVars => [MarketDataNext]_mdVars
  BY StrategiesInMarketData
<1> QED
  BY <1>1, <1>2, PTL DEF StrategiesSpec, MarketDataSpec

LEMMA MarketDataInvStep ==
  ASSUME MarketDataInv, [MarketDataNext]_mdVars
  PROVE  MarketDataInv'
BY TypeNext, RecentNext, EntriesNext DEF MarketDataInv

(* What was published, and the prices of it. *)
Published(symbol) ==
  /\ publication = {}
  /\ published[symbol]["tick"] \in Nat
  /\ \E price \in TickPrices : tickPrice' = [tickPrice EXCEPT ![symbol] = Append(@, price)]
  /\ published'[symbol]["tick"] = published[symbol]["tick"] + 1
  /\ \A s \in Symbols \ {symbol} : published'[s]["tick"] = published[s]["tick"]

NothingPublished ==
  /\ tickPrice' = tickPrice
  /\ \A s \in Symbols : published'[s]["tick"] = published[s]["tick"]

LEMMA PublishedTicks ==
  ASSUME HandlerFacts, [StrategiesNext]_strategiesVars
  PROVE  \/ \E symbol \in Symbols : PublishTick(symbol) /\ Published(symbol)
         \/ NothingPublished
<1>1. published \in [Symbols -> Numbers] /\ "tick" \in Kinds /\ "book" \in Kinds
  BY DEF HandlerFacts, MarketDataInv, MarketDataTypeOK, Kinds
<1>2. ASSUME NEW symbol \in Symbols, PublishTick(symbol)
      PROVE  Published(symbol)
  <2>1. publish(symbol, "tick")
    BY <1>2 DEF PublishTick
  <2>2. published' = [published EXCEPT ![symbol]["tick"] = @ + 1]
    BY <2>1 DEF publish
  <2>3. published'[symbol]["tick"] = published[symbol]["tick"] + 1
    BY <1>1, <2>2 DEF Numbers
  <2>4. \A s \in Symbols \ {symbol} : published'[s]["tick"] = published[s]["tick"]
    BY <1>1, <2>2
  <2>5. published[symbol]["tick"] \in Nat
    BY <1>1 DEF Numbers
  <2> QED
    BY <1>2, <2>1, <2>3, <2>4, <2>5 DEF Published, PublishTick, publish, dataMutexIsFree
<1>3. ASSUME NEW p \in publication, NotifyStrategy(p)
      PROVE  NothingPublished
  BY <1>3 DEF NotifyStrategy, notify, NothingPublished
<1>4. CASE HandlerStep
  <2>1. tickPrice' = tickPrice
    BY <1>4 DEF HandlerStep
  <2>2. published' = published \/ \E s \in Symbols : publish(s, "book")
    BY <1>4 DEF HandlerStep, subscribe, publishReturns
  <2>3. ASSUME NEW s \in Symbols, publish(s, "book")
        PROVE  \A r \in Symbols : published'[r]["tick"] = published[r]["tick"]
    <3>1. published' = [published EXCEPT ![s]["book"] = @ + 1]
      BY <2>3 DEF publish
    <3> QED
      BY <1>1, <3>1 DEF Numbers
  <2> QED
    BY <2>1, <2>2, <2>3 DEF NothingPublished
<1>5. CASE UNCHANGED strategiesVars
  BY <1>5 DEF strategiesVars, mdVars, NothingPublished
<1> QED
  BY <1>2, <1>3, <1>4, <1>5 DEF StrategiesNext

LEMMA TicksTypedStep ==
  ASSUME HandlerFacts, [StrategiesNext]_strategiesVars
  PROVE  TicksTyped'
<1>1. TicksTyped
  BY DEF HandlerFacts
<1>2. ASSUME NEW symbol \in Symbols, Published(symbol)
      PROVE  TicksTyped'
  <2>1. PICK price \in TickPrices : tickPrice' = [tickPrice EXCEPT ![symbol] = Append(@, price)]
    BY <1>2 DEF Published
  <2> DEFINE ticks == tickPrice[symbol]
             longer == Append(ticks, price)
  <2>2. ticks \in Seq(TickPrices) /\ Len(ticks) = published[symbol]["tick"]
    BY <1>1 DEF TicksTyped
  <2>3. longer \in Seq(TickPrices) /\ Len(longer) = Len(ticks) + 1
    BY <2>2, AppendProperties
  <2>4. tickPrice' = [tickPrice EXCEPT ![symbol] = longer]
    BY <2>1
  <2> HIDE DEF longer, ticks
  <2>5. tickPrice' \in [Symbols -> Seq(TickPrices)] /\ tickPrice'[symbol] = longer
        /\ \A s \in Symbols \ {symbol} : tickPrice'[s] = tickPrice[s]
    BY <1>1, <2>3, <2>4 DEF TicksTyped
  <2>6. \A s \in Symbols : Len(tickPrice'[s]) = published'[s]["tick"]
    BY <1>1, <1>2, <2>2, <2>3, <2>5 DEF TicksTyped, Published
  <2> QED
    BY <2>5, <2>6 DEF TicksTyped
<1>3. CASE NothingPublished
  BY <1>1, <1>3 DEF TicksTyped, NothingPublished
<1> QED
  BY <1>2, <1>3, PublishedTicks

LEMMA HandlerFactsStep ==
  ASSUME HandlerFacts, [StrategiesNext]_strategiesVars
  PROVE  HandlerFacts'
BY StrategiesInMarketData, MarketDataInvStep, TicksTypedStep DEF HandlerFacts

(* Ticks that were published keep their prices. *)
LEMMA PricesOfTicksKept ==
  ASSUME HandlerFacts, [StrategiesNext]_strategiesVars,
         NEW symbol \in Symbols, NEW i \in 1 .. published[symbol]["tick"]
  PROVE  tickPrice'[symbol][i] = tickPrice[symbol][i]
<1>1. TicksTyped
  BY DEF HandlerFacts
<1>2. ASSUME NEW s \in Symbols, Published(s)
      PROVE  tickPrice'[symbol][i] = tickPrice[symbol][i]
  <2>1. PICK price \in TickPrices : tickPrice' = [tickPrice EXCEPT ![s] = Append(@, price)]
    BY <1>2 DEF Published
  <2> DEFINE ticks == tickPrice[symbol]
  <2>2. ticks \in Seq(TickPrices) /\ i \in 1 .. Len(ticks)
    BY <1>1 DEF TicksTyped
  <2>3. tickPrice'[symbol] = IF s = symbol THEN Append(ticks, price) ELSE ticks
    BY <1>1, <2>1 DEF TicksTyped
  <2> HIDE DEF ticks
  <2>4. Append(ticks, price)[i] = ticks[i]
    BY <2>2, AppendProperties
  <2> QED
    BY <2>3, <2>4 DEF ticks
<1> QED
  BY <1>2, PublishedTicks DEF NothingPublished

-----------------------------------------------------------------------------
(* What a step does to the entries of a strategy. *)
LEMMA EntryIs ==
  ASSUME MarketDataTypeOK, NEW strategy, NEW at \in Entries(strategy)
  PROVE  /\ at = <<at[1], at[2]>> /\ at[1] \in DOMAIN symbolDataMap /\ at[1] \in Symbols
         /\ at[2] \in DOMAIN symbolDataMap[at[1]].listeners /\ at[2] \in Nat
         /\ Entry(at) = symbolDataMap[at[1]].listeners[at[2]]
         /\ Entry(at) \in Subscription /\ Entry(at).listener = strategy
<1>1. PICK symbol \in Symbols : \E i \in DOMAIN DataOf(symbol).listeners :
        at = <<symbol, i>> /\ DataOf(symbol).listeners[i].listener = strategy
  BY DEF Entries
<1>0. PICK i \in DOMAIN DataOf(symbol).listeners :
        at = <<symbol, i>> /\ DataOf(symbol).listeners[i].listener = strategy
  BY <1>1
<1>2. symbol \in DOMAIN symbolDataMap
  BY <1>0 DEF DataOf, NewSymbolData
<1>3. symbolDataMap[symbol].listeners \in Seq(Subscription)
  BY <1>2 DEF MarketDataTypeOK, SymbolData
<1>4. i \in DOMAIN symbolDataMap[symbol].listeners /\ i \in Nat
      /\ symbolDataMap[symbol].listeners[i] \in Subscription
  BY <1>0, <1>2, <1>3 DEF DataOf
<1> QED
  BY <1>0, <1>2, <1>4 DEF DataOf, Entry

LEMMA EntriesUnchanged ==
  ASSUME DOMAIN symbolDataMap' = DOMAIN symbolDataMap,
         \A s \in DOMAIN symbolDataMap :
           symbolDataMap'[s].listeners = symbolDataMap[s].listeners,
         NEW strategy
  PROVE  Entries(strategy)' = Entries(strategy) /\ \A at : Entry(at)' = Entry(at)
<1>1. ASSUME NEW s
      PROVE  DataOf(s)'.listeners = DataOf(s).listeners
  BY DEF DataOf
<1>2. \A at : Entry(at)' = Entry(at)
  BY <1>1 DEF Entry
<1>3. Entries(strategy)' = Entries(strategy)
  BY <1>1 DEF Entries
<1> QED
  BY <1>2, <1>3

Subscribed(strategy, symbol, listener, new) ==
  /\ new \notin Entries(strategy)
  /\ Entries(strategy)' =
       IF strategy = listener THEN Entries(strategy) \cup {new} ELSE Entries(strategy)
  /\ \A at \in Entries(strategy) : Entry(at)' = Entry(at)
  /\ Entry(new)' = NewSubscription(listener, published[symbol])

LEMMA EntriesSubscribed ==
  ASSUME MarketDataTypeOK, NEW symbol \in Symbols, NEW listener \in Listeners,
         subscribe(symbol, listener), NEW strategy,
         NEW new, new = <<symbol, Len(DataOf(symbol).listeners) + 1>>
  PROVE  Subscribed(strategy, symbol, listener, new)
<1> DEFINE data == DataOf(symbol)
           added == NewSubscription(listener, published[symbol])
           m == Len(data.listeners)
<1>1. /\ data \in SymbolData /\ added \in Subscription
      /\ DOMAIN symbolDataMap' = DOMAIN symbolDataMap \cup {symbol}
      /\ symbolDataMap'[symbol] =
           [history |-> data.history, listeners |-> Append(data.listeners, added)]
      /\ \A s \in DOMAIN symbolDataMap \ {symbol} : symbolDataMap'[s] = symbolDataMap[s]
  BY SubscribeShape
<1> DEFINE longer == Append(data.listeners, added)
<1>2. data.listeners \in Seq(Subscription) /\ m \in Nat /\ DOMAIN data.listeners = 1 .. m
  BY <1>1 DEF SymbolData
<1>3. /\ DOMAIN longer = 1 .. m + 1 /\ longer[m + 1] = added
      /\ \A i \in 1 .. m : longer[i] = data.listeners[i]
  <2>1. longer \in Seq(Subscription) /\ Len(longer) = m + 1
    BY <1>1, <1>2, AppendProperties
  <2>2. DOMAIN longer = 1 .. m + 1
    <3> HIDE DEF longer, m
    <3> QED
      BY <2>1
  <2>3. longer[m + 1] = added /\ \A i \in 1 .. m : longer[i] = data.listeners[i]
    BY <1>1, <1>2, AppendProperties
  <2> QED
    BY <2>2, <2>3
<1>14. new = <<symbol, m + 1>>
  OBVIOUS
<1>4. DataOf(symbol)'.listeners = longer
  BY <1>1 DEF DataOf
<1>5. ASSUME NEW s, s # symbol
      PROVE  DataOf(s)'.listeners = DataOf(s).listeners
  BY <1>1, <1>5 DEF DataOf
<1>6. added.listener = listener
  BY DEF NewSubscription
<1> HIDE DEF longer, added, m
<1>7. ASSUME NEW s \in Symbols, NEW i
      PROVE  i \in DOMAIN DataOf(s)'.listeners /\ DataOf(s)'.listeners[i].listener = strategy
             <=> \/ i \in DOMAIN DataOf(s).listeners /\ DataOf(s).listeners[i].listener = strategy
                 \/ s = symbol /\ i = m + 1 /\ strategy = listener
  <2>1. CASE s # symbol
    BY <1>5, <2>1
  <2>2. CASE s = symbol
    <3>1. i \in 1 .. m + 1 <=> i \in 1 .. m \/ i = m + 1
      BY <1>2
    <3>2. ~(m + 1 \in 1 .. m)
      BY <1>2
    <3> QED
      BY <1>2, <1>3, <1>4, <1>6, <2>2, <3>1, <3>2
  <2> QED
    BY <2>1, <2>2
<1>8. ASSUME NEW at
      PROVE  /\ at \in Entries(strategy) <=>
                  \E s \in Symbols : \E i \in DOMAIN DataOf(s).listeners :
                    at = <<s, i>> /\ DataOf(s).listeners[i].listener = strategy
             /\ at \in Entries(strategy)' <=>
                  \E s \in Symbols : \E i \in DOMAIN DataOf(s)'.listeners :
                    at = <<s, i>> /\ DataOf(s)'.listeners[i].listener = strategy
  BY DEF Entries
<1>9. new \notin Entries(strategy)
  <2>1. ~(m + 1 \in DOMAIN DataOf(symbol).listeners)
    BY <1>2
  <2> QED
    BY <1>8, <1>14, <2>1
<1>10. ASSUME NEW at
       PROVE  at \in Entries(strategy)' <=>
                at \in Entries(strategy) \/ (strategy = listener /\ at = new)
  BY <1>7, <1>8, <1>14
<1>11. ASSUME NEW at \in Entries(strategy)
       PROVE  Entry(at)' = Entry(at)
  <2>1. PICK s \in Symbols : \E i \in DOMAIN DataOf(s).listeners : at = <<s, i>>
    BY <1>8
  <2>2. PICK i \in DOMAIN DataOf(s).listeners : at = <<s, i>>
    BY <2>1
  <2>3. DataOf(s)'.listeners[i] = DataOf(s).listeners[i]
    BY <1>2, <1>3, <1>4, <1>5
  <2> QED
    BY <2>2, <2>3 DEF Entry
<1>12. Entry(new)' = added
  BY <1>3, <1>4, <1>14 DEF Entry
<1>13. Entries(strategy)' =
         IF strategy = listener THEN Entries(strategy) \cup {new} ELSE Entries(strategy)
  BY <1>10
<1> QED
  BY <1>9, <1>11, <1>12, <1>13 DEF added, m, Subscribed

(* The entry whose turn it is hears of the publication; its listener and   *)
(* what it was subscribed with stay.                                       *)
LEMMA EntriesCalled ==
  ASSUME MarketDataTypeOK, NEW p \in publication, p.next <= Len(EntriesOf(p)), Call(p),
         NEW strategy
  PROVE  LET at0 == <<p.symbol, p.next>>
             told == [listener |-> Entry(at0).listener, since |-> Entry(at0).since,
                      heard |-> [Entry(at0).heard EXCEPT ![p.kind] =
                                   Append(@, published[p.symbol][p.kind])]]
         IN /\ at0 \in Entries(Entry(at0).listener) /\ Entry(at0) = EntriesOf(p)[p.next]
            /\ Entry(at0) \in Subscription
            /\ Entries(strategy)' = Entries(strategy)
            /\ \A at \in Entries(strategy) \ {at0} : Entry(at)' = Entry(at)
            /\ Entry(at0)' = told
<1> DEFINE symbol == p.symbol
           k == p.next
           at0 == <<symbol, k>>
           data == symbolDataMap[symbol]
           entry == data.listeners[k]
           told == [listener |-> entry.listener, since |-> entry.since,
                    heard |-> [entry.heard EXCEPT ![p.kind] =
                                 Append(@, published[p.symbol][p.kind])]]
           changed == [data.listeners EXCEPT ![k] = told]
<1>1. /\ symbol \in DOMAIN symbolDataMap /\ data \in SymbolData
      /\ k \in 1 .. Len(data.listeners)
      /\ entry \in Subscription
      /\ DOMAIN symbolDataMap' = DOMAIN symbolDataMap
      /\ symbolDataMap'[symbol] = [history |-> data.history, listeners |-> changed]
      /\ \A s \in DOMAIN symbolDataMap \ {symbol} : symbolDataMap'[s] = symbolDataMap[s]
  BY CallShape
<1>2. symbol \in Symbols
  BY <1>1 DEF MarketDataTypeOK
<1>3. DOMAIN data.listeners = 1 .. Len(data.listeners)
  <2>1. data.listeners \in Seq(Subscription)
    BY <1>1 DEF SymbolData
  <2> HIDE DEF data
  <2> QED
    BY <2>1, LenProperties
<1>4. told.listener = entry.listener
  OBVIOUS
<1> HIDE DEF told
<1>5. /\ DOMAIN changed = DOMAIN data.listeners /\ changed[k] = told
      /\ \A i \in (DOMAIN data.listeners) \ {k} : changed[i] = data.listeners[i]
  BY <1>1, <1>3
<1>6. DataOf(symbol).listeners = data.listeners /\ DataOf(symbol)'.listeners = changed
  BY <1>1 DEF DataOf
<1>7. ASSUME NEW s, s # symbol
      PROVE  DataOf(s)'.listeners = DataOf(s).listeners
  BY <1>1, <1>7 DEF DataOf
<1> HIDE DEF changed
<1>8. Entry(at0) = entry /\ Entry(at0)' = told /\ Entry(at0) = EntriesOf(p)[p.next]
  BY <1>5, <1>6 DEF Entry, EntriesOf
<1>9. at0 \in Entries(entry.listener)
  <2>1. k \in DOMAIN DataOf(symbol).listeners /\ DataOf(symbol).listeners[k] = entry
    BY <1>1, <1>3, <1>6
  <2> HIDE DEF entry, symbol, k
  <2> QED
    BY <1>2, <2>1 DEF Entries
<1>10. ASSUME NEW s \in Symbols
       PROVE  {i \in DOMAIN DataOf(s)'.listeners : DataOf(s)'.listeners[i].listener = strategy}
                = {i \in DOMAIN DataOf(s).listeners : DataOf(s).listeners[i].listener = strategy}
  <2>1. CASE s # symbol
    BY <1>7, <2>1
  <2>2. CASE s = symbol
    <3>1. \A i \in DOMAIN data.listeners : changed[i].listener = data.listeners[i].listener
      BY <1>4, <1>5
    <3> QED
      BY <1>5, <1>6, <2>2, <3>1
  <2> QED
    BY <2>1, <2>2
<1>11. Entries(strategy)' = Entries(strategy)
  BY <1>10 DEF Entries
<1>12. ASSUME NEW at \in Entries(strategy) \ {at0}
       PROVE  Entry(at)' = Entry(at)
  <2>1. PICK s \in Symbols : \E i \in DOMAIN DataOf(s).listeners : at = <<s, i>>
    BY DEF Entries
  <2>4. PICK i \in DOMAIN DataOf(s).listeners : at = <<s, i>>
    BY <2>1
  <2>2. s # symbol \/ i # k
    BY <1>12, <2>4
  <2>3. DataOf(s)'.listeners[i] = DataOf(s).listeners[i]
    BY <1>5, <1>6, <1>7, <2>2
  <2> QED
    BY <2>3, <2>4 DEF Entry
<1> QED
  BY <1>1, <1>8, <1>9, <1>11, <1>12 DEF told

-----------------------------------------------------------------------------
(* What an entry has heard. *)
LEMMA HeardIs ==
  ASSUME HandlerFacts, NEW strategy, NEW at \in Entries(strategy)
  PROVE  LET since == Entry(at).since["tick"]
             heard == Entry(at).heard["tick"]
             n == published[at[1]]["tick"]
             lag == Lag(at[1], "tick", at[2])
         IN /\ since \in Nat /\ n \in Nat /\ lag \in {0, 1} /\ since + lag <= n
            /\ heard \in Seq(Nat) /\ DOMAIN heard = 1 .. Len(heard)
            /\ Len(heard) = (n - lag) - since
            /\ \A i \in DOMAIN heard : heard[i] = since + i /\ heard[i] \in 1 .. n
            /\ HeardPrices(at) \in Seq(TickPrices) /\ Len(HeardPrices(at)) = Len(heard)
<1> DEFINE since == Entry(at).since["tick"]
           heard == Entry(at).heard["tick"]
           n == published[at[1]]["tick"]
           lag == Lag(at[1], "tick", at[2])
<1>1. MarketDataTypeOK /\ SubscribedBefore /\ HeardAsSubscribed /\ TicksTyped /\ owned = Listeners
  BY DEF HandlerFacts, MarketDataInv
<1>2. /\ at[1] \in DOMAIN symbolDataMap /\ at[1] \in Symbols
      /\ at[2] \in DOMAIN symbolDataMap[at[1]].listeners
      /\ Entry(at) = symbolDataMap[at[1]].listeners[at[2]]
      /\ Entry(at) \in Subscription /\ "tick" \in Kinds
  BY <1>1, EntryIs DEF Kinds
<1>3. since \in Nat /\ n \in Nat
  BY <1>1, <1>2 DEF Subscription, Numbers, MarketDataTypeOK
<1>4. lag \in {0, 1} /\ since + lag <= n
  BY <1>1, <1>2 DEF Lag, SubscribedBefore
<1>5. heard = Through(since, n - lag)
  <2>1. ~Expired(Entry(at))
    BY <1>1, <1>2 DEF Expired, Subscription
  <2>2. HasHeard(Entry(at), "tick", n - lag)
    BY <1>1, <1>2, <2>1 DEF HeardAsSubscribed
  <2> QED
    BY <2>2 DEF HasHeard
<1> HIDE DEF since, heard, n, lag
<1>6. n - lag \in Nat /\ since <= n - lag
  BY <1>3, <1>4
<1>7. /\ heard \in Seq(Nat) /\ Len(heard) = (n - lag) - since
      /\ \A i \in 1 .. (n - lag) - since : heard[i] = since + i
  <2> DEFINE b == n - lag
  <2> HIDE DEF b
  <2>1. b \in Nat /\ since <= b
    BY <1>6 DEF b
  <2>2. /\ Through(since, b) \in Seq(Nat) /\ Len(Through(since, b)) = b - since
        /\ \A i \in 1 .. b - since : Through(since, b)[i] = since + i
    BY <1>3, <2>1, ThroughIsSeq
  <2> QED
    BY <1>5, <2>2 DEF b
<1>8. DOMAIN heard = 1 .. Len(heard) /\ Len(heard) \in Nat
  BY <1>7
<1>9. ASSUME NEW i \in DOMAIN heard
      PROVE  heard[i] = since + i /\ heard[i] \in 1 .. n
  BY <1>3, <1>4, <1>7, <1>8
<1>10. HeardPrices(at) = [i \in 1 .. Len(heard) |-> tickPrice[at[1]][heard[i]]]
  BY <1>8 DEF HeardPrices, heard
<1>11. ASSUME NEW i \in 1 .. Len(heard)
       PROVE  tickPrice[at[1]][heard[i]] \in TickPrices
  <2>1. tickPrice[at[1]] \in Seq(TickPrices) /\ Len(tickPrice[at[1]]) = n
    BY <1>1, <1>2 DEF TicksTyped, n
  <2>2. heard[i] \in 1 .. n
    BY <1>8, <1>9
  <2> QED
    BY <2>1, <2>2, ElementOfSeq
<1>12. HeardPrices(at) \in Seq(TickPrices) /\ Len(HeardPrices(at)) = Len(heard)
  <2> DEFINE m == Len(heard)
  <2> HIDE DEF m
  <2>1. m \in Nat /\ HeardPrices(at) \in [1 .. m -> TickPrices]
    BY <1>8, <1>10, <1>11 DEF m
  <2>2. HeardPrices(at) \in Seq(TickPrices) /\ Len(HeardPrices(at)) = m
    BY <2>1, SeqDef
  <2> QED
    BY <2>2 DEF m
<1> QED
  BY <1>3, <1>4, <1>7, <1>8, <1>9, <1>12 DEF since, heard, n, lag

LEMMA HeardKept ==
  ASSUME HandlerFacts, [StrategiesNext]_strategiesVars,
         NEW strategy, NEW at \in Entries(strategy),
         Entry(at)'.heard["tick"] = Entry(at).heard["tick"]
  PROVE  HeardPrices(at)' = HeardPrices(at)
<1> DEFINE heard == Entry(at).heard["tick"]
<1>1. \A i \in DOMAIN heard : heard[i] \in 1 .. published[at[1]]["tick"]
  BY HeardIs
<1>2. at[1] \in Symbols
  BY EntryIs DEF HandlerFacts, MarketDataInv
<1>3. HeardPrices(at) = [i \in DOMAIN heard |-> tickPrice[at[1]][heard[i]]]
  BY DEF HeardPrices
<1>4. HeardPrices(at)' = [i \in DOMAIN heard |-> tickPrice'[at[1]][heard[i]]]
  BY DEF HeardPrices
<1> HIDE DEF heard
<1>5. \A i \in DOMAIN heard : tickPrice'[at[1]][heard[i]] = tickPrice[at[1]][heard[i]]
  BY <1>1, <1>2, PricesOfTicksKept
<1> QED
  BY <1>3, <1>4, <1>5

-----------------------------------------------------------------------------
(* What a step is for a strategy: it hears a tick, gets another entry, or  *)
(* neither.                                                                *)
HeardSame(at) ==
  /\ Entry(at)'.heard["tick"] = Entry(at).heard["tick"]
  /\ Entry(at)'.since["tick"] = Entry(at).since["tick"]
  /\ HeardPrices(at)' = HeardPrices(at)

SameCollected(strategy) ==
  /\ strategy \in Collecting => prices'[strategy] = prices[strategy]
  /\ strategy = "MarketMaking" => lastTick' = lastTick

Quiet(strategy) ==
  /\ SameCollected(strategy)
  /\ Entries(strategy)' = Entries(strategy)
  /\ \A at \in Entries(strategy) : HeardSame(at)

Joins(strategy, new) ==
  /\ SameCollected(strategy) /\ NothingPublished
  /\ new \notin Entries(strategy) /\ new[1] \in Symbols
  /\ Entries(strategy)' = Entries(strategy) \cup {new}
  /\ \A at \in Entries(strategy) : HeardSame(at)
  /\ Entry(new)'.heard["tick"] = <<>>
  /\ Entry(new)'.since["tick"] = published[new[1]]["tick"]

Hears(strategy, at0) ==
  LET n == published[at0[1]]["tick"] IN
  /\ NothingPublished
  /\ at0 \in Entries(strategy) /\ Entries(strategy)' = Entries(strategy)
  /\ \A at \in Entries(strategy) \ {at0} : HeardSame(at)
  /\ Entry(at0)'.since["tick"] = Entry(at0).since["tick"]
  /\ Entry(at0)'.heard["tick"] = Append(Entry(at0).heard["tick"], n)
  /\ Lag(at0[1], "tick", at0[2]) = 1
  /\ onTick(strategy, tickPrice[at0[1]][n])

LEMMA MovesOfHandler ==
  ASSUME HandlerFacts, HandlerStep, NEW strategy
  PROVE  Quiet(strategy) \/ \E new : Joins(strategy, new)
<1>1. MarketDataTypeOK /\ [StrategiesNext]_strategiesVars
  BY DEF HandlerFacts, MarketDataInv, StrategiesNext
<1>2. SameCollected(strategy)
  BY DEF HandlerStep, strategyVars, SameCollected
<1>3. ASSUME DOMAIN symbolDataMap' = DOMAIN symbolDataMap,
             \A s \in DOMAIN symbolDataMap :
               symbolDataMap'[s].listeners = symbolDataMap[s].listeners
      PROVE  Quiet(strategy)
  <2>1. Entries(strategy)' = Entries(strategy) /\ \A at : Entry(at)' = Entry(at)
    BY <1>3, EntriesUnchanged
  <2>2. \A at \in Entries(strategy) : HeardPrices(at)' = HeardPrices(at)
    BY <1>1, <2>1, HeardKept
  <2> QED
    BY <1>2, <2>1, <2>2 DEF Quiet, HeardSame
<1>4. ASSUME NEW symbol \in Symbols, NEW listener \in Listeners, subscribe(symbol, listener)
      PROVE  Quiet(strategy) \/ \E new : Joins(strategy, new)
  <2>1. ASSUME NEW new, new = <<symbol, Len(DataOf(symbol).listeners) + 1>>
        PROVE  Quiet(strategy) \/ Joins(strategy, new)
    <3>0. Subscribed(strategy, symbol, listener, new)
      BY <1>1, <1>4, <2>1, EntriesSubscribed
    <3>1. /\ new \notin Entries(strategy)
          /\ Entries(strategy)' =
               IF strategy = listener THEN Entries(strategy) \cup {new} ELSE Entries(strategy)
          /\ \A at \in Entries(strategy) : Entry(at)' = Entry(at)
          /\ Entry(new)' = NewSubscription(listener, published[symbol])
      BY <3>0 DEF Subscribed
    <3>2. \A at \in Entries(strategy) : HeardSame(at)
      BY <1>1, <3>1, HeardKept DEF HeardSame
    <3>3. NothingPublished
      BY <1>4 DEF subscribe, HandlerStep, NothingPublished
    <3>4. /\ Entry(new)'.heard["tick"] = <<>>
          /\ Entry(new)'.since["tick"] = published[symbol]["tick"]
      BY <3>1 DEF NewSubscription, Kinds
    <3>5. new[1] = symbol
      BY <2>1
    <3> QED
      BY <1>2, <3>1, <3>2, <3>3, <3>4, <3>5 DEF Quiet, Joins
  <2> QED
    BY <2>1
<1>5. ASSUME NEW symbol \in Symbols, publish(symbol, "book")
      PROVE  Quiet(strategy)
  <2>1. /\ DOMAIN symbolDataMap' = DOMAIN symbolDataMap
        /\ symbolDataMap'[symbol].listeners = symbolDataMap[symbol].listeners
        /\ \A s \in DOMAIN symbolDataMap \ {symbol} : symbolDataMap'[s] = symbolDataMap[s]
    <3>1. "book" \in Kinds
      BY DEF Kinds
    <3> DEFINE data == symbolDataMap[symbol]
               longer == Pushed(data.history["book"], published[symbol]["book"] + 1)
    <3>2. /\ DOMAIN symbolDataMap' = DOMAIN symbolDataMap
          /\ symbolDataMap'[symbol] = [history |-> [data.history EXCEPT !["book"] = longer],
                                       listeners |-> data.listeners]
          /\ \A s \in DOMAIN symbolDataMap \ {symbol} : symbolDataMap'[s] = symbolDataMap[s]
      BY <1>1, <1>5, <3>1, PublishShape
    <3> QED
      BY <3>2
  <2> QED
    BY <1>3, <2>1
<1>6. ASSUME NEW p \in publication, publishReturns(p)
      PROVE  Quiet(strategy)
  BY <1>3, <1>6 DEF publishReturns
<1> QED
  BY <1>4, <1>5, <1>6 DEF HandlerStep

LEMMA MovesOfPublishTick ==
  ASSUME HandlerFacts, NEW symbol \in Symbols, PublishTick(symbol), NEW strategy
  PROVE  Quiet(strategy)
<1>1. MarketDataTypeOK /\ [StrategiesNext]_strategiesVars /\ "tick" \in Kinds
  BY DEF HandlerFacts, MarketDataInv, StrategiesNext, Kinds
<1>2. SameCollected(strategy)
  BY DEF PublishTick, strategyVars, SameCollected
<1>3. publish(symbol, "tick")
  BY DEF PublishTick
<1>4. /\ DOMAIN symbolDataMap' = DOMAIN symbolDataMap
      /\ symbolDataMap'[symbol].listeners = symbolDataMap[symbol].listeners
      /\ \A s \in DOMAIN symbolDataMap \ {symbol} : symbolDataMap'[s] = symbolDataMap[s]
  <2> DEFINE data == symbolDataMap[symbol]
             longer == Pushed(data.history["tick"], published[symbol]["tick"] + 1)
  <2>1. /\ DOMAIN symbolDataMap' = DOMAIN symbolDataMap
        /\ symbolDataMap'[symbol] = [history |-> [data.history EXCEPT !["tick"] = longer],
                                     listeners |-> data.listeners]
        /\ \A s \in DOMAIN symbolDataMap \ {symbol} : symbolDataMap'[s] = symbolDataMap[s]
    BY <1>1, <1>3, PublishShape
  <2> QED
    BY <2>1
<1>5. Entries(strategy)' = Entries(strategy) /\ \A at : Entry(at)' = Entry(at)
  <2>1. \A s \in DOMAIN symbolDataMap :
          symbolDataMap'[s].listeners = symbolDataMap[s].listeners
    BY <1>4
  <2> QED
    BY <1>4, <2>1, EntriesUnchanged
<1>6. \A at \in Entries(strategy) : HeardPrices(at)' = HeardPrices(at)
  BY <1>1, <1>5, HeardKept
<1> QED
  BY <1>2, <1>5, <1>6 DEF Quiet, HeardSame

LEMMA MovesOfNotify ==
  ASSUME HandlerFacts, prices \in [Collecting -> Seq(TickPrices)],
         NEW p \in publication, NotifyStrategy(p), NEW strategy
  PROVE  Quiet(strategy) \/ \E at0 : Hears(strategy, at0)
<1> DEFINE at0 == <<p.symbol, p.next>>
<1>1. MarketDataTypeOK /\ [StrategiesNext]_strategiesVars /\ owned = Listeners
  BY DEF HandlerFacts, MarketDataInv, StrategiesNext
<1>2. /\ notify(p) /\ p.next <= Len(EntriesOf(p)) /\ UNCHANGED published /\ tickPrice' = tickPrice
  BY DEF NotifyStrategy, notify
<1>3. p \in Publication /\ EntriesOf(p) \in Seq(Subscription) /\ p.next \in 1 .. Len(EntriesOf(p))
  <2>1. p \in Publication /\ p.symbol \in DOMAIN symbolDataMap
        /\ p.next \in 1 .. Len(EntriesOf(p)) + 1
    BY <1>1 DEF MarketDataTypeOK
  <2>2. EntriesOf(p) \in Seq(Subscription)
    BY <1>1, <2>1 DEF MarketDataTypeOK, SymbolData, EntriesOf
  <2>3. Len(EntriesOf(p)) \in Nat
    BY <2>2
  <2> QED
    BY <1>2, <2>1, <2>2, <2>3
<1>4. Call(p)
  <2>1. EntriesOf(p)[p.next] \in Subscription
    BY <1>3
  <2>2. ~Expired(EntriesOf(p)[p.next])
    BY <1>1, <2>1 DEF Expired, Subscription
  <2> QED
    BY <1>2, <2>2 DEF notify
<1>5. NothingPublished
  BY <1>2 DEF NothingPublished
<1> DEFINE told == [listener |-> Entry(at0).listener, since |-> Entry(at0).since,
                    heard |-> [Entry(at0).heard EXCEPT ![p.kind] =
                                 Append(@, published[p.symbol][p.kind])]]
<1>6. /\ at0 \in Entries(Entry(at0).listener) /\ Entry(at0) = EntriesOf(p)[p.next]
      /\ Entry(at0) \in Subscription
      /\ Entries(strategy)' = Entries(strategy)
      /\ \A at \in Entries(strategy) \ {at0} : Entry(at)' = Entry(at)
      /\ Entry(at0)' = told
  BY <1>1, <1>2, <1>4, EntriesCalled
<1>a. at0[1] = p.symbol /\ at0[2] = p.next
  OBVIOUS
<1> HIDE DEF at0
<1>b. /\ told.since = Entry(at0).since
      /\ told.heard = [Entry(at0).heard EXCEPT ![p.kind] =
                         Append(Entry(at0).heard[p.kind], published[p.symbol][p.kind])]
  OBVIOUS
<1> HIDE DEF told
<1>7. \A at \in Entries(strategy) \ {at0} : HeardSame(at)
  BY <1>1, <1>6, HeardKept DEF HeardSame
<1>8. at0 \in Entries(strategy) => strategy = Entry(at0).listener
  BY <1>1, EntryIs
<1>9. Entry(at0)'.since["tick"] = Entry(at0).since["tick"]
  BY <1>6, <1>b
<1>10. CASE p.kind = "tick"
  <2>1. onTick(Entry(at0).listener, tickPrice[p.symbol][published[p.symbol]["tick"]])
    BY <1>6, <1>10 DEF NotifyStrategy
  <2>2. CASE strategy = Entry(at0).listener
    <3>1. Entry(at0)'.heard["tick"]
            = Append(Entry(at0).heard["tick"], published[p.symbol]["tick"])
      BY <1>6, <1>10, <1>b DEF Subscription, Kinds
    <3>2. Lag(at0[1], "tick", at0[2]) = 1
      <4>1. p.next <= p.next
        BY <1>3
      <4> QED
        BY <1>10, <1>a, <4>1 DEF Lag
    <3>3. at0 \in Entries(strategy) /\ at0[1] = p.symbol
      BY <1>6, <1>a, <2>2
    <3>4. Hears(strategy, at0)
      BY <1>5, <1>6, <1>7, <1>9, <2>1, <2>2, <3>1, <3>2, <3>3 DEF Hears
    <3> QED
      BY <3>4
  <2>3. CASE strategy # Entry(at0).listener
    <3>1. at0 \notin Entries(strategy)
      BY <1>8, <2>3
    <3>2. SameCollected(strategy)
      BY <2>1, <2>3
      DEF onTick, CollectPrice, KeepTick, IgnoreTick, strategyVars, SameCollected, Collecting
    <3> QED
      BY <1>6, <1>7, <3>1, <3>2 DEF Quiet
  <2> QED
    BY <2>2, <2>3
<1>11. CASE p.kind # "tick"
  <2>1. SameCollected(strategy)
    BY <1>11 DEF NotifyStrategy, strategyVars, SameCollected
  <2>2. Entry(at0)'.heard["tick"] = Entry(at0).heard["tick"]
    BY <1>6, <1>11, <1>b DEF Subscription, Kinds
  <2>3. ASSUME at0 \in Entries(strategy)
        PROVE  HeardSame(at0)
    BY <1>1, <1>9, <2>2, <2>3, HeardKept DEF HeardSame
  <2> QED
    BY <1>6, <1>7, <2>1, <2>3 DEF Quiet
<1> QED
  BY <1>10, <1>11

LEMMA Moves ==
  ASSUME HandlerFacts, prices \in [Collecting -> Seq(TickPrices)],
         [StrategiesNext]_strategiesVars, NEW strategy
  PROVE  \/ Quiet(strategy)
         \/ \E new : Joins(strategy, new)
         \/ \E at0 : Hears(strategy, at0)
<1>1. CASE UNCHANGED strategiesVars
  <2>1. Entries(strategy)' = Entries(strategy) /\ \A at : Entry(at)' = Entry(at)
    BY <1>1, EntriesUnchanged DEF strategiesVars, mdVars
  <2>2. \A at \in Entries(strategy) : HeardPrices(at)' = HeardPrices(at)
    BY <2>1, HeardKept
  <2> QED
    BY <1>1, <2>1, <2>2
    DEF Quiet, HeardSame, SameCollected, strategiesVars, strategyVars
<1> QED
  BY <1>1, MovesOfHandler, MovesOfPublishTick, MovesOfNotify DEF StrategiesNext

-----------------------------------------------------------------------------
(* Sums over collected prices. *)
LEMMA PricesAreNumbers ==
  ASSUME NEW xs \in Seq(TickPrices)
  PROVE  xs \in Seq(Nat)
BY SeqMonotonic, StrategiesAssumption DEF StrategiesAssumption

LEMMA TotalEmpty ==
  ASSUME NEW phi, NEW xs, DOMAIN xs = {}
  PROVE  Total(phi, xs) = 0
BY SumEmpty DEF Total, SumFunction

LEMMA TotalInt ==
  ASSUME NEW phi \in [TickPrices -> Int], NEW xs \in Seq(TickPrices)
  PROVE  Total(phi, xs) \in Int
<1> DEFINE f == [i \in DOMAIN xs |-> phi[xs[i]]]
<1>1. IsFiniteSet(DOMAIN xs)
  BY PricesAreNumbers, SeqFacts
<1>2. \A i \in DOMAIN xs : f[i] \in Int
  BY ElementOfSeq
<1>3. DOMAIN f = DOMAIN xs
  OBVIOUS
<1>4. Total(phi, xs) = SumFunctionOnSet(f, DOMAIN xs)
  BY <1>3 DEF Total, SumFunction
<1> HIDE DEF f
<1> QED
  BY <1>1, <1>2, <1>4, SumElementInt

LEMMA TotalAppend ==
  ASSUME NEW phi \in [TickPrices -> Int], NEW xs \in Seq(TickPrices), NEW x \in TickPrices
  PROVE  Total(phi, Append(xs, x)) = Total(phi, xs) + phi[x]
<1> DEFINE longer == Append(xs, x)
           m == Len(xs) + 1
           f == [i \in DOMAIN xs |-> phi[xs[i]]]
           g == [i \in DOMAIN longer |-> phi[longer[i]]]
<1>1. IsFiniteSet(DOMAIN xs) /\ DOMAIN xs = 1 .. Len(xs) /\ Len(xs) \in Nat
  BY PricesAreNumbers, SeqFacts
<1>2. longer \in Seq(TickPrices) /\ Len(longer) = Len(xs) + 1 /\ longer[m] = x
      /\ \A i \in 1 .. Len(xs) : longer[i] = xs[i]
  BY AppendProperties
<1>3. DOMAIN longer = 1 .. Len(longer)
  BY <1>2
<1> HIDE DEF longer
<1>4. DOMAIN longer = DOMAIN xs \cup {m} /\ m \notin DOMAIN xs
  BY <1>1, <1>2, <1>3
<1>5. g[m] = phi[x] /\ g[m] \in Int
  BY <1>2, <1>4
<1>6. \A i \in DOMAIN xs : f[i] \in Int /\ g[i] = f[i]
  BY <1>1, <1>2, <1>4, ElementOfSeq
<1>7. DOMAIN f = DOMAIN xs /\ DOMAIN g = DOMAIN xs \cup {m}
  BY <1>4
<1>8. Total(phi, longer) = SumFunction(g) /\ Total(phi, xs) = SumFunction(f)
  BY DEF Total
<1> HIDE DEF f, g, m
<1>9. SumFunction(g) = SumFunction(f) + g[m]
  <2> DEFINE S == DOMAIN xs
  <2>1. /\ IsFiniteSet(S) /\ m \notin S /\ DOMAIN f = S /\ DOMAIN g = S \cup {m}
        /\ g[m] \in Int /\ \A i \in S : f[i] \in Int /\ g[i] = f[i]
    BY <1>1, <1>4, <1>5, <1>6, <1>7
  <2> HIDE DEF S
  <2> QED
    BY <2>1, SumExtended
<1> QED
  BY <1>5, <1>8, <1>9 DEF longer

(* The total of the constant one is the length. *)
LEMMA TotalOfOnes ==
  ASSUME NEW phi \in [TickPrices -> Int], \A x \in TickPrices : phi[x] = 1,
         NEW xs \in Seq(TickPrices)
  PROVE  Total(phi, xs) = Len(xs)
<1> DEFINE f == [i \in DOMAIN xs |-> phi[xs[i]]]
           S == DOMAIN xs
<1>1. IsFiniteSet(S) /\ Cardinality(S) = Len(xs) /\ Len(xs) \in Nat
  BY PricesAreNumbers, SeqFacts
<1>2. \A i \in S : f[i] = 1
  BY ElementOfSeq
<1>3. Total(phi, xs) = SumFunctionOnSet(f, S)
  BY DEF Total, SumFunction
<1> HIDE DEF f, S
<1>4. Combines(f, S, 0, f, 0, f, 1)
  BY <1>2 DEF Combines
<1>5. /\ SumFunctionOnSet(f, S) \in Int
      /\ SumFunctionOnSet(f, S)
           = 0 * SumFunctionOnSet(f, S) + 0 * SumFunctionOnSet(f, S) + 1 * Cardinality(S)
  BY <1>1, <1>4, SumLinear
<1> QED
  BY <1>1, <1>3, <1>5

-----------------------------------------------------------------------------
(* The price a strategy is called with, and what the entry has heard then. *)
LEMMA PriceHeard ==
  ASSUME HandlerFacts, NEW strategy, NEW at0, Hears(strategy, at0)
  PROVE  LET n == published[at0[1]]["tick"]
             price == tickPrice[at0[1]][n]
             heard == Entry(at0).heard["tick"]
         IN /\ at0[1] \in Symbols /\ n \in Nat /\ n > 0 /\ price \in TickPrices
            /\ Entry(at0).since["tick"] \in Nat
            /\ heard \in Seq(Nat) /\ Len(heard) = (n - 1) - Entry(at0).since["tick"]
            /\ Len(Entry(at0)'.heard["tick"]) = n - Entry(at0).since["tick"]
            /\ HeardPrices(at0) \in Seq(TickPrices)
            /\ HeardPrices(at0)' = Append(HeardPrices(at0), price)
<1> DEFINE n == published[at0[1]]["tick"]
           price == tickPrice[at0[1]][n]
           heard == Entry(at0).heard["tick"]
           since == Entry(at0).since["tick"]
           lag == Lag(at0[1], "tick", at0[2])
<1>1. at0 \in Entries(strategy) /\ lag = 1 /\ tickPrice' = tickPrice
      /\ Entry(at0)'.heard["tick"] = Append(heard, n)
  BY DEF Hears, NothingPublished
<1>2. /\ since \in Nat /\ n \in Nat /\ since + lag <= n
      /\ heard \in Seq(Nat) /\ DOMAIN heard = 1 .. Len(heard)
      /\ Len(heard) = (n - lag) - since
      /\ HeardPrices(at0) \in Seq(TickPrices) /\ Len(HeardPrices(at0)) = Len(heard)
  BY <1>1, HeardIs
<1>3. at0[1] \in Symbols
  BY <1>1, EntryIs DEF HandlerFacts, MarketDataInv
<1>4. n > 0 /\ price \in TickPrices
  <2>1. n > 0
    BY <1>1, <1>2
  <2>2. tickPrice[at0[1]] \in Seq(TickPrices) /\ Len(tickPrice[at0[1]]) = n
    BY <1>3 DEF HandlerFacts, TicksTyped
  <2> HIDE DEF n
  <2> QED
    BY <1>2, <2>1, <2>2, ElementOfSeq
<1> DEFINE longer == Append(heard, n)
<1>5. HeardPrices(at0)' = [i \in DOMAIN longer |-> tickPrice[at0[1]][longer[i]]]
  BY <1>1 DEF HeardPrices
<1>6. HeardPrices(at0) = [i \in DOMAIN heard |-> tickPrice[at0[1]][heard[i]]]
  BY DEF HeardPrices
<1>7. /\ longer \in Seq(Nat) /\ Len(longer) = Len(heard) + 1 /\ longer[Len(heard) + 1] = n
      /\ \A i \in 1 .. Len(heard) : longer[i] = heard[i]
  BY <1>2, AppendProperties
<1>8. DOMAIN longer = 1 .. Len(heard) + 1 /\ Len(heard) \in Nat
  BY <1>2, <1>7
<1> DEFINE k == Len(heard)
           ticks == tickPrice[at0[1]]
           before == HeardPrices(at0)
           appended == Append(before, price)
           after == [i \in 1 .. k + 1 |-> ticks[longer[i]]]
<1>9. /\ appended \in Seq(TickPrices) /\ Len(appended) = k + 1 /\ appended[k + 1] = price
      /\ \A i \in 1 .. k : appended[i] = before[i]
  BY <1>2, <1>4, AppendProperties
<1>10. \A i \in 1 .. k + 1 : ticks[longer[i]] = appended[i]
  <2>1. ticks[longer[k + 1]] = price
    BY <1>7
  <2>2. \A i \in 1 .. k : before[i] = ticks[longer[i]]
    BY <1>2, <1>6, <1>7
  <2> HIDE DEF k, ticks, before, longer, price, appended
  <2> QED
    BY <1>8, <1>9, <2>1, <2>2 DEF k
<1>11. HeardPrices(at0)' = after
  BY <1>5, <1>8
<1>12. HeardPrices(at0)' = Append(before, price)
  <2> HIDE DEF k, ticks, longer, appended
  <2>1. \A i \in 1 .. k + 1 : appended[i] \in TickPrices
    BY <1>9, ElementOfSeq
  <2>2. k + 1 \in Nat /\ after \in [1 .. k + 1 -> TickPrices]
    BY <1>8, <1>10, <2>1 DEF k
  <2>3. after \in Seq(TickPrices)
    BY <2>2, SeqDef
  <2>4. DOMAIN after = 1 .. k + 1
    OBVIOUS
  <2>5. \A i \in 1 .. k + 1 : after[i] = appended[i]
    BY <1>10
  <2> HIDE DEF after
  <2>6. Len(after) = k + 1
    BY <2>2, <2>3, <2>4
  <2>7. after = appended
    BY <1>9, <2>3, <2>5, <2>6, SeqEqual
  <2> QED
    BY <1>11, <2>7 DEF appended
<1>13. Len(Entry(at0)'.heard["tick"]) = n - since
  BY <1>1, <1>2, <1>7
<1> QED
  BY <1>1, <1>2, <1>3, <1>4, <1>12, <1>13

-----------------------------------------------------------------------------
(* The conjuncts of the invariant, step by step. *)
LEMMA PriceOfCall ==
  ASSUME HandlerFacts, NEW p \in publication, p.kind = "tick", p.next <= Len(EntriesOf(p))
  PROVE  tickPrice[p.symbol][published[p.symbol]["tick"]] \in TickPrices
<1> DEFINE n == published[p.symbol]["tick"]
           listeners == symbolDataMap[p.symbol].listeners
<1>1. MarketDataTypeOK /\ SubscribedBefore /\ TicksTyped
  BY DEF HandlerFacts, MarketDataInv
<1>2. /\ p.symbol \in DOMAIN symbolDataMap /\ p.symbol \in Symbols
      /\ p.next \in 1 .. Len(listeners) /\ "tick" \in Kinds
      /\ listeners \in Seq(Subscription) /\ listeners[p.next] \in Subscription
  <2>1. p.symbol \in DOMAIN symbolDataMap /\ p.next \in 1 .. Len(EntriesOf(p)) + 1
    BY <1>1 DEF MarketDataTypeOK
  <2>2. listeners \in Seq(Subscription) /\ p.symbol \in Symbols /\ EntriesOf(p) = listeners
    BY <1>1, <2>1 DEF MarketDataTypeOK, SymbolData, EntriesOf
  <2>3. Len(listeners) \in Nat
    BY <2>2
  <2> HIDE DEF listeners
  <2>4. p.next \in 1 .. Len(listeners)
    BY <2>1, <2>2, <2>3
  <2> QED
    BY <2>1, <2>2, <2>4, ElementOfSeq DEF Kinds
<1>3. n \in Nat /\ listeners[p.next].since["tick"] \in Nat
  BY <1>1, <1>2 DEF MarketDataTypeOK, Numbers, Subscription
<1>4. Lag(p.symbol, "tick", p.next) = 1
  <2>1. p.next <= p.next
    BY <1>2
  <2> QED
    BY <2>1 DEF Lag
<1>5. listeners[p.next].since["tick"] + 1 <= n
  <2>1. p.next \in DOMAIN listeners
    BY <1>2
  <2> QED
    BY <1>1, <1>2, <1>4, <2>1 DEF SubscribedBefore
<1>6. tickPrice[p.symbol] \in Seq(TickPrices) /\ Len(tickPrice[p.symbol]) = n
  BY <1>1, <1>2 DEF TicksTyped
<1> HIDE DEF n
<1>7. n \in 1 .. Len(tickPrice[p.symbol])
  BY <1>3, <1>5, <1>6
<1> QED
  BY <1>6, <1>7, ElementOfSeq DEF n

LEMMA CollectedTypedStep ==
  ASSUME HandlerFacts, CollectedTyped, [StrategiesNext]_strategiesVars
  PROVE  CollectedTyped'
<1>1. CASE UNCHANGED strategyVars
  BY <1>1 DEF CollectedTyped, strategyVars
<1>2. ASSUME NEW p \in publication, NotifyStrategy(p), p.kind = "tick"
      PROVE  CollectedTyped'
  <2> DEFINE price == tickPrice[p.symbol][published[p.symbol]["tick"]]
  <2>1. price \in TickPrices
    BY <1>2, PriceOfCall DEF NotifyStrategy, notify
  <2>2. onTick(EntriesOf(p)[p.next].listener, price)
    BY <1>2 DEF NotifyStrategy
  <2>3. PICK strategy : onTick(strategy, price)
    BY <2>2
  <2> HIDE DEF price
  <2>4. CASE CollectPrice(strategy, price)
    <3>1. prices[strategy] \in Seq(TickPrices)
      BY <2>4 DEF CollectPrice, CollectedTyped
    <3>2. Append(prices[strategy], price) \in Seq(TickPrices)
      BY <2>1, <3>1, AppendProperties
    <3> QED
      BY <2>4, <3>2 DEF CollectPrice, CollectedTyped
  <2>5. CASE KeepTick(strategy, price)
    <3>1. Cardinality({price}) = 1
      BY FS_Singleton
    <3> QED
      BY <2>1, <2>5, <3>1 DEF KeepTick, CollectedTyped
  <2>6. CASE IgnoreTick(strategy)
    BY <1>1, <2>6 DEF IgnoreTick
  <2> QED
    BY <2>3, <2>4, <2>5, <2>6 DEF onTick
<1> QED
  BY <1>1, <1>2
  DEF StrategiesNext, PublishTick, NotifyStrategy, HandlerStep, strategiesVars, strategyVars

LEMMA EntriesFiniteStep ==
  ASSUME HandlerFacts, CollectedTyped, EntriesFinite, [StrategiesNext]_strategiesVars
  PROVE  EntriesFinite'
<1> SUFFICES ASSUME NEW strategy \in Collecting
             PROVE  IsFiniteSet(Entries(strategy)')
  BY DEF EntriesFinite
<1>1. IsFiniteSet(Entries(strategy))
  BY DEF EntriesFinite
<1>2. ASSUME NEW new, Joins(strategy, new)
      PROVE  IsFiniteSet(Entries(strategy)')
  <2>1. Entries(strategy)' = Entries(strategy) \cup {new}
    BY <1>2 DEF Joins
  <2> QED
    BY <1>1, <2>1, FS_AddElement
<1>3. Quiet(strategy) \/ (\E new : Joins(strategy, new)) \/ \E at0 : Hears(strategy, at0)
  BY Moves DEF CollectedTyped
<1> QED
  BY <1>1, <1>2, <1>3 DEF Quiet, Hears

-----------------------------------------------------------------------------
LEMMA PricesAreHeardStep ==
  ASSUME HandlerFacts, CollectedTyped, EntriesFinite, PricesAreHeard,
         [StrategiesNext]_strategiesVars
  PROVE  PricesAreHeard'
<1> SUFFICES ASSUME NEW strategy \in Collecting, NEW phi \in [TickPrices -> Int]
             PROVE  Total(phi, prices'[strategy])
                      = SumFunction([at \in Entries(strategy)' |-> Total(phi, HeardPrices(at)')])
  BY DEF PricesAreHeard, Total
<1> DEFINE entries == Entries(strategy)
           collected == prices[strategy]
           f == [at \in entries |-> Total(phi, HeardPrices(at))]
           g == [at \in Entries(strategy)' |-> Total(phi, HeardPrices(at)')]
<1>1. /\ IsFiniteSet(entries) /\ Total(phi, collected) = SumFunction(f)
      /\ collected \in Seq(TickPrices)
  BY DEF EntriesFinite, PricesAreHeard, CollectedTyped
<1>2. \A at \in entries : HeardPrices(at) \in Seq(TickPrices)
  BY HeardIs
<1>3. \A at \in entries : f[at] = Total(phi, HeardPrices(at)) /\ f[at] \in Int
  BY <1>2, TotalInt
<1>4. DOMAIN f = entries /\ DOMAIN g = Entries(strategy)'
  OBVIOUS
<1>5. \A at \in Entries(strategy)' : g[at] = Total(phi, HeardPrices(at)')
  OBVIOUS
<1> HIDE DEF f, g
<1>6. ASSUME Quiet(strategy)
      PROVE  Total(phi, prices'[strategy]) = SumFunction(g)
  <2>1. /\ prices'[strategy] = collected /\ DOMAIN g = entries
        /\ \A at \in entries : g[at] = f[at]
    BY <1>3, <1>4, <1>5, <1>6 DEF Quiet, SameCollected, HeardSame
  <2> HIDE DEF entries, collected
  <2>2. SumFunction(g) = SumFunction(f)
    BY <1>1, <1>3, <1>4, <2>1, SumUnchanged
  <2> QED
    BY <1>1, <2>1, <2>2
<1>7. ASSUME NEW new, Joins(strategy, new)
      PROVE  Total(phi, prices'[strategy]) = SumFunction(g)
  <2>1. /\ prices'[strategy] = collected /\ DOMAIN g = entries \cup {new} /\ new \notin entries
        /\ \A at \in entries : g[at] = f[at]
    BY <1>3, <1>4, <1>5, <1>7 DEF Joins, SameCollected, HeardSame
  <2>2. g[new] = 0
    <3>1. DOMAIN (HeardPrices(new)') = {}
      BY <1>7 DEF Joins, HeardPrices
    <3>2. g[new] = Total(phi, HeardPrices(new)')
      BY <1>5, <1>7 DEF Joins
    <3> QED
      BY <3>1, <3>2, TotalEmpty
  <2> HIDE DEF entries, collected
  <2>3. SumFunction(g) = SumFunction(f) + g[new] /\ SumFunction(f) \in Int
    BY <1>1, <1>3, <1>4, <2>1, <2>2, SumExtended
  <2> QED
    BY <1>1, <2>1, <2>2, <2>3
<1>8. ASSUME NEW at0, Hears(strategy, at0)
      PROVE  Total(phi, prices'[strategy]) = SumFunction(g)
  <2> DEFINE price == tickPrice[at0[1]][published[at0[1]]["tick"]]
             before == HeardPrices(at0)
  <2>1. /\ price \in TickPrices /\ before \in Seq(TickPrices)
        /\ HeardPrices(at0)' = Append(before, price)
    BY <1>8, PriceHeard
  <2>2. at0 \in entries /\ DOMAIN g = entries /\ \A at \in entries \ {at0} : g[at] = f[at]
    BY <1>3, <1>4, <1>5, <1>8 DEF Hears, HeardSame
  <2>3. prices'[strategy] = Append(collected, price)
    <3>1. onTick(strategy, price)
      BY <1>8 DEF Hears
    <3> QED
      BY <3>1 DEF onTick, CollectPrice, KeepTick, IgnoreTick, Collecting, CollectedTyped
  <2> HIDE DEF price
  <2>4. Total(phi, prices'[strategy]) = Total(phi, collected) + phi[price]
    BY <1>1, <2>1, <2>3, TotalAppend
  <2>5. g[at0] = f[at0] + phi[price] /\ phi[price] \in Int /\ f[at0] \in Int
    <3>1. g[at0] = Total(phi, HeardPrices(at0)')
      BY <1>4, <1>5, <2>2
    <3>2. f[at0] = Total(phi, before) /\ f[at0] \in Int
      BY <1>3, <2>2
    <3>3. Total(phi, Append(before, price)) = Total(phi, before) + phi[price]
      BY <2>1, TotalAppend
    <3> QED
      BY <2>1, <3>1, <3>2, <3>3
  <2> HIDE DEF entries, collected, before
  <2>6. /\ SumFunctionOnSet(f, entries) \in Int
        /\ SumFunctionOnSet(g, entries) = SumFunctionOnSet(f, entries) + (g[at0] - f[at0])
    <3>1. \A at \in entries : f[at] \in Int /\ g[at] \in Int
      BY <1>3, <2>2, <2>5
    <3> QED
      BY <1>1, <2>2, <3>1, SumChanged
  <2>7. SumFunction(g) = SumFunction(f) + phi[price] /\ SumFunction(f) \in Int
    BY <1>4, <2>2, <2>5, <2>6 DEF SumFunction
  <2> QED
    BY <1>1, <2>4, <2>7
<1>9. Quiet(strategy) \/ (\E new : Joins(strategy, new)) \/ \E at0 : Hears(strategy, at0)
  BY Moves DEF CollectedTyped
<1>10. Total(phi, prices'[strategy]) = SumFunction(g)
  BY <1>6, <1>7, <1>8, <1>9
<1> QED
  BY <1>10 DEF g

-----------------------------------------------------------------------------
(* A strategy has collected as many prices as its entries heard ticks. *)
LEMMA Lengths ==
  ASSUME HandlerFacts, CollectedTyped, EntriesFinite, PricesAreHeard,
         NEW strategy \in Collecting
  PROVE  Len(prices[strategy]) = Heard(strategy)
<1> DEFINE entries == Entries(strategy)
           phi == [x \in TickPrices |-> 1]
           f == [at \in entries |-> Total(phi, HeardPrices(at))]
           g == [at \in entries |-> Len(Entry(at).heard["tick"])]
<1>1. phi \in [TickPrices -> Int] /\ \A x \in TickPrices : phi[x] = 1
  OBVIOUS
<1> HIDE DEF phi
<1>2. prices[strategy] \in Seq(TickPrices) /\ Total(phi, prices[strategy]) = SumFunction(f)
  BY <1>1 DEF PricesAreHeard, CollectedTyped
<1>3. \A at \in entries : /\ HeardPrices(at) \in Seq(TickPrices)
                          /\ Len(HeardPrices(at)) = Len(Entry(at).heard["tick"])
  BY HeardIs
<1>4. \A at \in entries : Total(phi, HeardPrices(at)) = Len(Entry(at).heard["tick"])
  BY <1>1, <1>3, TotalOfOnes
<1>5. f = g
  BY <1>4
<1>6. Total(phi, prices[strategy]) = Len(prices[strategy])
  BY <1>1, <1>2, TotalOfOnes
<1> QED
  BY <1>2, <1>5, <1>6 DEF Heard

LEMMA NothingCollected ==
  ASSUME HandlerFacts, CollectedTyped, EntriesFinite, PricesAreHeard,
         NEW strategy \in Collecting
  PROVE  /\ Entries(strategy) = {} => prices[strategy] = <<>>
         /\ prices[strategy] = <<>> =>
              \A at \in Entries(strategy) : Len(Entry(at).heard["tick"]) = 0
<1> DEFINE entries == Entries(strategy)
           g == [at \in entries |-> Len(Entry(at).heard["tick"])]
<1>1. IsFiniteSet(entries) /\ prices[strategy] \in Seq(TickPrices)
  BY DEF EntriesFinite, CollectedTyped
<1>2. Len(prices[strategy]) = SumFunctionOnSet(g, entries)
  BY Lengths DEF Heard, SumFunction
<1>3. \A at \in entries : g[at] = Len(Entry(at).heard["tick"]) /\ g[at] \in Nat
  <2>1. \A at \in entries : Entry(at).heard["tick"] \in Seq(Nat)
    BY HeardIs
  <2> QED
    BY <2>1
<1> HIDE DEF g, entries
<1>4. entries = {} => prices[strategy] = <<>>
  BY <1>1, <1>2, SumEmpty, EmptySeq
<1>5. prices[strategy] = <<>> => \A at \in entries : g[at] = 0
  BY <1>1, <1>2, <1>3, SumZero, EmptySeq
<1> QED
  BY <1>3, <1>4, <1>5 DEF entries

LEMMA FirstTickStays ==
  ASSUME HandlerFacts, [StrategiesNext]_strategiesVars, NEW symbol \in Symbols,
         tickPrice[symbol] # <<>>
  PROVE  tickPrice'[symbol] # <<>> /\ tickPrice'[symbol][1] = tickPrice[symbol][1]
<1> DEFINE n == published[symbol]["tick"]
<1>1. tickPrice[symbol] \in Seq(TickPrices) /\ Len(tickPrice[symbol]) = n
  BY DEF HandlerFacts, TicksTyped
<1>2. n \in Nat \ {0}
  BY <1>1, EmptySeq
<1>3. tickPrice'[symbol][1] = tickPrice[symbol][1]
  <2>1. 1 \in 1 .. published[symbol]["tick"]
    BY <1>2
  <2> QED
    BY <2>1, PricesOfTicksKept
<1>4. tickPrice'[symbol] # <<>>
  <2>1. TicksTyped'
    BY HandlerFactsStep DEF HandlerFacts
  <2>2. tickPrice'[symbol] \in Seq(TickPrices)
        /\ Len(tickPrice'[symbol]) = published'[symbol]["tick"]
    BY <2>1 DEF TicksTyped
  <2>3. published'[symbol]["tick"] \in {n, n + 1}
    BY PublishedTicks DEF Published, NothingPublished
  <2> HIDE DEF n
  <2>4. published'[symbol]["tick"] # 0
    BY <1>2, <2>3
  <2> QED
    BY <2>2, <2>4, EmptySeq
<1> QED
  BY <1>3, <1>4

(* A strategy that still listens from the start after a step did before,   *)
(* unless it had no entry.                                                 *)
LEMMA ListenedBefore ==
  ASSUME NEW strategy, NEW symbol, ListensFromTheStart(strategy, symbol)',
         Entries(strategy) # {},
         \/ Quiet(strategy)
         \/ \E new : Joins(strategy, new)
         \/ \E at0 : Hears(strategy, at0)
  PROVE  ListensFromTheStart(strategy, symbol)
<1>1. /\ Entries(strategy) \subseteq Entries(strategy)'
      /\ \A at \in Entries(strategy) : Entry(at)'.since["tick"] = Entry(at).since["tick"]
  BY DEF Quiet, Joins, Hears, HeardSame
<1>2. \A at \in Entries(strategy)' : at[1] = symbol /\ Entry(at)'.since["tick"] = 0
  BY DEF ListensFromTheStart
<1> QED
  BY <1>1, <1>2 DEF ListensFromTheStart

(* What a strategy that hears a tick keeps of it. *)
LEMMA Kept ==
  ASSUME CollectedTyped, NEW strategy, NEW price \in TickPrices, onTick(strategy, price)
  PROVE  /\ LatestKept(strategy, price)'
         /\ strategy \in Collecting =>
              /\ prices'[strategy] # <<>>
              /\ prices'[strategy][1]
                   = IF prices[strategy] = <<>> THEN price ELSE prices[strategy][1]
<1>1. ASSUME strategy \in Collecting
      PROVE  /\ prices'[strategy] # <<>> /\ prices'[strategy][Len(prices'[strategy])] = price
             /\ prices'[strategy][1]
                  = IF prices[strategy] = <<>> THEN price ELSE prices[strategy][1]
  <2> DEFINE xs == prices[strategy]
  <2>1. xs \in Seq(TickPrices) /\ prices'[strategy] = Append(xs, price)
    BY <1>1 DEF onTick, CollectPrice, KeepTick, IgnoreTick, Collecting, CollectedTyped
  <2> HIDE DEF xs
  <2> DEFINE longer == Append(xs, price)
  <2>2. /\ longer \in Seq(TickPrices) /\ Len(longer) = Len(xs) + 1
        /\ longer[Len(xs) + 1] = price /\ \A i \in 1 .. Len(xs) : longer[i] = xs[i]
    BY <2>1, AppendProperties
  <2>3. Len(xs) \in Nat /\ (xs = <<>> => Len(xs) = 0) /\ (xs # <<>> => Len(xs) > 0)
    BY <2>1, EmptySeq
  <2> HIDE DEF longer
  <2>4. longer # <<>> /\ longer[Len(longer)] = price
    BY <2>2, <2>3, EmptySeq
  <2>5. longer[1] = IF xs = <<>> THEN price ELSE xs[1]
    BY <2>2, <2>3
  <2> QED
    BY <2>1, <2>4, <2>5 DEF longer, xs
<1>2. strategy = "MarketMaking" => lastTick' = {price}
  BY DEF onTick, CollectPrice, KeepTick, IgnoreTick, Collecting
<1> QED
  BY <1>1, <1>2 DEF LatestKept

LEMMA FirstIsHeardStep ==
  ASSUME HandlerFacts, CollectedTyped, EntriesFinite, PricesAreHeard, FirstIsHeard,
         [StrategiesNext]_strategiesVars
  PROVE  FirstIsHeard'
<1> SUFFICES ASSUME NEW strategy \in Collecting, NEW symbol \in Symbols,
                    ListensFromTheStart(strategy, symbol)', prices'[strategy] # <<>>
             PROVE  tickPrice'[symbol] # <<>> /\ prices'[strategy][1] = tickPrice'[symbol][1]
  BY DEF FirstIsHeard
<1>1. Quiet(strategy) \/ (\E new : Joins(strategy, new)) \/ \E at0 : Hears(strategy, at0)
  BY Moves DEF CollectedTyped
<1>2. ASSUME prices[strategy] # <<>>, prices'[strategy][1] = prices[strategy][1]
      PROVE  tickPrice'[symbol] # <<>> /\ prices'[strategy][1] = tickPrice'[symbol][1]
  <2>1. Entries(strategy) # {}
    BY <1>2, NothingCollected
  <2>2. ListensFromTheStart(strategy, symbol)
    BY <1>1, <2>1, ListenedBefore
  <2> QED
    BY <1>2, <2>2, FirstTickStays DEF FirstIsHeard
<1>3. CASE Quiet(strategy) \/ \E new : Joins(strategy, new)
  BY <1>2, <1>3 DEF Quiet, Joins, SameCollected
<1>4. ASSUME NEW at0, Hears(strategy, at0)
      PROVE  tickPrice'[symbol] # <<>> /\ prices'[strategy][1] = tickPrice'[symbol][1]
  <2> DEFINE n == published[at0[1]]["tick"]
             price == tickPrice[at0[1]][n]
             heard == Entry(at0).heard["tick"]
  <2>1. /\ at0[1] \in Symbols /\ n \in Nat /\ n > 0 /\ price \in TickPrices
        /\ Entry(at0).since["tick"] \in Nat
        /\ heard \in Seq(Nat) /\ Len(heard) = (n - 1) - Entry(at0).since["tick"]
    BY <1>4, PriceHeard
  <2>2. onTick(strategy, price) /\ at0 \in Entries(strategy) /\ tickPrice' = tickPrice
        /\ Entries(strategy)' = Entries(strategy)
        /\ Entry(at0)'.since["tick"] = Entry(at0).since["tick"]
    BY <1>4 DEF Hears, NothingPublished
  <2>3. prices'[strategy][1] = IF prices[strategy] = <<>> THEN price ELSE prices[strategy][1]
    BY <2>1, <2>2, Kept
  <2>4. CASE prices[strategy] = <<>>
    <3>1. Len(heard) = 0
      BY <2>2, <2>4, NothingCollected
    <3>2. at0[1] = symbol /\ Entry(at0).since["tick"] = 0
      BY <2>2 DEF ListensFromTheStart
    <3>3. n = 1
      BY <2>1, <3>1, <3>2
    <3>4. tickPrice[symbol] \in Seq(TickPrices) /\ Len(tickPrice[symbol]) = n
      BY <3>2 DEF HandlerFacts, TicksTyped
    <3>5. tickPrice[symbol] # <<>>
      <4> HIDE DEF n
      <4> QED
        BY <3>3, <3>4, EmptySeq
    <3> QED
      BY <2>2, <2>3, <2>4, <3>2, <3>3, <3>5
  <2> QED
    BY <1>2, <2>3, <2>4
<1> QED
  BY <1>1, <1>3, <1>4

LEMMA LastIsHeardStep ==
  ASSUME HandlerFacts, CollectedTyped, LastIsHeard, [StrategiesNext]_strategiesVars
  PROVE  LastIsHeard'
<1> SUFFICES ASSUME NEW symbol \in Symbols, NEW strategy \in Listeners,
                    ListensFromTheStart(strategy, symbol)', HasLatest(strategy, symbol)'
             PROVE  LatestKept(strategy, tickPrice[symbol][published[symbol]["tick"]])'
  BY DEF LastIsHeard
<1> DEFINE n == published[symbol]["tick"]
           n1 == published'[symbol]["tick"]
           price1 == tickPrice'[symbol][n1]
<1> SUFFICES ASSUME NEW price, price = price1
             PROVE  LatestKept(strategy, price)'
  BY DEF LatestKept
<1>1. Quiet(strategy) \/ (\E new : Joins(strategy, new)) \/ \E at0 : Hears(strategy, at0)
  BY Moves DEF CollectedTyped
<1>2. /\ n1 > 0
      /\ \E at \in Entries(strategy)' : Len(Entry(at)'.heard["tick"]) = n1
  BY DEF HasLatest
<1>3. \A at \in Entries(strategy)' : at[1] = symbol /\ Entry(at)'.since["tick"] = 0
  BY DEF ListensFromTheStart
<1>4. ASSUME Quiet(strategy)
      PROVE  LatestKept(strategy, price)'
  <2>1. PICK at \in Entries(strategy) : Len(Entry(at).heard["tick"]) = n1
    BY <1>2, <1>4 DEF Quiet, HeardSame
  <2>2. ListensFromTheStart(strategy, symbol)
    BY <1>4, <2>1, ListenedBefore
  <2>3. n \in Nat /\ n1 <= n
    <3>1. at[1] = symbol
      BY <2>2 DEF ListensFromTheStart
    <3> DEFINE since == Entry(at).since["tick"]
               lag == Lag(at[1], "tick", at[2])
               k == published[at[1]]["tick"]
    <3>2. /\ since \in Nat /\ k \in Nat /\ lag \in {0, 1}
          /\ Len(Entry(at).heard["tick"]) = (k - lag) - since
      BY HeardIs
    <3> HIDE DEF since, lag
    <3> QED
      BY <2>1, <3>1, <3>2
  <2>4. n1 = n /\ tickPrice'[symbol] = tickPrice[symbol]
    <3>1. CASE NothingPublished
      BY <3>1 DEF NothingPublished
    <3>2. ASSUME NEW s \in Symbols, Published(s)
          PROVE  n1 = n /\ tickPrice'[symbol] = tickPrice[symbol]
      <4>1. s # symbol
        BY <2>3, <3>2 DEF Published
      <4> QED
        BY <3>2, <4>1 DEF Published, HandlerFacts, TicksTyped
    <3> QED
      BY <3>1, <3>2, PublishedTicks
  <2>5. HasLatest(strategy, symbol)
    BY <1>2, <2>1, <2>4 DEF HasLatest
  <2>6. LatestKept(strategy, price)
    BY <2>2, <2>4, <2>5 DEF LastIsHeard
  <2> QED
    BY <1>4, <2>6 DEF LatestKept, Quiet, SameCollected
<1>5. ASSUME NEW new, Joins(strategy, new)
      PROVE  FALSE
  <2>1. new[1] = symbol /\ Entry(new)'.since["tick"] = 0
    BY <1>3, <1>5 DEF Joins
  <2>2. n = 0 /\ n1 = n
    BY <1>5, <2>1 DEF Joins, NothingPublished
  <2> QED
    BY <1>2, <2>2
<1>6. ASSUME NEW at0, Hears(strategy, at0)
      PROVE  LatestKept(strategy, price)'
  <2>1. at0[1] = symbol /\ n1 = n /\ tickPrice' = tickPrice
    BY <1>3, <1>6 DEF Hears, NothingPublished
  <2>2. onTick(strategy, price) /\ price \in TickPrices
    <3>1. tickPrice[at0[1]][published[at0[1]]["tick"]] \in TickPrices
      BY <1>6, PriceHeard
    <3> QED
      BY <1>6, <2>1, <3>1 DEF Hears
  <2> QED
    BY <2>2, Kept
<1> QED
  BY <1>1, <1>4, <1>5, <1>6

-----------------------------------------------------------------------------
LEMMA StrategiesInvInit == StrategiesInit => StrategiesInv
<1> SUFFICES ASSUME StrategiesInit
             PROVE  StrategiesInv
  OBVIOUS
<1>1. /\ MarketDataInv /\ owned = Listeners
      /\ tickPrice = [symbol \in Symbols |-> <<>>]
      /\ prices = [strategy \in Collecting |-> <<>>] /\ lastTick = {}
      /\ symbolDataMap = [symbol \in {} |-> NewSymbolData]
      /\ \A symbol \in Symbols : published[symbol]["tick"] = 0
  BY InvInit DEF StrategiesInit, MarketDataInit, Kinds
<1>2. <<>> \in Seq(TickPrices) /\ Len(<<>>) = 0
  BY EmptySeq
<1>3. HandlerFacts
  BY <1>1, <1>2 DEF HandlerFacts, TicksTyped
<1>4. CollectedTyped
  <2>1. Cardinality({}) = 0
    BY FS_EmptySet
  <2> QED
    BY <1>1, <1>2, <2>1 DEF CollectedTyped
<1>5. \A strategy : Entries(strategy) = {}
  BY <1>1 DEF Entries, DataOf, NewSymbolData
<1>6. EntriesFinite
  BY <1>5, FS_EmptySet DEF EntriesFinite
<1>7. PricesAreHeard
  <2> SUFFICES ASSUME NEW strategy \in Collecting, NEW phi \in [TickPrices -> Int]
               PROVE  Total(phi, prices[strategy])
                        = SumFunction([at \in Entries(strategy) |-> Total(phi, HeardPrices(at))])
    BY DEF PricesAreHeard
  <2> DEFINE f == [at \in Entries(strategy) |-> Total(phi, HeardPrices(at))]
  <2>1. DOMAIN f = {}
    BY <1>5
  <2> HIDE DEF f
  <2>2. SumFunction(f) = 0
    BY <2>1, SumEmpty DEF SumFunction
  <2>3. DOMAIN (prices[strategy]) = {}
    BY <1>1
  <2>4. Total(phi, prices[strategy]) = 0
    BY <2>3, TotalEmpty
  <2> QED
    BY <2>2, <2>4 DEF f
<1>8. FirstIsHeard /\ LastIsHeard
  BY <1>5 DEF FirstIsHeard, LastIsHeard, ListensFromTheStart
<1> QED
  BY <1>3, <1>4, <1>6, <1>7, <1>8 DEF StrategiesInv

LEMMA StrategiesInvStep ==
  ASSUME StrategiesInv, [StrategiesNext]_strategiesVars
  PROVE  StrategiesInv'
<1>1. /\ HandlerFacts /\ CollectedTyped /\ EntriesFinite /\ PricesAreHeard
      /\ FirstIsHeard /\ LastIsHeard
  BY DEF StrategiesInv
<1>2. HandlerFacts' /\ CollectedTyped' /\ EntriesFinite'
  BY <1>1, HandlerFactsStep, CollectedTypedStep, EntriesFiniteStep
<1>3. PricesAreHeard' /\ FirstIsHeard' /\ LastIsHeard'
  BY <1>1, PricesAreHeardStep, FirstIsHeardStep, LastIsHeardStep
<1> QED
  BY <1>2, <1>3 DEF StrategiesInv

(* What the entries of a strategy have heard is, in every reachable state, *)
(* what the strategy has collected.                                        *)
THEOREM StrategiesInductive == StrategiesSpec => []StrategiesInv
<1>1. StrategiesInv /\ [StrategiesNext]_strategiesVars => StrategiesInv'
  BY StrategiesInvStep
<1> QED
  BY <1>1, StrategiesInvInit, PTL DEF StrategiesSpec

(* The vectors of the strategies hold published prices, and together as    *)
(* many as their entries were called with.                                 *)
THEOREM StrategiesTypeCorrect == StrategiesSpec => []StrategiesTypeOK
<1>1. StrategiesInv => StrategiesTypeOK
  BY Lengths DEF StrategiesInv, HandlerFacts, TicksTyped, CollectedTyped, StrategiesTypeOK
<1> QED
  BY <1>1, StrategiesInductive, PTL

(* The volatility over any window is what the differences between its      *)
(* prices make it.                                                         *)
THEOREM VolatilityCorrect == StrategiesSpec => []VolatilityIsTheSpread
<1>1. StrategiesInv => VolatilityIsTheSpread
  BY SpreadOfVolatility DEF StrategiesInv, HandlerFacts
<1> QED
  BY <1>1, StrategiesInductive, PTL

(* RSI over a period and momentum over the ticks that bound it are on the  *)
(* same side.                                                              *)
THEOREM RSICorrect == StrategiesSpec => []RSIFollowsMomentum
<1>1. StrategiesInv => RSIFollowsMomentum
  BY RSIAndMomentum DEF StrategiesInv, HandlerFacts
<1> QED
  BY <1>1, StrategiesInductive, PTL

(* No indicator leaves the numbers but where it is asked for a period of   *)
(* nothing or divides by a price of nothing.                               *)
THEOREM IndicatorsCorrect == StrategiesSpec => []IndicatorsAreNumbers
<1>1. StrategiesInv => IndicatorsAreNumbers
  BY NumbersOfIndicators DEF StrategiesInv, HandlerFacts
<1> QED
  BY <1>1, StrategiesInductive, PTL

-----------------------------------------------------------------------------
(* At rest, each entry of a strategy that listens to one symbol from its   *)
(* first tick has heard the ticks of the symbol: the strategy has          *)
(* collected every one of them as often as it has entries.                 *)
AtRest(strategy, symbol) ==
  /\ StrategiesInv /\ dataMutexIsFree
  /\ ListensFromTheStart(strategy, symbol)

LEMMA HeardAtRest ==
  ASSUME NEW strategy, NEW symbol \in Symbols, AtRest(strategy, symbol),
         NEW at \in Entries(strategy)
  PROVE  /\ Len(Entry(at).heard["tick"]) = published[symbol]["tick"]
         /\ HeardPrices(at) = tickPrice[symbol]
         /\ strategy \in Listeners
<1> DEFINE since == Entry(at).since["tick"]
           heard == Entry(at).heard["tick"]
           n == published[at[1]]["tick"]
           lag == Lag(at[1], "tick", at[2])
<1>1. HandlerFacts /\ publication = {} /\ at[1] = symbol /\ since = 0
  BY DEF AtRest, StrategiesInv, dataMutexIsFree, ListensFromTheStart
<1>2. /\ n \in Nat /\ Len(heard) = (n - lag) - since
      /\ DOMAIN heard = 1 .. Len(heard)
      /\ \A i \in DOMAIN heard : heard[i] = since + i /\ heard[i] \in 1 .. n
      /\ HeardPrices(at) \in Seq(TickPrices) /\ Len(HeardPrices(at)) = Len(heard)
  BY <1>1, HeardIs
<1>3. lag = 0
  BY <1>1 DEF Lag
<1>4. Len(heard) = n /\ DOMAIN heard = 1 .. n /\ \A i \in 1 .. n : heard[i] = i
  BY <1>1, <1>2, <1>3
<1>5. tickPrice[symbol] \in Seq(TickPrices) /\ Len(tickPrice[symbol]) = n
  BY <1>1 DEF HandlerFacts, TicksTyped
<1>6. HeardPrices(at) = [i \in DOMAIN heard |-> tickPrice[at[1]][heard[i]]]
  BY DEF HeardPrices
<1> HIDE DEF n, heard
<1>7. \A i \in 1 .. n : HeardPrices(at)[i] = tickPrice[symbol][i]
  BY <1>1, <1>4, <1>6
<1>8. HeardPrices(at) = tickPrice[symbol]
  BY <1>2, <1>4, <1>5, <1>7, SeqEqual
<1>9. strategy \in Listeners
  BY <1>1, EntryIs DEF HandlerFacts, MarketDataInv, Subscription
<1> QED
  BY <1>1, <1>4, <1>8, <1>9 DEF n, heard

LEMMA CollectedAtRest ==
  ASSUME NEW strategy \in Collecting, NEW symbol \in Symbols, AtRest(strategy, symbol)
  PROVE  /\ Cardinality(Entries(strategy)) \in Nat \ {0}
         /\ prices[strategy] \in Seq(TickPrices) /\ tickPrice[symbol] \in Seq(TickPrices)
         /\ \A phi \in [TickPrices -> Int] :
              Total(phi, prices[strategy])
                = Cardinality(Entries(strategy)) * Total(phi, tickPrice[symbol])
<1> DEFINE entries == Entries(strategy)
           k == Cardinality(entries)
           ticks == tickPrice[symbol]
<1>1. /\ IsFiniteSet(entries) /\ entries # {} /\ PricesAreHeard
      /\ prices[strategy] \in Seq(TickPrices) /\ ticks \in Seq(TickPrices)
  BY DEF AtRest, StrategiesInv, EntriesFinite, ListensFromTheStart, CollectedTyped,
         HandlerFacts, TicksTyped
<1>2. k \in Nat /\ k # 0
  <2> HIDE DEF entries
  <2> QED
    BY <1>1, FS_CardinalityType, FS_EmptySet
<1>3. ASSUME NEW phi \in [TickPrices -> Int]
      PROVE  Total(phi, prices[strategy]) = k * Total(phi, ticks)
  <2> DEFINE f == [at \in entries |-> Total(phi, HeardPrices(at))]
             c == Total(phi, ticks)
  <2>1. c \in Int
    BY <1>1, TotalInt
  <2>2. \A at \in entries : f[at] = c
    BY HeardAtRest
  <2>3. Total(phi, prices[strategy]) = SumFunctionOnSet(f, entries)
    BY <1>1 DEF PricesAreHeard, SumFunction
  <2> HIDE DEF f, c, entries
  <2>4. Combines(f, entries, 0, f, 0, f, c)
    BY <2>1, <2>2 DEF Combines
  <2>5. /\ SumFunctionOnSet(f, entries) \in Int
        /\ SumFunctionOnSet(f, entries) = 0 * SumFunctionOnSet(f, entries)
             + 0 * SumFunctionOnSet(f, entries) + c * Cardinality(entries)
    BY <1>1, <2>1, <2>4, SumLinear
  <2>6. SumFunctionOnSet(f, entries) = k * c
    <3> DEFINE sum == SumFunctionOnSet(f, entries)
    <3> HIDE DEF sum, k
    <3>1. sum = 0 * sum + 0 * sum + c * k /\ sum \in Int
      BY <2>5 DEF sum, k
    <3>2. sum = k * c
      BY <1>2, <2>1, <3>1
    <3> QED
      BY <3>2 DEF sum
  <2> QED
    BY <2>3, <2>6 DEF c
<1> QED
  BY <1>1, <1>2, <1>3

(* The length, the sum and the sum of squares as totals. *)
LEMMA TotalsAre ==
  ASSUME NEW xs \in Seq(TickPrices)
  PROVE  /\ Total([x \in TickPrices |-> 1], xs) = Len(xs)
         /\ Total([x \in TickPrices |-> x], xs) = SumFunction(xs)
         /\ Total([x \in TickPrices |-> x * x], xs) = Squares(xs)
<1>1. \A i \in DOMAIN xs : xs[i] \in TickPrices
  BY ElementOfSeq
<1>2. xs = [i \in DOMAIN xs |-> xs[i]]
  BY LenProperties
<1> DEFINE one == [x \in TickPrices |-> 1]
           same == [x \in TickPrices |-> x]
           square == [x \in TickPrices |-> x * x]
<1>3. Total(one, xs) = Len(xs)
  <2>1. one \in [TickPrices -> Int] /\ \A x \in TickPrices : one[x] = 1
    OBVIOUS
  <2> HIDE DEF one
  <2> QED
    BY <2>1, TotalOfOnes
<1>4. [i \in DOMAIN xs |-> same[xs[i]]] = xs
  BY <1>1, <1>2
<1>5. [i \in DOMAIN xs |-> square[xs[i]]] = [i \in DOMAIN xs |-> xs[i] * xs[i]]
  BY <1>1
<1> QED
  BY <1>3, <1>4, <1>5 DEF Total, Squares

LEMMA SumsAtRest ==
  ASSUME NEW strategy \in Collecting, NEW symbol \in Symbols, AtRest(strategy, symbol)
  PROVE  LET k == Cardinality(Entries(strategy))
             mine == prices[strategy]
             ticks == tickPrice[symbol]
         IN /\ k \in Nat \ {0} /\ mine \in Seq(Nat) /\ ticks \in Seq(Nat)
            /\ Len(mine) = k * Len(ticks)
            /\ SumFunction(mine) = k * SumFunction(ticks)
            /\ Squares(mine) = k * Squares(ticks)
<1> DEFINE k == Cardinality(Entries(strategy))
           mine == prices[strategy]
           ticks == tickPrice[symbol]
           one == [x \in TickPrices |-> 1]
           same == [x \in TickPrices |-> x]
           square == [x \in TickPrices |-> x * x]
<1>1. /\ k \in Nat \ {0} /\ mine \in Seq(TickPrices) /\ ticks \in Seq(TickPrices)
      /\ \A phi \in [TickPrices -> Int] : Total(phi, mine) = k * Total(phi, ticks)
  BY CollectedAtRest
<1>2. one \in [TickPrices -> Int] /\ same \in [TickPrices -> Int]
      /\ square \in [TickPrices -> Int]
  <2>1. \A x \in TickPrices : x \in Int /\ x * x \in Int
    BY StrategiesAssumption DEF StrategiesAssumption
  <2> QED
    BY <2>1
<1>3. /\ Total(one, mine) = Len(mine) /\ Total(one, ticks) = Len(ticks)
      /\ Total(same, mine) = SumFunction(mine) /\ Total(same, ticks) = SumFunction(ticks)
      /\ Total(square, mine) = Squares(mine) /\ Total(square, ticks) = Squares(ticks)
  BY <1>1, TotalsAre
<1>4. mine \in Seq(Nat) /\ ticks \in Seq(Nat)
  BY <1>1, PricesAreNumbers
<1> HIDE DEF one, same, square, mine, ticks, k
<1>5. /\ Len(mine) = k * Len(ticks) /\ SumFunction(mine) = k * SumFunction(ticks)
      /\ Squares(mine) = k * Squares(ticks)
  BY <1>1, <1>2, <1>3
<1> QED
  BY <1>1, <1>4, <1>5 DEF mine, ticks, k

(* The whole history is the window, until it overflows. *)
LEMMA WholeWindow ==
  ASSUME HandlerFacts, NEW symbol \in Symbols,
         published[symbol]["tick"] \in 2 .. MAX_HISTORY_SIZE
  PROVE  /\ Window(symbol, MAX_HISTORY_SIZE) = tickPrice[symbol]
         /\ tickPrice[symbol] \in Seq(TickPrices)
         /\ Len(tickPrice[symbol]) = published[symbol]["tick"]
<1> DEFINE n == published[symbol]["tick"]
           ticks == tickPrice[symbol]
           m == Lesser(n, Lesser(MAX_HISTORY_SIZE, MAX_HISTORY_SIZE))
<1>1. ticks \in Seq(TickPrices) /\ Len(ticks) = n
  BY DEF HandlerFacts, TicksTyped
<1>2. MAX_HISTORY_SIZE \in Nat
  BY MarketDataAssumption DEF MarketDataAssumption
<1>3. n \in Nat /\ Window(symbol, MAX_HISTORY_SIZE) = [i \in 1 .. m |-> ticks[(n - m) + i]]
  BY <1>2, WindowIs DEF HandlerFacts
<1>4. m = n
  BY <1>2, <1>3 DEF Lesser
<1>5. DOMAIN ticks = 1 .. n /\ ticks = [i \in DOMAIN ticks |-> ticks[i]]
  BY <1>1, LenProperties
<1> HIDE DEF n, m, ticks
<1>6. \A i \in 1 .. n : (n - m) + i = i
  BY <1>3, <1>4
<1>7. Window(symbol, MAX_HISTORY_SIZE) = ticks
  BY <1>3, <1>4, <1>5, <1>6
<1> QED
  BY <1>1, <1>7 DEF ticks, n

LEMMA SameOfMany ==
  ASSUME NEW a \in Int, NEW b \in Int, NEW k \in Nat \ {0}, NEW x, NEW y,
         x[1] = k * a, x[2] = k * b, y[1] = a, y[2] = b
  PROVE  Same(x, y)
<1>1. (k * a) * b = a * (k * b)
  OBVIOUS
<1>2. k * b = 0 <=> b = 0
  OBVIOUS
<1> QED
  BY <1>1, <1>2 DEF Same

LEMMA StrategiesAgree == StrategiesInv => StrategiesAgreeWithHandler
<1> SUFFICES ASSUME StrategiesInv, NEW symbol \in Symbols, dataMutexIsFree,
                    published[symbol]["tick"] \in 2 .. MAX_HISTORY_SIZE
             PROVE  LET all == Window(symbol, MAX_HISTORY_SIZE)
                        agrees(strategy, mine, handlers) ==
                          ListensFromTheStart(strategy, symbol) => Same(mine, handlers)
                    IN /\ agrees("MeanReversion", calculateSMA, Mean(all))
                       /\ agrees("MeanReversion", calculateStdDev,
                                 calculateVolatility(symbol, MAX_HISTORY_SIZE))
                       /\ agrees("Momentum", strategyMomentum,
                                 calculateMomentum(symbol, MAX_HISTORY_SIZE))
                       /\ ListensFromTheStart("MarketMaking", symbol) =>
                            lastTick = {all[Len(all)]}
  BY DEF StrategiesAgreeWithHandler
<1> DEFINE n == published[symbol]["tick"]
           ticks == tickPrice[symbol]
           all == Window(symbol, MAX_HISTORY_SIZE)
<1>1. HandlerFacts /\ all = ticks /\ ticks \in Seq(TickPrices) /\ Len(ticks) = n
      /\ ticks \in Seq(Nat)
  BY WholeWindow, PricesAreNumbers DEF StrategiesInv
<1>2. n \in Nat /\ n >= 2
  BY MarketDataAssumption DEF MarketDataAssumption
<1>3. /\ calculateVolatility(symbol, MAX_HISTORY_SIZE) = Variance(ticks)
      /\ calculateMomentum(symbol, MAX_HISTORY_SIZE) = Change(ticks)
  <2> HIDE DEF n, ticks
  <2> QED
    BY <1>1, <1>2 DEF calculateVolatility, calculateMomentum
<1>4. ASSUME NEW strategy \in Collecting, ListensFromTheStart(strategy, symbol)
      PROVE  /\ Len(prices[strategy]) >= 2 /\ prices[strategy] # <<>>
             /\ Same(Mean(prices[strategy]), Mean(ticks))
             /\ Same(Variance(prices[strategy]), Variance(ticks))
  <2> DEFINE k == Cardinality(Entries(strategy))
             mine == prices[strategy]
             S == SumFunction(ticks)
             Q == Squares(ticks)
             d == Spread(ticks)
  <2>1. AtRest(strategy, symbol)
    BY <1>4 DEF AtRest
  <2>2. /\ k \in Nat \ {0} /\ mine \in Seq(Nat) /\ Len(mine) = k * Len(ticks)
        /\ SumFunction(mine) = k * S /\ Squares(mine) = k * Q
    BY <2>1, SumsAtRest
  <2>3. S \in Nat /\ Q \in Nat /\ d \in Int
    BY <1>1, SumsOfPrices
  <2>4. Variance(mine) = <<Len(mine) * Spread(mine), Len(mine) * Len(mine) * Len(mine)>>
    BY <2>2, VarianceIs
  <2>5. Variance(ticks) = <<n * d, n * n * n>>
    BY <1>1, VarianceIs
  <2>6. Spread(mine) = Len(mine) * Squares(mine) - SumFunction(mine) * SumFunction(mine)
        /\ d = Len(ticks) * Q - S * S
    BY DEF Spread
  <2> HIDE DEF k, mine, S, Q, d, ticks, n
  <2>7. Len(mine) = k * n
    BY <1>1, <2>2
  <2>8. Len(mine) >= 2 /\ mine # <<>>
    <3>1. k * n >= 2
      BY <1>2, <2>2
    <3> QED
      BY <2>2, <2>7, <3>1, EmptySeq
  <2>9. Same(Mean(mine), Mean(ticks))
    <3>1. Mean(mine) = <<k * S, k * n>> /\ Mean(ticks) = <<S, n>>
      BY <1>1, <2>2, <2>7 DEF Mean, S
    <3> QED
      BY <1>2, <2>2, <2>3, <3>1, SameOfMany
  <2>10. Spread(mine) = (k * k) * d
    <3>1. Spread(mine) = (k * n) * (k * Q) - (k * S) * (k * S) /\ d = n * Q - S * S
      BY <1>1, <2>2, <2>6, <2>7
    <3>2. (k * n) * (k * Q) - (k * S) * (k * S) = (k * k) * (n * Q - S * S)
      BY <1>2, <2>2, <2>3
    <3> QED
      BY <3>1, <3>2
  <2>11. Same(Variance(mine), Variance(ticks))
    <3> DEFINE c == k * k * k
    <3>1. c \in Nat \ {0}
      BY <2>2
    <3>2. (k * n) * ((k * k) * d) = c * (n * d)
      BY <1>2, <2>2, <2>3
    <3>3. (k * n) * (k * n) * (k * n) = c * (n * n * n)
      BY <1>2, <2>2
    <3>4. n * d \in Int /\ n * n * n \in Int
      BY <1>2, <2>3
    <3> HIDE DEF c
    <3> DEFINE a == n * d
               b == n * n * n
               x == Variance(mine)
               y == Variance(ticks)
    <3>5. x[1] = c * a /\ x[2] = c * b /\ y[1] = a /\ y[2] = b
      BY <2>4, <2>5, <2>7, <2>10, <3>2, <3>3
    <3> HIDE DEF a, b, x, y
    <3>6. a \in Int /\ b \in Int
      BY <3>4 DEF a, b
    <3>7. Same(x, y)
      BY <3>1, <3>5, <3>6, SameOfMany
    <3> QED
      BY <3>7 DEF x, y
  <2> QED
    BY <2>8, <2>9, <2>11 DEF mine
<1>5. ASSUME NEW strategy, ListensFromTheStart(strategy, symbol)
      PROVE  strategy \in Listeners /\ LatestKept(strategy, ticks[n])
  <2>1. AtRest(strategy, symbol)
    BY <1>5 DEF AtRest
  <2>2. PICK at \in Entries(strategy) : TRUE
    BY <1>5 DEF ListensFromTheStart
  <2>3. Len(Entry(at).heard["tick"]) = n /\ strategy \in Listeners
    BY <2>1, <2>2, HeardAtRest
  <2>4. HasLatest(strategy, symbol)
    BY <1>2, <2>2, <2>3 DEF HasLatest
  <2> QED
    BY <1>5, <2>3, <2>4 DEF StrategiesInv, LastIsHeard
<1>6. ASSUME ListensFromTheStart("MeanReversion", symbol)
      PROVE  /\ Same(calculateSMA, Mean(all))
             /\ Same(calculateStdDev, calculateVolatility(symbol, MAX_HISTORY_SIZE))
  <2>1. "MeanReversion" \in Collecting
    BY DEF Collecting
  <2> HIDE DEF ticks, all
  <2> QED
    BY <1>1, <1>3, <1>4, <1>6, <2>1 DEF calculateSMA, calculateStdDev
<1>7. ASSUME ListensFromTheStart("Momentum", symbol)
      PROVE  Same(strategyMomentum, calculateMomentum(symbol, MAX_HISTORY_SIZE))
  <2> DEFINE mine == prices["Momentum"]
  <2>1. "Momentum" \in Collecting
    BY DEF Collecting
  <2>2. Len(mine) >= 2 /\ mine # <<>>
    BY <1>4, <1>7, <2>1
  <2>3. mine[Len(mine)] = ticks[n]
    BY <1>5, <1>7, <2>1 DEF LatestKept
  <2>4. mine[1] = ticks[1]
    BY <1>7, <2>1, <2>2 DEF StrategiesInv, FirstIsHeard
  <2>5. mine \in Seq(Nat)
    BY <2>1, PricesAreNumbers DEF StrategiesInv, CollectedTyped
  <2> HIDE DEF mine
  <2>6. strategyMomentum = Change(mine)
    <3>1. ~(Len(mine) < 2)
      BY <2>2, <2>5
    <3> QED
      BY <3>1 DEF strategyMomentum, mine
  <2> HIDE DEF ticks, n
  <2>7. Change(mine) = Change(ticks)
    BY <1>1, <2>3, <2>4 DEF Change
  <2>8. Change(ticks)[1] \in Int /\ Change(ticks)[2] \in Int
    <3>1. ticks[n] \in Nat /\ ticks[1] \in Nat
      BY <1>1, <1>2, ElementOfSeq
    <3> QED
      BY <1>1, <3>1 DEF Change
  <2> QED
    BY <1>3, <2>6, <2>7 DEF Same
<1>8. ASSUME ListensFromTheStart("MarketMaking", symbol)
      PROVE  lastTick = {all[Len(all)]}
  BY <1>1, <1>5, <1>8 DEF LatestKept
<1> QED
  BY <1>6, <1>7, <1>8

(* The strategies and the handler compute the same mean, deviation and     *)
(* momentum in their own ways, whatever the number of entries.             *)
THEOREM StrategiesAgreeCorrect == StrategiesSpec => []StrategiesAgreeWithHandler
BY StrategiesAgree, StrategiesInductive, PTL
=============================================================================
