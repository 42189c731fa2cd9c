---------------------------- MODULE SumTheorems ----------------------------
(***************************************************************************)
(* Facts about SumFunctionOnSet, the sum of the values of a function over  *)
(* a finite set of its arguments.                                          *)
(*                                                                         *)
(* SumFunctionOnSet is a recursive function on the subsets of the set.     *)
(* The induction that such facts need is stated for a set of sets instead  *)
(* of a property of them: a set of subsets of S that contains the empty    *)
(* set and, with a set, what one more element makes of it, contains S.     *)
(***************************************************************************)
EXTENDS Integers, Functions, FiniteSetTheorems, WellFoundedInduction, TLAPS

(* A set of naturals that is not empty has a least element. *)
LEMMA Least ==
  ASSUME NEW T \in SUBSET Nat, T # {}
  PROVE  \E n \in T : \A m \in T : n <= m
<1>1. PICK n \in T : \A m \in T : ~ (<<m, n>> \in OpToRel(<, Nat))
  <2> HIDE DEF OpToRel
  <2> QED
    BY WFMin, NatLessThanWellFounded, Zenon
<1>2. \A m \in T : ~ (m < n)
  BY <1>1 DEF OpToRel
<1> QED
  BY <1>2

(* Induction over the naturals. *)
LEMMA NaturalInduction ==
  ASSUME NEW Good, 0 \in Good, \A n \in Nat : n \in Good => n + 1 \in Good
  PROVE  \A n \in Nat : n \in Good
<1> DEFINE Bad == {n \in Nat : n \notin Good}
<1> SUFFICES ASSUME Bad # {} PROVE FALSE
  OBVIOUS
<1>1. PICK n \in Bad : \A m \in Bad : n <= m
  <2> HIDE DEF Bad
  <2>1. Bad \in SUBSET Nat
    BY DEF Bad
  <2> QED
    BY <2>1, Least
<1>2. n # 0 /\ n - 1 \in Nat
  BY <1>1
<1>3. n - 1 \in Good
  BY <1>1, <1>2
<1>4. (n - 1) + 1 = n
  BY <1>2
<1> QED
  BY <1>1, <1>2, <1>3, <1>4

(* Induction over the subsets of a finite set. *)
LEMMA SubsetInduction ==
  ASSUME NEW S, IsFiniteSet(S), NEW Good, {} \in Good,
         \A s \in SUBSET S : \A x \in S \ s : s \in Good => s \cup {x} \in Good
  PROVE  \A s \in SUBSET S : s \in Good
<1> DEFINE Bad == {s \in SUBSET S : s \notin Good}
           Sizes == {Cardinality(s) : s \in Bad}
<1> SUFFICES ASSUME Bad # {} PROVE FALSE
  OBVIOUS
<1>1. \A s \in SUBSET S : IsFiniteSet(s) /\ Cardinality(s) \in Nat
  BY FS_Subset, FS_CardinalityType
<1>2. Sizes \in SUBSET Nat /\ Sizes # {}
  BY <1>1
<1>3. PICK n \in Sizes : \A m \in Sizes : n <= m
  <2> HIDE DEF Sizes
  <2> QED
    BY <1>2, Least
<1>4. PICK s \in Bad : Cardinality(s) = n
  BY <1>3
<1>5. PICK x : x \in s
  BY <1>4
<1>6. Cardinality(s \ {x}) = n - 1
  BY <1>1, <1>4, <1>5, FS_RemoveElement
<1>7. s \ {x} \in Good
  <2> SUFFICES ASSUME s \ {x} \notin Good PROVE FALSE
    OBVIOUS
  <2>1. s \ {x} \in Bad
    BY <1>4
  <2>2. n - 1 \in Sizes
    BY <2>1, <1>6
  <2>3. n \in Nat /\ n <= n - 1
    BY <1>2, <1>3, <2>2
  <2> QED
    BY <2>3
<1>8. (s \ {x}) \cup {x} \in Good
  BY <1>4, <1>5, <1>7
<1>9. (s \ {x}) \cup {x} = s
  BY <1>5
<1> QED
  BY <1>4, <1>8, <1>9

-----------------------------------------------------------------------------
(* The function that the sum is defined by. *)
Chosen(s) == CHOOSE x \in s : TRUE
Equation(f, S, iter) ==
  iter = [s \in SUBSET S |-> IF s = {} THEN 0 ELSE f[Chosen(s)] + iter[s \ {Chosen(s)}]]
Iter(f, S) == CHOOSE iter : Equation(f, S, iter)

LEMMA SumIsIter ==
  ASSUME NEW f, NEW S
  PROVE  SumFunctionOnSet(f, S) = Iter(f, S)[S]
BY DEF SumFunctionOnSet, FoldFunctionOnSet, MapThenFoldSet, Iter, Equation, Chosen

(* There is such a function: any function becomes one on the sets of up to *)
(* n elements when the equation is applied to it n + 1 times.              *)
LEMMA EquationHolds ==
  ASSUME NEW f, NEW S, IsFiniteSet(S)
  PROVE  Equation(f, S, Iter(f, S))
<1> DEFINE Applied(g) ==
             [s \in SUBSET S |-> IF s = {} THEN 0 ELSE f[Chosen(s)] + g[s \ {Chosen(s)}]]
           Solves(g, n) ==
             /\ g = [s \in SUBSET S |-> g[s]]
             /\ \A s \in SUBSET S : Cardinality(s) <= n => g[s] = Applied(g)[s]
           Good == {n \in Nat : \E g : Solves(g, n)}
<1>1. \A s \in SUBSET S : IsFiniteSet(s) /\ Cardinality(s) \in Nat
                         /\ Cardinality(s) <= Cardinality(S)
  BY FS_Subset, FS_CardinalityType
<1>2. \A s \in SUBSET S : s # {} => /\ Chosen(s) \in s
                                    /\ s \ {Chosen(s)} \in SUBSET S
                                    /\ Cardinality(s \ {Chosen(s)}) = Cardinality(s) - 1
  BY <1>1, FS_RemoveElement DEF Chosen
<1>3. 0 \in Good
  <2> DEFINE g == [s \in SUBSET S |-> 0]
  <2>1. \A s \in SUBSET S : Cardinality(s) <= 0 => s = {}
    BY <1>1, FS_EmptySet
  <2>2. Solves(g, 0)
    BY <2>1
  <2> QED
    BY <2>2
<1>4. \A n \in Nat : n \in Good => n + 1 \in Good
  <2> TAKE n \in Nat
  <2> HAVE n \in Good
  <2>1. PICK g : Solves(g, n)
    OBVIOUS
  <2> DEFINE h == Applied(g)
  <2>2. ASSUME NEW s \in SUBSET S, Cardinality(s) <= n + 1
        PROVE  h[s] = Applied(h)[s]
    <3>1. CASE s = {}
      BY <3>1
    <3>2. CASE s # {}
      <4> DEFINE t == s \ {Chosen(s)}
      <4>1. t \in SUBSET S /\ Cardinality(t) <= n
        BY <1>1, <1>2, <2>2, <3>2
      <4>2. g[t] = h[t]
        BY <2>1, <4>1
      <4> QED
        BY <3>2, <4>1, <4>2
    <3> QED
      BY <3>1, <3>2
  <2>3. Solves(h, n + 1)
    <3>1. h = [s \in SUBSET S |-> h[s]]
      OBVIOUS
    <3> HIDE DEF h, Applied
    <3> QED
      BY <2>2, <3>1
  <2> HIDE DEF h, Solves
  <2> QED
    BY <2>3
<1>5. Cardinality(S) \in Good
  <2> HIDE DEF Good
  <2> QED
    BY <1>1, <1>3, <1>4, NaturalInduction
<1>6. PICK g : Solves(g, Cardinality(S))
  BY <1>5
<1>7. g = Applied(g)
  <2>1. \A s \in SUBSET S : g[s] = Applied(g)[s]
    BY <1>1, <1>6
  <2>2. g = [s \in SUBSET S |-> g[s]]
    BY <1>6
  <2>3. Applied(g) = [s \in SUBSET S |-> Applied(g)[s]]
    OBVIOUS
  <2> HIDE DEF Applied
  <2> QED
    BY <2>1, <2>2, <2>3
<1>8. Equation(f, S, g)
  BY <1>7 DEF Equation
<1> QED
  BY <1>8 DEF Iter

(* On the subsets that two sets share, their functions agree. *)
LEMMA IterAgrees ==
  ASSUME NEW f, NEW S, IsFiniteSet(S), NEW T \in SUBSET S
  PROVE  Iter(f, S)[T] = SumFunctionOnSet(f, T)
<1> DEFINE large == Iter(f, S)
           small == Iter(f, T)
           Good == {n \in Nat : \A s \in SUBSET T : Cardinality(s) <= n => large[s] = small[s]}
<1>1. IsFiniteSet(T)
  BY FS_Subset
<1>2. \A s \in SUBSET T : IsFiniteSet(s) /\ Cardinality(s) \in Nat
                         /\ Cardinality(s) <= Cardinality(T)
  BY <1>1, FS_Subset, FS_CardinalityType
<1>3. \A s \in SUBSET T :
        /\ large[s] = IF s = {} THEN 0 ELSE f[Chosen(s)] + large[s \ {Chosen(s)}]
        /\ small[s] = IF s = {} THEN 0 ELSE f[Chosen(s)] + small[s \ {Chosen(s)}]
  <2> HIDE DEF large, small
  <2>1. Equation(f, S, large) /\ Equation(f, T, small)
    BY <1>1, EquationHolds DEF large, small
  <2> QED
    BY <2>1 DEF Equation
<1> HIDE DEF large, small
<1>4. 0 \in Good
  <2>1. \A s \in SUBSET T : Cardinality(s) <= 0 => s = {}
    BY <1>2, FS_EmptySet
  <2>2. \A s \in SUBSET T : s = {} => large[s] = small[s]
    BY <1>3
  <2> QED
    BY <2>1, <2>2
<1>5. \A n \in Nat : n \in Good => n + 1 \in Good
  <2> SUFFICES ASSUME NEW n \in Nat, n \in Good,
                      NEW s \in SUBSET T, Cardinality(s) <= n + 1
               PROVE  large[s] = small[s]
    OBVIOUS
  <2>1. CASE s = {}
    BY <2>1, <1>3
  <2>2. CASE s # {}
    <3> DEFINE t == s \ {Chosen(s)}
    <3>1. Chosen(s) \in s
      BY <2>2 DEF Chosen
    <3>2. t \in SUBSET T /\ Cardinality(t) <= n
      BY <3>1, <1>2, FS_RemoveElement
    <3>3. large[t] = small[t]
      BY <3>2
    <3>4. large[s] = f[Chosen(s)] + large[t] /\ small[s] = f[Chosen(s)] + small[t]
      BY <1>3, <2>2
    <3> QED
      BY <3>3, <3>4
  <2> QED
    BY <2>1, <2>2
<1>6. Cardinality(T) \in Good
  <2> HIDE DEF Good
  <2> QED
    BY <1>2, <1>4, <1>5, NaturalInduction
<1>7. large[T] = small[T]
  BY <1>2, <1>6
<1> QED
  BY <1>7, SumIsIter DEF large, small

(* The sum over nothing, and over a set of which the chosen element is     *)
(* taken first.                                                            *)
LEMMA SumEmpty ==
  ASSUME NEW f
  PROVE  SumFunctionOnSet(f, {}) = 0
<1>1. IsFiniteSet({})
  BY FS_EmptySet
<1>2. Equation(f, {}, Iter(f, {}))
  BY <1>1, EquationHolds
<1>3. {} \in SUBSET {}
  OBVIOUS
<1>4. Iter(f, {})[{}] = 0
  BY <1>2, <1>3 DEF Equation
<1> QED
  BY <1>4, SumIsIter

LEMMA SumChosen ==
  ASSUME NEW f, NEW S, IsFiniteSet(S), S # {}
  PROVE  /\ Chosen(S) \in S
         /\ SumFunctionOnSet(f, S) = f[Chosen(S)] + SumFunctionOnSet(f, S \ {Chosen(S)})
<1>1. Chosen(S) \in S
  BY DEF Chosen
<1> DEFINE T == S \ {Chosen(S)}
<1>2. Iter(f, S)[S] = f[Chosen(S)] + Iter(f, S)[T]
  <2>1. Equation(f, S, Iter(f, S))
    BY EquationHolds
  <2> QED
    BY <2>1 DEF Equation
<1>3. Iter(f, S)[T] = SumFunctionOnSet(f, T)
  BY IterAgrees
<1> QED
  BY <1>1, <1>2, <1>3, SumIsIter

(* The order does not matter: any element may be taken first.              *)
LEMMA SumElementInt ==
  ASSUME NEW f, NEW S, IsFiniteSet(S), \A x \in S : f[x] \in Int
  PROVE  /\ SumFunctionOnSet(f, S) \in Int
         /\ \A y \in S : SumFunctionOnSet(f, S) = f[y] + SumFunctionOnSet(f, S \ {y})
<1> DEFINE Sum(s) == SumFunctionOnSet(f, s)
           Right(s) == Sum(s) \in Int /\ \A y \in s : Sum(s) = f[y] + Sum(s \ {y})
           Good == {n \in Nat : \A s \in SUBSET S : Cardinality(s) <= n => Right(s)}
<1>1. \A s \in SUBSET S : IsFiniteSet(s) /\ Cardinality(s) \in Nat
                         /\ Cardinality(s) <= Cardinality(S)
  BY FS_Subset, FS_CardinalityType
<1>2. Right({})
  BY SumEmpty
<1>3. 0 \in Good
  <2>1. \A s \in SUBSET S : Cardinality(s) <= 0 => s = {}
    BY <1>1, FS_EmptySet
  <2> QED
    BY <2>1, <1>2
<1>4. \A n \in Nat : n \in Good => n + 1 \in Good
  <2> SUFFICES ASSUME NEW n \in Nat, n \in Good,
                      NEW s \in SUBSET S, Cardinality(s) <= n + 1
               PROVE  Right(s)
    OBVIOUS
  <2> SUFFICES ASSUME s # {} PROVE Right(s)
    BY <1>2
  <2> DEFINE c == Chosen(s)
             t == s \ {c}
  <2>1. c \in s /\ Sum(s) = f[c] + Sum(t)
    BY <1>1, SumChosen
  <2>2. \A x \in s : s \ {x} \in SUBSET S /\ Cardinality(s \ {x}) <= n
    BY <1>1, FS_RemoveElement
  <2> HIDE DEF Sum, c
  <2>3. Right(t)
    BY <2>1, <2>2
  <2>4. Sum(s) \in Int
    BY <2>1, <2>3
  <2>5. ASSUME NEW y \in s
        PROVE  Sum(s) = f[y] + Sum(s \ {y})
    <3>1. CASE y = c
      BY <3>1, <2>1
    <3>2. CASE y # c
      <4>1. Right(s \ {y})
        BY <2>2
      <4>2. c \in s \ {y} /\ y \in t
        BY <2>1, <3>2
      <4>3. Sum(s \ {y}) = f[c] + Sum((s \ {y}) \ {c})
        BY <4>1, <4>2
      <4>4. Sum(t) = f[y] + Sum(t \ {y})
        BY <2>3, <4>2
      <4> DEFINE u == (s \ {y}) \ {c}
      <4>5. t \ {y} = u
        OBVIOUS
      <4>6. Right(u)
        <5>1. u \in SUBSET S /\ Cardinality(u) <= n
          <6>1. u \in SUBSET t
            BY DEF t
          <6>2. Cardinality(u) <= Cardinality(t) /\ Cardinality(u) \in Nat
            BY <6>1, <1>1, <2>2, FS_Subset
          <6> QED
            BY <6>1, <6>2, <1>1, <2>1, <2>2
        <5> QED
          BY <5>1
      <4>7. Sum(u) \in Int /\ f[c] \in Int /\ f[y] \in Int
        BY <4>6, <2>1
      <4> HIDE DEF u, t
      <4> QED
        BY <2>1, <4>3, <4>4, <4>5, <4>7 DEF u
    <3> QED
      BY <3>1, <3>2
  <2> QED
    BY <2>4, <2>5
<1>5. Cardinality(S) \in Good
  <2> HIDE DEF Good
  <2> QED
    BY <1>1, <1>3, <1>4, NaturalInduction
<1>6. Right(S)
  BY <1>1, <1>5
<1> QED
  BY <1>6

LEMMA SumAdd ==
  ASSUME NEW f, NEW S, NEW x, IsFiniteSet(S), x \notin S,
         \A y \in S \cup {x} : f[y] \in Int
  PROVE  /\ SumFunctionOnSet(f, S) \in Int
         /\ SumFunctionOnSet(f, S \cup {x}) = SumFunctionOnSet(f, S) + f[x]
<1> DEFINE t == S \cup {x}
<1>1. IsFiniteSet(t) /\ x \in t /\ t \ {x} = S
  BY FS_AddElement
<1>2. SumFunctionOnSet(f, t) = f[x] + SumFunctionOnSet(f, S)
  <2> HIDE DEF t
  <2>1. \A y \in t : f[y] \in Int
    BY DEF t
  <2>2. SumFunctionOnSet(f, t) = f[x] + SumFunctionOnSet(f, t \ {x})
    BY <1>1, <2>1, SumElementInt
  <2> QED
    BY <1>1, <2>2
<1>3. SumFunctionOnSet(f, S) \in Int /\ f[x] \in Int
  BY SumElementInt
<1> DEFINE a == SumFunctionOnSet(f, t)
           b == SumFunctionOnSet(f, S)
           c == f[x]
<1> HIDE DEF a, b, c
<1>4. a = b + c
  BY <1>2, <1>3 DEF a, b, c
<1> QED
  BY <1>3, <1>4 DEF a, b, c

-----------------------------------------------------------------------------
(* Functions that agree on a set have the same sum over it. *)
LEMMA SumAgree ==
  ASSUME NEW S, IsFiniteSet(S), NEW f, NEW g, \A x \in S : f[x] \in Int /\ g[x] = f[x]
  PROVE  SumFunctionOnSet(g, S) = SumFunctionOnSet(f, S)
<1> DEFINE Good == {s \in SUBSET S : SumFunctionOnSet(g, s) = SumFunctionOnSet(f, s)}
<1>1. {} \in Good
  BY SumEmpty
<1>2. ASSUME NEW s \in SUBSET S, NEW x \in S \ s, s \in Good
      PROVE  s \cup {x} \in Good
  <2>1. IsFiniteSet(s) /\ \A y \in s \cup {x} : f[y] \in Int /\ g[y] \in Int
    BY FS_Subset
  <2>2. /\ SumFunctionOnSet(f, s \cup {x}) = SumFunctionOnSet(f, s) + f[x]
        /\ SumFunctionOnSet(g, s \cup {x}) = SumFunctionOnSet(g, s) + g[x]
    BY <2>1, SumAdd
  <2> QED
    BY <1>2, <2>2
<1>3. \A s \in SUBSET S : s \in Good
  <2> HIDE DEF Good
  <2> QED
    BY <1>1, <1>2, SubsetInduction
<1> QED
  BY <1>3

(* One more argument. *)
LEMMA SumExtended ==
  ASSUME NEW f, NEW g, NEW S, NEW x, IsFiniteSet(S), x \notin S,
         DOMAIN f = S, DOMAIN g = S \cup {x}, g[x] \in Int,
         \A y \in S : f[y] \in Int /\ g[y] = f[y]
  PROVE  SumFunction(g) = SumFunction(f) + g[x] /\ SumFunction(f) \in Int
<1>1. SumFunctionOnSet(g, S \cup {x}) = SumFunctionOnSet(g, S) + g[x]
  <2>1. \A y \in S \cup {x} : g[y] \in Int
    OBVIOUS
  <2> QED
    BY <2>1, SumAdd
<1>2. SumFunctionOnSet(g, S) = SumFunctionOnSet(f, S)
  BY SumAgree
<1>3. SumFunctionOnSet(f, S) \in Int
  BY SumElementInt
<1>4. SumFunction(g) = SumFunctionOnSet(g, S \cup {x})
  BY DEF SumFunction
<1>5. SumFunction(f) = SumFunctionOnSet(f, S)
  BY DEF SumFunction
<1> QED
  BY <1>1, <1>2, <1>3, <1>4, <1>5

(* The same sum. *)
LEMMA SumUnchanged ==
  ASSUME NEW f, NEW g, IsFiniteSet(DOMAIN f), DOMAIN g = DOMAIN f,
         \A x \in DOMAIN f : f[x] \in Int /\ g[x] = f[x]
  PROVE  SumFunction(g) = SumFunction(f)
BY SumAgree DEF SumFunction

(* Naturals sum to a natural. *)
LEMMA SumNat ==
  ASSUME NEW S, IsFiniteSet(S), NEW f, \A x \in S : f[x] \in Nat
  PROVE  SumFunctionOnSet(f, S) \in Nat
<1> DEFINE Good == {s \in SUBSET S : SumFunctionOnSet(f, s) \in Nat}
<1>1. {} \in Good
  BY SumEmpty
<1>2. ASSUME NEW s \in SUBSET S, NEW x \in S \ s, s \in Good
      PROVE  s \cup {x} \in Good
  <2>1. IsFiniteSet(s) /\ f[x] \in Nat /\ \A y \in s \cup {x} : f[y] \in Int
    BY FS_Subset
  <2>2. SumFunctionOnSet(f, s \cup {x}) = SumFunctionOnSet(f, s) + f[x]
    BY <2>1, SumAdd
  <2> QED
    BY <1>2, <2>1, <2>2
<1>3. \A s \in SUBSET S : s \in Good
  <2> HIDE DEF Good
  <2> QED
    BY <1>1, <1>2, SubsetInduction
<1> QED
  BY <1>3

(* Naturals of at most b sum to at most b for each of them. *)
LEMMA SumBounded ==
  ASSUME NEW S, IsFiniteSet(S), NEW f, NEW b \in Nat,
         \A x \in S : f[x] \in Nat /\ f[x] <= b
  PROVE  SumFunctionOnSet(f, S) <= Cardinality(S) * b
<1> DEFINE Good == {s \in SUBSET S : SumFunctionOnSet(f, s) <= Cardinality(s) * b}
<1>1. {} \in Good
  <2>1. SumFunctionOnSet(f, {}) = 0 /\ Cardinality({}) = 0
    BY SumEmpty, FS_EmptySet
  <2> QED
    BY <2>1
<1>2. ASSUME NEW s \in SUBSET S, NEW x \in S \ s, s \in Good
      PROVE  s \cup {x} \in Good
  <2> DEFINE t == s \cup {x}
             c == Cardinality(s)
             v == SumFunctionOnSet(f, s)
  <2>1. IsFiniteSet(s) /\ f[x] \in Nat /\ f[x] <= b /\ \A y \in t : f[y] \in Int
    BY FS_Subset
  <2>2. SumFunctionOnSet(f, t) = v + f[x] /\ v \in Int
    BY <2>1, SumAdd
  <2>3. Cardinality(t) = c + 1 /\ c \in Nat
    BY <2>1, FS_AddElement, FS_CardinalityType
  <2>4. v + f[x] <= (c + 1) * b
    <3>1. v <= c * b
      BY <1>2
    <3> HIDE DEF c, v
    <3>2. (c + 1) * b = c * b + b
      BY <2>3
    <3> QED
      BY <2>1, <2>2, <2>3, <3>1, <3>2
  <2> QED
    BY <2>2, <2>3, <2>4
<1>3. \A s \in SUBSET S : s \in Good
  <2> HIDE DEF Good
  <2> QED
    BY <1>1, <1>2, SubsetInduction
<1>4. S \in Good
  BY <1>3
<1> QED
  BY <1>4

(* Naturals that sum to nothing are all zero. *)
LEMMA SumZero ==
  ASSUME NEW S, IsFiniteSet(S), NEW f, \A x \in S : f[x] \in Nat,
         SumFunctionOnSet(f, S) = 0
  PROVE  \A x \in S : f[x] = 0
<1> TAKE x \in S
<1>1. IsFiniteSet(S \ {x})
  BY FS_Subset
<1>2. SumFunctionOnSet(f, S \ {x}) \in Nat
  BY <1>1, SumNat
<1>3. SumFunctionOnSet(f, S) = f[x] + SumFunctionOnSet(f, S \ {x})
  BY SumElementInt
<1> DEFINE rest == SumFunctionOnSet(f, S \ {x})
<1> HIDE DEF rest
<1>4. rest \in Nat /\ 0 = f[x] + rest
  BY <1>2, <1>3 DEF rest
<1> QED
  BY <1>4

(* One value of a sum changes. *)
LEMMA SumChanged ==
  ASSUME NEW S, IsFiniteSet(S), NEW x \in S, NEW f, NEW g,
         \A y \in S : f[y] \in Int /\ g[y] \in Int,
         \A y \in S \ {x} : g[y] = f[y]
  PROVE  /\ SumFunctionOnSet(f, S) \in Int
         /\ SumFunctionOnSet(g, S) = SumFunctionOnSet(f, S) + (g[x] - f[x])
<1> DEFINE rest == S \ {x}
<1>1. IsFiniteSet(rest)
  BY FS_Subset
<1>2. SumFunctionOnSet(g, rest) = SumFunctionOnSet(f, rest)
  <2> SUFFICES \A y \in rest : f[y] \in Int /\ g[y] = f[y]
    <3> HIDE DEF rest
    <3> QED
      BY <1>1, SumAgree
  <2> QED
    OBVIOUS
<1>3. SumFunctionOnSet(f, rest) \in Int
  <2> SUFFICES \A y \in rest : f[y] \in Int
    <3> HIDE DEF rest
    <3> QED
      BY <1>1, SumElementInt
  <2> QED
    OBVIOUS
<1>4. SumFunctionOnSet(f, S) = f[x] + SumFunctionOnSet(f, rest)
  BY SumElementInt
<1>5. SumFunctionOnSet(g, S) = g[x] + SumFunctionOnSet(g, rest)
  BY SumElementInt
<1>6. f[x] \in Int /\ g[x] \in Int
  OBVIOUS
<1> DEFINE r == SumFunctionOnSet(f, rest)
<1> HIDE DEF r, rest
<1>7. r \in Int /\ SumFunctionOnSet(f, S) = f[x] + r /\ SumFunctionOnSet(g, S) = g[x] + r
  BY <1>2, <1>3, <1>4, <1>5 DEF r
<1>8. f[x] + r \in Int /\ g[x] + r = (f[x] + r) + (g[x] - f[x])
  BY <1>6, <1>7
<1> QED
  BY <1>7, <1>8

(* The sum of a linear combination of two functions and a constant. *)
Combines(h, S, a, f, b, g, c) ==
  \A x \in S : f[x] \in Int /\ g[x] \in Int /\ h[x] = a * f[x] + b * g[x] + c

LEMMA SumLinear ==
  ASSUME NEW S, IsFiniteSet(S), NEW f, NEW g, NEW h,
         NEW a \in Int, NEW b \in Int, NEW c \in Int, Combines(h, S, a, f, b, g, c)
  PROVE  /\ Cardinality(S) \in Nat
         /\ SumFunctionOnSet(f, S) \in Int /\ SumFunctionOnSet(g, S) \in Int
         /\ SumFunctionOnSet(h, S)
              = a * SumFunctionOnSet(f, S) + b * SumFunctionOnSet(g, S) + c * Cardinality(S)
<1>0. \A x \in S : f[x] \in Int /\ g[x] \in Int /\ h[x] = a * f[x] + b * g[x] + c
  BY DEF Combines
<1> DEFINE Good ==
      {s \in SUBSET S :
         SumFunctionOnSet(h, s)
           = a * SumFunctionOnSet(f, s) + b * SumFunctionOnSet(g, s) + c * Cardinality(s)}
<1>1. {} \in Good
  <2>1. /\ SumFunctionOnSet(f, {}) = 0 /\ SumFunctionOnSet(g, {}) = 0
        /\ SumFunctionOnSet(h, {}) = 0 /\ Cardinality({}) = 0
    BY SumEmpty, FS_EmptySet
  <2>2. 0 = a * 0 + b * 0 + c * 0
    OBVIOUS
  <2> QED
    BY <2>1, <2>2
<1>2. ASSUME NEW s \in SUBSET S, NEW x \in S \ s, s \in Good
      PROVE  s \cup {x} \in Good
  <2> DEFINE t == s \cup {x}
             n == Cardinality(s)
             F == SumFunctionOnSet(f, s)
             G == SumFunctionOnSet(g, s)
             H == SumFunctionOnSet(h, s)
  <2>1. IsFiniteSet(s) /\ \A y \in t : f[y] \in Int /\ g[y] \in Int /\ h[y] \in Int
    BY <1>0, FS_Subset
  <2>2. /\ SumFunctionOnSet(f, t) = F + f[x] /\ F \in Int
        /\ SumFunctionOnSet(g, t) = G + g[x] /\ G \in Int
        /\ SumFunctionOnSet(h, t) = H + h[x] /\ H \in Int
    BY <2>1, SumAdd
  <2>3. Cardinality(t) = n + 1 /\ n \in Nat
    BY <2>1, FS_AddElement, FS_CardinalityType
  <2>4. H = a * F + b * G + c * n
    BY <1>2
  <2> HIDE DEF F, G, H, n, t
  <2>5. h[x] = a * f[x] + b * g[x] + c /\ f[x] \in Int /\ g[x] \in Int
    BY <1>0
  <2> DEFINE u == f[x] v == g[x]
  <2> HIDE DEF u, v
  <2>6. (a * F + b * G + c * n) + (a * u + b * v + c) = a * (F + u) + b * (G + v) + c * (n + 1)
    <3>1. u \in Int /\ v \in Int
      BY <2>5 DEF u, v
    <3>2. a * (F + u) = a * F + a * u /\ b * (G + v) = b * G + b * v /\ c * (n + 1) = c * n + c
      BY <2>2, <2>3, <3>1
    <3> QED
      BY <2>2, <2>3, <3>1, <3>2
  <2>7. SumFunctionOnSet(h, t)
          = a * SumFunctionOnSet(f, t) + b * SumFunctionOnSet(g, t) + c * Cardinality(t)
    BY <2>2, <2>3, <2>4, <2>5, <2>6 DEF u, v
  <2>8. t \in SUBSET S
    BY DEF t
  <2> QED
    BY <2>7, <2>8 DEF t
<1>3. \A s \in SUBSET S : s \in Good
  <2> HIDE DEF Good
  <2> QED
    BY <1>1, <1>2, SubsetInduction
<1>4. S \in Good
  BY <1>3
<1>5. SumFunctionOnSet(f, S) \in Int
  BY <1>0, SumElementInt
<1>6. SumFunctionOnSet(g, S) \in Int
  BY <1>0, SumElementInt
<1> QED
  BY <1>4, <1>5, <1>6, FS_CardinalityType

(* The sum over the pairs of two sets, row by row. *)
SumsOfRows(rows, f, S, T) ==
  \A x \in S : rows[x] = SumFunctionOnSet([y \in T |-> f[<<x, y>>]], T)

LEMMA SumPairs ==
  ASSUME NEW S, IsFiniteSet(S), NEW T, IsFiniteSet(T), NEW f, NEW rows,
         \A x \in S, y \in T : f[<<x, y>>] \in Int,
         SumsOfRows(rows, f, S, T)
  PROVE  SumFunctionOnSet(f, S \X T) = SumFunctionOnSet(rows, S)
<1>0. \A x \in S : rows[x] = SumFunctionOnSet([y \in T |-> f[<<x, y>>]], T)
  BY DEF SumsOfRows
<1> DEFINE Good ==
      {s \in SUBSET S : IsFiniteSet(s \X T)
                        /\ SumFunctionOnSet(f, s \X T) = SumFunctionOnSet(rows, s)}
<1>1. {} \in Good
  <2>1. {} \X T = {}
    OBVIOUS
  <2> QED
    BY <2>1, SumEmpty, FS_EmptySet
<1>2. ASSUME NEW s \in SUBSET S, NEW x \in S \ s, s \in Good
      PROVE  s \cup {x} \in Good
  <2> DEFINE row == [y \in T |-> f[<<x, y>>]]
             With(t) == (s \X T) \cup ({x} \X t)
             Filled == {t \in SUBSET T :
                          /\ IsFiniteSet(With(t))
                          /\ SumFunctionOnSet(f, With(t))
                               = SumFunctionOnSet(rows, s) + SumFunctionOnSet(row, t)}
  <2>0. \A y \in S : rows[y] \in Int
    <3> TAKE y \in S
    <3> DEFINE r == [z \in T |-> f[<<y, z>>]]
    <3>1. \A z \in T : r[z] \in Int
      OBVIOUS
    <3>2. SumFunctionOnSet(r, T) \in Int
      <4> HIDE DEF r
      <4> QED
        BY <3>1, SumElementInt
    <3> QED
      BY <1>0, <3>2
  <2>1. SumFunctionOnSet(rows, s) \in Int
    <3>1. IsFiniteSet(s) /\ \A y \in s : rows[y] \in Int
      BY <2>0, FS_Subset
    <3> QED
      BY <3>1, SumElementInt
  <2>2. {} \in Filled
    <3>1. With({}) = s \X T
      OBVIOUS
    <3>2. IsFiniteSet(s \X T) /\ SumFunctionOnSet(f, s \X T) = SumFunctionOnSet(rows, s)
      BY <1>2
    <3> HIDE DEF With, row
    <3>3. SumFunctionOnSet(row, {}) = 0
      BY SumEmpty
    <3>4. SumFunctionOnSet(rows, s) = SumFunctionOnSet(rows, s) + 0
      BY <2>1
    <3> QED
      BY <3>1, <3>2, <3>3, <3>4
  <2>3. ASSUME NEW t \in SUBSET T, NEW y \in T \ t, t \in Filled
        PROVE  t \cup {y} \in Filled
    <3>1. With(t \cup {y}) = With(t) \cup {<<x, y>>} /\ <<x, y>> \notin With(t)
      OBVIOUS
    <3>2. \A z \in With(t) \cup {<<x, y>>} : f[z] \in Int
      OBVIOUS
    <3>3. IsFiniteSet(With(t))
      BY <2>3
    <3>4. IsFiniteSet(t) /\ y \notin t /\ \A z \in t \cup {y} : row[z] \in Int
      BY FS_Subset
    <3>5. row[y] = f[<<x, y>>]
      OBVIOUS
    <3>6. SumFunctionOnSet(f, With(t))
            = SumFunctionOnSet(rows, s) + SumFunctionOnSet(row, t)
      BY <2>3
    <3> HIDE DEF With, row
    <3>7. IsFiniteSet(With(t) \cup {<<x, y>>})
      BY <3>3, FS_AddElement
    <3>8. SumFunctionOnSet(f, With(t) \cup {<<x, y>>})
            = SumFunctionOnSet(f, With(t)) + f[<<x, y>>]
      BY <3>1, <3>2, <3>3, SumAdd
    <3>9. SumFunctionOnSet(row, t \cup {y}) = SumFunctionOnSet(row, t) + row[y]
          /\ SumFunctionOnSet(row, t) \in Int
      BY <3>4, SumAdd
    <3>10. row[y] \in Int
      BY <3>4
    <3> DEFINE A == SumFunctionOnSet(rows, s)
               B == SumFunctionOnSet(row, t)
               C == row[y]
    <3>11. (A + B) + C = A + (B + C)
      <4>1. A \in Int /\ B \in Int /\ C \in Int
        BY <2>1, <3>9, <3>10
      <4> HIDE DEF A, B, C
      <4> QED
        BY <4>1
    <3>12. SumFunctionOnSet(f, With(t \cup {y}))
             = SumFunctionOnSet(rows, s) + SumFunctionOnSet(row, t \cup {y})
      BY <3>1, <3>5, <3>6, <3>8, <3>9, <3>11
    <3> QED
      BY <3>1, <3>7, <3>12
  <2>4. \A t \in SUBSET T : t \in Filled
    <3> HIDE DEF Filled
    <3> QED
      BY <2>2, <2>3, SubsetInduction
  <2>5. T \in Filled
    BY <2>4
  <2>6. With(T) = (s \cup {x}) \X T
    OBVIOUS
  <2>7. SumFunctionOnSet(rows, s \cup {x}) = SumFunctionOnSet(rows, s) + rows[x]
    <3>1. IsFiniteSet(s) /\ \A y \in s \cup {x} : rows[y] \in Int
      BY <2>0, FS_Subset
    <3> QED
      BY <3>1, SumAdd
  <2>8. rows[x] = SumFunctionOnSet(row, T)
    BY <1>0
  <2> HIDE DEF With, row
  <2> QED
    BY <2>5, <2>6, <2>7, <2>8
<1>3. \A s \in SUBSET S : s \in Good
  <2> HIDE DEF Good
  <2> QED
    BY <1>1, <1>2, SubsetInduction
<1> QED
  BY <1>3

(* The steps of a sequence of numbers sum to the way from its first to its *)
(* last.                                                                   *)
LEMMA SumOfSteps ==
  ASSUME NEW n \in Nat, NEW x, \A i \in 1 .. n + 1 : x[i] \in Int,
         NEW f, \A i \in 1 .. n : f[i] = x[i + 1] - x[i]
  PROVE  SumFunctionOnSet(f, 1 .. n) = x[n + 1] - x[1]
<1> DEFINE Good == {m \in Nat : m <= n => SumFunctionOnSet(f, 1 .. m) = x[m + 1] - x[1]}
<1>1. 0 \in Good
  <2>1. 1 .. 0 = {} /\ x[0 + 1] - x[1] = 0
    OBVIOUS
  <2> QED
    BY <2>1, SumEmpty
<1>2. \A m \in Nat : m \in Good => m + 1 \in Good
  <2> SUFFICES ASSUME NEW m \in Nat, m \in Good, m + 1 <= n
               PROVE  SumFunctionOnSet(f, 1 .. m + 1) = x[m + 2] - x[1]
    OBVIOUS
  <2>1. 1 .. m + 1 = (1 .. m) \cup {m + 1} /\ m + 1 \notin 1 .. m
    OBVIOUS
  <2>2. IsFiniteSet(1 .. m)
    BY FS_Interval
  <2>3. \A i \in (1 .. m) \cup {m + 1} : f[i] \in Int
    <3> TAKE i \in (1 .. m) \cup {m + 1}
    <3>1. i \in 1 .. n /\ i \in 1 .. n + 1 /\ i + 1 \in 1 .. n + 1
      OBVIOUS
    <3>2. f[i] = x[i + 1] - x[i] /\ x[i + 1] \in Int /\ x[i] \in Int
      BY <3>1
    <3> QED
      BY <3>2
  <2>4. SumFunctionOnSet(f, (1 .. m) \cup {m + 1}) = SumFunctionOnSet(f, 1 .. m) + f[m + 1]
    <3> DEFINE s == 1 .. m
               last == m + 1
    <3> HIDE DEF s, last
    <3>1. IsFiniteSet(s) /\ last \notin s /\ \A i \in s \cup {last} : f[i] \in Int
      BY <2>1, <2>2, <2>3 DEF s, last
    <3>2. SumFunctionOnSet(f, s \cup {last}) = SumFunctionOnSet(f, s) + f[last]
      BY <3>1, SumAdd
    <3> QED
      BY <3>2 DEF s, last
  <2>5. SumFunctionOnSet(f, 1 .. m) = x[m + 1] - x[1]
    OBVIOUS
  <2>6. f[m + 1] = x[m + 2] - x[m + 1]
    <3>1. m + 1 \in 1 .. n /\ (m + 1) + 1 = m + 2
      OBVIOUS
    <3> QED
      BY <3>1
  <2>7. x[m + 1] \in Int /\ x[1] \in Int /\ x[m + 2] \in Int
    OBVIOUS
  <2> DEFINE A == x[m + 1]  B == x[1]  C == x[m + 2]
  <2>8. (A - B) + (C - A) = C - B
    <3> HIDE DEF A, B, C
    <3>1. A \in Int /\ B \in Int /\ C \in Int
      BY <2>7 DEF A, B, C
    <3> QED
      BY <3>1
  <2>9. SumFunctionOnSet(f, (1 .. m) \cup {m + 1}) = (A - B) + (C - A)
    BY <2>4, <2>5, <2>6
  <2> HIDE DEF A, B, C
  <2>10. SumFunctionOnSet(f, 1 .. m + 1) = C - B
    BY <2>1, <2>8, <2>9
  <2> QED
    BY <2>10 DEF B, C
<1>3. n \in Good
  <2> HIDE DEF Good
  <2> QED
    BY <1>1, <1>2, NaturalInduction
<1> QED
  BY <1>3
=============================================================================
