-------------------------- MODULE CountingTheorems ---------------------------
(***************************************************************************)
(* Sums over finite sets, and how a list changes how often something is in *)
(* it, for every set and every list.  A statement about all finite sets is *)
(* proved by the smallest set that would refute it.                        *)
(***************************************************************************)
EXTENDS Counting, FiniteSetsExt, Functions, SequenceTheorems, FiniteSetTheorems,
        WellFoundedInduction, TLAPS

-----------------------------------------------------------------------------
(* Sums: SumFunctionOnSet is a fold, which takes the elements of a set one *)
(* by one in an order of its own.                                          *)

\* The element that the fold takes out of a set.
Pick(s) == CHOOSE x \in s : TRUE

\* The partial sums of f over the subsets of S, as the fold computes them.
IsSum(I, f, S) == I = [s \in SUBSET S |-> IF s = {} THEN 0 ELSE f[Pick(s)] + I[s \ {Pick(s)}]]

LEMMA SumUnfold ==
  ASSUME NEW f, NEW S
  PROVE  SumFunctionOnSet(f, S) = (CHOOSE I : IsSum(I, f, S))[S]
  BY DEF SumFunctionOnSet, FoldFunctionOnSet, MapThenFoldSet, IsSum, Pick

\* A set of natural numbers that is not empty has a smallest one.
LEMMA Smallest ==
  ASSUME NEW T \in SUBSET Nat, T # {}
  PROVE  \E n \in T : \A m \in T : n <= m
<1>1. \E n \in T : \A m \in T : <<m, n>> \notin OpToRel(<, Nat)
  BY NatLessThanWellFounded, WFMin, Zenon
<1>2. PICK n \in T : \A m \in T : <<m, n>> \notin OpToRel(<, Nat)
  BY <1>1, Zenon
<1>3. \A m \in T : <<m, n>> \in OpToRel(<, Nat) <=> m < n
  BY DEF OpToRel
<1>4. ASSUME NEW m \in T PROVE n <= m
  <2>1. m \in Nat /\ n \in Nat /\ ~(m < n)
    BY <1>2, <1>3, Zenon
  <2> QED
    BY <2>1
<1> QED
  BY <1>4

LEMMA PickOne ==
  ASSUME NEW s, IsFiniteSet(s), s # {}
  PROVE  /\ Pick(s) \in s /\ IsFiniteSet(s \ {Pick(s)})
         /\ Cardinality(s) \in Nat \ {0}
         /\ Cardinality(s \ {Pick(s)}) = Cardinality(s) - 1
<1>1. Pick(s) \in s
  BY DEF Pick
<1> QED
  BY <1>1, FS_RemoveElement, FS_CardinalityType, FS_EmptySet

\* The fold is defined on every finite set.
LEMMA SumExists ==
  ASSUME NEW f, NEW S, IsFiniteSet(S)
  PROVE  \E I : IsSum(I, f, S)
<1> DEFINE Small(n) == {s \in SUBSET S : Cardinality(s) <= n}
           Upto(I, n) == I = [s \in Small(n) |->
                                IF s = {} THEN 0 ELSE f[Pick(s)] + I[s \ {Pick(s)}]]
           Bad == {n \in Nat : ~ \E I : Upto(I, n)}
<1>1. \A s \in SUBSET S : IsFiniteSet(s) /\ Cardinality(s) \in Nat /\ Cardinality(s) <= Cardinality(S)
  BY FS_Subset, FS_CardinalityType
<1>2. \A s \in SUBSET S : s # {} => /\ Pick(s) \in s
                                   /\ Cardinality(s \ {Pick(s)}) = Cardinality(s) - 1
  BY <1>1, PickOne
<1>3. Bad = {}
  <2> SUFFICES ASSUME Bad # {} PROVE FALSE
    OBVIOUS
  <2>1. PICK n \in Bad : \A m \in Bad : n <= m
    BY Smallest
  <2>2. CASE n = 0
    <3> DEFINE I == [s \in Small(0) |-> 0]
    <3>1. \A s \in Small(0) : s = {}
      BY <1>1, FS_EmptySet
    <3>2. Upto(I, 0)
      BY <3>1
    <3> QED
      BY <2>1, <2>2, <3>2
  <2>3. CASE n # 0
    <3>1. n - 1 \in Nat /\ n - 1 \notin Bad
      <4>1. n \in Nat
        OBVIOUS
      <4>2. ~(n <= n - 1) /\ n - 1 \in Nat
        BY <2>3, <4>1
      <4> QED
        BY <2>1, <4>2
    <3>2. PICK J : Upto(J, n - 1)
      BY <3>1
    <3> DEFINE I == [s \in Small(n) |-> IF s = {} THEN 0 ELSE f[Pick(s)] + J[s \ {Pick(s)}]]
    <3>3. \A s \in Small(n) : s # {} => s \ {Pick(s)} \in Small(n - 1)
      BY <1>1, <1>2, <3>1
    <3>4. ASSUME NEW s \in Small(n - 1) PROVE s \in Small(n) /\ I[s] = J[s]
      <4>1. Cardinality(s) \in Nat /\ Cardinality(s) <= n - 1 /\ n \in Nat
        BY <1>1
      <4>2. s \in Small(n)
        BY <4>1
      <4>3. J[s] = IF s = {} THEN 0 ELSE f[Pick(s)] + J[s \ {Pick(s)}]
        BY <3>2
      <4> HIDE DEF Small
      <4> QED
        BY <4>2, <4>3
    <3>5. Upto(I, n)
      <4>1. \A s \in Small(n) : s # {} => I[s \ {Pick(s)}] = J[s \ {Pick(s)}]
        BY <3>3, <3>4
      <4> HIDE DEF Small
      <4> QED
        BY <4>1
    <3> QED
      BY <2>1, <3>5
  <2> QED
    BY <2>2, <2>3
<1>4. Cardinality(S) \in Nat
  BY <1>1
<1>5. PICK I : Upto(I, Cardinality(S))
  BY <1>3, <1>4
<1>6. Small(Cardinality(S)) = SUBSET S
  BY <1>1
<1> QED
  BY <1>5, <1>6 DEF IsSum

LEMMA SumIsSum ==
  ASSUME NEW f, NEW S, IsFiniteSet(S)
  PROVE  \E I : IsSum(I, f, S) /\ SumFunctionOnSet(f, S) = I[S]
  BY SumExists, SumUnfold

\* Partial sums depend on nothing but the values they add.
LEMMA SumsAgree ==
  ASSUME NEW I, NEW J, NEW f, NEW g, NEW S, NEW T, NEW u,
         IsSum(I, f, S), IsSum(J, g, T), IsFiniteSet(u), u \subseteq S, u \subseteq T,
         \A x \in u : f[x] = g[x]
  PROVE  I[u] = J[u]
<1> DEFINE Bad == {n \in Nat : \E s \in SUBSET u : Cardinality(s) = n /\ I[s] # J[s]}
<1>1. \A s \in SUBSET u : IsFiniteSet(s) /\ Cardinality(s) \in Nat
  BY FS_Subset, FS_CardinalityType
<1>2. Bad = {}
  <2> SUFFICES ASSUME Bad # {} PROVE FALSE
    OBVIOUS
  <2>1. PICK n \in Bad : \A m \in Bad : n <= m
    BY Smallest
  <2>2. PICK s \in SUBSET u : Cardinality(s) = n /\ I[s] # J[s]
    BY <2>1
  <2>3. CASE s = {}
    BY <2>2, <2>3 DEF IsSum
  <2>4. CASE s # {}
    <3> DEFINE t == s \ {Pick(s)}
    <3>1. Pick(s) \in s /\ t \in SUBSET u /\ Cardinality(t) = n - 1 /\ n \in Nat \ {0}
      BY <1>1, <2>2, <2>4, PickOne
    <3>2. I[t] = J[t]
      BY <2>1, <3>1
    <3>3. I[s] = f[Pick(s)] + I[t] /\ J[s] = g[Pick(s)] + J[t]
      <4>1. s \in SUBSET S /\ s \in SUBSET T
        OBVIOUS
      <4> QED
        BY <2>4, <4>1 DEF IsSum
    <3> QED
      BY <2>2, <3>1, <3>2, <3>3
  <2> QED
    BY <2>3, <2>4
<1> QED
  BY <1>1, <1>2

\* Every element can be the one that is added last.
LEMMA SumTakesAny ==
  ASSUME NEW I, NEW f, NEW S, IsFiniteSet(S), IsSum(I, f, S), \A x \in S : f[x] \in Int
  PROVE  \A s \in SUBSET S : I[s] \in Int /\ \A x \in s : I[s] = f[x] + I[s \ {x}]
<1> DEFINE Fine(s) == I[s] \in Int /\ \A x \in s : I[s] = f[x] + I[s \ {x}]
           Bad == {n \in Nat : \E s \in SUBSET S : Cardinality(s) = n /\ ~Fine(s)}
<1>1. \A s \in SUBSET S : IsFiniteSet(s) /\ Cardinality(s) \in Nat
  BY FS_Subset, FS_CardinalityType
<1>2. Bad = {}
  <2> SUFFICES ASSUME Bad # {} PROVE FALSE
    OBVIOUS
  <2>1. PICK n \in Bad : \A m \in Bad : n <= m
    BY Smallest
  <2>2. PICK s \in SUBSET S : Cardinality(s) = n /\ ~Fine(s)
    BY <2>1
  <2>3. ASSUME NEW t \in SUBSET S, Cardinality(t) < n PROVE Fine(t)
    BY <1>1, <2>1, <2>3
  <2>4. CASE s = {}
    <3>1. I[{}] = 0
      BY DEF IsSum
    <3> QED
      BY <2>2, <2>4, <3>1
  <2>5. CASE s # {}
    <3> DEFINE p == Pick(s)
    <3> HIDE DEF Fine
    <3>1. p \in s
      BY <1>1, <2>5, PickOne
    <3>2. \A x \in s : s \ {x} \in SUBSET S /\ Cardinality(s \ {x}) < n
      BY <1>1, <2>2, FS_RemoveElement
    <3>3. I[s] = f[p] + I[s \ {p}]
      BY <2>5 DEF IsSum
    <3>4. I[s] \in Int
      BY <2>3, <3>1, <3>2, <3>3 DEF Fine
    <3>5. ASSUME NEW x \in s PROVE I[s] = f[x] + I[s \ {x}]
      <4>1. CASE x = p
        BY <3>3, <4>1
      <4>2. CASE x # p
        <5>1. Fine(s \ {x}) /\ Fine(s \ {p})
          BY <2>3, <3>1, <3>2
        <5>2. I[s \ {p}] = f[x] + I[(s \ {p}) \ {x}]
          BY <4>2, <5>1 DEF Fine
        <5>3. I[s \ {x}] = f[p] + I[(s \ {x}) \ {p}]
          BY <3>1, <4>2, <5>1 DEF Fine
        <5>4. (s \ {p}) \ {x} = (s \ {x}) \ {p} /\ (s \ {p}) \ {x} \in SUBSET S
          OBVIOUS
        <5>5. f[x] \in Int /\ f[p] \in Int /\ I[(s \ {x}) \ {p}] \in Int
          <6>1. Cardinality((s \ {p}) \ {x}) < n
            <7> DEFINE t == s \ {p}
            <7>1. t \in SUBSET S /\ IsFiniteSet(t) /\ x \in t /\ Cardinality(t) < n
              BY <1>1, <3>1, <3>2, <4>2
            <7>2. Cardinality(t \ {x}) = Cardinality(t) - 1 /\ Cardinality(t) \in Nat
              BY <1>1, <7>1, FS_RemoveElement
            <7>3. n \in Nat
              OBVIOUS
            <7> QED
              BY <7>1, <7>2, <7>3
          <6> QED
            BY <2>3, <3>1, <5>4, <6>1 DEF Fine
        <5> DEFINE rest == I[(s \ {x}) \ {p}]
        <5>6. I[s] = f[p] + (f[x] + rest) /\ I[s \ {x}] = f[p] + rest
          BY <3>3, <5>2, <5>3, <5>4
        <5> HIDE DEF rest, p
        <5>7. f[p] + (f[x] + rest) = f[x] + (f[p] + rest)
          BY <5>5 DEF rest
        <5> QED
          BY <5>6, <5>7
      <4> QED
        BY <4>1, <4>2
    <3> QED
      BY <2>2, <3>4, <3>5 DEF Fine
  <2> QED
    BY <2>4, <2>5
<1> QED
  BY <1>1, <1>2

\* The sum of f over a finite set S: what it is for no element, what one element
\* adds to it, and what it depends on.
LEMMA SumEmpty ==
  ASSUME NEW f
  PROVE  SumFunctionOnSet(f, {}) = 0
<1>1. PICK I : IsSum(I, f, {}) /\ SumFunctionOnSet(f, {}) = I[{}]
  BY SumIsSum, FS_EmptySet
<1> QED
  BY <1>1 DEF IsSum

LEMMA SumType ==
  ASSUME NEW f, NEW S, IsFiniteSet(S), \A x \in S : f[x] \in Int
  PROVE  SumFunctionOnSet(f, S) \in Int
  BY SumIsSum, SumTakesAny

LEMMA SumSame ==
  ASSUME NEW f, NEW g, NEW S, IsFiniteSet(S), \A x \in S : f[x] = g[x]
  PROVE  SumFunctionOnSet(f, S) = SumFunctionOnSet(g, S)
<1>1. PICK I : IsSum(I, f, S) /\ SumFunctionOnSet(f, S) = I[S]
  BY SumIsSum
<1>2. PICK J : IsSum(J, g, S) /\ SumFunctionOnSet(g, S) = J[S]
  BY SumIsSum
<1>3. I[S] = J[S]
  <2>1. S \subseteq S /\ \A x \in S : f[x] = g[x]
    OBVIOUS
  <2>2. IsSum(I, f, S) /\ IsSum(J, g, S)
    BY <1>1, <1>2
  <2> QED
    BY <2>1, <2>2, SumsAgree, Z3
<1> QED
  BY <1>1, <1>2, <1>3

LEMMA SumWithout ==
  ASSUME NEW f, NEW S, IsFiniteSet(S), \A x \in S : f[x] \in Int, NEW e \in S
  PROVE  SumFunctionOnSet(f, S) = f[e] + SumFunctionOnSet(f, S \ {e})
<1>1. PICK I : IsSum(I, f, S) /\ SumFunctionOnSet(f, S) = I[S]
  BY SumIsSum
<1>2. IsFiniteSet(S \ {e})
  BY FS_RemoveElement
<1>3. PICK J : IsSum(J, f, S \ {e}) /\ SumFunctionOnSet(f, S \ {e}) = J[S \ {e}]
  BY <1>2, SumIsSum
<1>4. I[S] = f[e] + I[S \ {e}]
  BY <1>1, SumTakesAny
<1>5. I[S \ {e}] = J[S \ {e}]
  BY <1>1, <1>2, <1>3, SumsAgree
<1> QED
  BY <1>1, <1>3, <1>4, <1>5

\* When f and g differ for e only, so do their sums.
LEMMA SumChange ==
  ASSUME NEW f, NEW g, NEW S, IsFiniteSet(S), NEW e \in S,
         \A x \in S : f[x] \in Int /\ g[x] \in Int,
         \A x \in S \ {e} : f[x] = g[x]
  PROVE  SumFunctionOnSet(g, S) = SumFunctionOnSet(f, S) + (g[e] - f[e])
<1> DEFINE T == S \ {e}
<1>1. IsFiniteSet(T) /\ \A x \in T : f[x] \in Int /\ g[x] \in Int
  BY FS_RemoveElement
<1>2. SumFunctionOnSet(f, T) = SumFunctionOnSet(g, T) /\ SumFunctionOnSet(f, T) \in Int
  BY <1>1, SumSame, SumType
<1>3. SumFunctionOnSet(f, S) = f[e] + SumFunctionOnSet(f, T)
  BY SumWithout
<1>4. SumFunctionOnSet(g, S) = g[e] + SumFunctionOnSet(g, T)
  BY SumWithout
<1>5. f[e] \in Int /\ g[e] \in Int
  OBVIOUS
<1> HIDE DEF T
<1> QED
  BY <1>2, <1>3, <1>4, <1>5

\* A sum is no larger than the sum of larger values.
LEMMA SumMonotone ==
  ASSUME NEW f, NEW g, NEW S, IsFiniteSet(S),
         \A x \in S : f[x] \in Int /\ g[x] \in Int /\ f[x] <= g[x]
  PROVE  SumFunctionOnSet(f, S) <= SumFunctionOnSet(g, S)
<1> DEFINE Sums(s) == SumFunctionOnSet(f, s) <= SumFunctionOnSet(g, s)
           Bad == {n \in Nat : \E s \in SUBSET S : Cardinality(s) = n /\ ~Sums(s)}
<1>1. \A s \in SUBSET S : IsFiniteSet(s) /\ Cardinality(s) \in Nat
  BY FS_Subset, FS_CardinalityType
<1>2. Bad = {}
  <2> SUFFICES ASSUME Bad # {} PROVE FALSE
    OBVIOUS
  <2>1. PICK n \in Bad : \A m \in Bad : n <= m
    BY Smallest
  <2>2. PICK s \in SUBSET S : Cardinality(s) = n /\ ~Sums(s)
    BY <2>1
  <2>3. CASE s = {}
    <3>1. SumFunctionOnSet(f, s) = 0 /\ SumFunctionOnSet(g, s) = 0
      BY <2>3, SumEmpty
    <3> QED
      BY <2>2, <3>1
  <2>4. CASE s # {}
    <3> DEFINE e == Pick(s)
               t == s \ {e}
    <3>1. e \in s /\ t \in SUBSET S /\ Cardinality(t) = n - 1 /\ n \in Nat \ {0} /\ IsFiniteSet(t)
      BY <1>1, <2>2, <2>4, PickOne
    <3>2. Sums(t)
      BY <2>1, <3>1
    <3>3. SumFunctionOnSet(f, s) = f[e] + SumFunctionOnSet(f, t)
      BY <1>1, <3>1, SumWithout
    <3>4. SumFunctionOnSet(g, s) = g[e] + SumFunctionOnSet(g, t)
      BY <1>1, <3>1, SumWithout
    <3>5. /\ f[e] \in Int /\ g[e] \in Int /\ f[e] <= g[e]
          /\ SumFunctionOnSet(f, t) \in Int /\ SumFunctionOnSet(g, t) \in Int
      BY <1>1, <3>1, SumType
    <3>6. Sums(s)
      <4> HIDE DEF e, t
      <4> QED
        BY <3>2, <3>3, <3>4, <3>5
    <3> QED
      BY <2>2, <3>6
  <2> QED
    BY <2>3, <2>4
<1> QED
  BY <1>1, <1>2

\* The sum of two values for every element is the sum of their sums.
LEMMA SumAdd ==
  ASSUME NEW f, NEW g, NEW h, NEW S, IsFiniteSet(S),
         \A x \in S : f[x] \in Int /\ g[x] \in Int /\ h[x] = f[x] + g[x]
  PROVE  SumFunctionOnSet(h, S) = SumFunctionOnSet(f, S) + SumFunctionOnSet(g, S)
<1> DEFINE Sums(s) == SumFunctionOnSet(h, s) = SumFunctionOnSet(f, s) + SumFunctionOnSet(g, s)
           Bad == {n \in Nat : \E s \in SUBSET S : Cardinality(s) = n /\ ~Sums(s)}
<1>1. \A s \in SUBSET S : IsFiniteSet(s) /\ Cardinality(s) \in Nat
  BY FS_Subset, FS_CardinalityType
<1>2. Bad = {}
  <2> SUFFICES ASSUME Bad # {} PROVE FALSE
    OBVIOUS
  <2>1. PICK n \in Bad : \A m \in Bad : n <= m
    BY Smallest
  <2>2. PICK s \in SUBSET S : Cardinality(s) = n /\ ~Sums(s)
    BY <2>1
  <2>3. CASE s = {}
    <3>1. SumFunctionOnSet(f, s) = 0 /\ SumFunctionOnSet(g, s) = 0 /\ SumFunctionOnSet(h, s) = 0
      BY <2>3, SumEmpty
    <3> QED
      BY <2>2, <3>1
  <2>4. CASE s # {}
    <3> DEFINE e == Pick(s)
               t == s \ {e}
    <3>1. e \in s /\ t \in SUBSET S /\ Cardinality(t) = n - 1 /\ n \in Nat \ {0} /\ IsFiniteSet(t)
      BY <1>1, <2>2, <2>4, PickOne
    <3>2. Sums(t)
      BY <2>1, <3>1
    <3>3. SumFunctionOnSet(f, s) = f[e] + SumFunctionOnSet(f, t)
      BY <1>1, <3>1, SumWithout
    <3>4. SumFunctionOnSet(g, s) = g[e] + SumFunctionOnSet(g, t)
      BY <1>1, <3>1, SumWithout
    <3>5. SumFunctionOnSet(h, s) = h[e] + SumFunctionOnSet(h, t)
      BY <1>1, <3>1, SumWithout
    <3>6. /\ f[e] \in Int /\ g[e] \in Int /\ h[e] = f[e] + g[e]
          /\ SumFunctionOnSet(f, t) \in Int /\ SumFunctionOnSet(g, t) \in Int
      BY <1>1, <3>1, SumType
    <3>7. Sums(s)
      <4> HIDE DEF e, t
      <4> QED
        BY <3>2, <3>3, <3>4, <3>5, <3>6
    <3> QED
      BY <2>2, <3>7
  <2> QED
    BY <2>3, <2>4
<1> QED
  BY <1>1, <1>2

LEMMA SumZero ==
  ASSUME NEW f, NEW S, IsFiniteSet(S), \A x \in S : f[x] = 0
  PROVE  SumFunctionOnSet(f, S) = 0
<1>1. PICK I : IsSum(I, f, S) /\ SumFunctionOnSet(f, S) = I[S]
  BY SumIsSum
<1> DEFINE J == [s \in SUBSET S |-> 0]
<1>2. \A s \in SUBSET S : s # {} => Pick(s) \in S /\ s \ {Pick(s)} \in SUBSET S
  <2>1. \A s \in SUBSET S : s # {} => Pick(s) \in s
    BY PickOne, FS_Subset
  <2> QED
    BY <2>1
<1>3. IsSum(J, f, S) /\ J[S] = 0
  BY <1>2 DEF IsSum
<1> HIDE DEF J
<1>4. I[S] = J[S]
  <2>1. S \subseteq S /\ \A x \in S : f[x] = f[x]
    OBVIOUS
  <2>2. IsSum(I, f, S) /\ IsSum(J, f, S)
    BY <1>1, <1>3
  <2> QED
    BY <2>1, <2>2, SumsAgree
<1> QED
  BY <1>1, <1>3, <1>4

\* A sum of natural numbers is one, and no smaller than each of them.
LEMMA SumNat ==
  ASSUME NEW f, NEW S, IsFiniteSet(S), \A x \in S : f[x] \in Nat
  PROVE  /\ SumFunctionOnSet(f, S) \in Nat
         /\ \A x \in S : f[x] <= SumFunctionOnSet(f, S)
<1> DEFINE zero == [x \in S |-> 0]
<1>1. ASSUME NEW T \in SUBSET S PROVE SumFunctionOnSet(f, T) \in Nat
  <2>1. IsFiniteSet(T) /\ \A x \in T : f[x] \in Int /\ zero[x] \in Int /\ zero[x] <= f[x] /\ zero[x] = 0
    BY FS_Subset
  <2> HIDE DEF zero
  <2>2. SumFunctionOnSet(zero, T) <= SumFunctionOnSet(f, T)
    BY <2>1, SumMonotone
  <2> QED
    BY <2>1, <2>2, SumZero, SumType
<1>2. ASSUME NEW x \in S PROVE f[x] <= SumFunctionOnSet(f, S)
  <2>1. SumFunctionOnSet(f, S) = f[x] + SumFunctionOnSet(f, S \ {x})
    BY SumWithout
  <2>2. SumFunctionOnSet(f, S \ {x}) \in Nat /\ f[x] \in Nat
    BY <1>1
  <2> QED
    BY <2>1, <2>2
<1> QED
  BY <1>1, <1>2

-----------------------------------------------------------------------------
(* Counts *)

\* The larger of two numbers is one of them and no smaller than either.
LEMMA MaxOfTwo ==
  ASSUME NEW a \in Int, NEW b \in Int
  PROVE  Max({a, b}) \in {a, b} /\ Max({a, b}) >= a /\ Max({a, b}) >= b
<1>1. \E x \in {a, b} : \A y \in {a, b} : x >= y
  <2>1. CASE a >= b
    BY <2>1
  <2>2. CASE b >= a
    BY <2>2
  <2> QED
    BY <2>1, <2>2
<1> QED
  BY <1>1 DEF Max

LEMMA MinOfTwo ==
  ASSUME NEW a \in Int, NEW b \in Int
  PROVE  Min({a, b}) \in {a, b} /\ Min({a, b}) <= a /\ Min({a, b}) <= b
<1>1. \E x \in {a, b} : \A y \in {a, b} : x =< y
  <2>1. CASE a <= b
    BY <2>1
  <2>2. CASE b <= a
    BY <2>2
  <2> QED
    BY <2>1, <2>2
<1> QED
  BY <1>1 DEF Min

\* An element more or less.
LEMMA CardinalityWithout ==
  ASSUME NEW S, IsFiniteSet(S), NEW a
  PROVE  /\ IsFiniteSet(S \ {a}) /\ Cardinality(S) \in Nat /\ Cardinality(S \ {a}) \in Nat
         /\ Cardinality(S) = Cardinality(S \ {a}) + CountIf(a \in S)
<1>1. /\ IsFiniteSet(S \ {a}) /\ Cardinality(S) \in Nat
      /\ Cardinality(S \ {a}) = IF a \in S THEN Cardinality(S) - 1 ELSE Cardinality(S)
  BY FS_CardinalityType, FS_RemoveElement
<1>2. Cardinality(S \ {a}) \in Nat
  BY <1>1, FS_CardinalityType
<1> QED
  BY <1>1, <1>2 DEF CountIf

LEMMA PositionsFinite ==
  ASSUME NEW S, NEW s \in Seq(S), NEW x
  PROVE  IsFiniteSet(Positions(s, x)) /\ Count(s, x) \in Nat
<1>1. Positions(s, x) \subseteq 1..Len(s) /\ Len(s) \in Nat
  BY LenProperties DEF Positions
<1>2. IsFiniteSet(1..Len(s))
  BY <1>1, FS_Interval
<1>3. IsFiniteSet(Positions(s, x))
  BY <1>1, <1>2, FS_Subset
<1> QED
  BY <1>3, FS_CardinalityType DEF Count

\* RPUSH: the last position is new.
LEMMA AppendCount ==
  ASSUME NEW S, NEW s \in Seq(S), NEW y \in S, NEW x
  PROVE  Count(Append(s, y), x) = Count(s, x) + CountIf(x = y)
<1> DEFINE t == Append(s, y)
           n == Len(s) + 1
<1>1. /\ t \in Seq(S) /\ n \in Nat /\ DOMAIN s = 1..(n - 1) /\ DOMAIN t = 1..n
      /\ t[n] = y /\ \A i \in DOMAIN s : t[i] = s[i]
  BY LenProperties, AppendProperties
<1>2. n \notin DOMAIN s /\ DOMAIN t = DOMAIN s \cup {n}
  BY <1>1
<1> HIDE DEF t, n
<1>3. Positions(t, x) \ {n} = Positions(s, x) /\ (n \in Positions(t, x) <=> x = y)
  BY <1>1, <1>2 DEF Positions
<1>4. Cardinality(Positions(t, x)) = Cardinality(Positions(s, x)) + CountIf(x = y)
  <2>1. t \in Seq(S)
    BY <1>1
  <2>2. IsFiniteSet(Positions(t, x))
    BY <2>1, PositionsFinite
  <2> QED
    BY <1>3, <2>2, CardinalityWithout DEF CountIf
<1> QED
  BY <1>4 DEF Count, t

\* LPOP: the others move up.
LEMMA TailCount ==
  ASSUME NEW S, NEW s \in Seq(S), s # <<>>, NEW x
  PROVE  Count(s, x) = Count(Tail(s), x) + CountIf(x = Head(s))
<1> DEFINE t == Tail(s)
           P == Positions(s, x) \ {1}
           Q == Positions(t, x)
           up == [i \in Q |-> i + 1]
<1>1. /\ t \in Seq(S) /\ Len(s) \in Nat \ {0} /\ Len(t) = Len(s) - 1 /\ Head(s) = s[1]
      /\ DOMAIN s = 1..Len(s) /\ DOMAIN t = 1..Len(t) /\ \A i \in 1..Len(t) : t[i] = s[i + 1]
  BY HeadTailProperties, EmptySeq, LenProperties
<1> HIDE DEF t
<1>2. IsFiniteSet(Q) /\ IsFiniteSet(P) /\ IsFiniteSet(Positions(s, x))
  BY <1>1, PositionsFinite, FS_Subset
<1>3. Cardinality(P) = Cardinality(Q)
  <2>1. up \in [Q -> P] /\ \A i, k \in Q : up[i] = up[k] => i = k
    BY <1>1 DEF Positions
  <2>2. \A k \in P : k - 1 \in Q /\ up[k - 1] = k
    BY <1>1 DEF Positions
  <2>3. up \in Bijection(Q, P)
    BY <2>1, <2>2 DEF Bijection, Injection, Surjection, IsInjective
  <2>4. ExistsBijection(Q, P)
    BY <2>3 DEF ExistsBijection
  <2> QED
    BY <1>2, <2>4, FS_Bijection
<1>4. 1 \in Positions(s, x) <=> x = Head(s)
  BY <1>1 DEF Positions
<1>5. Cardinality(Positions(s, x)) = Cardinality(P) + CountIf(x = Head(s))
  BY <1>2, <1>4, CardinalityWithout DEF CountIf
<1> QED
  BY <1>3, <1>5 DEF Count, t


\* Something is in a list as soon as it has a position.
LEMMA CountInRange ==
  ASSUME NEW S, NEW s \in Seq(S), NEW x
  PROVE  Count(s, x) \in Nat /\ (x \in Range(s) <=> Count(s, x) > 0)
<1>1. IsFiniteSet(Positions(s, x)) /\ Count(s, x) \in Nat
  BY PositionsFinite
<1>2. Count(s, x) = 0 <=> Positions(s, x) = {}
  BY <1>1, FS_EmptySet DEF Count
<1>3. x \in Range(s) <=> Positions(s, x) # {}
  BY DEF Range, Positions
<1> QED
  BY <1>1, <1>2, <1>3

\* As many elements have a property as the sum of one for each of them.
LEMMA SumOfOnes ==
  ASSUME NEW S, IsFiniteSet(S), NEW T, NEW f, \A x \in S : f[x] = CountIf(x \in T)
  PROVE  SumFunctionOnSet(f, S) = Cardinality(S \cap T)
<1> DEFINE Right(s) == SumFunctionOnSet(f, s) = Cardinality(s \cap T)
           Bad == {n \in Nat : \E s \in SUBSET S : Cardinality(s) = n /\ ~Right(s)}
<1>1. Bad = {}
  <2> SUFFICES ASSUME Bad # {} PROVE FALSE
    OBVIOUS
  <2>1. PICK n \in Bad : \A m \in Bad : n <= m
    BY Smallest
  <2>2. PICK s \in SUBSET S : Cardinality(s) = n /\ ~Right(s)
    BY <2>1
  <2>3. IsFiniteSet(s) /\ n \in Nat
    BY <2>1, <2>2, FS_Subset
  <2>4. s # {}
    <3> SUFFICES ASSUME s = {} PROVE FALSE
      OBVIOUS
    <3>1. s \cap T = {}
      OBVIOUS
    <3>2. Right(s)
      BY <3>1, SumEmpty, FS_EmptySet
    <3> QED
      BY <2>2, <3>2
  <2>5. PICK e \in s : TRUE
    BY <2>4
  <2> DEFINE t == s \ {e}
  <2>6. Cardinality(t) \in Nat /\ Cardinality(t) = n - 1 /\ IsFiniteSet(t)
    <3>1. IsFiniteSet(t) /\ Cardinality(t) = Cardinality(s) - 1
      BY <2>3, <2>5, FS_RemoveElement
    <3>2. Cardinality(t) \in Nat
      BY <3>1, FS_CardinalityType
    <3> QED
      BY <2>2, <3>1, <3>2
  <2>7. Right(t)
    <3>1. Cardinality(t) \notin Bad
      <4> HIDE DEF Bad, t
      <4> QED
        BY <2>1, <2>3, <2>6
    <3>2. t \in SUBSET S
      BY <2>2
    <3> HIDE DEF Right, t
    <3> QED
      BY <2>6, <3>1, <3>2
  <2>8. Cardinality(s \cap T) = Cardinality(t \cap T) + CountIf(e \in T)
    <3>1. (s \cap T) \ {e} = t \cap T /\ (e \in s \cap T <=> e \in T)
      BY <2>5
    <3>2. IsFiniteSet(s \cap T)
      BY <2>3, FS_Subset
    <3>3. Cardinality(s \cap T) = Cardinality((s \cap T) \ {e}) + CountIf(e \in s \cap T)
      BY <3>2, CardinalityWithout
    <3> QED
      BY <3>1, <3>3 DEF CountIf
  <2>9. SumFunctionOnSet(f, s) = f[e] + SumFunctionOnSet(f, t)
    <3>1. \A x \in s : f[x] \in Int
      BY <2>2 DEF CountIf
    <3> QED
      BY <2>3, <2>5, <3>1, SumWithout
  <2>10. f[e] = CountIf(e \in T) /\ f[e] \in Nat
    BY <2>2, <2>5 DEF CountIf
  <2>11. Cardinality(t \cap T) \in Nat
    BY <2>6, FS_Subset, FS_CardinalityType
  <2>12. SumFunctionOnSet(f, s) = Cardinality(s \cap T)
    <3> HIDE DEF t
    <3>1. SumFunctionOnSet(f, t) = Cardinality(t \cap T)
      BY <2>7
    <3> QED
      BY <2>8, <2>9, <2>10, <2>11, <3>1
  <2> QED
    BY <2>2, <2>12
<1>2. Cardinality(S) \in Nat /\ S \in SUBSET S
  BY FS_CardinalityType
<1>3. Right(S)
  <2> HIDE DEF Right
  <2> QED
    BY <1>1, <1>2
<1> QED
  BY <1>3

-----------------------------------------------------------------------------
(* What a filter keeps of a list. *)

\* The filtered prefixes of a list, as Filter computes them.
Kept(F, s, T, i) ==
  IF i = 0 THEN <<>> ELSE IF s[i] \in T THEN Append(F[i - 1], s[i]) ELSE F[i - 1]
FiltersUpTo(F, s, T, n) == F = [i \in 0..n |-> Kept(F, s, T, i)]

LEMMA FilterUnfold ==
  ASSUME NEW s, NEW T
  PROVE  Filter(s, T) = (CHOOSE F : FiltersUpTo(F, s, T, Len(s)))[Len(s)]
  BY DEF Filter, FiltersUpTo, Kept

LEMMA FilterExists ==
  ASSUME NEW s, NEW T, NEW n \in Nat
  PROVE  \E F : FiltersUpTo(F, s, T, n)
<1> DEFINE Bad == {m \in Nat : ~ \E F : FiltersUpTo(F, s, T, m)}
<1> SUFFICES ASSUME Bad # {} PROVE FALSE
  OBVIOUS
<1>1. PICK m \in Bad : \A k \in Bad : m <= k
  BY Smallest
<1>2. m # 0
  <2> DEFINE F == [i \in 0..0 |-> <<>>]
  <2>1. FiltersUpTo(F, s, T, 0)
    BY DEF FiltersUpTo, Kept
  <2> QED
    BY <1>1, <2>1
<1>3. m - 1 \in Nat /\ m - 1 \notin Bad
  BY <1>1, <1>2
<1>4. PICK J : FiltersUpTo(J, s, T, m - 1)
  BY <1>3
<1> DEFINE F == [i \in 0..m |-> IF i = m THEN Kept(J, s, T, m) ELSE J[i]]
<1>5. ASSUME NEW i \in 0..(m - 1) PROVE J[i] = Kept(J, s, T, i) /\ F[i] = J[i]
  <2>1. J[i] = Kept(J, s, T, i)
    <3> HIDE DEF Kept
    <3> QED
      BY <1>4 DEF FiltersUpTo
  <2>2. m \in Nat /\ i # m /\ i \in 0..m
    BY <1>1
  <2>3. F[i] = J[i]
    BY <2>2
  <2> QED
    BY <2>1, <2>3
<1>6. ASSUME NEW i \in 0..m PROVE F[i] = Kept(F, s, T, i)
  <2>1. i # 0 => i - 1 \in 0..(m - 1)
    BY <1>1
  <2>2. Kept(F, s, T, i) = Kept(J, s, T, i)
    <3> HIDE DEF F
    <3> QED
      BY <1>5, <2>1 DEF Kept
  <2>3. CASE i = m
    BY <2>2, <2>3
  <2>4. CASE i # m
    <3>1. i \in 0..(m - 1)
      BY <1>1, <2>4
    <3> HIDE DEF F
    <3> QED
      BY <1>5, <2>2, <3>1
  <2> QED
    BY <2>3, <2>4
<1>7. F = [i \in 0..m |-> Kept(F, s, T, i)]
  <2>1. F = [i \in 0..m |-> F[i]]
    OBVIOUS
  <2> HIDE DEF F
  <2> QED
    BY <1>6, <2>1
<1>8. FiltersUpTo(F, s, T, m)
  BY <1>7 DEF FiltersUpTo
<1> QED
  BY <1>1, <1>8

Chosen(s, T, i) == {k \in 1..i : s[k] \in T}
Equal(s, x, i) == {k \in 1..i : s[k] = x}

\* After i elements: the chosen ones, in the same numbers.
FilteredWell(F, s, T, S, i) ==
  /\ F[i] \in Seq(S)
  /\ Len(F[i]) = Cardinality(Chosen(s, T, i))
  /\ \A x \in S : Count(F[i], x) = IF x \in T THEN Cardinality(Equal(s, x, i)) ELSE 0

\* The i-th element joins the sets of positions, or does not.
LEMMA PrefixGrows ==
  ASSUME NEW s, NEW T, NEW i \in Nat \ {0}
  PROVE  /\ Cardinality(Chosen(s, T, i))
              = Cardinality(Chosen(s, T, i - 1)) + CountIf(s[i] \in T)
         /\ \A x : Cardinality(Equal(s, x, i))
                     = Cardinality(Equal(s, x, i - 1)) + CountIf(s[i] = x)
<1>1. /\ Chosen(s, T, i) \ {i} = Chosen(s, T, i - 1)
      /\ i \in Chosen(s, T, i) <=> s[i] \in T
  BY DEF Chosen
<1>2. IsFiniteSet(1..i)
  BY FS_Interval
<1>3. IsFiniteSet(Chosen(s, T, i))
  BY <1>2, FS_Subset DEF Chosen
<1>4. Cardinality(Chosen(s, T, i)) = Cardinality(Chosen(s, T, i - 1)) + CountIf(s[i] \in T)
  BY <1>1, <1>3, CardinalityWithout DEF CountIf
<1>5. ASSUME NEW x
      PROVE  Cardinality(Equal(s, x, i)) = Cardinality(Equal(s, x, i - 1)) + CountIf(s[i] = x)
  <2>1. /\ Equal(s, x, i) \ {i} = Equal(s, x, i - 1)
        /\ i \in Equal(s, x, i) <=> s[i] = x
    BY DEF Equal
  <2>2. IsFiniteSet(Equal(s, x, i))
    BY <1>2, FS_Subset DEF Equal
  <2> QED
    BY <2>1, <2>2, CardinalityWithout DEF CountIf
<1> QED
  BY <1>4, <1>5

LEMMA FilterStep ==
  ASSUME NEW S, NEW s \in Seq(S), NEW T, NEW F, FiltersUpTo(F, s, T, Len(s)),
         NEW i \in 1..Len(s), FilteredWell(F, s, T, S, i - 1)
  PROVE  FilteredWell(F, s, T, S, i)
<1>1. i \in Nat \ {0} /\ i \in 0..Len(s) /\ s[i] \in S
  BY LenProperties
<1>2. F[i] = IF s[i] \in T THEN Append(F[i - 1], s[i]) ELSE F[i - 1]
  BY <1>1 DEF FiltersUpTo, Kept
<1>3. F[i - 1] \in Seq(S)
  BY DEF FilteredWell
<1> DEFINE G == F[i - 1]
           y == s[i]
<1>4. F[i] \in Seq(S)
  BY <1>1, <1>2, <1>3
<1>5. Len(F[i]) = Len(G) + CountIf(y \in T)
  <2>1. Len(Append(G, y)) = Len(G) + 1 /\ Len(G) \in Nat
    BY <1>1, <1>3, AppendProperties, LenProperties
  <2>2. CASE y \in T
    BY <1>2, <2>1, <2>2 DEF CountIf
  <2>3. CASE y \notin T
    BY <1>2, <2>1, <2>3 DEF CountIf
  <2> QED
    BY <2>2, <2>3
<1>6. ASSUME NEW x \in S
      PROVE  Count(F[i], x) = Count(G, x) + CountIf(y \in T /\ x = y)
  <2>1. Count(G, x) \in Nat
    BY <1>3, PositionsFinite
  <2>2. Count(Append(G, y), x) = Count(G, x) + CountIf(x = y)
    BY <1>1, <1>3, AppendCount
  <2> QED
    BY <1>2, <2>1, <2>2 DEF CountIf
<1>7. /\ Cardinality(Chosen(s, T, i)) = Cardinality(Chosen(s, T, i - 1)) + CountIf(y \in T)
      /\ \A x : Cardinality(Equal(s, x, i))
                  = Cardinality(Equal(s, x, i - 1)) + CountIf(y = x)
  BY <1>1, PrefixGrows
<1>8. /\ Len(G) = Cardinality(Chosen(s, T, i - 1))
      /\ \A x \in S : Count(G, x) = IF x \in T THEN Cardinality(Equal(s, x, i - 1)) ELSE 0
  BY DEF FilteredWell
<1> HIDE DEF G, y
<1>9. Len(F[i]) = Cardinality(Chosen(s, T, i))
  BY <1>5, <1>7, <1>8
<1>10. ASSUME NEW x \in S
       PROVE  Count(F[i], x) = IF x \in T THEN Cardinality(Equal(s, x, i)) ELSE 0
  <2>1. CASE x \in T
    <3>1. CountIf(y \in T /\ x = y) = CountIf(y = x)
      BY <2>1 DEF CountIf
    <3> QED
      BY <1>6, <1>7, <1>8, <2>1, <3>1
  <2>2. CASE x \notin T
    BY <1>6, <1>8, <2>2 DEF CountIf
  <2> QED
    BY <2>1, <2>2
<1> QED
  BY <1>4, <1>9, <1>10 DEF FilteredWell

Matches(s, T) == Cardinality({i \in DOMAIN s : s[i] \in T})

\* A filter keeps every occurrence of what is in the set, and nothing else.
LEMMA FilterKeeps ==
  ASSUME NEW S, NEW s \in Seq(S), NEW T
  PROVE  /\ Filter(s, T) \in Seq(S)
         /\ Len(Filter(s, T)) = Matches(s, T)
         /\ \A x \in S : Count(Filter(s, T), x) = IF x \in T THEN Count(s, x) ELSE 0
<1>1. Len(s) \in Nat /\ DOMAIN s = 1..Len(s)
  BY LenProperties
<1>2. PICK F : FiltersUpTo(F, s, T, Len(s)) /\ Filter(s, T) = F[Len(s)]
  BY <1>1, FilterExists, FilterUnfold
<1> DEFINE Bad == {i \in 0..Len(s) : ~FilteredWell(F, s, T, S, i)}
<1>3. Bad = {}
  <2> SUFFICES ASSUME Bad # {} PROVE FALSE
    OBVIOUS
  <2>1. PICK i \in Bad : \A k \in Bad : i <= k
    <3>1. Bad \in SUBSET Nat
      BY <1>1
    <3> QED
      BY <3>1, Smallest
  <2>2. CASE i = 0
    <3>1. F[0] = <<>>
      BY <1>1, <1>2 DEF FiltersUpTo, Kept
    <3>2. Chosen(s, T, 0) = {} /\ \A x : Equal(s, x, 0) = {} /\ Positions(<<>>, x) = {}
      BY DEF Chosen, Equal, Positions
    <3>3. Cardinality({}) = 0
      BY FS_EmptySet
    <3>4. F[0] \in Seq(S) /\ Len(F[0]) = Cardinality(Chosen(s, T, 0))
      <4>1. <<>> \in Seq(S) /\ Len(<<>>) = 0
        BY EmptySeq
      <4> QED
        BY <3>1, <3>2, <3>3, <4>1, Zenon
    <3>5. ASSUME NEW x
          PROVE  Count(F[0], x) = 0 /\ Cardinality(Equal(s, x, 0)) = 0
      <4>1. Positions(F[0], x) = {} /\ Equal(s, x, 0) = {}
        BY <3>1, <3>2
      <4> QED
        BY <3>3, <4>1 DEF Count
    <3>6. FilteredWell(F, s, T, S, 0)
      BY <3>4, <3>5 DEF FilteredWell
    <3> QED
      BY <2>1, <2>2, <3>6
  <2>3. CASE i # 0
    <3>1. i \in 1..Len(s) /\ i - 1 \in 0..Len(s) /\ i - 1 \notin Bad
      BY <1>1, <2>1, <2>3
    <3>2. FilteredWell(F, s, T, S, i - 1)
      BY <3>1
    <3>3. FilteredWell(F, s, T, S, i)
      BY <1>2, <3>1, <3>2, FilterStep
    <3> QED
      BY <2>1, <3>3
  <2> QED
    BY <2>2, <2>3
<1>4. FilteredWell(F, s, T, S, Len(s))
  BY <1>1, <1>3
<1>5. /\ Chosen(s, T, Len(s)) = {i \in DOMAIN s : s[i] \in T}
      /\ \A x : Equal(s, x, Len(s)) = Positions(s, x)
  BY <1>1 DEF Chosen, Equal, Positions
<1>6. /\ F[Len(s)] \in Seq(S) /\ Len(F[Len(s)]) = Matches(s, T)
      /\ \A x \in S : Cardinality(Equal(s, x, Len(s))) = Count(s, x)
  BY <1>4, <1>5 DEF FilteredWell, Matches, Count
<1> QED
  BY <1>2, <1>4, <1>6 DEF FilteredWell

LEMMA AppendMatches ==
  ASSUME NEW S, NEW s \in Seq(S), NEW y \in S, NEW T
  PROVE  /\ Matches(s, T) \in Nat
         /\ Matches(Append(s, y), T) = Matches(s, T) + CountIf(y \in T)
<1> DEFINE t == Append(s, y)
           n == Len(s) + 1
           M == {i \in DOMAIN s : s[i] \in T}
           N == {i \in DOMAIN t : t[i] \in T}
<1>1. /\ t \in Seq(S) /\ n \in Nat /\ DOMAIN s = 1..(n - 1) /\ DOMAIN t = 1..n
      /\ t[n] = y /\ \A i \in DOMAIN s : t[i] = s[i]
  BY LenProperties, AppendProperties
<1>2. n \notin DOMAIN s /\ DOMAIN t = DOMAIN s \cup {n}
  BY <1>1
<1> HIDE DEF t, n
<1>3. N \ {n} = M /\ (n \in N <=> y \in T)
  BY <1>1, <1>2
<1>4. IsFiniteSet(N)
  <2>1. IsFiniteSet(1..n) /\ N \subseteq 1..n
    BY <1>1, FS_Interval
  <2> QED
    BY <2>1, FS_Subset
<1> HIDE DEF M, N
<1>5. Cardinality(N) = Cardinality(M) + CountIf(y \in T) /\ Cardinality(M) \in Nat
  BY <1>3, <1>4, CardinalityWithout DEF CountIf
<1> QED
  BY <1>5 DEF Matches, M, N, t

\* A list of members of a set is one of members of a larger set.
LEMMA SeqGrows ==
  ASSUME NEW S, NEW T, S \subseteq T, NEW s \in Seq(S)
  PROVE  s \in Seq(T)
  BY SeqDef
=============================================================================
