----------------------------- MODULE Recursion -----------------------------
(***************************************************************************)
(* Induction over the naturals stated with sets in the place of            *)
(* predicates, the existence of the functions that BlockTree defines by    *)
(* recursion along a chain, what the library's sums over finite sets give  *)
(* (any element may be taken first), and the arithmetic of quotients,      *)
(* powers and means.                                                       *)
(***************************************************************************)
EXTENDS Integers, FiniteSetTheorems, FiniteSetsExt, WellFoundedInduction, TLAPS

NatLess == {p \in Nat \X Nat : p[1] < p[2]}

\* The order of the naturals is well founded.
LEMMA NatLessWellFounded == IsWellFoundedOn(NatLess, Nat)
BY NatLessThanWellFounded, SMT DEF OpToRel, NatLess

\* Every non-empty set of naturals, such as the heights at which a chain
\* breaks a rule, has a least element.
LEMMA LeastElement ==
  ASSUME NEW S \in SUBSET Nat, S # {}
  PROVE  \E m \in S : \A k \in S : m <= k
<1>1. PICK x \in S : \A y \in S : <<y, x>> \notin NatLess
  BY NatLessWellFounded, WFMin
<1>2. ASSUME NEW y \in S PROVE x <= y
  <2>1. y < x => <<y, x>> \in NatLess
    BY DEF NatLess
  <2> QED BY <1>1, <2>1
<1> QED BY <1>1, <1>2

\* The greatest element of a finite set of naturals.
LEMMA MaxOf ==
  ASSUME NEW n \in Nat, NEW S \in SUBSET (0..n), S # {}
  PROVE  Max(S) \in S /\ \A y \in S : Max(S) >= y
<1> DEFINE D == {n - x : x \in S}
<1>1. D \in SUBSET Nat /\ D # {}
  <2>1. \A x \in S : x \in 0..n /\ n - x \in Nat OBVIOUS
  <2> QED BY <2>1
<1>2. PICK m \in D : \A k \in D : m <= k BY <1>1, LeastElement
<1>3. PICK x \in S : m = n - x BY <1>2
<1>4. \A y \in S : x >= y
  <2> SUFFICES ASSUME NEW y \in S PROVE x >= y
    OBVIOUS
  <2>1. m <= n - y BY <1>2
  <2>2. x \in 0..n /\ y \in 0..n OBVIOUS
  <2> QED BY <1>3, <2>1, <2>2
<1> QED BY <1>3, <1>4 DEF Max

\* Induction: a set that holds 0 and the successor of each natural it holds.
LEMMA SetInduction ==
  ASSUME NEW S, 0 \in S, \A n \in Nat : n \in S => n + 1 \in S
  PROVE  Nat \subseteq S
<1>1. SUFFICES ASSUME Nat \ S # {} PROVE FALSE
  OBVIOUS
<1>2. PICK m \in Nat \ S : \A k \in Nat \ S : m <= k
  <2>1. Nat \ S \in SUBSET Nat OBVIOUS
  <2> QED BY <1>1, <2>1, LeastElement
<1>3. m # 0 BY <1>2
<1>4. m - 1 \in Nat /\ ~(m <= m - 1) BY <1>3
<1>5. m - 1 \in S BY <1>2, <1>4
<1>6. m - 1 + 1 = m OBVIOUS
<1> QED BY <1>2, <1>4, <1>5, <1>6

\* f is the iteration of step, which knows its index, from base up to N: the
\* form of a replay along a chain of N blocks.
Iterates(f, N, base, step) ==
  /\ f[0] = base
  /\ \A n \in 1..N : f[n] = step[n][f[n - 1]]

\* Such an iteration exists.
LEMMA IterationExists ==
  ASSUME NEW N \in Nat, NEW S, NEW base \in S, NEW step \in [1..N -> [S -> S]]
  PROVE  \E f \in [0..N -> S] : Iterates(f, N, base, step)
<1> DEFINE Upto(k, f) ==
      /\ f \in [0..N -> S]
      /\ f[0] = base
      /\ \A n \in 1..N : n <= k => f[n] = step[n][f[n - 1]]
    I == {k \in Nat : \E f \in [0..N -> S] : Upto(k, f)}
<1>1. 0 \in I
  <2>1. Upto(0, [n \in 0..N |-> base])
    OBVIOUS
  <2> QED BY <2>1
<1>2. ASSUME NEW k \in Nat, k \in I PROVE k + 1 \in I
  <2>1. PICK f \in [0..N -> S] : Upto(k, f)
    BY <1>2
  <2>2. CASE k + 1 > N
    <3>1. Upto(k + 1, f) BY <2>1, <2>2
    <3> QED BY <3>1
  <2>3. CASE k + 1 <= N
    <3> DEFINE x == step[k + 1][f[k]]
               g == [f EXCEPT ![k + 1] = x]
    <3>1. x \in S
      <4>1. k + 1 \in 1..N /\ f[k] \in S BY <2>1, <2>3
      <4>2. step[k + 1] \in [S -> S] BY <4>1
      <4> QED BY <4>1, <4>2
    <3>2. g \in [0..N -> S] /\ g[0] = base
      BY <2>1, <2>3, <3>1
    <3>3. ASSUME NEW n \in 1..N, n <= k + 1
          PROVE  g[n] = step[n][g[n - 1]]
      <4>1. g[n - 1] = f[n - 1] BY <2>1, <2>3, <3>3
      <4>2. CASE n = k + 1 
        <5>1. g[n] = x BY <2>1, <2>3, <4>2
        <5>2. n - 1 = k BY <4>2
        <5> QED BY <4>1, <5>1, <4>2, <5>2
      <4>3. CASE n # k + 1
        <5>1. n <= k BY <3>3, <4>3
        <5>2. g[n] = f[n] BY <2>1, <4>3
        <5>3. f[n] = step[n][f[n - 1]] BY <2>1, <5>1
        <5> QED BY <4>1, <5>2, <5>3
      <4> QED BY <4>2, <4>3
    <3>4. Upto(k + 1, g) BY <3>2, <3>3
    <3> HIDE DEF Upto, g
    <3>5. \E h \in [0..N -> S] : Upto(k + 1, h) BY <3>2, <3>4
    <3> QED BY <3>5
  <2> QED BY <2>2, <2>3
<1>3. N \in I
  <2> HIDE DEF I
  <2>1. Nat \subseteq I BY <1>1, <1>2, SetInduction
  <2> QED BY <2>1
<1>4. PICK f \in [0..N -> S] : Upto(N, f)
  BY <1>3
<1> QED BY <1>4 DEF Iterates

-----------------------------------------------------------------------------
(* Sums over finite sets *)

\* The sum of f over S, as the folds of the library compute it: an element is
\* chosen, and the sum over the others is added.
SumOver(f, S) == SumFunctionOnSet(f, S)

\* g gives the sum for each subset of S, by that choice.
SumsUp(g, f, S) ==
  g = [s \in SUBSET S |->
         IF s = {} THEN 0
         ELSE LET x == CHOOSE x \in s : TRUE IN f[x] + g[s \ {x}]]

SumTable(g, f, S) == g \in [SUBSET S -> Int] /\ SumsUp(g, f, S)

\* Removing an element makes a subset smaller.
LEMMA SmallerSubset ==
  ASSUME NEW S, IsFiniteSet(S), NEW s \in SUBSET S, NEW x \in s
  PROVE  /\ s \ {x} \in SUBSET S
         /\ Cardinality(s) \in Nat /\ Cardinality(s \ {x}) \in Nat
         /\ Cardinality(s \ {x}) = Cardinality(s) - 1
         /\ Cardinality(s) <= Cardinality(S)
<1>1. IsFiniteSet(s) /\ Cardinality(s) <= Cardinality(S) BY FS_Subset
<1>2. IsFiniteSet(s \ {x}) /\ Cardinality(s \ {x}) = Cardinality(s) - 1
  BY <1>1, FS_RemoveElement
<1>3. Cardinality(s) \in Nat /\ Cardinality(s \ {x}) \in Nat
  BY <1>1, <1>2, FS_CardinalityType
<1> QED BY <1>1, <1>2, <1>3

\* Such a function exists, with integers for its values.
LEMMA SumsExist ==
  ASSUME NEW S, IsFiniteSet(S), NEW f, \A x \in S : f[x] \in Int
  PROVE  \E g \in [SUBSET S -> Int] : SumsUp(g, f, S)
<1> DEFINE Body(g, s) == IF s = {} THEN 0
                         ELSE LET x == CHOOSE x \in s : TRUE IN f[x] + g[s \ {x}]
           Upto(n, g) == \A s \in SUBSET S : Cardinality(s) <= n => g[s] = Body(g, s)
           I == {n \in Nat : \E g \in [SUBSET S -> Int] : Upto(n, g)}
<1>1. 0 \in I
  <2> DEFINE g == [s \in SUBSET S |-> 0]
  <2>1. ASSUME NEW s \in SUBSET S, Cardinality(s) <= 0 PROVE s = {}
    <3>1. IsFiniteSet(s) /\ Cardinality(s) \in Nat BY FS_Subset, FS_CardinalityType
    <3> QED BY <2>1, <3>1, FS_EmptySet
  <2>2. g \in [SUBSET S -> Int] /\ Upto(0, g) BY <2>1
  <2> HIDE DEF Upto, g
  <2>3. \E h \in [SUBSET S -> Int] : Upto(0, h) BY <2>2
  <2> QED BY <2>3
<1>2. ASSUME NEW g \in [SUBSET S -> Int], NEW s \in SUBSET S PROVE Body(g, s) \in Int
  <2>1. CASE s = {} BY <2>1
  <2>2. CASE s # {}
    <3> DEFINE x == CHOOSE x \in s : TRUE
    <3>1. x \in s BY <2>2
    <3>2. s \ {x} \in SUBSET S /\ x \in S BY <3>1
    <3> HIDE DEF x
    <3>3. f[x] + g[s \ {x}] \in Int BY <3>2
    <3>4. Body(g, s) = f[x] + g[s \ {x}] BY <2>2 DEF x
    <3> QED BY <3>3, <3>4
  <2> QED BY <2>1, <2>2
<1>3. ASSUME NEW n \in Nat, n \in I PROVE n + 1 \in I
  <2>1. PICK g \in [SUBSET S -> Int] : Upto(n, g) BY <1>3
  <2> DEFINE h == [s \in SUBSET S |-> Body(g, s)]
  <2>2. h \in [SUBSET S -> Int]
    <3> HIDE DEF Body
    <3> QED BY <1>2
  <2>3. ASSUME NEW s \in SUBSET S, Cardinality(s) <= n + 1 PROVE h[s] = Body(h, s)
    <3>1. h[s] = Body(g, s) OBVIOUS
    <3>2. CASE s = {} BY <3>1, <3>2
    <3>3. CASE s # {}
      <4> DEFINE x == CHOOSE x \in s : TRUE
                 r == s \ {x}
      <4>1. x \in s BY <3>3
      <4>2. r \in SUBSET S /\ Cardinality(r) <= n
        <5> HIDE DEF x, Upto, Body, h
        <5>1. /\ s \ {x} \in SUBSET S /\ Cardinality(s \ {x}) = Cardinality(s) - 1
              /\ Cardinality(s) \in Nat
          BY <4>1, SmallerSubset
        <5> QED BY <2>3, <5>1
      <4>3. h[s] = f[x] + g[r] BY <3>1, <3>3
      <4>4. Body(h, s) = f[x] + h[r] BY <3>3
      <4> HIDE DEF x, r
      <4>5. h[r] = Body(g, r) BY <4>2
      <4>6. g[r] = Body(g, r) BY <2>1, <4>2
      <4> QED BY <4>3, <4>4, <4>5, <4>6
    <3> QED BY <3>2, <3>3
  <2>4. Upto(n + 1, h) BY <2>3
  <2> HIDE DEF Upto, h
  <2>5. \E k \in [SUBSET S -> Int] : Upto(n + 1, k) BY <2>2, <2>4
  <2> QED BY <2>5
<1>4. Cardinality(S) \in I
  <2> HIDE DEF I
  <2>1. Nat \subseteq I BY <1>1, <1>3, SetInduction
  <2> QED BY <2>1, FS_CardinalityType
<1>5. PICK g \in [SUBSET S -> Int] : Upto(Cardinality(S), g) BY <1>4
<1>6. \A s \in SUBSET S : g[s] = Body(g, s) BY <1>5, FS_Subset
<1>7. g = [s \in SUBSET S |-> g[s]] OBVIOUS
<1>8. SumsUp(g, f, S)
  <2> HIDE DEF Body
  <2>1. g = [s \in SUBSET S |-> Body(g, s)] BY <1>6, <1>7
  <2> QED BY <2>1 DEF SumsUp, Body
<1> QED BY <1>8

\* What is chosen makes no difference: any element can be taken first.
LEMMA SumsPick ==
  ASSUME NEW S, IsFiniteSet(S), NEW f, \A x \in S : f[x] \in Int,
         NEW g, SumTable(g, f, S), NEW t \in DOMAIN g, NEW z \in t
  PROVE  g[t] = f[z] + g[t \ {z}]
<1> USE DEF SumTable
<1> DEFINE I == {n \in Nat : \A s \in SUBSET S : Cardinality(s) = n =>
                               \A y \in s : g[s] = f[y] + g[s \ {y}]}
<1>2. 0 \in I
  <2>1. ASSUME NEW s \in SUBSET S, Cardinality(s) = 0 PROVE s = {}
    BY <2>1, FS_Subset, FS_EmptySet
  <2> QED BY <2>1
<1>3. ASSUME NEW n \in Nat, n \in I PROVE n + 1 \in I
  <2>1. ASSUME NEW s \in SUBSET S, Cardinality(s) = n + 1, NEW y \in s
        PROVE  g[s] = f[y] + g[s \ {y}]
    <3> DEFINE x == CHOOSE x \in s : TRUE
    <3>1. x \in s OBVIOUS
    <3>2. g[s] = f[x] + g[s \ {x}] BY DEF SumsUp
    <3> HIDE DEF x
    <3>3. CASE x = y BY <3>2, <3>3
    <3>4. CASE x # y
      <4>1. y \in s \ {x} /\ x \in s \ {y} BY <3>1, <3>4
      <4>2. /\ s \ {x} \in SUBSET S /\ Cardinality(s \ {x}) = n
            /\ s \ {y} \in SUBSET S /\ Cardinality(s \ {y}) = n
        BY <2>1, <3>1, SmallerSubset
      <4>3. g[s \ {x}] = f[y] + g[(s \ {x}) \ {y}] BY <1>3, <4>1, <4>2
      <4>4. g[s \ {y}] = f[x] + g[(s \ {y}) \ {x}] BY <1>3, <4>1, <4>2
      <4>5. (s \ {x}) \ {y} = (s \ {y}) \ {x} OBVIOUS
      <4>6. f[x] \in Int /\ f[y] \in Int BY <3>1
      <4>7. (s \ {x}) \ {y} \in SUBSET S OBVIOUS
      <4> DEFINE r == (s \ {x}) \ {y}
      <4>8. g[r] \in Int BY <4>7
      <4>9. g[s \ {x}] = f[y] + g[r] /\ g[s \ {y}] = f[x] + g[r] BY <4>3, <4>4, <4>5
      <4> HIDE DEF r
      <4> QED BY <3>2, <4>6, <4>8, <4>9
    <3> QED BY <3>3, <3>4
  <2> QED BY <2>1
<1> HIDE DEF I
<1>4. Nat \subseteq I BY <1>2, <1>3, SetInduction
<1>5. Cardinality(t) \in I BY <1>4, SmallerSubset
<1> QED BY <1>5 DEF I

\* The sum over a set is what such a function gives for it.
LEMMA SumOverDef ==
  ASSUME NEW S, IsFiniteSet(S), NEW f, \A x \in S : f[x] \in Int
  PROVE  \E g : SumTable(g, f, S) /\ SumOver(f, S) = g[S]
<1> DEFINE g == CHOOSE g : SumsUp(g, f, S)
<1>1. PICK h \in [SUBSET S -> Int] : SumsUp(h, f, S) BY SumsExist
<1>2. SumsUp(g, f, S) BY <1>1
<1>3. SumOver(f, S) = g[S]
  BY DEF SumOver, SumFunctionOnSet, FoldFunctionOnSet, MapThenFoldSet, SumsUp
<1> HIDE DEF g
<1>4. DOMAIN g = SUBSET S /\ g = [s \in SUBSET S |-> g[s]] BY <1>2 DEF SumsUp
<1>5. \A s \in SUBSET S : g[s] = h[s] /\ g[s] \in Int
  <2> DEFINE I == {n \in Nat : \A s \in SUBSET S : Cardinality(s) = n => g[s] = h[s]}
  <2>1. 0 \in I
    <3>1. ASSUME NEW s \in SUBSET S, Cardinality(s) = 0 PROVE s = {}
      BY <3>1, FS_Subset, FS_EmptySet
    <3>2. g[{}] = 0 /\ h[{}] = 0 BY <1>1, <1>2 DEF SumsUp
    <3> QED BY <3>1, <3>2
  <2>2. ASSUME NEW n \in Nat, n \in I PROVE n + 1 \in I
    <3>1. ASSUME NEW s \in SUBSET S, Cardinality(s) = n + 1 PROVE g[s] = h[s]
      <4>1. s # {}
        <5>1. Cardinality(s) # 0 BY <3>1
        <5> QED BY <5>1, FS_EmptySet
      <4> DEFINE x == CHOOSE x \in s : TRUE
      <4>2. x \in s BY <4>1
      <4>3. g[s] = f[x] + g[s \ {x}] BY <1>2, <4>1 DEF SumsUp
      <4>4. h[s] = f[x] + h[s \ {x}] BY <1>1, <4>1 DEF SumsUp
      <4> HIDE DEF x
      <4>5. s \ {x} \in SUBSET S /\ Cardinality(s \ {x}) = n
        BY <3>1, <4>2, SmallerSubset
      <4>6. g[s \ {x}] = h[s \ {x}] BY <2>2, <4>5
      <4> QED BY <4>3, <4>4, <4>6
    <3> QED BY <3>1
  <2> HIDE DEF I
  <2>3. Nat \subseteq I BY <2>1, <2>2, SetInduction
  <2>4. ASSUME NEW s \in SUBSET S PROVE g[s] = h[s]
    <3>1. Cardinality(s) \in I BY <2>3, FS_Subset, FS_CardinalityType
    <3> QED BY <3>1 DEF I
  <2> QED BY <1>1, <2>4
<1>6. g \in [SUBSET S -> Int]
  <2>1. \A s \in SUBSET S : g[s] \in Int BY <1>5
  <2> QED BY <1>4, <2>1
<1> QED BY <1>2, <1>3, <1>6 DEF SumTable

\* Over nothing the sum is 0.
LEMMA SumEmpty == \A f : SumOver(f, {}) = 0
<1> TAKE f
<1>1. IsFiniteSet({}) BY FS_EmptySet
<1>2. PICK g : SumTable(g, f, {}) /\ SumOver(f, {}) = g[{}]
  BY <1>1, SumOverDef
<1>3. {} \in SUBSET {} OBVIOUS
<1> QED BY <1>2, <1>3 DEF SumsUp, SumTable

\* Any element can be taken out of a sum.
LEMMA SumPick ==
  ASSUME NEW S, IsFiniteSet(S), NEW f, \A x \in S : f[x] \in Int, NEW y \in S
  PROVE  /\ SumOver(f, S) \in Int
         /\ SumOver(f, S \ {y}) \in Int
         /\ SumOver(f, S) = f[y] + SumOver(f, S \ {y})
<1> DEFINE T == S \ {y}
<1>1. IsFiniteSet(T) /\ T \in SUBSET S /\ y \in S BY FS_RemoveElement
<1>2. \A x \in T : f[x] \in Int OBVIOUS
<1>3. PICK g : SumTable(g, f, S) /\ SumOver(f, S) = g[S]
  BY SumOverDef
<1>4. PICK h : SumTable(h, f, T) /\ SumOver(f, T) = h[T]
  <2> HIDE DEF T
  <2> QED BY <1>1, <1>2, SumOverDef
<1>5. g[S] = f[y] + g[T]
  <2>1. S \in DOMAIN g BY <1>3 DEF SumTable
  <2> QED BY <1>3, <2>1, SumsPick
<1>6. \A s \in SUBSET T : g[s] = h[s]
  <2> DEFINE I == {n \in Nat : \A s \in SUBSET T : Cardinality(s) = n => g[s] = h[s]}
  <2>0. g[{}] = 0 /\ h[{}] = 0 BY <1>3, <1>4 DEF SumsUp, SumTable
  <2>1. 0 \in I
    <3>1. ASSUME NEW s \in SUBSET T, Cardinality(s) = 0 PROVE s = {}
      <4>1. IsFiniteSet(s) BY <1>1, FS_Subset
      <4> QED BY <3>1, <4>1, FS_EmptySet
    <3> QED BY <2>0, <3>1
  <2>2. ASSUME NEW n \in Nat, n \in I PROVE n + 1 \in I
    <3>1. ASSUME NEW s \in SUBSET T, Cardinality(s) = n + 1 PROVE g[s] = h[s]
      <4>1. s # {}
        <5>1. Cardinality(s) # 0 BY <3>1
        <5> QED BY <5>1, FS_EmptySet
      <4>2. PICK x \in s : TRUE BY <4>1
      <4>3. s \in SUBSET S OBVIOUS
      <4>4. g[s] = f[x] + g[s \ {x}]
        <5> HIDE DEF T
        <5>1. s \in DOMAIN g BY <1>3, <4>3 DEF SumTable
        <5> QED BY <1>3, <4>2, <5>1, SumsPick
      <4>5. h[s] = f[x] + h[s \ {x}]
        <5> HIDE DEF T
        <5>1. s \in DOMAIN h BY <1>4 DEF SumTable
        <5> QED BY <1>1, <1>2, <1>4, <4>2, <5>1, SumsPick
      <4>6. s \ {x} \in SUBSET T /\ Cardinality(s \ {x}) = n
        <5> HIDE DEF T
        <5>1. /\ s \ {x} \in SUBSET T /\ Cardinality(s \ {x}) = Cardinality(s) - 1
          BY <1>1, <4>2, SmallerSubset
        <5> QED BY <3>1, <5>1
      <4>7. g[s \ {x}] = h[s \ {x}] BY <2>2, <4>6
      <4> QED BY <4>4, <4>5, <4>7
    <3> QED BY <3>1
  <2> HIDE DEF I
  <2>3. Nat \subseteq I BY <2>1, <2>2, SetInduction
  <2>4. ASSUME NEW s \in SUBSET T PROVE g[s] = h[s]
    <3>1. IsFiniteSet(s) BY <1>1, FS_Subset
    <3>2. Cardinality(s) \in I BY <2>3, <3>1, FS_CardinalityType
    <3> QED BY <3>2 DEF I
  <2> QED BY <2>4
<1>7. T \in SUBSET T /\ S \in SUBSET S OBVIOUS
<1>8. g[S] \in Int /\ h[T] \in Int BY <1>3, <1>4, <1>7 DEF SumTable
<1>9. SumOver(f, T) = g[T] BY <1>4, <1>6, <1>7
<1> HIDE DEF T
<1>10. SumOver(f, S) = f[y] + SumOver(f, T) BY <1>3, <1>5, <1>9
<1>11. SumOver(f, S) \in Int /\ SumOver(f, T) \in Int BY <1>3, <1>4, <1>8
<1> QED BY <1>10, <1>11 DEF T

\* What is equal on a set has the same sum over it; a sum is an integer, and a
\* natural number when its terms are.
LEMMA SumSame ==
  ASSUME NEW S, IsFiniteSet(S), NEW f, NEW h,
         \A x \in S : f[x] \in Int /\ f[x] = h[x]
  PROVE  /\ SumOver(f, S) = SumOver(h, S)
         /\ SumOver(f, S) \in Int
         /\ (\A x \in S : f[x] >= 0) => SumOver(f, S) >= 0
<1> DEFINE Same(s) == /\ SumOver(f, s) = SumOver(h, s)
                      /\ SumOver(f, s) \in Int
                      /\ (\A x \in S : f[x] >= 0) => SumOver(f, s) >= 0
           I == {n \in Nat : \A s \in SUBSET S : Cardinality(s) = n => Same(s)}
<1>1. 0 \in I
  <2>1. ASSUME NEW s \in SUBSET S, Cardinality(s) = 0 PROVE Same(s)
    <3>1. s = {} BY <2>1, FS_Subset, FS_EmptySet
    <3> QED BY <3>1, SumEmpty
  <2> HIDE DEF Same
  <2> QED BY <2>1
<1>2. ASSUME NEW n \in Nat, n \in I PROVE n + 1 \in I
  <2>1. ASSUME NEW s \in SUBSET S, Cardinality(s) = n + 1 PROVE Same(s)
    <3>1. s # {}
      <4>1. Cardinality(s) # 0 BY <2>1
      <4> QED BY <4>1, FS_EmptySet
    <3>2. PICK x \in s : TRUE BY <3>1
    <3>3. IsFiniteSet(s) BY FS_Subset
    <3>4. /\ \A z \in s : f[z] \in Int
          /\ \A z \in s : h[z] \in Int
      OBVIOUS
    <3>5. SumOver(f, s) = f[x] + SumOver(f, s \ {x})
      BY <3>2, <3>3, <3>4, SumPick
    <3>6. SumOver(h, s) = h[x] + SumOver(h, s \ {x})
      BY <3>2, <3>3, <3>4, SumPick
    <3>7. s \ {x} \in SUBSET S /\ Cardinality(s \ {x}) = n
      <4>1. /\ s \ {x} \in SUBSET S /\ Cardinality(s \ {x}) = Cardinality(s) - 1
        BY <3>2, SmallerSubset
      <4> QED BY <2>1, <4>1
    <3>8. Same(s \ {x})
      <4> HIDE DEF Same
      <4> QED BY <1>2, <3>7
    <3>9. x \in S /\ f[x] \in Int /\ f[x] = h[x] BY <3>2
    <3> QED BY <3>5, <3>6, <3>8, <3>9
  <2> HIDE DEF Same
  <2> QED BY <2>1
<1> HIDE DEF I, Same
<1>3. Nat \subseteq I BY <1>1, <1>2, SetInduction
<1>4. Cardinality(S) \in I /\ S \in SUBSET S BY <1>3, FS_CardinalityType
<1>5. Same(S) BY <1>4 DEF I
<1> QED BY <1>5 DEF Same

\* A sum of which one term changes.
LEMMA SumChange ==
  ASSUME NEW S, IsFiniteSet(S), NEW f, NEW h, NEW y \in S,
         \A x \in S : f[x] \in Int /\ h[x] \in Int,
         \A x \in S \ {y} : h[x] = f[x]
  PROVE  SumOver(h, S) = SumOver(f, S) - f[y] + h[y]
<1> DEFINE T == S \ {y}
<1>1. IsFiniteSet(T) BY FS_RemoveElement
<1>2. SumOver(h, T) = SumOver(f, T) BY <1>1, SumSame
<1>3. /\ SumOver(f, T) \in Int
      /\ SumOver(f, S) = f[y] + SumOver(f, T)
      /\ SumOver(h, S) = h[y] + SumOver(h, T)
  BY SumPick
<1>4. f[y] \in Int /\ h[y] \in Int OBVIOUS
<1> HIDE DEF T
<1> QED BY <1>2, <1>3, <1>4

\* The sum over a set is the sum over a part and the sum over the rest.
LEMMA SumParts ==
  ASSUME NEW S, IsFiniteSet(S), NEW f, \A x \in S : f[x] \in Int, NEW T \in SUBSET S
  PROVE  /\ SumOver(f, S) \in Int /\ SumOver(f, T) \in Int /\ SumOver(f, S \ T) \in Int
         /\ SumOver(f, S) = SumOver(f, T) + SumOver(f, S \ T)
<1> DEFINE Splits(s, t) == SumOver(f, s) = SumOver(f, t) + SumOver(f, s \ t)
           I == {n \in Nat : \A s \in SUBSET S : \A t \in SUBSET s :
                               Cardinality(t) = n => Splits(s, t)}
<1>0. \A s \in SUBSET S : IsFiniteSet(s) /\ SumOver(f, s) \in Int
  <2> SUFFICES ASSUME NEW s \in SUBSET S PROVE IsFiniteSet(s) /\ SumOver(f, s) \in Int
    OBVIOUS
  <2>1. IsFiniteSet(s) BY FS_Subset
  <2>2. \A x \in s : f[x] \in Int /\ f[x] = f[x] OBVIOUS
  <2> QED BY <2>1, <2>2, SumSame
<1>1. 0 \in I
  <2>1. ASSUME NEW s \in SUBSET S, NEW t \in SUBSET s, Cardinality(t) = 0
        PROVE  Splits(s, t)
    <3>1. t = {} BY <1>0, <2>1, FS_EmptySet
    <3>2. s \ t = s /\ SumOver(f, t) = 0 BY <3>1, SumEmpty
    <3>3. SumOver(f, s) \in Int BY <1>0
    <3> QED BY <3>2, <3>3
  <2> HIDE DEF Splits
  <2> QED BY <2>1
<1>2. ASSUME NEW n \in Nat, n \in I PROVE n + 1 \in I
  <2>1. ASSUME NEW s \in SUBSET S, NEW t \in SUBSET s, Cardinality(t) = n + 1
        PROVE  Splits(s, t)
    <3>1. t # {}
      <4>1. Cardinality(t) # 0 BY <2>1
      <4> QED BY <4>1, FS_EmptySet
    <3>2. PICK x \in t : TRUE BY <3>1
    <3>3. /\ IsFiniteSet(s) /\ IsFiniteSet(t) /\ x \in s
          /\ \A z \in s : f[z] \in Int
          /\ \A z \in t : f[z] \in Int
      BY <1>0, <3>2
    <3>4. SumOver(f, s) = f[x] + SumOver(f, s \ {x}) BY <3>3, SumPick
    <3>5. SumOver(f, t) = f[x] + SumOver(f, t \ {x}) BY <3>2, <3>3, SumPick
    <3>6. /\ t \ {x} \in SUBSET t /\ Cardinality(t \ {x}) = Cardinality(t) - 1
      BY <3>2, <3>3, SmallerSubset
    <3>7. /\ s \ {x} \in SUBSET S /\ t \ {x} \in SUBSET (s \ {x})
          /\ Cardinality(t \ {x}) = n
      BY <2>1, <3>6
    <3>8. Splits(s \ {x}, t \ {x})
      <4> HIDE DEF Splits
      <4> QED BY <1>2, <3>7
    <3>9. (s \ {x}) \ (t \ {x}) = s \ t BY <3>2
    <3>10. f[x] \in Int /\ SumOver(f, t \ {x}) \in Int /\ SumOver(f, s \ t) \in Int
      BY <1>0, <3>3
    <3>11. SumOver(f, s \ {x}) = SumOver(f, t \ {x}) + SumOver(f, s \ t)
      BY <3>8, <3>9
    <3> DEFINE fx == f[x]  A == SumOver(f, t \ {x})  B == SumOver(f, s \ t)
    <3>12. /\ SumOver(f, s) = fx + (A + B) /\ SumOver(f, t) = fx + A
           /\ fx \in Int /\ A \in Int /\ B \in Int
      BY <3>4, <3>5, <3>10, <3>11
    <3>13. SumOver(f, s) = SumOver(f, t) + B
      <4> HIDE DEF fx, A, B
      <4> QED BY <3>12
    <3> QED BY <3>13
  <2> HIDE DEF Splits
  <2> QED BY <2>1
<1> HIDE DEF I, Splits
<1>3. Nat \subseteq I BY <1>1, <1>2, SetInduction
<1>4. IsFiniteSet(T) /\ Cardinality(T) \in Nat BY <1>0, FS_CardinalityType
<1>5. Cardinality(T) \in I BY <1>3, <1>4
<1>6. Splits(S, T) BY <1>5 DEF I
<1>7. /\ SumOver(f, S) \in Int /\ SumOver(f, T) \in Int /\ SumOver(f, S \ T) \in Int
  BY <1>0
<1> QED BY <1>6, <1>7 DEF Splits

\* A sum of summands up to m is at most m for each of them.
LEMMA SumBounded ==
  ASSUME NEW S, IsFiniteSet(S), NEW f, NEW m \in Nat,
         \A x \in S : f[x] \in Int /\ f[x] <= m
  PROVE  SumOver(f, S) \in Int /\ SumOver(f, S) <= m * Cardinality(S)
<1> DEFINE I == {n \in Nat : \A s \in SUBSET S :
                    Cardinality(s) = n => SumOver(f, s) \in Int /\ SumOver(f, s) <= m * n}
<1>1. 0 \in I
  <2> SUFFICES ASSUME NEW s \in SUBSET S, Cardinality(s) = 0
               PROVE  SumOver(f, s) \in Int /\ SumOver(f, s) <= m * 0
    OBVIOUS
  <2>1. s = {} BY FS_Subset, FS_EmptySet
  <2>2. SumOver(f, s) = 0 BY <2>1, SumEmpty
  <2> QED BY <2>2
<1>2. ASSUME NEW n \in Nat, n \in I PROVE n + 1 \in I
  <2> SUFFICES ASSUME NEW s \in SUBSET S, Cardinality(s) = n + 1
               PROVE  SumOver(f, s) \in Int /\ SumOver(f, s) <= m * (n + 1)
    OBVIOUS
  <2>1. IsFiniteSet(s) /\ \A x \in s : f[x] \in Int BY FS_Subset
  <2>2. s # {} BY FS_EmptySet
  <2>3. PICK y \in s : TRUE BY <2>2
  <2>4. /\ SumOver(f, s) \in Int /\ SumOver(f, s \ {y}) \in Int
        /\ SumOver(f, s) = f[y] + SumOver(f, s \ {y})
    BY <2>1, SumPick
  <2>5. s \ {y} \in SUBSET S /\ Cardinality(s \ {y}) = n
    BY <2>1, SmallerSubset
  <2>6. SumOver(f, s \ {y}) <= m * n BY <1>2, <2>5
  <2>7. f[y] \in Int /\ f[y] <= m /\ m * n \in Int /\ m * (n + 1) = m * n + m
    OBVIOUS
  <2>8. f[y] + SumOver(f, s \ {y}) <= m * n + m BY <2>4, <2>6, <2>7
  <2> QED BY <2>4, <2>7, <2>8
<1> HIDE DEF I
<1>3. I \in SUBSET Nat BY DEF I
<1>4. Nat \subseteq I BY <1>1, <1>2, SetInduction
<1>5. Cardinality(S) \in Nat BY FS_CardinalityType
<1>6. Cardinality(S) \in I BY <1>4, <1>5
<1> QED BY <1>6 DEF I

-----------------------------------------------------------------------------
(* Folds over sequences: the greatest index is taken off first *)

\* g gives what a fold of step from base makes of each set of indices.
FoldsUp(g, n, base, step) ==
  g = [s \in SUBSET (1..n) |->
         IF s = {} THEN base
         ELSE LET i == Max(s) IN step[i][g[s \ {i}]]]

\* Such a function exists.
LEMMA FoldExists ==
  ASSUME NEW n \in Nat, NEW St, NEW base \in St, NEW step \in [1..n -> [St -> St]]
  PROVE  \E g \in [SUBSET (1..n) -> St] : FoldsUp(g, n, base, step)
<1> DEFINE Body(g, s) == IF s = {} THEN base
                         ELSE LET i == Max(s) IN step[i][g[s \ {i}]]
           Upto(k, g) == \A s \in SUBSET (1..k) : s \in SUBSET (1..n) => g[s] = Body(g, s)
           I == {k \in Nat : \E g \in [SUBSET (1..n) -> St] : Upto(k, g)}
<1>0. ASSUME NEW k \in Nat, NEW s \in SUBSET (1..k), s # {}
      PROVE  /\ Max(s) \in s /\ Max(s) \in 1..k
             /\ s \ {Max(s)} \in SUBSET (1..(Max(s) - 1))
  <2>1. s \in SUBSET (0..k) OBVIOUS
  <2>2. Max(s) \in s /\ \A y \in s : Max(s) >= y BY <1>0, <2>1, MaxOf
  <2>3. PICK m \in 1..k : m = Max(s) BY <2>2
  <2>4. \A y \in s \ {m} : y \in 1..(m - 1) BY <2>2, <2>3
  <2> QED BY <2>2, <2>3, <2>4
<1>1. 0 \in I
  <2> DEFINE g == [s \in SUBSET (1..n) |-> base]
  <2>1. \A s \in SUBSET (1..0) : s = {} OBVIOUS
  <2>2. g \in [SUBSET (1..n) -> St] /\ Upto(0, g) BY <2>1
  <2> HIDE DEF Upto, g
  <2>3. \E h \in [SUBSET (1..n) -> St] : Upto(0, h) BY <2>2
  <2> QED BY <2>3
<1>2. ASSUME NEW g \in [SUBSET (1..n) -> St], NEW s \in SUBSET (1..n) PROVE Body(g, s) \in St
  <2>1. CASE s = {} BY <2>1
  <2>2. CASE s # {}
    <3> DEFINE i == Max(s)
    <3>1. i \in 1..n BY <1>0, <2>2
    <3>2. s \ {i} \in SUBSET (1..n) OBVIOUS
    <3> HIDE DEF i
    <3>3. g[s \ {i}] \in St /\ step[i] \in [St -> St] BY <3>1, <3>2
    <3>4. Body(g, s) = step[i][g[s \ {i}]] BY <2>2 DEF i
    <3> QED BY <3>3, <3>4
  <2> QED BY <2>1, <2>2
<1>3. ASSUME NEW k \in Nat, k \in I PROVE k + 1 \in I
  <2>1. PICK g \in [SUBSET (1..n) -> St] : Upto(k, g) BY <1>3
  <2> DEFINE h == [s \in SUBSET (1..n) |-> Body(g, s)]
  <2>2. h \in [SUBSET (1..n) -> St]
    <3> HIDE DEF Body
    <3> QED BY <1>2
  <2>3. ASSUME NEW s \in SUBSET (1..(k + 1)), s \in SUBSET (1..n) PROVE h[s] = Body(h, s)
    <3>1. h[s] = Body(g, s) BY <2>3
    <3>2. CASE s = {} BY <3>1, <3>2
    <3>3. CASE s # {}
      <4> DEFINE i == Max(s)
                 r == s \ {i}
      <4>1. r \in SUBSET (1..k) /\ r \in SUBSET (1..n)
        <5>1. i \in 1..(k + 1) /\ r \in SUBSET (1..(i - 1)) BY <1>0, <3>3
        <5> HIDE DEF i, r
        <5>2. \A y \in r : y \in 1..k BY <5>1
        <5>3. r \in SUBSET s BY DEF r
        <5> QED BY <2>3, <5>2, <5>3
      <4>3. h[s] = step[i][g[r]] BY <3>1, <3>3
      <4>4. Body(h, s) = step[i][h[r]] BY <3>3
      <4> HIDE DEF i, r
      <4>5. h[r] = Body(g, r) BY <4>1
      <4>6. g[r] = Body(g, r) BY <2>1, <4>1
      <4> QED BY <4>3, <4>4, <4>5, <4>6
    <3> QED BY <3>2, <3>3
  <2>4. Upto(k + 1, h) BY <2>3
  <2> HIDE DEF Upto, h
  <2>5. \E f \in [SUBSET (1..n) -> St] : Upto(k + 1, f) BY <2>2, <2>4
  <2> QED BY <2>5
<1>4. n \in I
  <2> HIDE DEF I
  <2>1. Nat \subseteq I BY <1>1, <1>3, SetInduction
  <2> QED BY <2>1
<1>5. PICK g \in [SUBSET (1..n) -> St] : Upto(n, g) BY <1>4
<1>6. \A s \in SUBSET (1..n) : g[s] = Body(g, s) BY <1>5
<1>7. g = [s \in SUBSET (1..n) |-> g[s]] OBVIOUS
<1>8. FoldsUp(g, n, base, step)
  <2> HIDE DEF Body
  <2>1. g = [s \in SUBSET (1..n) |-> Body(g, s)] BY <1>6, <1>7
  <2> QED BY <2>1 DEF FoldsUp, Body
<1> QED BY <1>8

\* The greatest of the first indices is the last of them.
LEMMA MaxOfFirst ==
  ASSUME NEW i \in Nat, i # 0
  PROVE  Max(1..i) = i /\ (1..i) \ {i} = 1..(i - 1)
<1> DEFINE s == 1..i
<1>1. s # {} /\ s \in SUBSET (0..i) /\ i \in s OBVIOUS
<1>2. Max(s) \in s /\ \A y \in s : Max(s) >= y
  <2> HIDE DEF s
  <2> QED BY <1>1, MaxOf
<1> QED BY <1>1, <1>2

-----------------------------------------------------------------------------
(* The order of a finite set of naturals, such as the keys of a store *)

\* The elements of S up to h, and the i-th element of S in ascending order.
UpTo(S, h) == {k \in S : k <= h}
IsNth(S, i, h) == h \in S /\ Cardinality(UpTo(S, h)) = i

\* A greater element has more elements up to it.
LEMMA UpToGrows ==
  ASSUME NEW S \in SUBSET Nat, IsFiniteSet(S), NEW x \in S, NEW y \in S
  PROVE  /\ Cardinality(UpTo(S, x)) \in 1..Cardinality(S)
         /\ x < y => Cardinality(UpTo(S, x)) < Cardinality(UpTo(S, y))
<1>1. /\ IsFiniteSet(UpTo(S, x)) /\ IsFiniteSet(UpTo(S, y))
      /\ Cardinality(UpTo(S, x)) <= Cardinality(S)
  BY FS_Subset DEF UpTo
<1>2. Cardinality(S) \in Nat /\ Cardinality(UpTo(S, x)) \in Nat /\ Cardinality(UpTo(S, y)) \in Nat
  BY <1>1, FS_CardinalityType
<1>3. Cardinality(UpTo(S, x)) # 0
  <2>1. x \in UpTo(S, x) BY DEF UpTo
  <2> QED BY <1>1, <2>1, FS_EmptySet
<1>4. ASSUME x < y PROVE Cardinality(UpTo(S, x)) < Cardinality(UpTo(S, y))
  <2>0. x \in Nat /\ y \in Nat /\ \A k \in S : k \in Nat OBVIOUS
  <2>1. UpTo(S, x) \in SUBSET UpTo(S, y)
    <3>1. \A k \in S : k <= x => k <= y BY <1>4, <2>0
    <3> QED BY <3>1 DEF UpTo
  <2>2. y \in UpTo(S, y) /\ y \notin UpTo(S, x) BY <1>4 DEF UpTo
  <2>3. /\ Cardinality(UpTo(S, x)) <= Cardinality(UpTo(S, y))
        /\ Cardinality(UpTo(S, x)) # Cardinality(UpTo(S, y))
    BY <1>1, <2>1, <2>2, FS_Subset
  <2> QED BY <1>2, <2>3
<1> QED BY <1>1, <1>2, <1>3, <1>4

\* A finite set of naturals has a greatest element.
LEMMA GreatestElement ==
  ASSUME NEW S \in SUBSET Nat, IsFiniteSet(S), S # {}
  PROVE  \E x \in S : \A y \in S : y <= x
<1> DEFINE C == {Cardinality(UpTo(S, x)) : x \in S}
<1>1. Cardinality(S) \in Nat BY FS_CardinalityType
<1>2. C \in SUBSET (0..Cardinality(S)) /\ C # {}
  <2>1. ASSUME NEW x \in S PROVE Cardinality(UpTo(S, x)) \in 0..Cardinality(S)
    <3>1. Cardinality(UpTo(S, x)) \in 1..Cardinality(S) BY UpToGrows
    <3> QED BY <1>1, <3>1
  <2>2. PICK x : x \in S OBVIOUS
  <2>3. Cardinality(UpTo(S, x)) \in C BY <2>2
  <2> QED BY <2>1, <2>3
<1>3. Max(C) \in C /\ \A y \in C : Max(C) >= y
  <2> HIDE DEF C
  <2> QED BY <1>1, <1>2, MaxOf
<1>4. PICK x \in S : Max(C) = Cardinality(UpTo(S, x)) BY <1>3
<1>5. ASSUME NEW y \in S PROVE y <= x
  <2>1. Cardinality(UpTo(S, y)) \in C OBVIOUS
  <2>2. Cardinality(UpTo(S, x)) >= Cardinality(UpTo(S, y)) BY <1>3, <1>4, <2>1
  <2>3. /\ Cardinality(UpTo(S, x)) \in 1..Cardinality(S)
        /\ Cardinality(UpTo(S, y)) \in 1..Cardinality(S)
        /\ x < y => Cardinality(UpTo(S, x)) < Cardinality(UpTo(S, y))
    BY UpToGrows
  <2>4. ~(x < y) BY <1>1, <2>2, <2>3
  <2> QED BY <2>4
<1> QED BY <1>5

\* There is exactly one i-th element.
LEMMA NthElement ==
  ASSUME NEW S \in SUBSET Nat, IsFiniteSet(S), NEW i \in 1..Cardinality(S)
  PROVE  \E h : IsNth(S, i, h) /\ \A k : IsNth(S, i, k) => k = h
<1>0. Cardinality(S) \in Nat BY FS_CardinalityType
<1> DEFINE U == {h \in S : Cardinality(UpTo(S, h)) >= i}
<1>1. U # {}
  <2>1. S # {} BY <1>0, FS_EmptySet
  <2>2. PICK x \in S : \A y \in S : y <= x BY <2>1, GreatestElement
  <2>3. UpTo(S, x) = S BY <2>2 DEF UpTo
  <2> QED BY <1>0, <2>3
<1>2. PICK m \in U : \A k \in U : m <= k
  <2>1. U \in SUBSET Nat OBVIOUS
  <2> HIDE DEF U
  <2> QED BY <1>1, <2>1, LeastElement
<1> DEFINE L == UpTo(S, m) \ {m}
<1>3. /\ IsFiniteSet(UpTo(S, m)) /\ m \in UpTo(S, m)
      /\ Cardinality(UpTo(S, m)) \in Nat /\ Cardinality(UpTo(S, m)) >= i
  BY <1>0, FS_Subset, FS_CardinalityType DEF UpTo
<1>4. IsFiniteSet(L) /\ Cardinality(L) = Cardinality(UpTo(S, m)) - 1
  BY <1>3, FS_RemoveElement
<1>5. Cardinality(L) < i
  <2>1. CASE L = {} BY <2>1, FS_EmptySet
  <2>2. CASE L # {}
    <3>1. L \in SUBSET Nat BY DEF UpTo
    <3>2. PICK p \in L : \A q \in L : q <= p BY <1>4, <2>2, <3>1, GreatestElement
    <3>0. m \in Nat /\ \A k \in S : k \in Nat OBVIOUS
    <3>3. p \in S /\ p < m
      <4>1. p \in S /\ p <= m /\ p # m BY <3>2 DEF UpTo
      <4> QED BY <3>0, <4>1
    <3>4. UpTo(S, p) = L
      <4>1. \A k \in S : k <= p => k <= m /\ k # m BY <3>0, <3>3
      <4> QED BY <3>2, <4>1 DEF UpTo
    <3>5. p \notin U BY <1>2, <3>3
    <3>6. Cardinality(UpTo(S, p)) \in 1..Cardinality(S) BY <3>3, UpToGrows
    <3> QED BY <1>0, <3>3, <3>4, <3>5, <3>6
  <2> QED BY <2>1, <2>2
<1>6. Cardinality(UpTo(S, m)) = i BY <1>3, <1>4, <1>5
<1>7. ASSUME NEW k, IsNth(S, i, k) PROVE k = m
  <2>1. k \in S /\ m \in S /\ Cardinality(UpTo(S, k)) = i BY <1>7 DEF IsNth
  <2>2. /\ k < m => Cardinality(UpTo(S, k)) < Cardinality(UpTo(S, m))
        /\ m < k => Cardinality(UpTo(S, m)) < Cardinality(UpTo(S, k))
    BY <2>1, UpToGrows
  <2>3. k \in Nat /\ m \in Nat BY <2>1
  <2> QED BY <1>6, <2>1, <2>2, <2>3
<1> QED BY <1>6, <1>7 DEF IsNth

----------------------------------------------------------------------------
(* Arithmetic: quotients, powers of two, means *)

\* What a quotient is.
LEMMA Quotient ==
  ASSUME NEW a \in Nat, NEW b \in Nat \ {0}
  PROVE  /\ a \div b \in Nat
         /\ (a \div b) * b <= a
         /\ a < (a \div b + 1) * b
  OBVIOUS

\* A quotient is the only number whose multiples enclose the dividend.
LEMMA QuotientUnique ==
  ASSUME NEW a \in Nat, NEW b \in Nat \ {0}, NEW q \in Nat,
         q * b <= a, a < (q + 1) * b
  PROVE  a \div b = q
  OBVIOUS

\* One more factor.
LEMMA ProductStep ==
  ASSUME NEW n \in Nat, NEW r \in Nat
  PROVE  /\ (n + 1) * r = n * r + r
         /\ n * r \in Nat
  OBVIOUS

\* 2 ^ n, which counts the subsets of a set of n, doubles with n.
LEMMA PowerDoubles ==
  ASSUME NEW n \in Nat
  PROVE  2 ^ n \in Nat /\ 2 ^ (n + 1) = 2 ^ n + 2 ^ n
<1> DEFINE S == SUBSET (1 .. n)
           T == {A \cup {n + 1} : A \in S}
           f == [A \in S |-> A \cup {n + 1}]
<1>1. /\ IsFiniteSet(1 .. n) /\ Cardinality(1 .. n) = n
      /\ IsFiniteSet(1 .. n + 1) /\ Cardinality(1 .. n + 1) = n + 1
    BY FS_Interval
<1>2. /\ IsFiniteSet(S) /\ Cardinality(S) = 2 ^ n
      /\ Cardinality(SUBSET (1 .. n + 1)) = 2 ^ (n + 1)
    BY <1>1, FS_SUBSET
<1>3. SUBSET (1 .. n + 1) = S \cup T
  <2>1. 1 .. n + 1 = (1 .. n) \cup {n + 1} OBVIOUS
  <2>2. ASSUME NEW A \in SUBSET (1 .. n + 1), A \notin S PROVE A \in T
    <3>1. n + 1 \in A BY <2>1, <2>2
    <3>2. A \ {n + 1} \in S BY <2>1
    <3>3. A = (A \ {n + 1}) \cup {n + 1} BY <3>1
    <3> QED BY <3>2, <3>3
  <2>3. S \cup T \subseteq SUBSET (1 .. n + 1) BY <2>1
  <2> QED BY <2>2, <2>3
<1>4. \A A \in S : n + 1 \notin A
    OBVIOUS
<1>5. S \cap T = {}
    BY <1>4
<1>6. f \in Surjection(S, T) /\ f \in Injection(S, T)
  <2>1. f \in [S -> T] OBVIOUS
  <2>2. \A A, B \in S : A \cup {n + 1} = B \cup {n + 1} => A = B BY <1>4
  <2>3. \A A, B \in S : f[A] = f[B] => A = B BY <2>2
  <2>4. \A t \in T : \E A \in S : f[A] = t OBVIOUS
  <2> HIDE DEF f, T, S
  <2> QED BY <2>1, <2>3, <2>4 DEF Surjection, Injection, IsInjective
<1> HIDE DEF f, T, S
<1>7. IsFiniteSet(T) /\ Cardinality(T) = Cardinality(S) /\ Cardinality(S) \in Nat
    BY <1>2, <1>6, FS_Surjection, FS_CardinalityType
<1>8. Cardinality(S \cup T) = Cardinality(S) + Cardinality(T) - Cardinality({})
    BY <1>2, <1>5, <1>7, FS_Union
<1>9. PICK c \in Nat : c = Cardinality(S)
    BY <1>7
<1>10. Cardinality(S \cup T) = c + c
    BY <1>7, <1>8, <1>9, FS_EmptySet
<1>11. 2 ^ (n + 1) = c + c
    BY <1>2, <1>3, <1>10, Zenon
<1>12. 2 ^ n = c
    BY <1>2, <1>9, Zenon
<1> QED
    BY <1>11, <1>12

\* A product does not depend on the order, and distributes.
LEMMA Products ==
  ASSUME NEW x \in Nat, NEW y \in Nat, NEW z \in Nat
  PROVE  /\ x * y \in Nat /\ x * y = y * x /\ x * (y * z) = (x * y) * z
         /\ x * (y + z) = x * y + x * z
         /\ x <= y => x * z <= y * z
         /\ 1 <= z => x <= x * z
  OBVIOUS

\* The exponents of a product of powers add up.
LEMMA PowerSum ==
  ASSUME NEW a \in Nat, NEW b \in Nat
  PROVE  2 ^ (a + b) = 2 ^ a * 2 ^ b /\ 2 ^ b \in Nat /\ 2 ^ b >= 1
<1> DEFINE I == {n \in Nat : 2 ^ (a + n) = 2 ^ a * 2 ^ n /\ 2 ^ n >= 1}
<1>0. PICK c \in Nat : c = 2 ^ a
    BY PowerDoubles
<1>1. 0 \in I
  <2>1. 2 ^ 0 = 1
      OBVIOUS
  <2>2. a + 0 = a /\ c * 1 = c
      OBVIOUS
  <2>3. 2 ^ (a + 0) = 2 ^ a * 2 ^ 0
      BY <1>0, <2>1, <2>2
  <2> QED
      BY <2>1, <2>3
<1>2. ASSUME NEW n \in Nat, n \in I PROVE n + 1 \in I
  <2>1. PICK d \in Nat : d = 2 ^ n
      BY PowerDoubles
  <2>2. 2 ^ (n + 1) = d + d
      BY <2>1, PowerDoubles
  <2>3. PICK m \in Nat : m = a + n /\ a + (n + 1) = m + 1
      OBVIOUS
  <2>4. 2 ^ m = c * d /\ d >= 1
      BY <1>0, <1>2, <2>1, <2>3
  <2>5. 2 ^ (m + 1) = c * d + c * d
      BY <2>3, <2>4, PowerDoubles
  <2>6. c * (d + d) = c * d + c * d
      BY Products
  <2>7. 2 ^ (a + (n + 1)) = 2 ^ a * 2 ^ (n + 1)
      BY <1>0, <2>2, <2>3, <2>5, <2>6
  <2> QED
      BY <2>2, <2>4, <2>7
<1> HIDE DEF I
<1>3. b \in I
    BY <1>1, <1>2, SetInduction
<1> QED
    BY <1>3, PowerDoubles DEF I

\* t is cut to q units of P, and q keeps enough digits.
Cut(t, q, P) == q * P <= t /\ t < (q + 1) * P

\* Cut twice is cut once.
LEMMA CutTwice ==
  ASSUME NEW t \in Nat, NEW q \in Nat, NEW r \in Nat,
         NEW P \in Nat \ {0}, NEW Q \in Nat \ {0}, Cut(t, q, P), Cut(q, r, Q)
  PROVE  Cut(t, r, P * Q)
<1>1. r * Q <= q /\ q + 1 <= (r + 1) * Q
  <2>1. (r + 1) * Q \in Nat
      BY Products
  <2> QED
      BY <2>1 DEF Cut
<1>2. (r * Q) * P <= q * P /\ (q + 1) * P <= ((r + 1) * Q) * P
  <2>1. r * Q \in Nat /\ (r + 1) * Q \in Nat
      BY Products
  <2> QED
      BY <1>1, <2>1, Products
<1>3. (r * Q) * P = r * (P * Q) /\ ((r + 1) * Q) * P = (r + 1) * (P * Q)
  <2>1. Q * P = P * Q
      BY Products
  <2>2. r * (Q * P) = (r * Q) * P /\ (r + 1) * (Q * P) = ((r + 1) * Q) * P
      BY Products
  <2> QED
      BY <2>1, <2>2
<1>4. q * P \in Nat /\ (q + 1) * P \in Nat /\ r * (P * Q) \in Nat /\ (r + 1) * (P * Q) \in Nat
  <2>1. P * Q \in Nat
      BY Products
  <2> QED
      BY <2>1, Products
<1> QED
    BY <1>2, <1>3, <1>4 DEF Cut

\* A quotient cuts.
LEMMA QuotientCuts ==
  ASSUME NEW t \in Nat, NEW P \in Nat \ {0}
  PROVE  t \div P \in Nat /\ Cut(t, t \div P, P)
  BY Quotient DEF Cut

\* Sums of integers, term by term.
LEMMA SumLess ==
  ASSUME NEW n \in Nat, NEW f, NEW g,
         \A i \in 1 .. n : f[i] \in Int /\ g[i] \in Int /\ f[i] <= g[i]
  PROVE  /\ SumOver(f, 1 .. n) \in Int /\ SumOver(g, 1 .. n) \in Int
         /\ SumOver(f, 1 .. n) <= SumOver(g, 1 .. n)
<1> DEFINE I == {k \in Nat : k <= n => SumOver(f, 1 .. k) <= SumOver(g, 1 .. k)}
<1>1. 0 \in I
  <2>1. 1 .. 0 = {}
      OBVIOUS
  <2> QED
      BY <2>1, SumEmpty
<1>2. ASSUME NEW k \in Nat, k \in I PROVE k + 1 \in I
  <2>1. SUFFICES ASSUME k + 1 <= n
                 PROVE  SumOver(f, 1 .. k + 1) <= SumOver(g, 1 .. k + 1)
      OBVIOUS
  <2>2. /\ IsFiniteSet(1 .. k + 1) /\ k + 1 \in 1 .. k + 1 /\ (1 .. k + 1) \ {k + 1} = 1 .. k
        /\ \A i \in 1 .. k + 1 : f[i] \in Int /\ g[i] \in Int /\ f[i] <= g[i]
      BY <2>1, FS_Interval
  <2>3. /\ SumOver(f, 1 .. k) \in Int
        /\ SumOver(f, 1 .. k + 1) = f[k + 1] + SumOver(f, 1 .. k)
    <3>1. \A i \in 1 .. k + 1 : f[i] \in Int
        BY <2>2
    <3> QED
        BY <2>2, <3>1, SumPick
  <2>4. /\ SumOver(g, 1 .. k) \in Int
        /\ SumOver(g, 1 .. k + 1) = g[k + 1] + SumOver(g, 1 .. k)
    <3>1. \A i \in 1 .. k + 1 : g[i] \in Int
        BY <2>2
    <3> QED
        BY <2>2, <3>1, SumPick
  <2>5. SumOver(f, 1 .. k) <= SumOver(g, 1 .. k)
      BY <1>2, <2>1
  <2>6. f[k + 1] \in Int /\ g[k + 1] \in Int /\ f[k + 1] <= g[k + 1]
      BY <2>2
  <2> QED
      BY <2>3, <2>4, <2>5, <2>6
<1> HIDE DEF I
<1>3. n \in I
    BY <1>1, <1>2, SetInduction
<1>4. SumOver(f, 1 .. n) \in Int /\ SumOver(g, 1 .. n) \in Int
  <2>1. IsFiniteSet(1 .. n)
      BY FS_Interval
  <2>2. (\A i \in 1 .. n : f[i] \in Int) /\ (\A i \in 1 .. n : g[i] \in Int)
      OBVIOUS
  <2>3. SumOver(f, 1 .. n) \in Int
      BY <2>1, <2>2, SumSame
  <2>4. SumOver(g, 1 .. n) \in Int
      BY <2>1, <2>2, SumSame
  <2> QED
      BY <2>3, <2>4
<1> QED
    BY <1>3, <1>4 DEF I

\* Equal terms, and terms that grow with their place.
LEMMA SumOfEqual ==
  ASSUME NEW n \in Nat, NEW c \in Nat
  PROVE  /\ SumOver([i \in 1 .. n |-> c], 1 .. n) = n * c
         /\ 2 * SumOver([i \in 1 .. n |-> i * c], 1 .. n) = (n * (n + 1)) * c
<1> DEFINE f == [i \in 1 .. n |-> c]
           g == [i \in 1 .. n |-> i * c]
           I == {k \in Nat : k <= n => /\ SumOver(f, 1 .. k) = k * c
                                       /\ 2 * SumOver(g, 1 .. k) = (k * (k + 1)) * c}
<1>1. 0 \in I
  <2>1. 1 .. 0 = {} /\ 0 * c = 0 /\ (0 * (0 + 1)) * c = 0
      OBVIOUS
  <2>2. SumOver(f, {}) = 0 /\ SumOver(g, {}) = 0
      BY SumEmpty
  <2> QED
      BY <2>1, <2>2
<1>2. ASSUME NEW k \in Nat, k \in I PROVE k + 1 \in I
  <2>1. SUFFICES ASSUME k + 1 <= n
                 PROVE  /\ SumOver(f, 1 .. k + 1) = (k + 1) * c
                        /\ 2 * SumOver(g, 1 .. k + 1) = ((k + 1) * (k + 1 + 1)) * c
      OBVIOUS
  <2>2. /\ IsFiniteSet(1 .. k + 1) /\ k + 1 \in 1 .. k + 1 /\ (1 .. k + 1) \ {k + 1} = 1 .. k
      BY FS_Interval
  <2>3. \A i \in 1 .. k + 1 : f[i] = c /\ g[i] = i * c /\ f[i] \in Int /\ g[i] \in Int
      BY <2>1, Products
  <2>4. SumOver(f, 1 .. k) = k * c /\ 2 * SumOver(g, 1 .. k) = (k * (k + 1)) * c
      BY <1>2, <2>1
  <2> HIDE DEF f, g, I
  <2>5. /\ SumOver(f, 1 .. k) \in Int
        /\ SumOver(f, 1 .. k + 1) = f[k + 1] + SumOver(f, 1 .. k)
    <3>1. \A i \in 1 .. k + 1 : f[i] \in Int
        BY <2>3
    <3> QED
        BY <2>2, <3>1, SumPick
  <2>6. /\ SumOver(g, 1 .. k) \in Int
        /\ SumOver(g, 1 .. k + 1) = g[k + 1] + SumOver(g, 1 .. k)
    <3>1. \A i \in 1 .. k + 1 : g[i] \in Int
        BY <2>3
    <3> QED
        BY <2>2, <3>1, SumPick
  <2>7. f[k + 1] = c /\ g[k + 1] = (k + 1) * c
      BY <2>2, <2>3
  <2>8. SumOver(f, 1 .. k + 1) = (k + 1) * c
      BY <2>4, <2>5, <2>7, ProductStep
  <2>9. PICK x \in Nat, y \in Nat, z \in Nat :
          x = k * (k + 1) /\ y = (k + 1) * c /\ z = (k * (k + 1)) * c
      BY Products
  <2>10. ((k + 1) * (k + 1 + 1)) * c = z + y + y
    <3>1. (k + 1) * (k + 1 + 1) = x + (k + 1) + (k + 1)
        BY <2>9
    <3>2. (x + (k + 1) + (k + 1)) * c = x * c + (k + 1) * c + (k + 1) * c
        OBVIOUS
    <3> QED
        BY <2>9, <3>1, <3>2
  <2>11. 2 * SumOver(g, 1 .. k + 1) = z + y + y
    <3>1. PICK s \in Int : s = SumOver(g, 1 .. k) /\ 2 * s = z
        BY <2>4, <2>6, <2>9
    <3>2. SumOver(g, 1 .. k + 1) = y + s
        BY <2>6, <2>7, <2>9, <3>1
    <3> QED
        BY <3>1, <3>2
  <2> QED
      BY <2>8, <2>10, <2>11
<1> HIDE DEF I
<1>3. n \in I
    BY <1>1, <1>2, SetInduction
<1> QED
    BY <1>3 DEF I

\* A quotient from below and from above; a larger divisor makes a smaller quotient.
LEMMA QuotientBounds ==
  ASSUME NEW a \in Nat, NEW b \in Nat \ {0}, NEW q \in Nat
  PROVE  /\ q * b <= a => q <= a \div b
         /\ a <= q * b => a \div b <= q
         /\ \A c \in Nat : b <= c => a \div c <= a \div b
<1>1. ASSUME NEW x \in Nat, NEW c \in Nat \ {0}, x * c <= a PROVE x <= a \div c
  <2>1. a \div c \in Nat /\ a < (a \div c + 1) * c
      BY Quotient
  <2>2. ASSUME a \div c + 1 <= x PROVE FALSE
    <3>1. (a \div c + 1) * c <= x * c /\ (a \div c + 1) * c \in Nat /\ x * c \in Nat
        BY <2>1, <2>2, Products
    <3> QED
        BY <1>1, <2>1, <3>1
  <2> QED
      BY <2>1, <2>2
<1>2. ASSUME a <= q * b PROVE a \div b <= q
  <2>1. PICK d \in Nat : d = a \div b /\ d * b <= a
      BY Quotient
  <2>2. ASSUME q + 1 <= d PROVE FALSE
    <3>1. (q + 1) * b <= d * b /\ (q + 1) * b = q * b + b /\ q * b \in Nat /\ d * b \in Nat
        BY <2>2, ProductStep, Products
    <3> QED
        BY <1>2, <2>1, <3>1
  <2> QED
      BY <2>1, <2>2
<1>3. ASSUME NEW c \in Nat, b <= c PROVE a \div c <= a \div b
  <2>1. PICK d \in Nat : d = a \div c /\ d * c <= a
      BY <1>3, Quotient
  <2>2. d * b <= d * c
    <3>1. d * b = b * d /\ d * c = c * d /\ b * d <= c * d
        BY <1>3, Products
    <3> QED
        BY <3>1
  <2>3. d * b \in Nat /\ d * c \in Nat
      BY Products
  <2>4. d * b <= a
      BY <2>1, <2>2, <2>3
  <2> QED
      BY <1>1, <2>1, <2>4
<1> QED
    BY <1>1, <1>2, <1>3

\* A mean lies among its terms.
LEMMA MeanOf ==
  ASSUME NEW n \in Nat \ {0}, NEW f, \A i \in 1 .. n : f[i] \in Nat
  PROVE  /\ SumOver(f, 1 .. n) \div n \in Nat
         /\ \E i \in 1 .. n : f[i] <= SumOver(f, 1 .. n) \div n
         /\ \E i \in 1 .. n : SumOver(f, 1 .. n) \div n <= f[i]
<1>1. PICK s \in Nat : s = SumOver(f, 1 .. n)
  <2>1. IsFiniteSet(1 .. n)
      BY FS_Interval
  <2>2. \A i \in 1 .. n : f[i] \in Int /\ f[i] >= 0
      OBVIOUS
  <2>3. SumOver(f, 1 .. n) \in Int /\ SumOver(f, 1 .. n) >= 0
      BY <2>1, <2>2, SumSame
  <2> QED
      BY <2>3
<1>2. PICK m \in Nat : m = s \div n /\ m * n <= s /\ s < (m + 1) * n
    BY <1>1, Quotient
<1>3. ASSUME \A i \in 1 .. n : m + 1 <= f[i] PROVE FALSE
  <2>0. PICK k \in Nat : k = m + 1
      OBVIOUS
  <2> DEFINE g == [i \in 1 .. n |-> k]
  <2>1. SumOver(g, 1 .. n) = n * k
      BY SumOfEqual
  <2>2. \A i \in 1 .. n : g[i] \in Int /\ f[i] \in Int /\ g[i] <= f[i]
      BY <1>3, <2>0
  <2> HIDE DEF g
  <2>3. SumOver(g, 1 .. n) <= s
      BY <1>1, <2>2, SumLess
  <2>4. n * k = k * n /\ n * k \in Nat
      BY Products
  <2> QED
      BY <1>2, <2>0, <2>1, <2>3, <2>4
<1>4. ASSUME \A i \in 1 .. n : f[i] + 1 <= m PROVE FALSE
  <2>1. m # 0
    <3>1. 1 \in 1 .. n
        OBVIOUS
    <3> QED
        BY <1>4, <3>1
  <2>2. PICK k \in Nat : m = k + 1
    <3>1. m - 1 \in Nat /\ m = (m - 1) + 1
        BY <2>1
    <3> QED
        BY <3>1
  <2> DEFINE g == [i \in 1 .. n |-> k]
  <2>3. SumOver(g, 1 .. n) = n * k
      BY SumOfEqual
  <2>4. \A i \in 1 .. n : g[i] \in Int /\ f[i] \in Int /\ f[i] <= g[i]
      BY <1>4, <2>2
  <2> HIDE DEF g
  <2>5. s <= SumOver(g, 1 .. n)
      BY <1>1, <2>4, SumLess
  <2>6. n * k = k * n /\ n * k \in Nat /\ (k + 1) * n = k * n + n
      BY ProductStep, Products
  <2> QED
      BY <1>2, <2>2, <2>3, <2>5, <2>6
<1>5. \E i \in 1 .. n : f[i] <= m
    BY <1>3
<1>6. \E i \in 1 .. n : m <= f[i]
    BY <1>4
<1> QED
    BY <1>1, <1>2, <1>5, <1>6

\* So does a mean whose terms weigh the more the later they are.
LEMMA WeightedMeanOf ==
  ASSUME NEW n \in Nat \ {0}, NEW f, \A i \in 1 .. n : f[i] \in Nat, NEW c \in Nat
  PROVE  LET s == SumOver([i \in 1 .. n |-> i * f[i]], 1 .. n)
             W == ((n + 1) * n) \div 2
         IN  /\ s \in Nat /\ W \in Nat \ {0} /\ s \div W \in Nat
             /\ (\A i \in 1 .. n : f[i] <= c) => s \div W <= c
             /\ (\A i \in 1 .. n : c <= f[i]) => c <= s \div W
<1> DEFINE h == [i \in 1 .. n |-> i * f[i]]
           g == [i \in 1 .. n |-> i * c]
<1>1. /\ IsFiniteSet(1 .. n)
      /\ \A i \in 1 .. n : h[i] = i * f[i] /\ h[i] \in Nat /\ g[i] = i * c /\ g[i] \in Nat
  <2>1. ASSUME NEW i \in 1 .. n
        PROVE  h[i] = i * f[i] /\ h[i] \in Nat /\ g[i] = i * c /\ g[i] \in Nat
    <3>1. i * f[i] \in Nat /\ i * c \in Nat
        BY Products
    <3> QED
        BY <3>1
  <2> QED
      BY <2>1, FS_Interval
<1>2. 2 * SumOver(g, 1 .. n) = (n * (n + 1)) * c
    BY SumOfEqual
<1> HIDE DEF g, h
<1>3. PICK s \in Nat : s = SumOver(h, 1 .. n)
  <2>1. \A i \in 1 .. n : h[i] \in Int /\ h[i] >= 0
      BY <1>1
  <2>2. SumOver(h, 1 .. n) \in Int /\ SumOver(h, 1 .. n) >= 0
      BY <1>1, <2>1, SumSame
  <2> QED
      BY <2>2
<1>4. PICK W \in Nat \ {0} : W = ((n + 1) * n) \div 2 /\ n * (n + 1) = 2 * W
  <2>1. \E k \in Nat : n * (n + 1) = 2 * k
    <3>1. CASE n % 2 = 0
      <4>1. PICK k \in Nat : n = 2 * k
          BY <3>1
      <4>2. n * (n + 1) = 2 * (k * (n + 1)) /\ k * (n + 1) \in Nat
          BY <4>1, Products
      <4> QED
          BY <4>2
    <3>2. CASE n % 2 = 1
      <4>1. PICK k \in Nat : n + 1 = 2 * k
        <5>1. PICK j \in Nat : n = 2 * j + 1
            BY <3>2
        <5> QED
            BY <5>1
      <4>2. n * (n + 1) = (n + 1) * n /\ (n + 1) * n = 2 * (k * n) /\ k * n \in Nat
          BY <4>1, Products
      <4> QED
          BY <4>2
    <3> QED
        BY <3>1, <3>2
  <2>2. PICK k \in Nat : n * (n + 1) = 2 * k
      BY <2>1
  <2>3. (n + 1) * n = 2 * k /\ (2 * k) \div 2 = k
      BY <2>2, Products
  <2>4. k # 0
    <3>1. n <= n * (n + 1)
        BY Products
    <3> QED
        BY <2>2, <3>1
  <2> QED
      BY <2>2, <2>3, <2>4
<1>5. PICK z \in Nat : z = W * c /\ SumOver(g, 1 .. n) = z
  <2>1. \A i \in 1 .. n : g[i] \in Int
      BY <1>1
  <2>2. SumOver(g, 1 .. n) \in Int
      BY <1>1, <2>1, SumSame
  <2>3. PICK z \in Nat : z = W * c
      BY Products
  <2>4. 2 * SumOver(g, 1 .. n) = 2 * z
    <3>1. (2 * W) * c = 2 * (W * c)
        BY Products
    <3> QED
        BY <1>2, <1>4, <2>3, <3>1
  <2> QED
      BY <2>2, <2>3, <2>4
<1>6. c * W = z /\ s \div W \in Nat
    BY <1>5, Products, Quotient
<1>7. ASSUME \A i \in 1 .. n : f[i] <= c PROVE s \div W <= c
  <2>1. ASSUME NEW i \in 1 .. n PROVE h[i] \in Int /\ g[i] \in Int /\ h[i] <= g[i]
    <3>1. i * f[i] = f[i] * i /\ i * c = c * i /\ f[i] * i <= c * i
        BY <1>7, Products
    <3> QED
        BY <1>1, <3>1
  <2>2. s <= z
      BY <1>3, <1>5, <2>1, SumLess
  <2> QED
      BY <1>6, <2>2, QuotientBounds
<1>8. ASSUME \A i \in 1 .. n : c <= f[i] PROVE c <= s \div W
  <2>1. ASSUME NEW i \in 1 .. n PROVE h[i] \in Int /\ g[i] \in Int /\ g[i] <= h[i]
    <3>1. i * f[i] = f[i] * i /\ i * c = c * i /\ c * i <= f[i] * i
        BY <1>8, Products
    <3> QED
        BY <1>1, <3>1
  <2>2. z <= s
      BY <1>3, <1>5, <2>1, SumLess
  <2> QED
      BY <1>6, <2>2, QuotientBounds
<1> QED
    BY <1>3, <1>4, <1>6, <1>7, <1>8 DEF h

=============================================================================
