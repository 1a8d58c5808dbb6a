-------------------------- MODULE HeaderRules_proofs --------------------------
(***************************************************************************)
(* The emission for every schedule: the count by epochs is the sum of the   *)
(* rewards block by block, and the two validations agree on every chain.   *)
(* The retarget for all windows and fractions: which target the compact     *)
(* bits keep, and that the difficulty goes the right way.                   *)
(***************************************************************************)
EXTENDS HeaderRules, Recursion, SequenceTheorems, TLAPS

----------------------------------------------------------------------------
(* Bounds *)

\* The smaller and the larger of two numbers.
LEMMA Bounds2 ==
  ASSUME NEW x \in Int, NEW y \in Int
  PROVE  /\ AtMost(x, y) \in {x, y} /\ AtMost(x, y) <= x /\ AtMost(x, y) <= y
         /\ AtLeast(x, y) \in {x, y} /\ AtLeast(x, y) >= x /\ AtLeast(x, y) >= y
  BY DEF AtMost, AtLeast

----------------------------------------------------------------------------
(* The schedule *)

\* INITIAL_REWARD // 2 ** e is a natural number.
LEMMA HalvedNat ==
  ASSUME NEW initial \in Nat, NEW e \in 0 .. 63
  PROVE  Halved(initial)[e] \in Nat
<1> DEFINE IsHalving(f) == f = [n \in 0 .. 63 |-> IF n = 0 THEN initial ELSE f[n - 1] \div 2]
           step == [n \in 1 .. 63 |-> [x \in Nat |-> x \div 2]]
<1>1. step \in [1 .. 63 -> [Nat -> Nat]]
    OBVIOUS
<1>2. PICK f \in [0 .. 63 -> Nat] : Iterates(f, 63, initial, step)
  <2> HIDE DEF step
  <2> QED
      BY <1>1, IterationExists
<1>3. f[0] = initial /\ \A n \in 1 .. 63 : f[n] = f[n - 1] \div 2
    BY <1>2 DEF Iterates
<1>4. IsHalving(f)
  <2>1. ASSUME NEW n \in 0 .. 63
        PROVE  f[n] = IF n = 0 THEN initial ELSE f[n - 1] \div 2
      BY <1>3
  <2>2. f = [n \in 0 .. 63 |-> f[n]]
      BY <1>2
  <2> QED
      BY <2>1, <2>2
<1>5. Halved(initial) = CHOOSE g : IsHalving(g)
    BY DEF Halved
<1>6. IsHalving(Halved(initial))
  <2> HIDE DEF IsHalving
  <2> QED
      BY <1>4, <1>5
<1> DEFINE G == {n \in Nat : n \in 0 .. 63 => Halved(initial)[n] \in Nat}
<1>7. 0 \in G
    BY <1>6
<1>8. ASSUME NEW n \in Nat, n \in G PROVE n + 1 \in G
  <2>1. CASE n + 1 \in 0 .. 63
    <3>1. Halved(initial)[n + 1] = Halved(initial)[n] \div 2
        BY <1>6, <2>1
    <3>2. Halved(initial)[n] \in Nat
        BY <1>8, <2>1
    <3> QED
        BY <3>1, <3>2
  <2> QED
      BY <2>1
<1> HIDE DEF G, IsHalving
<1>9. Nat \subseteq G
    BY <1>7, <1>8, SetInduction
<1> QED
    BY <1>9 DEF G

\* A reward is a natural number.
LEMMA ScheduledNat ==
  ASSUME NEW s \in Schedule, NEW h \in Nat
  PROVE  Scheduled(s, h) \in Nat
<1>1. s.premine \in Nat /\ s.initial \in Nat /\ s.halving \in Nat \ {0}
    BY DEF Schedule
<1>2. h \div s.halving \in Nat
    BY <1>1, Quotient
<1>3. ASSUME h \div s.halving < 64 PROVE Halved(s.initial)[h \div s.halving] \in Nat
  <2>1. h \div s.halving \in 0 .. 63
      BY <1>2, <1>3
  <2> QED
      BY <1>1, <2>1, HalvedNat
<1> QED
    BY <1>1, <1>2, <1>3 DEF Scheduled

----------------------------------------------------------------------------
(* The count by epochs *)

\* An epoch adds a natural number.
LEMMA AddEpochNat ==
  ASSUME NEW s \in Schedule, NEW h \in Nat, NEW e \in Nat, NEW before \in Nat
  PROVE  AddEpoch(s, h, e, before) \in Nat
<1> DEFINE first  == AtLeast(1, e * s.halving)
           blocks == AtLeast(0, AtMost(h, (e + 1) * s.halving) - first)
           reward == Scheduled(s, first)
<1>1. s.halving \in Nat /\ s.cap \in Nat
    BY DEF Schedule
<1>2. e * s.halving \in Nat /\ (e + 1) * s.halving \in Nat
    BY <1>1, ProductStep
<1>3. first \in Nat
    BY <1>2, Bounds2
<1>4. blocks \in Nat
    BY <1>2, <1>3 DEF AtMost, AtLeast
<1>5. reward \in Nat
    BY <1>3, ScheduledNat
<1>6. blocks * reward \in Nat
  <2> HIDE DEF blocks, reward
  <2> QED
      BY <1>4, <1>5, ProductStep
<1>7. AddEpoch(s, h, e, before) =
        IF reward <= 0 \/ before >= s.cap THEN before ELSE before + blocks * reward
    BY DEF AddEpoch
<1> HIDE DEF first, blocks, reward
<1> QED
    BY <1>1, <1>5, <1>6, <1>7

\* The recursion of cumulative_supply_until, epoch by epoch.
LEMMA EpochTotalsDef ==
  ASSUME NEW s \in Schedule, NEW h \in Nat \ {0}
  PROVE  LET N == (h - 1) \div s.halving
             f == EpochTotals(s, h)
         IN  /\ N \in Nat /\ f \in [0 .. N -> Nat]
             /\ f[0] = AddEpoch(s, h, 0, Scheduled(s, 0))
             /\ \A e \in 1 .. N : f[e] = AddEpoch(s, h, e, f[e - 1])
<1> DEFINE N == (h - 1) \div s.halving
           IsTotal(f) == f = [e \in 0 .. N |->
                           AddEpoch(s, h, e, IF e = 0 THEN Scheduled(s, 0) ELSE f[e - 1])]
           start == AddEpoch(s, h, 0, Scheduled(s, 0))
           step == [e \in 1 .. N |-> [x \in Nat |-> AddEpoch(s, h, e, x)]]
<1>1. N \in Nat
  <2>1. s.halving \in Nat \ {0} /\ h - 1 \in Nat
      BY DEF Schedule
  <2> QED
      BY <2>1, Quotient
<1>2. start \in Nat
    BY AddEpochNat, ScheduledNat
<1>3. step \in [1 .. N -> [Nat -> Nat]]
  <2>1. ASSUME NEW e \in 1 .. N, NEW x \in Nat PROVE AddEpoch(s, h, e, x) \in Nat
    <3>1. e \in Nat /\ h \in Nat
        BY <1>1
    <3> QED
        BY <3>1, AddEpochNat
  <2> QED
      BY <2>1
<1>4. PICK f \in [0 .. N -> Nat] : Iterates(f, N, start, step)
  <2> HIDE DEF start, step, N
  <2> QED
      BY <1>1, <1>2, <1>3, IterationExists
<1>5. f[0] = start /\ \A e \in 1 .. N : f[e] = AddEpoch(s, h, e, f[e - 1])
  <2>1. ASSUME NEW e \in 1 .. N PROVE f[e - 1] \in Nat
    <3>1. e - 1 \in 0 .. N
        BY <1>1
    <3> QED
        BY <3>1
  <2> QED
      BY <1>4, <2>1 DEF Iterates
<1>6. IsTotal(f)
  <2>1. ASSUME NEW e \in 0 .. N
        PROVE  f[e] = AddEpoch(s, h, e, IF e = 0 THEN Scheduled(s, 0) ELSE f[e - 1])
    <3>1. e = 0 \/ e \in 1 .. N
        BY <1>1
    <3> QED
        BY <1>1, <1>5, <3>1
  <2>2. f = [e \in 0 .. N |-> f[e]]
      BY <1>4
  <2> QED
      BY <2>1, <2>2
<1>7. EpochTotals(s, h) = CHOOSE g : IsTotal(g)
    BY DEF EpochTotals
<1>8. IsTotal(EpochTotals(s, h))
  <2> HIDE DEF IsTotal
  <2> QED
      BY <1>6, <1>7
<1> DEFINE F == EpochTotals(s, h)
           G == {n \in Nat : n \in 0 .. N => F[n] \in Nat}
<1>9. F[0] = start /\ \A e \in 1 .. N : F[e] = AddEpoch(s, h, e, F[e - 1])
  <2> HIDE DEF N, F
  <2>1. F = [e \in 0 .. N |-> AddEpoch(s, h, e, IF e = 0 THEN Scheduled(s, 0) ELSE F[e - 1])]
      BY <1>8 DEF F
  <2>2. 0 \in 0 .. N /\ \A e \in 1 .. N : e \in 0 .. N /\ e # 0
      BY <1>1
  <2> QED
      BY <2>1, <2>2
<1> HIDE DEF N, F, IsTotal, start
<1>10. 0 \in G
    BY <1>2, <1>9
<1>11. ASSUME NEW n \in Nat, n \in G PROVE n + 1 \in G
  <2>1. CASE n + 1 \in 0 .. N
    <3>1. n + 1 \in 1 .. N /\ n + 1 - 1 = n /\ n \in 0 .. N
        BY <1>1, <2>1
    <3>2. F[n + 1] = AddEpoch(s, h, n + 1, F[n])
        BY <1>9, <3>1
    <3>3. F[n] \in Nat
        BY <1>11, <3>1
    <3>4. n + 1 \in Nat /\ h \in Nat
        OBVIOUS
    <3>5. AddEpoch(s, h, n + 1, F[n]) \in Nat
        BY <3>3, <3>4, AddEpochNat
    <3> QED
        BY <3>2, <3>5
  <2> QED
      BY <2>1
<1>12. \A n \in 0 .. N : F[n] \in Nat
  <2> HIDE DEF G
  <2>1. Nat \subseteq G
      BY <1>10, <1>11, SetInduction
  <2> QED
      BY <1>1, <2>1 DEF G
<1>13. F \in [0 .. N -> Nat]
  <2>1. F = [e \in 0 .. N |-> AddEpoch(s, h, e, IF e = 0 THEN Scheduled(s, 0) ELSE F[e - 1])]
      BY <1>8 DEF IsTotal, F
  <2> QED
      BY <1>12, <2>1
<1> QED
    BY <1>1, <1>9, <1>13 DEF N, F, start

\* The same, for the blocks up to height h.
LEMMA EpochTotalsAfter ==
  ASSUME NEW s \in Schedule, NEW h \in Nat, NEW k \in Nat \ {0}, k = h + 1
  PROVE  LET N == h \div s.halving
             f == EpochTotals(s, k)
         IN  /\ N \in Nat /\ f \in [0 .. N -> Nat]
             /\ f[0] = AddEpoch(s, k, 0, Scheduled(s, 0))
             /\ \A e \in 1 .. N : f[e] = AddEpoch(s, k, e, f[e - 1])
<1> DEFINE M == (k - 1) \div s.halving
<1>1. k - 1 = h
    OBVIOUS
<1>2. /\ M \in Nat /\ EpochTotals(s, k) \in [0 .. M -> Nat]
      /\ EpochTotals(s, k)[0] = AddEpoch(s, k, 0, Scheduled(s, 0))
      /\ \A e \in 1 .. M : EpochTotals(s, k)[e] = AddEpoch(s, k, e, EpochTotals(s, k)[e - 1])
    BY EpochTotalsDef
<1>3. M = h \div s.halving
    BY <1>1
<1> HIDE DEF M
<1> QED
    BY <1>2, <1>3

\* An epoch that is over below height h adds the same at the next height.
LEMMA EpochOver ==
  ASSUME NEW s \in Schedule, NEW h \in Nat, NEW e \in Nat, NEW before \in Nat,
         (e + 1) * s.halving <= h
  PROVE  AddEpoch(s, h + 1, e, before) = AddEpoch(s, h, e, before)
<1>1. (e + 1) * s.halving \in Nat
  <2>1. s.halving \in Nat
      BY DEF Schedule
  <2> QED
      BY <2>1, ProductStep
<1>2. AtMost(h + 1, (e + 1) * s.halving) = AtMost(h, (e + 1) * s.halving)
    BY <1>1 DEF AtMost
<1> QED
    BY <1>2 DEF AddEpoch

\* So the totals of such epochs do not depend on the height.
LEMMA TotalsAgree ==
  ASSUME NEW s \in Schedule, NEW h \in Nat \ {0},
         NEW e \in Nat, (e + 1) * s.halving <= h
  PROVE  EpochTotals(s, h + 1)[e] = EpochTotals(s, h)[e]
<1> DEFINE F == EpochTotals(s, h)
           F1 == EpochTotals(s, h + 1)
           N == (h - 1) \div s.halving
           N1 == h \div s.halving
           G == {n \in Nat : (n + 1) * s.halving <= h => F1[n] = F[n]}
<1>1. s.halving \in Nat \ {0}
    BY DEF Schedule
<1>2. /\ N \in Nat /\ F \in [0 .. N -> Nat]
      /\ F[0] = AddEpoch(s, h, 0, Scheduled(s, 0))
      /\ \A n \in 1 .. N : F[n] = AddEpoch(s, h, n, F[n - 1])
    BY EpochTotalsDef
<1>3. /\ N1 \in Nat /\ F1 \in [0 .. N1 -> Nat]
      /\ F1[0] = AddEpoch(s, h + 1, 0, Scheduled(s, 0))
      /\ \A n \in 1 .. N1 : F1[n] = AddEpoch(s, h + 1, n, F1[n - 1])
  <2>1. h + 1 \in Nat \ {0}
      OBVIOUS
  <2> QED
      BY <2>1, EpochTotalsAfter
<1>4. ASSUME NEW n \in Nat, (n + 1) * s.halving <= h
      PROVE  n <= N /\ n <= N1
  <2>0. h - 1 \in Nat /\ h \in Nat
      OBVIOUS
  <2>1. /\ h - 1 \in Nat /\ N * s.halving <= h - 1 /\ h - 1 < (N + 1) * s.halving
        /\ h < (N1 + 1) * s.halving
      BY <1>1, <2>0, Quotient
  <2>2. ASSUME NEW m \in Nat, n > m PROVE (m + 1) * s.halving <= n * s.halving
      BY <1>1, <2>2
  <2>3. (n + 1) * s.halving = n * s.halving + s.halving
      BY <1>1, ProductStep
  <2> HIDE DEF N, N1
  <2>4. n * s.halving \in Nat /\ \A m \in Nat : (m + 1) * s.halving \in Nat
      BY <1>1, ProductStep
  <2>5. n * s.halving <= h - 1
      BY <1>1, <1>4, <2>3, <2>4
  <2>6. ~(n > N)
      BY <1>2, <2>1, <2>2, <2>4, <2>5
  <2>7. ~(n > N1)
      BY <1>3, <2>1, <2>2, <2>4, <2>5
  <2> QED
      BY <1>2, <1>3, <2>6, <2>7
<1>5. 0 \in G
  <2>1. ASSUME (0 + 1) * s.halving <= h
        PROVE  AddEpoch(s, h + 1, 0, Scheduled(s, 0)) = AddEpoch(s, h, 0, Scheduled(s, 0))
    <3>1. Scheduled(s, 0) \in Nat
        BY ScheduledNat
    <3> QED
        BY <2>1, <3>1, EpochOver
  <2> HIDE DEF F, F1
  <2> QED
      BY <1>2, <1>3, <2>1
<1>6. ASSUME NEW n \in Nat, n \in G PROVE n + 1 \in G
  <2> SUFFICES ASSUME (n + 1 + 1) * s.halving <= h PROVE F1[n + 1] = F[n + 1]
      OBVIOUS
  <2>1. n + 1 <= N /\ n + 1 <= N1
      BY <1>4
  <2>2. (n + 1) * s.halving <= h
    <3>1. (n + 1 + 1) * s.halving = (n + 1) * s.halving + s.halving
        BY <1>1, ProductStep
    <3>2. (n + 1) * s.halving \in Nat
        BY <1>1, ProductStep
    <3> QED
        BY <1>1, <3>1, <3>2
  <2>3. F1[n] = F[n]
      BY <1>6, <2>2
  <2> HIDE DEF F, F1, N, N1, G
  <2>4. /\ n + 1 \in 1 .. N /\ n + 1 \in 1 .. N1 /\ n \in 0 .. N /\ n + 1 - 1 = n
      BY <1>2, <1>3, <2>1
  <2>5. F[n] \in Nat
      BY <1>2, <2>4
  <2>6. F[n + 1] = AddEpoch(s, h, n + 1, F[n]) /\ F1[n + 1] = AddEpoch(s, h + 1, n + 1, F[n])
      BY <1>2, <1>3, <2>3, <2>4
  <2>7. AddEpoch(s, h + 1, n + 1, F[n]) = AddEpoch(s, h, n + 1, F[n])
      BY <2>5, EpochOver
  <2> QED
      BY <2>6, <2>7
<1> HIDE DEF G, F, F1
<1>7. Nat \subseteq G
    BY <1>5, <1>6, SetInduction
<1> QED
    BY <1>7 DEF G, F, F1
----------------------------------------------------------------------------
(* The count by blocks *)

\* The supply below height k: that of the epochs that are over, and the blocks
\* of the running one.
LEMMA SupplyForm ==
  ASSUME NEW s \in Schedule, NEW h \in Nat, NEW k \in Nat \ {0}, k = h + 1,
         NEW e \in Nat, e = h \div s.halving,
         NEW first \in Nat, first = AtLeast(1, e * s.halving),
         NEW base, base = IF e = 0 THEN Scheduled(s, 0) ELSE EpochTotals(s, k)[e - 1]
  PROVE  /\ base \in Nat /\ first <= k /\ k - first \in Nat
         /\ SupplyUntil(s, k) = AtMost(base + (k - first) * Scheduled(s, first), s.cap)
<1>1. s.halving \in Nat \ {0} /\ s.cap \in Nat
    BY DEF Schedule
<1>2. /\ EpochTotals(s, k) \in [0 .. e -> Nat]
      /\ EpochTotals(s, k)[0] = AddEpoch(s, k, 0, Scheduled(s, 0))
      /\ \A n \in 1 .. e : EpochTotals(s, k)[n] = AddEpoch(s, k, n, EpochTotals(s, k)[n - 1])
    BY EpochTotalsAfter
<1>3. base \in Nat
  <2>1. Scheduled(s, 0) \in Nat
      BY ScheduledNat
  <2>2. e # 0 => e - 1 \in 0 .. e
      OBVIOUS
  <2> QED
      BY <1>2, <2>1, <2>2
<1>4. EpochTotals(s, k)[e] = AddEpoch(s, k, e, base)
  <2>1. e # 0 => e \in 1 .. e
      OBVIOUS
  <2> QED
      BY <1>2, <2>1
<1>5. e * s.halving <= h /\ h < (e + 1) * s.halving
    BY <1>1, Quotient
<1>6. e * s.halving \in Nat /\ (e + 1) * s.halving \in Nat
    BY <1>1, ProductStep
<1> DEFINE lo == e * s.halving
           hi == (e + 1) * s.halving
<1>7. /\ first <= k /\ k - first \in Nat
      /\ k - first = AtLeast(0, AtMost(k, hi) - AtLeast(1, lo))
  <2>1. first = AtLeast(1, lo) /\ lo \in Nat /\ hi \in Nat /\ lo <= h /\ h < hi
      BY <1>5, <1>6
  <2> HIDE DEF lo, hi
  <2> QED
      BY <2>1 DEF AtLeast, AtMost
<1>8. AtMost(AddEpoch(s, k, e, base), s.cap)
        = AtMost(base + (k - first) * Scheduled(s, first), s.cap)
  <2>1. Scheduled(s, first) \in Nat
      BY ScheduledNat
  <2>2. PICK n \in Nat, r \in Nat : n = k - first /\ r = Scheduled(s, first)
      BY <1>7, <2>1
  <2>3. AddEpoch(s, k, e, base) = IF r <= 0 \/ base >= s.cap THEN base ELSE base + n * r
    <3>1. /\ n = AtLeast(0, AtMost(k, (e + 1) * s.halving) - AtLeast(1, e * s.halving))
          /\ r = Scheduled(s, AtLeast(1, e * s.halving))
        BY <1>7, <2>2
    <3> QED
        BY <3>1 DEF AddEpoch
  <2>4. PICK y \in Nat : y = n * r /\ (r = 0 => y = 0)
      BY ProductStep
  <2>5. AddEpoch(s, k, e, base) = IF r <= 0 \/ base >= s.cap THEN base ELSE base + y
      BY <2>3, <2>4
  <2>6. AtMost(AddEpoch(s, k, e, base), s.cap) = AtMost(base + y, s.cap)
    <3> HIDE DEF lo, hi
    <3> QED
        BY <1>1, <1>3, <2>4, <2>5 DEF AtMost
  <2> QED
      BY <2>2, <2>4, <2>6
<1>9. SupplyUntil(s, k) = AtMost(EpochTotals(s, k)[e], s.cap)
  <2>1. ~(k <= 0) /\ k - 1 = h
      OBVIOUS
  <2> QED
      BY <2>1 DEF SupplyUntil
<1> QED
    BY <1>3, <1>4, <1>7, <1>8, <1>9

\* Every block from the first of its epoch has the reward of that one.
LEMMA SameReward ==
  ASSUME NEW s \in Schedule, NEW h \in Nat \ {0}, NEW e \in Nat, e = h \div s.halving,
         NEW first \in Nat, first = AtLeast(1, e * s.halving)
  PROVE  Scheduled(s, first) = Scheduled(s, h)
<1>1. s.halving \in Nat \ {0}
    BY DEF Schedule
<1>2. e * s.halving <= h /\ h < (e + 1) * s.halving
    BY <1>1, Quotient
<1>3. e * s.halving \in Nat /\ (e + 1) * s.halving \in Nat
    BY <1>1, ProductStep
<1>4. first # 0 /\ e * s.halving <= first /\ first < (e + 1) * s.halving
    BY <1>2, <1>3 DEF AtLeast
<1>5. first \div s.halving = e
    BY <1>1, <1>4, QuotientUnique
<1> QED
    BY <1>4, <1>5 DEF Scheduled

\* The count by epochs grows by one reward with each block, to the cap.
THEOREM SupplyStep ==
  ASSUME NEW s \in Schedule, NEW h \in Nat
  PROVE  SupplyUntil(s, h + 1) = AtMost(SupplyUntil(s, h) + Scheduled(s, h), s.cap)
<1>1. s.halving \in Nat \ {0} /\ s.cap \in Nat
    BY DEF Schedule
<1>2. PICK k \in Nat \ {0} : k = h + 1
    OBVIOUS
<1>3. PICK e \in Nat : e = h \div s.halving
    BY <1>1, Quotient
<1>4. e * s.halving \in Nat /\ e * s.halving <= h /\ h < (e + 1) * s.halving
  <2>1. e * s.halving <= h /\ h < (e + 1) * s.halving
      BY <1>1, <1>3, Quotient
  <2> QED
      BY <1>1, <2>1, ProductStep
<1>5. PICK first \in Nat : first = AtLeast(1, e * s.halving)
    BY <1>4 DEF AtLeast
<1>6. PICK base : base = IF e = 0 THEN Scheduled(s, 0) ELSE EpochTotals(s, k)[e - 1]
    OBVIOUS
<1>7. /\ base \in Nat /\ k - first \in Nat
      /\ SupplyUntil(s, k) = AtMost(base + (k - first) * Scheduled(s, first), s.cap)
    BY <1>2, <1>3, <1>5, <1>6, SupplyForm
<1>8. CASE h = 0
  <2>1. e = 0 /\ first = 1 /\ k = 1
      BY <1>1, <1>2, <1>3, <1>4, <1>5, <1>8 DEF AtLeast
  <2>2. base = Scheduled(s, 0) /\ Scheduled(s, 1) \in Nat /\ Scheduled(s, 0) \in Nat
      BY <1>6, <2>1, ScheduledNat
  <2>3. (k - first) * Scheduled(s, first) = 0
      BY <2>1, <2>2
  <2>4. SupplyUntil(s, h) = 0
      BY <1>8 DEF SupplyUntil
  <2>5. SupplyUntil(s, k) = AtMost(base + 0, s.cap)
      BY <1>7, <2>3
  <2>6. base + 0 = 0 + Scheduled(s, h)
      BY <1>8, <2>2
  <2> QED
      BY <1>2, <2>4, <2>5, <2>6
<1>9. CASE h # 0
  <2>1. PICK g \in Nat : h = g + 1 /\ h \in Nat \ {0}
      BY <1>9
  <2>2. Scheduled(s, first) = Scheduled(s, h)
      BY <1>3, <1>5, <2>1, SameReward
  <2>3. Scheduled(s, h) \in Nat
      BY ScheduledNat
  <2>4. e # 0 => EpochTotals(s, h + 1)[e - 1] = EpochTotals(s, h)[e - 1]
    <3>1. SUFFICES ASSUME e # 0 PROVE EpochTotals(s, h + 1)[e - 1] = EpochTotals(s, h)[e - 1]
        OBVIOUS
    <3>2. PICK d \in Nat : d = e - 1
        BY <3>1
    <3>3. (d + 1) * s.halving <= h
        BY <1>4, <3>2
    <3> QED
        BY <2>1, <3>2, <3>3, TotalsAgree
  <2>5. base = IF e = 0 THEN Scheduled(s, 0) ELSE EpochTotals(s, h)[e - 1]
      BY <1>2, <1>6, <2>4
  <2>6. CASE e * s.halving < h
    <3>1. e = g \div s.halving
      <4>1. e * s.halving <= g /\ g < (e + 1) * s.halving
        <5>1. (e + 1) * s.halving \in Nat
            BY <1>1, ProductStep
        <5> QED
            BY <1>4, <2>1, <2>6, <5>1
      <4> QED
          BY <1>1, <4>1, QuotientUnique
    <3>2. /\ h - first \in Nat
          /\ SupplyUntil(s, h) = AtMost(base + (h - first) * Scheduled(s, first), s.cap)
        BY <1>5, <2>1, <2>5, <3>1, SupplyForm
    <3>3. PICK n \in Nat : n = h - first
        BY <3>2
    <3>4. k - first = n + 1
        BY <1>2, <3>3
    <3>5. PICK r \in Nat, cap \in Nat : r = Scheduled(s, h) /\ cap = s.cap
        BY <1>1, <2>3
    <3>6. AtMost(base + (n + 1) * r, cap) = AtMost(AtMost(base + n * r, cap) + r, cap)
      <4>1. PICK y \in Nat : y = n * r /\ (n + 1) * r = y + r
          BY ProductStep
      <4>2. AtMost(base + (y + r), cap) = AtMost(AtMost(base + y, cap) + r, cap)
          BY <1>7 DEF AtMost
      <4> QED
          BY <4>1, <4>2
    <3> QED
        BY <1>2, <1>7, <2>2, <3>2, <3>3, <3>4, <3>5, <3>6
  <2>7. CASE e * s.halving = h
    <3>1. e # 0 /\ first = h /\ k - first = 1
        BY <1>1, <1>2, <1>5, <2>1, <2>7 DEF AtLeast
    <3>2. PICK d \in Nat : d = e - 1 /\ e = d + 1
        BY <3>1
    <3>3. d = g \div s.halving
      <4>1. (d + 1) * s.halving = d * s.halving + s.halving /\ d * s.halving \in Nat
          BY <1>1, ProductStep
      <4>2. d * s.halving <= g /\ g < (d + 1) * s.halving
          BY <1>1, <2>1, <2>7, <3>2, <4>1
      <4> QED
          BY <1>1, <4>2, QuotientUnique
    <3>4. SupplyUntil(s, h) = AtMost(base, s.cap)
      <4>1. h - 1 = g /\ ~(h <= 0)
          BY <2>1
      <4>2. SupplyUntil(s, h) = AtMost(EpochTotals(s, h)[d], s.cap)
          BY <3>3, <4>1 DEF SupplyUntil
      <4> QED
          BY <2>5, <3>1, <3>2, <4>2
    <3>5. (k - first) * Scheduled(s, first) = Scheduled(s, h)
        BY <2>2, <2>3, <3>1
    <3>6. AtMost(base + Scheduled(s, h), s.cap)
            = AtMost(AtMost(base, s.cap) + Scheduled(s, h), s.cap)
        BY <1>1, <1>7, <2>3 DEF AtMost
    <3> QED
        BY <1>2, <1>7, <3>4, <3>5, <3>6
  <2> QED
      BY <1>4, <2>6, <2>7
<1> QED
    BY <1>8, <1>9

\* The supply is a natural number within the cap.
LEMMA SupplyNat ==
  ASSUME NEW s \in Schedule, NEW h \in Nat
  PROVE  SupplyUntil(s, h) \in Nat /\ SupplyUntil(s, h) <= s.cap
<1>1. s.cap \in Nat
    BY DEF Schedule
<1> DEFINE G == {n \in Nat : SupplyUntil(s, n) \in Nat /\ SupplyUntil(s, n) <= s.cap}
<1>2. 0 \in G
    BY <1>1 DEF SupplyUntil
<1>3. ASSUME NEW n \in Nat, n \in G PROVE n + 1 \in G
  <2>1. Scheduled(s, n) \in Nat
      BY ScheduledNat
  <2>2. SupplyUntil(s, n + 1) = AtMost(SupplyUntil(s, n) + Scheduled(s, n), s.cap)
      BY SupplyStep
  <2> QED
      BY <1>1, <1>3, <2>1, <2>2 DEF AtMost
<1> HIDE DEF G
<1>4. Nat \subseteq G
    BY <1>2, <1>3, SetInduction
<1> QED
    BY <1>4 DEF G

\* So a block's subsidy is what brings the supply to that of the next height.
LEMMA RewardIsTheStep ==
  ASSUME NEW s \in Schedule, NEW h \in Nat
  PROVE  /\ BlockReward(s, h) \in Nat
         /\ SupplyUntil(s, h) + BlockReward(s, h) = SupplyUntil(s, h + 1)
         /\ BlockReward(s, h) = AtMost(Scheduled(s, h), AtLeast(0, s.cap - SupplyUntil(s, h)))
<1>1. s.cap \in Nat /\ Scheduled(s, h) \in Nat
    BY ScheduledNat DEF Schedule
<1>2. SupplyUntil(s, h) \in Nat /\ SupplyUntil(s, h) <= s.cap
    BY SupplyNat
<1>3. SupplyUntil(s, h + 1) = AtMost(SupplyUntil(s, h) + Scheduled(s, h), s.cap)
    BY SupplyStep
<1> QED
    BY <1>1, <1>2, <1>3 DEF BlockReward, AtMost, AtLeast
----------------------------------------------------------------------------
(* The subsidies of a chain *)

Chain(p) == /\ \E S : p \in Seq(S)
            /\ \A i \in 1 .. Len(p) : p[i].ts \in Int /\ p[i].coin \in Nat

\* The first blocks of a chain are a chain.
LEMMA PrefixOf ==
  ASSUME NEW p, Chain(p), NEW n \in 0 .. Len(p)
  PROVE  /\ Chain(SubSeq(p, 1, n)) /\ Len(SubSeq(p, 1, n)) = n
         /\ \A i \in 1 .. n : SubSeq(p, 1, n)[i] = p[i]
<1>1. PICK S : p \in Seq(S)
    BY DEF Chain
<1>2. Len(p) \in Nat /\ n \in Nat
    BY <1>1
<1>3. /\ SubSeq(p, 1, n) \in Seq(S) /\ Len(SubSeq(p, 1, n)) = n
      /\ \A i \in 1 .. n : SubSeq(p, 1, n)[i] = p[i]
  <2>1. \A i \in 1 .. n : p[i] \in S
      BY <1>1, <1>2
  <2> QED
      BY <1>1, <1>2, <2>1, SubSeqProperties
<1> QED
    BY <1>2, <1>3 DEF Chain

\* A block more makes a chain, whose first blocks are those of the shorter one.
LEMMA BlockMore ==
  ASSUME NEW p, Chain(p), NEW b, b.ts \in Int, b.coin \in Nat
  PROVE  LET q == Append(p, b)
         IN  /\ Chain(q) /\ Len(p) \in Nat /\ Len(q) = Len(p) + 1
             /\ q[Len(p) + 1] = b /\ SubSeq(q, 1, Len(p)) = p
             /\ \A i \in 1 .. Len(p) : q[i] = p[i] /\ SubSeq(q, 1, i - 1) = SubSeq(p, 1, i - 1)
<1> DEFINE q == Append(p, b)
<1>1. PICK S : p \in Seq(S)
    BY DEF Chain
<1>2. PICK T : T = S \cup {b}
    OBVIOUS
<1>3. p \in Seq(T) /\ q \in Seq(T) /\ Len(p) \in Nat
    BY <1>1, <1>2
<1>4. /\ Len(q) = Len(p) + 1 /\ q[Len(p) + 1] = b
      /\ \A i \in 1 .. Len(p) : q[i] = p[i]
    BY <1>3
<1>5. Chain(q)
  <2>1. ASSUME NEW i \in 1 .. Len(q) PROVE q[i].ts \in Int /\ q[i].coin \in Nat
    <3>1. i \in 1 .. Len(p) \/ i = Len(p) + 1
        BY <1>3, <1>4
    <3> QED
        BY <1>4, <3>1 DEF Chain
  <2> QED
      BY <1>3, <2>1 DEF Chain
<1>6. ASSUME NEW n \in 0 .. Len(p)
      PROVE  SubSeq(q, 1, n) = SubSeq(p, 1, n)
  <2>1. n \in 0 .. Len(q)
      BY <1>3, <1>4
  <2>2. /\ \E A : SubSeq(q, 1, n) \in Seq(A) /\ Len(SubSeq(q, 1, n)) = n
        /\ \A i \in 1 .. n : SubSeq(q, 1, n)[i] = q[i]
      BY <1>5, <2>1, PrefixOf DEF Chain
  <2>3. /\ \E A : SubSeq(p, 1, n) \in Seq(A) /\ Len(SubSeq(p, 1, n)) = n
        /\ \A i \in 1 .. n : SubSeq(p, 1, n)[i] = p[i]
      BY PrefixOf DEF Chain
  <2> HIDE DEF q
  <2>4. \A i \in 1 .. n : q[i] = p[i]
      BY <1>3, <1>4
  <2> QED
      BY <2>2, <2>3, <2>4
<1>7. SubSeq(p, 1, Len(p)) = p
    BY <1>1, SubSeqFull
<1>8. \A i \in 1 .. Len(p) : i - 1 \in 0 .. Len(p)
    BY <1>3
<1> HIDE DEF q
<1>9. SubSeq(q, 1, Len(p)) = p
    BY <1>3, <1>6, <1>7
<1>10. \A i \in 1 .. Len(p) : SubSeq(q, 1, i - 1) = SubSeq(p, 1, i - 1)
    BY <1>6, <1>8
<1> QED
    BY <1>3, <1>4, <1>5, <1>9, <1>10 DEF q

\* The running sum of _validate_complete_chain, block by block.
LEMMA TotalsDef ==
  ASSUME NEW p, Chain(p)
  PROVE  /\ Len(p) \in Nat /\ Totals(p) \in [0 .. Len(p) -> Nat] /\ Totals(p)[0] = 0
         /\ \A i \in 1 .. Len(p) : Totals(p)[i] = Totals(p)[i - 1] + p[i].coin
<1> DEFINE IsTotal(f) == f = [i \in 0 .. Len(p) |-> IF i = 0 THEN 0 ELSE f[i - 1] + p[i].coin]
           step == [i \in 1 .. Len(p) |-> [x \in Nat |-> x + p[i].coin]]
<1>1. Len(p) \in Nat /\ \A i \in 1 .. Len(p) : p[i].coin \in Nat
    BY DEF Chain
<1>2. step \in [1 .. Len(p) -> [Nat -> Nat]]
    BY <1>1
<1>3. PICK f \in [0 .. Len(p) -> Nat] : Iterates(f, Len(p), 0, step)
  <2> HIDE DEF step
  <2> QED
      BY <1>1, <1>2, IterationExists
<1>4. f[0] = 0 /\ \A i \in 1 .. Len(p) : f[i] = f[i - 1] + p[i].coin
  <2>1. \A i \in 1 .. Len(p) : i - 1 \in 0 .. Len(p)
      BY <1>1
  <2> QED
      BY <1>3, <2>1 DEF Iterates
<1>5. IsTotal(f)
  <2>1. ASSUME NEW i \in 0 .. Len(p)
        PROVE  f[i] = IF i = 0 THEN 0 ELSE f[i - 1] + p[i].coin
    <3>1. i = 0 \/ i \in 1 .. Len(p)
        BY <1>1
    <3> QED
        BY <1>4, <3>1
  <2>2. f = [i \in 0 .. Len(p) |-> f[i]]
      BY <1>3
  <2> QED
      BY <2>1, <2>2
<1>6. Totals(p) = CHOOSE g : IsTotal(g)
    BY DEF Totals
<1>7. IsTotal(Totals(p))
  <2> HIDE DEF IsTotal
  <2> QED
      BY <1>5, <1>6
<1> DEFINE F == Totals(p)
           G == {n \in Nat : n \in 0 .. Len(p) => F[n] \in Nat}
<1>8. F[0] = 0 /\ \A i \in 1 .. Len(p) : F[i] = F[i - 1] + p[i].coin
  <2> HIDE DEF F
  <2>1. F = [i \in 0 .. Len(p) |-> IF i = 0 THEN 0 ELSE F[i - 1] + p[i].coin]
      BY <1>7 DEF F
  <2>2. 0 \in 0 .. Len(p) /\ \A i \in 1 .. Len(p) : i \in 0 .. Len(p) /\ i # 0
      BY <1>1
  <2> QED
      BY <2>1, <2>2
<1> HIDE DEF F, IsTotal
<1>9. 0 \in G
    BY <1>8
<1>10. ASSUME NEW n \in Nat, n \in G PROVE n + 1 \in G
  <2>1. n + 1 \in 0 .. Len(p) => n + 1 \in 1 .. Len(p) /\ n \in 0 .. Len(p) /\ n + 1 - 1 = n
      BY <1>1
  <2> QED
      BY <1>1, <1>8, <1>10, <2>1
<1> HIDE DEF G
<1>11. Nat \subseteq G
    BY <1>9, <1>10, SetInduction
<1>12. \A n \in 0 .. Len(p) : F[n] \in Nat
    BY <1>1, <1>11 DEF G
<1>13. F \in [0 .. Len(p) -> Nat]
  <2>1. F = [i \in 0 .. Len(p) |-> IF i = 0 THEN 0 ELSE F[i - 1] + p[i].coin]
      BY <1>7 DEF IsTotal, F
  <2> QED
      BY <1>12, <2>1
<1> QED
    BY <1>1, <1>8, <1>13 DEF F

\* What the first blocks minted is the running sum at that point.
LEMMA PrefixMinted ==
  ASSUME NEW p, Chain(p), NEW n \in 0 .. Len(p)
  PROVE  Minted(SubSeq(p, 1, n)) = Totals(p)[n]
<1> DEFINE q == SubSeq(p, 1, n)
<1>1. Chain(q) /\ Len(q) = n /\ (\A i \in 1 .. n : q[i] = p[i])
    BY PrefixOf
<1>2. /\ Len(p) \in Nat /\ Totals(p)[0] = 0
      /\ \A i \in 1 .. Len(p) : Totals(p)[i] = Totals(p)[i - 1] + p[i].coin
    BY TotalsDef
<1> HIDE DEF q
<1>3. /\ Totals(q)[0] = 0
      /\ \A i \in 1 .. n : Totals(q)[i] = Totals(q)[i - 1] + q[i].coin
    BY <1>1, TotalsDef
<1> DEFINE G == {i \in Nat : i <= n => Totals(q)[i] = Totals(p)[i]}
<1>4. 0 \in G
    BY <1>2, <1>3
<1>5. ASSUME NEW i \in Nat, i \in G PROVE i + 1 \in G
  <2>1. SUFFICES ASSUME i + 1 <= n PROVE Totals(q)[i + 1] = Totals(p)[i + 1]
      OBVIOUS
  <2>2. i + 1 \in 1 .. n /\ i + 1 \in 1 .. Len(p) /\ i + 1 - 1 = i /\ i <= n
      BY <1>2, <2>1
  <2>3. Totals(q)[i] = Totals(p)[i]
      BY <1>5, <2>2
  <2> QED
      BY <1>1, <1>2, <1>3, <2>2, <2>3
<1> HIDE DEF G
<1>6. Nat \subseteq G
    BY <1>4, <1>5, SetInduction
<1>7. n \in Nat /\ n <= n
    BY <1>2
<1>8. Totals(q)[n] = Totals(p)[n]
    BY <1>6, <1>7 DEF G
<1>9. Minted(q) = Totals(q)[n]
    BY <1>1 DEF Minted
<1> QED
    BY <1>8, <1>9 DEF q

\* A subsidy by the running sum is a natural number.
LEMMA RunningRewardNat ==
  ASSUME rules.schedule \in Schedule, NEW p, Chain(p)
  PROVE  Minted(p) \in Nat /\ RunningReward(p) \in Nat
<1>1. Len(p) \in Nat /\ Minted(p) \in Nat
    BY TotalsDef DEF Minted
<1>2. Scheduled(rules.schedule, Len(p)) \in Nat
    BY <1>1, ScheduledNat
<1>3. rules.schedule.cap \in Nat
    BY DEF Schedule
<1> QED
    BY <1>1, <1>2, <1>3 DEF RunningReward, AtMost, AtLeast

\* A chain whose subsidies pass the running sum has minted what the count by
\* epochs says.
LEMMA MintedIsSupply ==
  ASSUME rules.schedule \in Schedule, NEW p, Chain(p),
         \A i \in 1 .. Len(p) : p[i].coin = RunningReward(SubSeq(p, 1, i - 1))
  PROVE  /\ Len(p) \in Nat
         /\ Minted(p) = SupplyUntil(rules.schedule, Len(p))
<1>1. /\ Len(p) \in Nat /\ Totals(p)[0] = 0
      /\ \A i \in 1 .. Len(p) : Totals(p)[i] = Totals(p)[i - 1] + p[i].coin
    BY TotalsDef
<1> DEFINE G == {i \in Nat : i <= Len(p) => Totals(p)[i] = SupplyUntil(rules.schedule, i)}
<1>2. 0 \in G
    BY <1>1 DEF SupplyUntil
<1>3. ASSUME NEW n \in Nat, n \in G PROVE n + 1 \in G
  <2>1. SUFFICES ASSUME n + 1 <= Len(p)
                 PROVE  Totals(p)[n + 1] = SupplyUntil(rules.schedule, n + 1)
      OBVIOUS
  <2>2. n + 1 \in 1 .. Len(p) /\ n + 1 - 1 = n /\ n \in 0 .. Len(p)
      BY <1>1, <2>1
  <2>3. Totals(p)[n] = SupplyUntil(rules.schedule, n)
      BY <1>3, <2>2
  <2>4. Len(SubSeq(p, 1, n)) = n /\ Minted(SubSeq(p, 1, n)) = Totals(p)[n]
      BY <2>2, PrefixOf, PrefixMinted
  <2>5. RunningReward(SubSeq(p, 1, n)) = BlockReward(rules.schedule, n)
      BY <2>3, <2>4 DEF RunningReward, BlockReward
  <2>6. p[n + 1].coin = BlockReward(rules.schedule, n)
      BY <2>2, <2>5
  <2>7. Totals(p)[n + 1] = Totals(p)[n] + p[n + 1].coin
      BY <1>1, <2>2
  <2> QED
      BY <2>3, <2>6, <2>7, RewardIsTheStep
<1> HIDE DEF G
<1>4. Nat \subseteq G
    BY <1>2, <1>3, SetInduction
<1>5. Totals(p)[Len(p)] = SupplyUntil(rules.schedule, Len(p))
    BY <1>1, <1>4 DEF G
<1> QED
    BY <1>1, <1>5 DEF Minted
----------------------------------------------------------------------------
(* The two validations *)

\* The chain and the clock have their types; beside that a chain need only pass
\* as a whole, for the count by epochs follows.
RulesInv == /\ rules \in RulesBounds /\ clock \in Int
            /\ Chain(headers)
            /\ CompleteChainAccepted(headers, clock)

\* The schedule explored is one.
LEMMA RulesHaveSchedule ==
  ASSUME rules \in RulesBounds
  PROVE  /\ rules.schedule \in Schedule /\ FutureDrift \in Nat
         /\ rules.delays \subseteq Nat /\ rules.skews \subseteq Int
  BY RulesAssumption

\* What passes as a whole has minted what the count by epochs says.
LEMMA AcceptedIsSupply ==
  ASSUME rules.schedule \in Schedule, NEW p, Chain(p), NEW now, CompleteChainAccepted(p, now)
  PROVE  /\ Len(p) \in Nat
         /\ Minted(p) = SupplyUntil(rules.schedule, Len(p))
<1>1. DOMAIN p = 1 .. Len(p)
    BY DEF Chain
<1>2. \A i \in 1 .. Len(p) : p[i].coin = RunningReward(SubSeq(p, 1, i - 1))
    BY <1>1 DEF CompleteChainAccepted, AcceptedAfter
<1> QED
    BY <1>2, MintedIsSupply

\* What passes as a whole does so later.
LEMMA AcceptedLater ==
  ASSUME NEW p, Chain(p), NEW now \in Int, NEW later \in Int, now <= later,
         FutureDrift \in Nat, CompleteChainAccepted(p, now)
  PROVE  CompleteChainAccepted(p, later)
<1>1. ASSUME NEW i \in DOMAIN p PROVE p[i].ts <= now + FutureDrift => p[i].ts <= later + FutureDrift
  <2>1. i \in 1 .. Len(p)
      BY DEF Chain
  <2>2. p[i].ts \in Int
      BY <2>1 DEF Chain
  <2> QED
      BY <2>2
<1> QED
    BY <1>1 DEF CompleteChainAccepted, AcceptedAfter

\* A block that passes alone, on the tip of a chain that passes as a whole, makes
\* a chain that does.
LEMMA AloneThenWhole ==
  ASSUME rules.schedule \in Schedule, NEW p, Chain(p), NEW now,
         CompleteChainAccepted(p, now),
         NEW b, b.ts \in Int, AcceptedAlone(p, b, now)
  PROVE  Chain(Append(p, b)) /\ CompleteChainAccepted(Append(p, b), now)
<1> DEFINE q == Append(p, b)
<1>1. Len(p) \in Nat /\ Minted(p) = SupplyUntil(rules.schedule, Len(p))
    BY AcceptedIsSupply
<1>2. b.coin = BlockReward(rules.schedule, Len(p)) /\ b.coin \in Nat
    BY <1>1, RewardIsTheStep DEF AcceptedAlone
<1>3. /\ Chain(q) /\ Len(q) = Len(p) + 1 /\ q[Len(p) + 1] = b /\ SubSeq(q, 1, Len(p)) = p
      /\ \A i \in 1 .. Len(p) : q[i] = p[i] /\ SubSeq(q, 1, i - 1) = SubSeq(p, 1, i - 1)
    BY <1>2, BlockMore
<1>4. AcceptedAfter(p, b, now)
  <2>1. b.coin = RunningReward(p)
      BY <1>1, <1>2 DEF BlockReward, RunningReward
  <2>2. p # << >> => MedianTimePast(p) = Median(Window(p, MtpWindows))
      BY DEF MedianTimePast
  <2> QED
      BY <2>1, <2>2 DEF AcceptedAlone, AcceptedAfter
<1> HIDE DEF q
<1>5. ASSUME NEW i \in DOMAIN q PROVE AcceptedAfter(SubSeq(q, 1, i - 1), q[i], now)
  <2>1. DOMAIN q = 1 .. Len(q) /\ DOMAIN p = 1 .. Len(p)
      BY <1>3 DEF Chain
  <2>2. i \in 1 .. Len(p) \/ i = Len(p) + 1
      BY <1>1, <1>3, <2>1
  <2>3. CASE i \in 1 .. Len(p)
      BY <1>3, <2>1, <2>3 DEF CompleteChainAccepted
  <2>4. CASE i = Len(p) + 1
    <3>1. i - 1 = Len(p)
        BY <1>1, <2>4
    <3> QED
        BY <1>3, <1>4, <2>4, <3>1
  <2> QED
      BY <2>2, <2>3, <2>4
<1> QED
    BY <1>3, <1>5 DEF CompleteChainAccepted, q

\* A block of a branch makes a chain.
LEMMA BranchIsChain ==
  ASSUME rules.schedule \in Schedule, NEW p, Chain(p), NEW ts \in Int
  PROVE  Chain(Branch(p, ts))
<1> DEFINE b == [ts |-> ts, bits |-> ExpectedBits(p), coin |-> RunningReward(p)]
<1>1. b.ts \in Int /\ b.coin \in Nat
    BY RunningRewardNat
<1> HIDE DEF b
<1>2. Chain(Append(p, b))
    BY <1>1, BlockMore
<1> QED
    BY <1>2 DEF Branch, b

\* An empty chain passes.
LEMMA RulesInitInv ==
  ASSUME RulesInit
  PROVE  RulesInv
<1>1. headers = << >> /\ headers \in Seq({}) /\ Len(headers) = 0 /\ DOMAIN headers = {}
    BY DEF RulesInit
<1> QED
    BY <1>1 DEF RulesInit, RulesInv, Chain, CompleteChainAccepted

\* A step keeps the chain acceptable as a whole.
LEMMA RulesNextInv ==
  ASSUME RulesInv, [RulesNext]_rulesVars
  PROVE  RulesInv'
<1>1. /\ rules \in RulesBounds /\ clock \in Int /\ Chain(headers)
      /\ CompleteChainAccepted(headers, clock)
      /\ rules.schedule \in Schedule /\ FutureDrift \in Nat
      /\ rules.delays \subseteq Nat /\ rules.skews \subseteq Int
    BY RulesHaveSchedule DEF RulesInv
<1>2. SUFFICES \E now \in Int : \E new :
                 /\ Chain(new) /\ CompleteChainAccepted(new, now)
                 /\ headers' = new /\ clock' = now /\ rules' = rules
  <2>1. PICK now \in Int : \E new :
          /\ Chain(new) /\ CompleteChainAccepted(new, now)
          /\ headers' = new /\ clock' = now /\ rules' = rules
      BY <1>2
  <2>2. Chain(headers)'
      BY <2>1 DEF Chain
  <2>3. CompleteChainAccepted(headers, clock)'
      BY <2>1 DEF CompleteChainAccepted, AcceptedAfter, RunningReward
  <2> QED
      BY <1>1, <2>1, <2>2, <2>3 DEF RulesInv
<1>3. CASE MineOnTip
  <2>1. PICK delay \in rules.delays, skew \in rules.skews :
          LET now == clock + delay
              b   == [ts |-> now + skew, bits |-> ExpectedBits(headers),
                      coin |-> BlockReward(rules.schedule, Len(headers))]
          IN  /\ AcceptedAlone(headers, b, now)
              /\ clock' = now
              /\ headers' = Append(headers, b)
      BY <1>3 DEF MineOnTip
  <2> DEFINE now == clock + delay
             b   == [ts |-> now + skew, bits |-> ExpectedBits(headers),
                     coin |-> BlockReward(rules.schedule, Len(headers))]
  <2>2. now \in Int /\ clock <= now /\ b.ts \in Int
      BY <1>1
  <2>3. AcceptedAlone(headers, b, now) /\ clock' = now /\ headers' = Append(headers, b)
      BY <2>1
  <2> HIDE DEF now, b
  <2>4. CompleteChainAccepted(headers, now)
      BY <1>1, <2>2, AcceptedLater
  <2>5. Chain(Append(headers, b)) /\ CompleteChainAccepted(Append(headers, b), now)
      BY <1>1, <2>2, <2>3, <2>4, AloneThenWhole
  <2>6. rules' = rules
      BY <1>3 DEF MineOnTip
  <2> QED
      BY <2>2, <2>3, <2>5, <2>6
<1>4. CASE AdoptBranch
  <2> DEFINE kept == SubSeq(headers, 1, Len(headers) - 1)
             one(first) == Branch(kept, clock + first)
             two(first, second) == Branch(one(first), clock + second)
  <2>1. PICK first \in rules.skews, second \in rules.skews :
          \E new \in {one(first), two(first, second)} :
            CompleteChainAccepted(new, clock) /\ headers' = new
      BY <1>4 DEF AdoptBranch
  <2>2. Len(headers) >= 2 /\ clock' = clock /\ rules' = rules
      BY <1>4 DEF AdoptBranch
  <2>3. Chain(kept)
    <3>1. Len(headers) \in Nat
        BY <1>1 DEF Chain
    <3>2. Len(headers) - 1 \in 0 .. Len(headers)
        BY <2>2, <3>1
    <3> QED
        BY <1>1, <3>2, PrefixOf
  <2> HIDE DEF kept
  <2>4. clock + first \in Int /\ clock + second \in Int
      BY <1>1
  <2>5. Chain(one(first))
      BY <1>1, <2>3, <2>4, BranchIsChain
  <2>6. Chain(two(first, second))
    <3> HIDE DEF one
    <3> QED
        BY <1>1, <2>4, <2>5, BranchIsChain
  <2> QED
      BY <1>1, <2>1, <2>2, <2>5, <2>6
<1>5. CASE UNCHANGED rulesVars
    BY <1>1, <1>5 DEF rulesVars
<1> QED
    BY <1>3, <1>4, <1>5 DEF RulesNext

\* The invariant is what was to be shown.
LEMMA RulesInvAgrees ==
  ASSUME RulesInv
  PROVE  WholeChainAgrees
<1>1. rules.schedule \in Schedule
    BY RulesHaveSchedule DEF RulesInv
<1>2. /\ Len(headers) \in Nat
      /\ Minted(headers) = SupplyUntil(rules.schedule, Len(headers))
    BY <1>1, AcceptedIsSupply DEF RulesInv
<1> QED
    BY <1>1, <1>2, SupplyNat DEF RulesInv, WholeChainAgrees

\* Whatever the schedule, the clocks and the sizes, a chain taken block by block or
\* in branches passes as a whole, and its subsidies are the count by epochs.
THEOREM WholeAlwaysAgrees == RulesSpec => []WholeChainAgrees
<1>1. RulesInit => RulesInv
    BY RulesInitInv
<1>2. RulesInv /\ [RulesNext]_rulesVars => RulesInv'
    BY RulesNextInv
<1>3. RulesInv => WholeChainAgrees
    BY RulesInvAgrees
<1> QED
    BY <1>1, <1>2, <1>3, PTL DEF RulesSpec

----------------------------------------------------------------------------
(* Powers of two: the bytes of a number *)

\* A byte more multiplies; Shift(n) is a power of two, and its exponents add up.
LEMMA ShiftSum ==
  ASSUME NEW a \in Nat, NEW b \in Nat
  PROVE  /\ Shift(a) \in Nat /\ Shift(a) >= 1
         /\ Shift(a + b) = Shift(a) * Shift(b)
         /\ Shift(a) <= Shift(a + b)
<1>1. PICK k \in Nat : k = ByteBits /\ k >= 1
    BY RetargetAssumption
<1>2. k * a \in Nat /\ k * b \in Nat /\ k * (a + b) = k * a + k * b
    BY Products
<1>3. PICK m \in Nat, n \in Nat : m = k * a /\ n = k * b
    BY <1>2
<1>4. 2 ^ (m + n) = 2 ^ m * 2 ^ n /\ 2 ^ m \in Nat /\ 2 ^ n \in Nat /\ 2 ^ m >= 1 /\ 2 ^ n >= 1
    BY PowerSum
<1>5. Shift(a) = 2 ^ m /\ Shift(b) = 2 ^ n /\ Shift(a + b) = 2 ^ (m + n)
    BY <1>1, <1>2, <1>3 DEF Shift
<1>6. PICK x \in Nat, y \in Nat : x = Shift(a) /\ y = Shift(b) /\ x >= 1 /\ y >= 1
    BY <1>4, <1>5
<1>7. Shift(a + b) = x * y
    BY <1>4, <1>5, <1>6
<1>8. x <= x * y
    BY <1>6, Products
<1> QED
    BY <1>6, <1>7, <1>8

\* More bytes, more room.
LEMMA ShiftGrows ==
  ASSUME NEW a \in Nat, NEW b \in Nat
  PROVE  /\ a <= b => Shift(a) <= Shift(b) /\ Shift(b) = Shift(a) * Shift(b - a)
         /\ Shift(a) < Shift(b) => a < b
<1>1. ASSUME NEW x \in Nat, NEW y \in Nat, x <= y
      PROVE  Shift(x) <= Shift(y) /\ Shift(y) = Shift(x) * Shift(y - x)
  <2>1. PICK d \in Nat : d = y - x /\ y = x + d
      BY <1>1
  <2>2. Shift(x + d) = Shift(x) * Shift(d) /\ Shift(x) <= Shift(x + d)
      BY ShiftSum
  <2> QED
      BY <2>1, <2>2
<1>2. Shift(a) \in Nat /\ Shift(b) \in Nat
    BY ShiftSum
<1>3. ~(a < b) => b <= a
    OBVIOUS
<1> QED
    BY <1>1, <1>2, <1>3

\* The sign bit lies in the third byte.
LEMMA SignBitFacts ==
  /\ SignBit \in Nat /\ Shift(2) <= SignBit /\ SignBit <= Shift(3)
  /\ \E h \in Nat : SignBit = h * Shift(1)
<1>1. PICK k \in Nat : k = ByteBits /\ k >= 1
    BY RetargetAssumption
<1>2. PICK m \in Nat, n \in Nat : m = k + k - 1 /\ n = m + k
    BY <1>1
<1>3. SignBit = 2 ^ n /\ Shift(1) = 2 ^ k /\ Shift(2) = 2 ^ (k + k) /\ Shift(3) = 2 ^ (n + 1)
  <2>1. 3 * k - 1 = n /\ k * 1 = k /\ k * 2 = k + k /\ k * 3 = n + 1
      BY <1>2
  <2> QED
      BY <1>1, <2>1 DEF SignBit, Shift
<1>4. 2 ^ n = 2 ^ m * 2 ^ k /\ 2 ^ m \in Nat
    BY <1>2, PowerSum
<1>5. 2 ^ n \in Nat /\ 2 ^ (n + 1) = 2 ^ n + 2 ^ n
    BY PowerDoubles
<1>6. PICK d \in Nat : n = (k + k) + d
    BY <1>1, <1>2
<1>7. 2 ^ (k + k) <= 2 ^ n
  <2>1. 2 ^ n = 2 ^ (k + k) * 2 ^ d /\ 2 ^ d \in Nat /\ 2 ^ d >= 1
      BY <1>6, PowerSum
  <2>2. 2 ^ (k + k) \in Nat
      BY PowerSum
  <2> QED
      BY <2>1, <2>2, Products
<1>8. PICK s \in Nat : s = 2 ^ n
    BY <1>5
<1>9. 2 ^ (n + 1) = s + s
    BY <1>5, <1>8
<1>10. SignBit \in Nat /\ SignBit <= Shift(3)
    BY <1>3, <1>8, <1>9
<1>11. Shift(2) <= SignBit
    BY <1>3, <1>7
<1>12. \E h \in Nat : SignBit = h * Shift(1)
    BY <1>3, <1>4
<1> QED
    BY <1>10, <1>11, <1>12

----------------------------------------------------------------------------
(* Bits and targets *)

\* What is read as bits: three bytes at least, and a mantissa.
IsBits(b) == b.exp \in Nat /\ b.exp >= 3 /\ b.mant \in Nat

\* A target is a mantissa below the sign bit, shifted by whole bytes.
LEMMA TargetForm ==
  ASSUME NEW b, IsBits(b)
  PROVE  /\ TargetOf(b) \in Nat
         /\ \E x \in Nat, e \in Nat : x < SignBit /\ TargetOf(b) = x * Shift(e)
<1>1. PICK e \in Nat : e = b.exp - 3
    BY DEF IsBits
<1>2. SignBit \in Nat /\ SignBit >= 1
    BY SignBitFacts, ShiftSum
<1>3. PICK x \in Nat : x = b.mant % SignBit /\ x < SignBit
    BY <1>2 DEF IsBits
<1>4. TargetOf(b) = x * Shift(e)
    BY <1>1, <1>3 DEF TargetOf, IsBits
<1>5. x * Shift(e) \in Nat
    BY ShiftSum, Products
<1> QED
    BY <1>3, <1>4, <1>5

\* The bytes a number takes.
Bytes(t) == CHOOSE k \in 1 .. HashBytes + 1 : Shift(k - 1) <= t /\ t < Shift(k)

\* The bits of a positive number, by the bytes it takes.
BitsBy(t, size) ==
    LET mant == IF size <= 3 THEN t * Shift(3 - size) ELSE t \div Shift(size - 3)
        fourth == size > 3 /\ mant >= SignBit
    IN  [exp  |-> IF size <= 3 THEN 3 ELSE IF fourth THEN size + 1 ELSE size,
         mant |-> (IF fourth THEN mant \div Shift(1) ELSE mant) % SignBit]

\* These are the bits of target_to_bits.
LEMMA BitsOfBy ==
  ASSUME NEW t
  PROVE  BitsOf(t) = BitsBy(AtLeast(1, t), Bytes(AtLeast(1, t)))
  BY DEF BitsOf, BitsBy, Bytes

\* A number below the largest hash takes a number of bytes.
LEMMA BytesFacts ==
  ASSUME NEW t \in Nat, t >= 1, t < HashSpace
  PROVE  Bytes(t) \in Nat /\ Bytes(t) >= 1 /\ Shift(Bytes(t) - 1) <= t /\ t < Shift(Bytes(t))
<1> DEFINE S == {k \in Nat : t < Shift(k)}
<1>1. HashBytes \in Nat /\ HashBytes \in S
    BY RetargetAssumption DEF HashSpace, Shift
<1>2. PICK m \in S : \A k \in S : m <= k
  <2>1. S \in SUBSET Nat /\ S # {}
      BY <1>1
  <2> QED
      BY <2>1, LeastElement
<1>3. m \in Nat /\ t < Shift(m) /\ m <= HashBytes
    BY <1>1, <1>2
<1>4. m # 0
  <2>1. Shift(0) = 1
    <3>1. ByteBits * 0 = 0
        BY RetargetAssumption
    <3>2. 2 ^ 0 = 1
        OBVIOUS
    <3> QED
        BY <3>1, <3>2 DEF Shift
  <2> QED
      BY <1>3, <2>1
<1>5. PICK l \in Nat : m = l + 1
    BY <1>3, <1>4
<1>6. l \notin S
    BY <1>2, <1>5
<1>7. Shift(l) \in Nat
    BY ShiftSum
<1>8. m \in 1 .. HashBytes + 1 /\ Shift(m - 1) <= t /\ t < Shift(m)
  <2>1. m - 1 = l
      BY <1>5
  <2>2. Shift(l) <= t
      BY <1>6, <1>7
  <2> QED
      BY <1>1, <1>3, <1>5, <2>1, <2>2
<1> HIDE DEF S
<1>9. \E k \in 1 .. HashBytes + 1 : Shift(k - 1) <= t /\ t < Shift(k)
    BY <1>8
<1>10. /\ Bytes(t) \in 1 .. HashBytes + 1
       /\ Shift(Bytes(t) - 1) <= t /\ t < Shift(Bytes(t))
    BY <1>9 DEF Bytes
<1> QED
    BY <1>1, <1>10

\* A number of more than three bytes is cut to a mantissa of at least SignBit parts
\* of its last byte.
LEMMA RoundedForm ==
  ASSUME NEW t \in Nat, Shift(3) <= t, t < HashSpace
  PROVE  /\ IsBits(BitsOf(t))
         /\ \E j \in Nat, q \in Nat :
              /\ TargetOf(BitsOf(t)) = q * Shift(j + 1)
              /\ Cut(t, q, Shift(j + 1)) /\ SignBit <= q * Shift(1)
<1>1. /\ \A k \in Nat : Shift(k) \in Nat \ {0}
      /\ SignBit \in Nat \ {0}
  <2>1. ASSUME NEW k \in Nat PROVE Shift(k) \in Nat \ {0}
    <3>1. Shift(k) \in Nat /\ Shift(k) >= 1
        BY ShiftSum
    <3> QED
        BY <3>1
  <2>2. Shift(2) \in Nat \ {0}
      BY <2>1
  <2> QED
      BY <2>1, <2>2, SignBitFacts
<1>2. PICK s \in Nat : s = Bytes(t) /\ s >= 1 /\ Shift(s - 1) <= t /\ t < Shift(s)
  <2>1. t >= 1
      BY <1>1
  <2> QED
      BY <2>1, BytesFacts
<1>3. s > 3
  <2>1. Shift(3) < Shift(s)
      BY <1>1, <1>2
  <2> QED
      BY <2>1, ShiftGrows
<1>4. PICK j \in Nat : s - 3 = j + 1 /\ s - 1 = (j + 1) + 2 /\ s - 2 = j + 1 + 1
    BY <1>3
<1>5. PICK P \in Nat \ {0} : P = Shift(j + 1)
    BY <1>1
<1>6. PICK m \in Nat : m = t \div P /\ Cut(t, m, P)
    BY QuotientCuts
<1>7. BitsOf(t) = BitsBy(t, s)
  <2>1. t = AtLeast(1, t)
      BY <1>1 DEF AtLeast
  <2> QED
      BY <1>2, <2>1, BitsOfBy
<1>8. Shift(2) <= m
  <2>1. Shift((j + 1) + 2) = P * Shift(2)
      BY <1>5, ShiftSum
  <2>2. P * Shift(2) <= t
      BY <1>2, <1>4, <2>1
  <2>3. Shift(2) \in Nat
      BY <1>1
  <2>4. ASSUME m < Shift(2) PROVE FALSE
    <3>1. m + 1 <= Shift(2)
        BY <2>3, <2>4
    <3>2. (m + 1) * P <= Shift(2) * P
        BY <2>3, <3>1, Products
    <3>3. Shift(2) * P = P * Shift(2) /\ P * Shift(2) \in Nat /\ (m + 1) * P \in Nat
        BY <2>3, Products
    <3> QED
        BY <1>6, <2>2, <3>2, <3>3 DEF Cut
  <2> QED
      BY <2>3, <2>4
<1>9. CASE m < SignBit
  <2>1. BitsOf(t) = [exp |-> s, mant |-> m % SignBit]
      BY <1>1, <1>3, <1>4, <1>5, <1>6, <1>7, <1>9 DEF BitsBy
  <2>2. m % SignBit = m
      BY <1>1, <1>9
  <2>3. IsBits(BitsOf(t)) /\ TargetOf(BitsOf(t)) = m * Shift(j + 1)
    <3>1. BitsOf(t).exp = s /\ BitsOf(t).mant = m
        BY <2>1, <2>2
    <3> QED
        BY <1>3, <1>4, <2>2, <3>1 DEF IsBits, TargetOf
  <2>4. SignBit <= m * Shift(1)
    <3>1. Shift(2) * Shift(1) <= m * Shift(1)
        BY <1>1, <1>8, Products
    <3>2. Shift(3) = Shift(2) * Shift(1)
      <4>1. Shift(2 + 1) = Shift(2) * Shift(1)
          BY ShiftSum
      <4> QED
          BY <4>1
    <3>3. m * Shift(1) \in Nat /\ Shift(2) * Shift(1) \in Nat
        BY <1>1, Products
    <3> QED
        BY <1>1, <3>1, <3>2, <3>3, SignBitFacts
  <2> QED
      BY <1>5, <1>6, <2>3, <2>4
<1>10. CASE ~(m < SignBit)
  <2>1. PICK Q \in Nat \ {0} : Q = Shift(1)
      BY <1>1
  <2>2. PICK n \in Nat : n = m \div Q /\ Cut(m, n, Q)
      BY QuotientCuts
  <2>3. BitsOf(t) = [exp |-> s + 1, mant |-> n % SignBit]
      BY <1>1, <1>3, <1>4, <1>5, <1>6, <1>7, <1>10, <2>1, <2>2 DEF BitsBy
  <2>4. Shift(j + 1 + 1) = P * Q
      BY <1>5, <2>1, ShiftSum
  <2>5. Cut(t, n, Shift(j + 1 + 1))
      BY <1>6, <2>2, <2>4, CutTwice
  <2>6. n < SignBit
    <3>1. Shift(s) = Shift(j + 1 + 1) * Shift(2)
      <4>1. s = (j + 1 + 1) + 2
          BY <1>4
      <4> QED
          BY <4>1, ShiftSum
    <3>2. PICK R \in Nat \ {0}, W \in Nat \ {0} : R = Shift(j + 1 + 1) /\ W = Shift(2)
        BY <1>1
    <3>3. n * R <= t /\ t < R * W
        BY <1>2, <2>5, <3>1, <3>2 DEF Cut
    <3>4. n < W
      <4>1. ASSUME W <= n PROVE FALSE
        <5>1. W * R <= n * R /\ W * R = R * W /\ R * W \in Nat /\ n * R \in Nat
            BY <4>1, Products
        <5> QED
            BY <3>3, <5>1
      <4> QED
          BY <4>1
    <3> QED
        BY <1>1, <3>2, <3>4, SignBitFacts
  <2>7. n % SignBit = n
      BY <1>1, <2>6
  <2>8. IsBits(BitsOf(t)) /\ TargetOf(BitsOf(t)) = n * Shift(j + 1 + 1)
    <3>1. BitsOf(t).exp = s + 1 /\ BitsOf(t).mant = n
        BY <2>3, <2>7
    <3>2. s + 1 - 3 = j + 1 + 1 /\ s + 1 >= 3
        BY <1>3, <1>4
    <3> QED
        BY <2>7, <3>1, <3>2 DEF IsBits, TargetOf
  <2>9. SignBit <= n * Shift(1)
    <3>1. PICK h \in Nat : SignBit = h * Q
        BY <2>1, SignBitFacts
    <3>2. h * Q <= m /\ m < (n + 1) * Q
        BY <1>1, <1>10, <2>2, <3>1 DEF Cut
    <3>3. h <= n
      <4>1. ASSUME n + 1 <= h PROVE FALSE
        <5>1. (n + 1) * Q <= h * Q /\ (n + 1) * Q \in Nat /\ h * Q \in Nat
            BY <4>1, Products
        <5> QED
            BY <3>2, <5>1
      <4> QED
          BY <4>1
    <3>4. h * Q <= n * Q
        BY <3>3, Products
    <3> QED
        BY <2>1, <3>1, <3>4
  <2> QED
      BY <2>5, <2>8, <2>9
<1> QED
    BY <1>9, <1>10

\* Rounding to bits loses no target that is one of bits: what is read from the bits
\* of t is at most t, and at least every target up to t that bits can hold.
LEMMA RoundedKeeps ==
  ASSUME NEW t \in Nat, Shift(3) <= t, t < HashSpace
  PROVE  /\ TargetOf(BitsOf(t)) \in Nat /\ TargetOf(BitsOf(t)) >= 1 /\ TargetOf(BitsOf(t)) <= t
         /\ \A b : IsBits(b) /\ TargetOf(b) <= t => TargetOf(b) <= TargetOf(BitsOf(t))
<1>1. PICK j \in Nat, q \in Nat :
         /\ TargetOf(BitsOf(t)) = q * Shift(j + 1)
         /\ Cut(t, q, Shift(j + 1)) /\ SignBit <= q * Shift(1)
    BY RoundedForm
<1>2. PICK L \in Nat, Q \in Nat : L = Shift(j) /\ Q = Shift(1) /\ L >= 1 /\ Q >= 1
    BY ShiftSum
<1>3. Shift(j + 1) = L * Q /\ L * Q \in Nat
    BY <1>2, ShiftSum, Products
<1>4. PICK P \in Nat : P = L * Q /\ P >= 1
  <2>1. L <= L * Q
      BY <1>2, Products
  <2> QED
      BY <1>2, <1>3, <2>1
<1>5. q * P \in Nat /\ q * P <= t /\ t < (q + 1) * P /\ TargetOf(BitsOf(t)) = q * P
    BY <1>1, <1>3, <1>4, Products DEF Cut
<1>6. SignBit \in Nat /\ SignBit >= 1 /\ SignBit <= q * Q
  <2>1. Shift(2) \in Nat /\ Shift(2) >= 1
      BY ShiftSum
  <2> QED
      BY <1>1, <1>2, <2>1, SignBitFacts
<1>7. q * P >= 1
  <2>1. q # 0
      BY <1>2, <1>6
  <2>2. 1 * P <= q * P
      BY <2>1, Products
  <2> QED
      BY <1>4, <1>5, <2>2
<1>8. ASSUME NEW b, IsBits(b), TargetOf(b) <= t PROVE TargetOf(b) <= q * P
  <2>1. PICK x \in Nat, e \in Nat : x < SignBit /\ TargetOf(b) = x * Shift(e)
      BY <1>8, TargetForm
  <2>2. CASE j + 1 <= e
    <3>1. PICK D \in Nat : D = Shift(e - (j + 1)) /\ Shift(e) = P * D
      <4>1. Shift(e) = Shift(j + 1) * Shift(e - (j + 1))
          BY <2>2, ShiftGrows
      <4>2. e - (j + 1) \in Nat
          BY <2>2
      <4>3. Shift(e - (j + 1)) \in Nat
          BY <4>2, ShiftSum
      <4> QED
          BY <1>3, <1>4, <4>1, <4>3
    <3>2. PICK y \in Nat : y = x * D
        BY Products
    <3>3. TargetOf(b) = y * P
      <4>1. x * (P * D) = (x * P) * D /\ x * (D * P) = (x * D) * P /\ P * D = D * P
          BY Products
      <4> QED
          BY <2>1, <3>1, <3>2, <4>1
    <3>4. y <= q
      <4>1. ASSUME q + 1 <= y PROVE FALSE
        <5>1. (q + 1) * P <= y * P /\ (q + 1) * P \in Nat /\ y * P \in Nat
            BY <4>1, Products
        <5> QED
            BY <1>5, <1>8, <3>3, <5>1
      <4> QED
          BY <4>1
    <3> QED
        BY <3>3, <3>4, Products
  <2>3. CASE e <= j
    <3>1. PICK E \in Nat : E = Shift(e) /\ E <= L
      <4>1. Shift(e) \in Nat /\ Shift(e) <= Shift(j)
          BY <2>3, ShiftSum, ShiftGrows
      <4> QED
          BY <1>2, <4>1
    <3>2. x * E <= x * L
      <4>1. x * E = E * x /\ x * L = L * x /\ E * x <= L * x
          BY <3>1, Products
      <4> QED
          BY <4>1
    <3>3. x * L <= (q * Q) * L
      <4>1. x <= q * Q /\ q * Q \in Nat
          BY <1>6, <2>1, Products
      <4> QED
          BY <4>1, Products
    <3>4. (q * Q) * L = q * P
      <4>1. (q * Q) * L = q * (Q * L) /\ Q * L = L * Q
          BY Products
      <4> QED
          BY <1>4, <4>1
    <3>5. x * E \in Nat /\ x * L \in Nat
        BY Products
    <3> QED
        BY <1>5, <2>1, <3>1, <3>2, <3>3, <3>4, <3>5
  <2> QED
      BY <2>2, <2>3
<1> QED
    BY <1>5, <1>7, <1>8

\* The easiest target is below the largest hash.
LEMMA MaxTargetFacts ==
  /\ IsBits(MaxBits) /\ MaxTarget \in Nat /\ Shift(3) <= MaxTarget /\ MaxTarget < HashSpace
  /\ HashSpace \in Nat
<1>1. IsBits(MaxBits) /\ MaxBits.exp <= HashBytes /\ Shift(3) <= MaxTarget /\ HashBytes \in Nat
    BY RetargetAssumption DEF IsBits
<1>2. HashSpace = Shift(HashBytes) /\ HashSpace \in Nat
  <2>1. HashSpace = Shift(HashBytes)
      BY DEF HashSpace, Shift
  <2> QED
      BY <1>1, <2>1, ShiftSum
<1>3. PICK e \in Nat : e = MaxBits.exp - 3 /\ e + 3 = MaxBits.exp
    BY <1>1 DEF IsBits
<1>4. SignBit \in Nat /\ SignBit >= 1 /\ SignBit <= Shift(3)
  <2>1. Shift(2) \in Nat /\ Shift(2) >= 1
      BY ShiftSum
  <2> QED
      BY <2>1, SignBitFacts
<1>5. PICK x \in Nat : x = MaxBits.mant % SignBit /\ x < SignBit
    BY <1>1, <1>4 DEF IsBits
<1>6. MaxTarget = x * Shift(e)
    BY <1>1, <1>3, <1>5 DEF MaxTarget, TargetOf, IsBits
<1>7. PICK E \in Nat, T \in Nat : E = Shift(e) /\ T = Shift(3) /\ E >= 1
    BY ShiftSum
<1>8. x * E < T * E
  <2>1. (x + 1) * E <= T * E /\ (x + 1) * E = x * E + E
    <3>1. x + 1 <= T
        BY <1>4, <1>5, <1>7
    <3> QED
        BY <3>1, Products
  <2>2. x * E \in Nat /\ T * E \in Nat
      BY Products
  <2> QED
      BY <1>7, <2>1, <2>2
<1>9. T * E <= HashSpace
  <2>1. Shift(e + 3) = E * T /\ E * T = T * E
      BY <1>7, ShiftSum, Products
  <2>2. Shift(e + 3) <= Shift(HashBytes)
      BY <1>1, <1>3, ShiftGrows
  <2> QED
      BY <1>2, <2>1, <2>2
<1>10. x * E \in Nat /\ T * E \in Nat
    BY Products
<1> QED
    BY <1>1, <1>2, <1>6, <1>7, <1>8, <1>9, <1>10

\* The bits a chain holds: their target is not easier than the easiest.
GoodBits(b) == IsBits(b) /\ TargetOf(b) <= MaxTarget

\* Bits of a number up to the easiest target are such bits, also where the number has
\* three bytes or less and is not what they are read as.
LEMMA BitsAreGood ==
  ASSUME NEW t \in Nat, t <= MaxTarget
  PROVE  GoodBits(BitsOf(t))
<1>1. t < HashSpace
    BY MaxTargetFacts
<1>2. CASE Shift(3) <= t
    BY <1>1, <1>2, RoundedForm, RoundedKeeps, MaxTargetFacts DEF GoodBits
<1>3. CASE t < Shift(3)
  <2>1. PICK u \in Nat : u = AtLeast(1, t) /\ u >= 1
    <3>1. AtLeast(1, t) \in Nat /\ AtLeast(1, t) >= 1
        BY DEF AtLeast
    <3> QED
        BY <3>1
  <2>2. Shift(3) \in Nat /\ Shift(3) >= 1 /\ SignBit \in Nat /\ SignBit >= 1 /\ SignBit <= Shift(3)
    <3>1. Shift(2) \in Nat /\ Shift(2) >= 1
        BY ShiftSum
    <3> QED
        BY <3>1, ShiftSum, SignBitFacts
  <2>3. u < Shift(3)
    <3>1. Shift(3) > 1
      <4>1. Shift(3) = Shift(2) * Shift(1) /\ Shift(2) >= 1 /\ Shift(2) \in Nat
        <5>1. Shift(2 + 1) = Shift(2) * Shift(1)
            BY ShiftSum
        <5> QED
            BY <5>1, ShiftSum
      <4>2. Shift(1) \in Nat /\ Shift(1) >= 2
        <5>1. PICK k \in Nat : ByteBits = k + 1
          <6>1. ByteBits - 1 \in Nat /\ ByteBits = (ByteBits - 1) + 1
              BY RetargetAssumption
          <6> QED
              BY <6>1
        <5>2. 2 ^ (k + 1) = 2 ^ k + 2 ^ k /\ 2 ^ k \in Nat /\ 2 ^ k >= 1
            BY PowerDoubles, PowerSum
        <5>3. ByteBits * 1 = k + 1
            BY <5>1
        <5> QED
            BY <5>2, <5>3 DEF Shift
      <4>3. PICK x \in Nat, y \in Nat : x = Shift(2) /\ y = Shift(1) /\ x >= 1 /\ y >= 2
          BY <4>1, <4>2
      <4>4. 1 * y <= x * y
          BY <4>3, Products
      <4> QED
          BY <4>1, <4>3, <4>4
    <3> QED
        BY <1>3, <2>1, <2>2, <3>1 DEF AtLeast
  <2>4. u < HashSpace
      BY <2>2, <2>3, MaxTargetFacts
  <2>5. PICK s \in Nat : s = Bytes(u) /\ s >= 1 /\ Shift(s - 1) <= u
      BY <2>1, <2>4, BytesFacts
  <2>6. s <= 3
    <3>1. PICK r \in Nat : r = s - 1
        BY <2>5
    <3>2. Shift(r) \in Nat
        BY ShiftSum
    <3>3. Shift(r) < Shift(3)
        BY <2>2, <2>3, <2>5, <3>1, <3>2
    <3>4. r < 3
        BY <3>3, ShiftGrows
    <3> QED
        BY <3>1, <3>4
  <2>7. PICK m \in Nat : m = u * Shift(3 - s)
    <3>1. 3 - s \in Nat
        BY <2>6
    <3>2. Shift(3 - s) \in Nat
        BY <3>1, ShiftSum
    <3> QED
        BY <3>2, Products
  <2>8. BitsOf(t) = [exp |-> 3, mant |-> m % SignBit]
    <3>1. BitsOf(t) = BitsBy(u, s)
        BY <2>1, <2>5, BitsOfBy
    <3> QED
        BY <2>6, <2>7, <3>1 DEF BitsBy
  <2>9. PICK x \in Nat : x = m % SignBit /\ x < SignBit
      BY <2>2
  <2>10. x % SignBit = x
      BY <2>2, <2>9
  <2>11. IsBits(BitsOf(t)) /\ TargetOf(BitsOf(t)) = x * Shift(0)
    <3>1. BitsOf(t).exp = 3 /\ BitsOf(t).mant = x
        BY <2>8, <2>9
    <3> QED
        BY <2>10, <3>1 DEF IsBits, TargetOf
  <2>12. Shift(0) = 1
    <3>1. ByteBits * 0 = 0
        BY RetargetAssumption
    <3>2. 2 ^ 0 = 1
        OBVIOUS
    <3> QED
        BY <3>1, <3>2 DEF Shift
  <2> QED
      BY <2>2, <2>9, <2>11, <2>12, MaxTargetFacts DEF GoodBits
<1> QED
    BY <1>2, <1>3, ShiftSum

----------------------------------------------------------------------------
(* Windows *)

\* A window is the last blocks of the chain.
LEMMA WindowFacts ==
  ASSUME NEW p, Chain(p), Len(p) >= 1, NEW n \in Nat \ {0}
  PROVE  LET w == Window(p, n)
         IN  /\ Len(p) \in Nat /\ Len(w) \in Nat /\ Len(w) = AtMost(n, Len(p))
             /\ \A i \in 1 .. Len(w) : /\ w[i] = p[Len(p) - Len(w) + i]
                                       /\ Len(p) - Len(w) + i \in 1 .. Len(p)
<1> DEFINE w == Window(p, n)
<1>1. PICK S : p \in Seq(S)
    BY DEF Chain
<1>2. PICK l \in Nat : l = Len(p) /\ l >= 1
    BY <1>1
<1>3. PICK f \in Nat : /\ f = AtLeast(1, l - n + 1) /\ f >= 1 /\ f <= l
                       /\ l - f + 1 = AtMost(n, l)
    BY <1>2 DEF AtLeast, AtMost
<1>4. w = SubSeq(p, f, l)
    BY <1>2, <1>3 DEF Window
<1>5. \A i \in f .. l : p[i] \in S
    BY <1>1, <1>2, <1>3
<1>a. /\ Len(SubSeq(p, f, l)) = IF f <= l THEN l - f + 1 ELSE 0
      /\ \A i \in 1 .. l - f + 1 : SubSeq(p, f, l)[i] = p[f + i - 1]
  <2>1. f \in Int /\ l \in Int
      OBVIOUS
  <2> QED
      BY <1>5, <2>1, SubSeqProperties
<1>6. Len(w) = l - f + 1
    BY <1>3, <1>4, <1>a
<1>7. \A i \in 1 .. l - f + 1 : w[i] = p[f + i - 1]
    BY <1>4, <1>a
<1> HIDE DEF w
<1>8. Len(w) \in Nat /\ Len(w) = AtMost(n, l)
    BY <1>2, <1>3, <1>6
<1>9. ASSUME NEW i \in 1 .. Len(w)
      PROVE  w[i] = p[l - Len(w) + i] /\ l - Len(w) + i \in 1 .. l
  <2>1. PICK k \in Nat : k = Len(w) /\ k = l - f + 1 /\ i \in 1 .. k
      BY <1>6, <1>8
  <2>2. f + i - 1 = l - k + i
      BY <2>1
  <2>3. l - k + i \in 1 .. l
    <3>1. i \in Int /\ 1 <= i /\ i <= k
        BY <2>1
    <3>2. l - k = f - 1 /\ f >= 1
        BY <1>3, <2>1
    <3> QED
        BY <2>1, <3>1, <3>2
  <2> QED
      BY <1>7, <2>1, <2>2, <2>3
<1> QED
    BY <1>2, <1>3, <1>8, <1>9 DEF w

----------------------------------------------------------------------------
(* The retarget *)

\* The target of a block, and the blocks of a chain whose bits are good.
TargetAt(p, i) == TargetOf(p[i].bits)

GoodChain(p) == Chain(p) /\ \A i \in 1 .. Len(p) : GoodBits(p[i].bits)

\* A difficulty is positive, and times the target within the hash space.
LEMMA HardFacts ==
  ASSUME NEW h, GoodBits(h.bits)
  PROVE  /\ TargetOf(h.bits) \in Nat /\ TargetOf(h.bits) <= MaxTarget
         /\ DifficultyOf(h) \in Nat /\ DifficultyOf(h) >= 1
         /\ TargetOf(h.bits) >= 1
              => /\ DifficultyOf(h) = HashSpace \div TargetOf(h.bits)
                 /\ DifficultyOf(h) * TargetOf(h.bits) <= HashSpace
<1>1. PICK t \in Nat : t = TargetOf(h.bits) /\ t <= MaxTarget
    BY TargetForm DEF GoodBits
<1>2. HashSpace \in Nat /\ t < HashSpace
    BY <1>1, MaxTargetFacts
<1>3. PICK u \in Nat \ {0} : u = AtLeast(1, t) /\ (t >= 1 => u = t)
  <2>1. AtLeast(1, t) \in Nat \ {0} /\ (t >= 1 => AtLeast(1, t) = t)
      BY DEF AtLeast
  <2> QED
      BY <2>1
<1>4. PICK d \in Nat : d = HashSpace \div u /\ d * u <= HashSpace
    BY <1>2, Quotient
<1>5. DifficultyOf(h) = AtLeast(1, d)
    BY <1>1, <1>3, <1>4 DEF DifficultyOf, Difficulty
<1>6. AtLeast(1, d) \in Nat /\ AtLeast(1, d) >= 1
    BY DEF AtLeast
<1>7. t >= 1 => d >= 1
  <2>1. SUFFICES ASSUME t >= 1 PROVE d >= 1
      OBVIOUS
  <2>2. 1 * u <= HashSpace
      BY <1>2, <1>3, <2>1
  <2> QED
      BY <1>2, <1>4, <2>2, QuotientBounds
<1>8. t >= 1 => AtLeast(1, d) = d
    BY <1>7 DEF AtLeast
<1> QED
    BY <1>1, <1>3, <1>4, <1>5, <1>6, <1>8

\* The intervals of a window and the difficulties of its blocks.
Solve(w) ==
  [i \in 1 .. Len(w) - 1 |-> AtLeast(1, AtMost(w[i + 1].ts - w[i].ts, 6 * TargetTime))]

Hard(w) == [i \in 1 .. Len(w) - 1 |-> DifficultyOf(w[i + 1])]

LwmaBy(n, weights, time, hard) ==
  TargetFor(((hard \div n) * TargetTime) \div AtLeast(1, time \div weights))

LEMMA LwmaTargetBy ==
  ASSUME NEW p
  PROVE  LET w == Window(p, LwmaWindow)
             gaps == 1 .. Len(w) - 1
             weighed == [i \in gaps |-> i * Solve(w)[i]]
         IN  LwmaTarget(p) = LwmaBy(Len(w) - 1, (Len(w) * (Len(w) - 1)) \div 2,
                                    SumOver(weighed, gaps), SumOver(Hard(w), gaps))
  BY DEF LwmaTarget, LwmaBy, Solve, Hard, SumOver

\* The difficulty of the weighted mean: where no interval was late it is at least that
\* of some block of the window, and where none was early at most that.
LEMMA LwmaForm ==
  ASSUME NEW p, GoodChain(p), Len(p) >= 2
  PROVE  LET w == Window(p, LwmaWindow)
             gaps == 1 .. Len(w) - 1
         IN  /\ Len(w) \in Nat /\ Len(w) >= 2
             /\ \E d \in Nat :
                  /\ LwmaTarget(p) = TargetFor(d)
                  /\ (\A i \in gaps : w[i + 1].ts - w[i].ts <= TargetTime)
                       => \E i \in gaps : DifficultyOf(w[i + 1]) <= d
                  /\ (\A i \in gaps : w[i + 1].ts - w[i].ts >= TargetTime)
                       => \E i \in gaps : d <= DifficultyOf(w[i + 1])
<1> DEFINE w == Window(p, LwmaWindow)
<1>1. PICK T \in Nat \ {0} : T = TargetTime
    BY RulesAssumption
<1>2. LwmaWindow \in Nat \ {0} /\ LwmaWindow >= 2
    BY RulesAssumption
<1>3. /\ Len(p) \in Nat /\ Len(w) \in Nat /\ Len(w) = AtMost(LwmaWindow, Len(p))
      /\ \A i \in 1 .. Len(w) : \E j \in 1 .. Len(p) : w[i] = p[j]
    BY <1>2, WindowFacts DEF GoodChain
<1>4. Len(w) >= 2
    BY <1>2, <1>3 DEF AtMost
<1> HIDE DEF w
<1>5. PICK n \in Nat \ {0} : Len(w) = n + 1 /\ Len(w) - 1 = n
  <2>1. Len(w) - 1 \in Nat \ {0} /\ Len(w) = (Len(w) - 1) + 1
      BY <1>3, <1>4
  <2> QED
      BY <2>1
<1>6. ASSUME NEW i \in 1 .. n
      PROVE  /\ w[i + 1].ts - w[i].ts \in Int
             /\ DifficultyOf(w[i + 1]) \in Nat /\ DifficultyOf(w[i + 1]) >= 1
  <2>1. i \in 1 .. Len(w) /\ i + 1 \in 1 .. Len(w)
      BY <1>5
  <2>2. PICK j \in 1 .. Len(p), k \in 1 .. Len(p) : w[i] = p[j] /\ w[i + 1] = p[k]
      BY <1>3, <2>1
  <2>3. p[j].ts \in Int /\ p[k].ts \in Int /\ GoodBits(p[k].bits)
      BY DEF GoodChain, Chain
  <2> QED
      BY <2>2, <2>3, HardFacts
<1> DEFINE f == Solve(w)
           h == Hard(w)
<1>7. ASSUME NEW i \in 1 .. n
      PROVE  /\ f[i] \in Nat /\ f[i] >= 1
             /\ w[i + 1].ts - w[i].ts <= T => f[i] <= T
             /\ w[i + 1].ts - w[i].ts >= T => f[i] >= T
  <2>1. PICK x \in Int : x = w[i + 1].ts - w[i].ts
      BY <1>6
  <2>2. f[i] = AtLeast(1, AtMost(x, 6 * T))
      BY <1>1, <1>5, <2>1 DEF Solve
  <2>3. PICK y \in Nat : y = AtLeast(1, AtMost(x, 6 * T)) /\ y >= 1
                         /\ (x <= T => y <= T) /\ (x >= T => y >= T)
    <3>1. PICK s \in Nat : s = 6 * T /\ s >= T
        OBVIOUS
    <3>2. AtMost(x, s) \in Int /\ (x <= T => AtMost(x, s) <= T) /\ (x >= T => AtMost(x, s) >= T)
        BY <3>1 DEF AtMost
    <3>3. PICK z \in Int : z = AtMost(x, s)
        BY <3>2
    <3>4. AtLeast(1, z) \in Nat /\ AtLeast(1, z) >= 1
          /\ (z <= T => AtLeast(1, z) <= T) /\ (z >= T => AtLeast(1, z) >= T)
        BY DEF AtLeast
    <3> QED
        BY <3>1, <3>2, <3>3, <3>4
  <2> QED
      BY <2>1, <2>2, <2>3
<1>8. \A i \in 1 .. n : h[i] = DifficultyOf(w[i + 1]) /\ h[i] \in Nat /\ h[i] >= 1
    BY <1>5, <1>6 DEF Hard
<1>9. PICK ws \in Nat : ws = SumOver([i \in 1 .. n |-> i * f[i]], 1 .. n)
    BY <1>7, WeightedMeanOf
<1>0. PICK hs : hs = SumOver(h, 1 .. n)
    OBVIOUS
<1>10. LwmaTarget(p) = LwmaBy(n, ((n + 1) * n) \div 2, ws, hs)
  <2>1. LwmaTarget(p) = LwmaBy(Len(w) - 1, (Len(w) * (Len(w) - 1)) \div 2,
                               SumOver([i \in 1 .. Len(w) - 1 |-> i * f[i]], 1 .. Len(w) - 1),
                               SumOver(h, 1 .. Len(w) - 1))
      BY LwmaTargetBy DEF w
  <2> HIDE DEF f, h
  <2> QED
      BY <1>0, <1>5, <1>9, <2>1
<1> HIDE DEF f, h
<1>11. PICK m \in Nat : /\ m = hs \div n
                        /\ \E i \in 1 .. n : h[i] <= m
                        /\ \E i \in 1 .. n : m <= h[i]
    BY <1>0, <1>8, MeanOf
<1>12. PICK t \in Nat : /\ t = ws \div (((n + 1) * n) \div 2)
                        /\ (\A i \in 1 .. n : f[i] <= T) => t <= T
                        /\ (\A i \in 1 .. n : T <= f[i]) => T <= t
  <2>1. \A i \in 1 .. n : f[i] \in Nat
      BY <1>7
  <2> QED
      BY <1>9, <2>1, WeightedMeanOf
<1>13. PICK b \in Nat \ {0} : b = AtLeast(1, t) /\ (t <= T => b <= T) /\ (T <= t => T <= b)
  <2>1. AtLeast(1, t) \in Nat \ {0} /\ (t <= T => AtLeast(1, t) <= T)
        /\ (T <= t => T <= AtLeast(1, t))
      BY DEF AtLeast
  <2> QED
      BY <2>1
<1>14. PICK d \in Nat : d = (m * T) \div b
    BY Products, Quotient
<1>15. LwmaTarget(p) = TargetFor(d)
    BY <1>1, <1>10, <1>11, <1>12, <1>13, <1>14 DEF LwmaBy
<1>16. (t <= T => m <= d) /\ (T <= t => d <= m)
  <2>1. m * T \in Nat /\ m * b \in Nat
      BY Products
  <2>2. b <= T => m * b <= m * T
    <3>1. m * b = b * m /\ m * T = T * m /\ (b <= T => b * m <= T * m)
        BY Products
    <3> QED
        BY <3>1
  <2>3. T <= b => m * T <= m * b
    <3>1. m * b = b * m /\ m * T = T * m /\ (T <= b => T * m <= b * m)
        BY Products
    <3> QED
        BY <3>1
  <2> QED
      BY <1>13, <1>14, <2>1, <2>2, <2>3, QuotientBounds
<1>17. ASSUME \A i \in 1 .. n : w[i + 1].ts - w[i].ts <= TargetTime
       PROVE  \E i \in 1 .. n : DifficultyOf(w[i + 1]) <= d
  <2>1. m <= d
      BY <1>1, <1>7, <1>12, <1>16, <1>17
  <2>2. PICK i \in 1 .. n : h[i] <= m
      BY <1>11
  <2> QED
      BY <1>8, <2>1, <2>2
<1>18. ASSUME \A i \in 1 .. n : w[i + 1].ts - w[i].ts >= TargetTime
       PROVE  \E i \in 1 .. n : d <= DifficultyOf(w[i + 1])
  <2>1. d <= m
      BY <1>1, <1>7, <1>12, <1>16, <1>18
  <2>2. PICK i \in 1 .. n : m <= h[i]
      BY <1>11
  <2> QED
      BY <1>8, <2>1, <2>2
<1> QED
    BY <1>3, <1>4, <1>5, <1>15, <1>17, <1>18 DEF w

\* A fraction of the configuration.
Fraction(f) == f.num \in Nat \ {0} /\ f.den \in Nat \ {0}

\* A fraction above one does not lower a number, one below does not raise it.
LEMMA TimesFacts ==
  ASSUME NEW x \in Nat, NEW f, Fraction(f)
  PROVE  /\ Times(x, f) \in Nat
         /\ f.num >= f.den => x <= Times(x, f)
         /\ f.num <= f.den => Times(x, f) <= x
         /\ \A y \in Nat : /\ Exceeds(y, x, f) => Times(x, f) <= y
                           /\ y * f.den < x * f.num => y <= Times(x, f)
                           /\ ~(y * f.den < x * f.num) => Times(x, f) <= y
<1>1. PICK a \in Nat \ {0}, b \in Nat \ {0} : a = f.num /\ b = f.den
    BY DEF Fraction
<1>2. PICK z \in Nat : z = x * a
    BY Products
<1>3. Times(x, f) = z \div b /\ z \div b \in Nat
    BY <1>1, <1>2, Quotient DEF Times
<1>4. a >= b => x <= z \div b
  <2>1. x * b = b * x /\ x * a = a * x /\ (b <= a => b * x <= a * x)
      BY Products
  <2>2. x * b \in Nat
      BY Products
  <2> QED
      BY <1>2, <2>1, <2>2, QuotientBounds
<1>5. a <= b => z \div b <= x
  <2>1. x * b = b * x /\ x * a = a * x /\ (a <= b => a * x <= b * x)
      BY Products
  <2>2. x * b \in Nat
      BY Products
  <2> QED
      BY <1>2, <2>1, <2>2, QuotientBounds
<1>6. ASSUME NEW y \in Nat
      PROVE  /\ Exceeds(y, x, f) => z \div b <= y
             /\ y * f.den < x * f.num => y <= z \div b
             /\ ~(y * f.den < x * f.num) => z \div b <= y
  <2>1. PICK v \in Nat : v = y * b
      BY Products
  <2>2. (z <= v => z \div b <= y) /\ (v <= z => y <= z \div b)
      BY <2>1, QuotientBounds
  <2>3. y * f.den = v /\ x * f.num = z
      BY <1>1, <1>2, <2>1
  <2>4. Exceeds(y, x, f) <=> v > z
      BY <2>3 DEF Exceeds
  <2> QED
      BY <2>2, <2>3, <2>4
<1> QED
    BY <1>1, <1>3, <1>4, <1>5, <1>6

\* The clamped target lies between the target and the last block's; it stays above
\* three bytes if the last block's, lowered, does.
LEMMA ClampedFacts ==
  ASSUME NEW p, GoodChain(p), Len(p) >= 1, NEW t \in Nat
  PROVE  LET last == TargetAt(p, Len(p))
             c == Clamped(p, t)
         IN  /\ last \in Nat /\ last <= MaxTarget
             /\ c \in Nat /\ c <= MaxTarget
             /\ last >= 1 /\ t <= MaxTarget => (t <= c \/ last <= c)
             /\ last >= 1 /\ t > MaxTarget => last <= c
             /\ last >= 1 => (c <= t \/ c <= last)
             /\ Shift(3) <= Times(last, ClampDown) => Shift(3) <= c
<1>1. PICK last \in Nat : last = TargetAt(p, Len(p)) /\ last <= MaxTarget
  <2>1. Len(p) \in 1 .. Len(p)
      BY DEF GoodChain, Chain
  <2>2. GoodBits(p[Len(p)].bits)
      BY <2>1 DEF GoodChain
  <2> QED
      BY <2>2, TargetForm DEF GoodBits, TargetAt
<1>2. MaxTarget \in Nat /\ Shift(3) \in Nat /\ Shift(3) >= 1 /\ Shift(3) <= MaxTarget
    BY MaxTargetFacts, ShiftSum
<1>3. PICK l \in Nat : l = AtLeast(1, last) /\ l >= 1 /\ l >= last /\ (last >= 1 => l = last)
                       /\ l <= MaxTarget
  <2>1. /\ AtLeast(1, last) \in Nat /\ AtLeast(1, last) >= 1 /\ AtLeast(1, last) >= last
        /\ (last >= 1 => AtLeast(1, last) = last) /\ AtLeast(1, last) <= MaxTarget
      BY <1>1, <1>2 DEF AtLeast
  <2> QED
      BY <2>1
<1>4. /\ Fraction(ClampUp) /\ Fraction(ClampDown)
      /\ ClampUp.num >= ClampUp.den /\ ClampDown.num <= ClampDown.den
    BY RetargetAssumption DEF Fraction
<1>5. PICK u \in Nat : u = Times(l, ClampUp) /\ l <= u
                       /\ (Exceeds(t, l, ClampUp) => u <= t)
    BY <1>4, TimesFacts
<1>6. PICK d \in Nat : d = Times(l, ClampDown) /\ d <= l
                       /\ (t * ClampDown.den < l * ClampDown.num => t <= d)
                       /\ (~(t * ClampDown.den < l * ClampDown.num) => d <= t)
    BY <1>4, TimesFacts
<1>7. PICK r \in Nat : /\ r = IF Exceeds(t, l, ClampUp) THEN u
                              ELSE IF t * ClampDown.den < l * ClampDown.num THEN d ELSE t
                       /\ (t <= r \/ l <= r) /\ (r <= t \/ r <= l) /\ d <= r
    BY <1>5, <1>6
<1>8. Clamped(p, t) = AtMost(MaxTarget, r)
    BY <1>1, <1>3, <1>5, <1>6, <1>7 DEF Clamped, TargetAt
<1>9. PICK c \in Nat : c = AtMost(MaxTarget, r) /\ c <= MaxTarget /\ c <= r
                       /\ (c = r \/ c = MaxTarget)
    BY <1>2, <1>7 DEF AtMost
<1>10. Shift(3) <= Times(last, ClampDown) => Shift(3) <= d
  <2>1. SUFFICES ASSUME Shift(3) <= Times(last, ClampDown) PROVE Shift(3) <= d
      OBVIOUS
  <2>2. Times(last, ClampDown) \in Nat /\ Times(last, ClampDown) <= last
      BY <1>4, TimesFacts
  <2>3. last >= 1
      BY <1>2, <2>1, <2>2
  <2> QED
      BY <1>3, <1>6, <2>1, <2>3
<1>11. /\ last >= 1 /\ t <= MaxTarget => (t <= c \/ last <= c)
       /\ last >= 1 /\ t > MaxTarget => last <= c
       /\ last >= 1 => (c <= t \/ c <= last)
    BY <1>1, <1>2, <1>3, <1>7, <1>9
<1>12. Shift(3) <= d => Shift(3) <= c
    BY <1>2, <1>7, <1>9
<1> QED
    BY <1>1, <1>8, <1>9, <1>10, <1>11, <1>12

\* No block of the window was late; none was early.
InTime(p) == LET w == Window(p, LwmaWindow)
             IN  \A i \in 1 .. Len(w) - 1 : w[i + 1].ts - w[i].ts <= TargetTime

Slow(p) == LET w == Window(p, LwmaWindow)
           IN  \A i \in 1 .. Len(w) - 1 : w[i + 1].ts - w[i].ts >= TargetTime

\* The time _apply_eda counts.
Late(w) == [i \in 1 .. Len(w) - 1 |-> AtLeast(1, w[i + 1].ts - w[i].ts)]

LEMMA EasedBy ==
  ASSUME NEW p, NEW t
  PROVE  LET w == Window(p, EdaWindow)
             n == Len(w) - 1
         IN  Eased(p, t) =
               IF /\ Len(w) >= 2
                  /\ Exceeds(SumOver(Late(w), 1 .. n), TargetTime * n, EdaTrigger)
               THEN AtMost(Times(TargetOf(p[Len(p)].bits), EdaEase), MaxTarget)
               ELSE t
  BY DEF Eased, Late, SumOver

\* The easing raises the last target or changes nothing, and nothing if no block was
\* late: the blocks it looks at are among those of the LWMA.
LEMMA EasedFacts ==
  ASSUME NEW p, GoodChain(p), Len(p) >= 1, NEW t \in Nat, t <= MaxTarget
  PROVE  LET r == Eased(p, t)
         IN  /\ r \in Nat /\ r <= MaxTarget
             /\ r = t \/ TargetAt(p, Len(p)) <= r
             /\ InTime(p) => r = t
<1> DEFINE w == Window(p, EdaWindow)
           v == Window(p, LwmaWindow)
           late == Late(w)
           eased == /\ Len(w) >= 2
                    /\ Exceeds(SumOver(late, 1 .. Len(w) - 1),
                               TargetTime * (Len(w) - 1), EdaTrigger)
<1>1. PICK T \in Nat \ {0} : T = TargetTime
    BY RulesAssumption
<1>2. EdaWindow \in Nat \ {0} /\ LwmaWindow \in Nat \ {0} /\ EdaWindow <= LwmaWindow
    BY RulesAssumption, RetargetAssumption
<1>3. PICK last \in Nat : last = TargetOf(p[Len(p)].bits) /\ last <= MaxTarget
    BY ClampedFacts DEF TargetAt
<1>4. PICK z \in Nat : z = AtMost(Times(last, EdaEase), MaxTarget) /\ z <= MaxTarget /\ last <= z
  <2>1. Times(last, EdaEase) \in Nat /\ last <= Times(last, EdaEase)
    <3>1. Fraction(EdaEase) /\ EdaEase.num >= EdaEase.den
        BY RetargetAssumption DEF Fraction
    <3> QED
        BY <3>1, TimesFacts
  <2>2. PICK x \in Nat : x = Times(last, EdaEase) /\ last <= x
      BY <2>1
  <2>3. MaxTarget \in Nat
      BY MaxTargetFacts
  <2>4. /\ AtMost(x, MaxTarget) \in Nat /\ AtMost(x, MaxTarget) <= MaxTarget
        /\ last <= AtMost(x, MaxTarget)
      BY <1>3, <2>2, <2>3 DEF AtMost
  <2> QED
      BY <2>2, <2>4
<1>5. Eased(p, t) = IF eased THEN z ELSE t
    BY <1>3, <1>4, EasedBy
<1>6. ASSUME InTime(p), eased PROVE FALSE
  <2>1. Chain(p)
      BY DEF GoodChain
  <2>2. /\ Len(p) \in Nat /\ Len(w) \in Nat /\ Len(w) = AtMost(EdaWindow, Len(p))
        /\ \A i \in 1 .. Len(w) : /\ w[i] = p[Len(p) - Len(w) + i]
                                  /\ Len(p) - Len(w) + i \in 1 .. Len(p)
      BY <1>2, <2>1, WindowFacts
  <2>3. /\ Len(v) \in Nat /\ Len(v) = AtMost(LwmaWindow, Len(p))
        /\ \A i \in 1 .. Len(v) : v[i] = p[Len(p) - Len(v) + i]
      BY <1>2, <2>1, WindowFacts
  <2>4. Len(w) >= 2
      BY <1>6
  <2>5. \A i \in 1 .. Len(v) - 1 : v[i + 1].ts - v[i].ts <= TargetTime
      BY <1>6 DEF InTime
  <2>6. Exceeds(SumOver(late, 1 .. Len(w) - 1), TargetTime * (Len(w) - 1), EdaTrigger)
      BY <1>6
  <2> HIDE DEF w, v, late
  <2>7. PICK n \in Nat \ {0} : Len(w) = n + 1 /\ Len(w) - 1 = n
    <3>1. Len(w) - 1 \in Nat \ {0} /\ Len(w) = (Len(w) - 1) + 1
        BY <2>2, <2>4
    <3> QED
        BY <3>1
  <2>8. PICK k \in Nat : Len(v) = Len(w) + k
    <3>1. Len(w) <= Len(v)
        BY <1>2, <2>2, <2>3 DEF AtMost
    <3>2. Len(v) - Len(w) \in Nat /\ Len(v) = Len(w) + (Len(v) - Len(w))
        BY <2>2, <2>3, <3>1
    <3> QED
        BY <3>2
  <2>9. ASSUME NEW i \in 1 .. n
        PROVE  late[i] \in Nat /\ late[i] <= T
    <3>1. /\ i \in 1 .. Len(w) /\ i + 1 \in 1 .. Len(w)
          /\ i + k \in 1 .. Len(v) - 1 /\ i + k \in 1 .. Len(v) /\ i + k + 1 \in 1 .. Len(v)
        BY <2>7, <2>8
    <3>2. w[i] = v[i + k] /\ w[i + 1] = v[i + k + 1]
      <4>1. /\ Len(p) - Len(w) + i = Len(p) - Len(v) + (i + k)
            /\ Len(p) - Len(w) + (i + 1) = Len(p) - Len(v) + (i + k + 1)
          BY <2>2, <2>3, <2>8
      <4>2. /\ w[i] = p[Len(p) - Len(w) + i] /\ v[i + k] = p[Len(p) - Len(v) + (i + k)]
            /\ w[i + 1] = p[Len(p) - Len(w) + (i + 1)]
            /\ v[i + k + 1] = p[Len(p) - Len(v) + (i + k + 1)]
          BY <2>2, <2>3, <3>1
      <4> QED
          BY <4>1, <4>2
    <3>3. w[i + 1].ts - w[i].ts <= T
        BY <1>1, <2>5, <3>1, <3>2
    <3>4. PICK x \in Int : x = w[i + 1].ts - w[i].ts
      <4>1. w[i].ts \in Int /\ w[i + 1].ts \in Int
          BY <2>1, <2>2, <3>1 DEF Chain
      <4> QED
          BY <4>1
    <3>5. AtLeast(1, x) \in Nat /\ AtLeast(1, x) <= T
        BY <3>3, <3>4 DEF AtLeast
    <3>6. late[i] = AtLeast(1, x)
        BY <2>7, <3>4 DEF late, Late
    <3> QED
        BY <3>5, <3>6
  <2> DEFINE g == [i \in 1 .. n |-> T]
  <2>10. SumOver(g, 1 .. n) = n * T /\ n * T \in Nat
    <3>1. SumOver(g, 1 .. n) = n * T
        BY SumOfEqual
    <3>2. n * T \in Nat
        BY Products
    <3> QED
        BY <3>1, <3>2
  <2>11. \A i \in 1 .. n : late[i] \in Int /\ g[i] \in Int /\ late[i] <= g[i]
      BY <2>9
  <2> HIDE DEF g
  <2>12. SumOver(late, 1 .. n) \in Int /\ SumOver(late, 1 .. n) <= n * T
      BY <2>10, <2>11, SumLess
  <2>13. PICK s \in Nat, y \in Nat : s = SumOver(late, 1 .. n) /\ y = T * n /\ s <= y
    <3>1. IsFiniteSet(1 .. n)
        BY FS_Interval
    <3>2. \A i \in 1 .. n : late[i] \in Int /\ late[i] >= 0
        BY <2>9
    <3>3. SumOver(late, 1 .. n) >= 0
        BY <3>1, <3>2, SumSame
    <3>4. n * T = T * n /\ T * n \in Nat
        BY Products
    <3> QED
        BY <2>12, <3>3, <3>4
  <2>14. PICK a \in Nat, b \in Nat : a = EdaTrigger.num /\ b = EdaTrigger.den /\ b <= a
      BY RetargetAssumption
  <2>15. s * b > y * a
      BY <1>1, <2>6, <2>7, <2>13, <2>14 DEF Exceeds
  <2>16. s * b <= y * b /\ y * b <= y * a
    <3>1. y * b = b * y /\ y * a = a * y /\ b * y <= a * y /\ s * b <= y * b
        BY <2>13, <2>14, Products
    <3> QED
        BY <3>1
  <2>17. s * b \in Nat /\ y * b \in Nat /\ y * a \in Nat
      BY Products
  <2> QED
      BY <2>15, <2>16, <2>17
<1> HIDE DEF eased
<1> QED
    BY <1>3, <1>4, <1>5, <1>6 DEF TargetAt

\* The target of a difficulty.
LEMMA TargetForFacts ==
  ASSUME NEW d \in Nat
  PROVE  /\ TargetFor(d) \in Nat /\ TargetFor(d) >= 1
         /\ \A x \in Nat : x >= 1 /\ x <= d /\ x <= HashSpace
              => \A u \in Nat : u >= 1 /\ u <= TargetFor(d) => x <= HashSpace \div u
         /\ \A x \in Nat, t \in Nat : x >= 1 /\ d <= x /\ x * t <= HashSpace => t <= TargetFor(d)
<1>1. PICK H \in Nat : H = HashSpace
    BY MaxTargetFacts
<1>2. PICK e \in Nat \ {0} : e = AtLeast(1, d) /\ d <= e
                           /\ (d >= 1 => e = d) /\ (d = 0 => e = 1)
  <2>1. /\ AtLeast(1, d) \in Nat \ {0} /\ d <= AtLeast(1, d)
        /\ (d >= 1 => AtLeast(1, d) = d) /\ (d = 0 => AtLeast(1, d) = 1)
      BY DEF AtLeast
  <2> QED
      BY <2>1
<1>3. PICK q \in Nat : q = H \div e /\ q * e <= H
    BY Quotient
<1>4. PICK r \in Nat : /\ r = AtLeast(1, q) /\ r >= 1 /\ q <= r
                       /\ (q >= 1 => r = q) /\ (q = 0 => r = 1)
  <2>1. /\ AtLeast(1, q) \in Nat /\ AtLeast(1, q) >= 1 /\ q <= AtLeast(1, q)
        /\ (q >= 1 => AtLeast(1, q) = q) /\ (q = 0 => AtLeast(1, q) = 1)
      BY DEF AtLeast
  <2> QED
      BY <2>1
<1>5. TargetFor(d) = r
    BY <1>1, <1>2, <1>3, <1>4 DEF TargetFor
<1>6. ASSUME NEW x \in Nat, x >= 1, x <= d, x <= H, NEW u \in Nat, u >= 1, u <= r
      PROVE  x <= H \div u
  <2>1. u \in Nat \ {0}
      BY <1>6
  <2>2. CASE q = 0
    <3>1. u = 1
        BY <1>4, <1>6, <2>2
    <3>2. x * u = x
        BY <3>1
    <3> QED
        BY <1>6, <2>1, <3>2, QuotientBounds
  <2>3. CASE q # 0
    <3>1. u <= q /\ x <= e
        BY <1>2, <1>4, <1>6, <2>3
    <3>2. x * u <= e * u /\ e * u = u * e /\ u * e <= q * e
        BY <3>1, Products
    <3>3. x * u \in Nat /\ e * u \in Nat /\ q * e \in Nat
        BY Products
    <3>4. x * u <= H
        BY <1>3, <3>2, <3>3
    <3> QED
        BY <2>1, <3>4, QuotientBounds
  <2> QED
      BY <2>2, <2>3
<1>7. ASSUME NEW x \in Nat, NEW t \in Nat, x >= 1, d <= x, x * t <= H
      PROVE  t <= r
  <2>1. e <= x
      BY <1>2, <1>7
  <2>2. t * e = e * t /\ e * t <= x * t /\ t * e \in Nat /\ x * t \in Nat
      BY <2>1, Products
  <2>3. t <= q
      BY <1>3, <1>7, <2>2, QuotientBounds
  <2> QED
      BY <1>4, <2>3
<1> QED
    BY <1>1, <1>4, <1>5, <1>6, <1>7

\* The target the next block's bits are made of: up to the easiest, and, where the
\* last block's is above three bytes by the factor of the clamp, above three bytes.
LEMMA NextTarget ==
  ASSUME NEW p, GoodChain(p), Len(p) >= 2
  PROVE  \E t \in Nat, c \in Nat, r \in Nat :
           /\ t = LwmaTarget(p) /\ c = Clamped(p, t) /\ r = Eased(p, c)
           /\ r <= MaxTarget /\ ExpectedBits(p) = BitsOf(r)
<1>1. Len(p) \in Nat /\ Len(p) >= 1 /\ p # << >> /\ ~(Len(p) < 2)
    BY DEF GoodChain, Chain
<1>2. PICK t \in Nat : t = LwmaTarget(p)
    BY LwmaForm, TargetForFacts
<1>3. PICK c \in Nat : c = Clamped(p, t) /\ c <= MaxTarget
    BY <1>1, ClampedFacts
<1>4. PICK r \in Nat : r = Eased(p, c) /\ r <= MaxTarget
    BY <1>1, <1>3, EasedFacts
<1>5. AtMost(MaxTarget, r) = r
    BY <1>4, MaxTargetFacts DEF AtMost
<1>6. ExpectedBits(p) = BitsOf(r)
    BY <1>1, <1>2, <1>3, <1>4, <1>5 DEF ExpectedBits
<1> QED
    BY <1>2, <1>3, <1>4, <1>6

\* The bits expected after good bits are good.
LEMMA ExpectedGood ==
  ASSUME NEW p, GoodChain(p)
  PROVE  GoodBits(ExpectedBits(p))
<1>1. Len(p) \in Nat
    BY DEF GoodChain, Chain
<1>2. CASE p = << >>
  <2>1. TargetOf(MaxBits) <= MaxTarget
      BY MaxTargetFacts DEF MaxTarget
  <2> QED
      BY <1>2, <2>1, MaxTargetFacts DEF ExpectedBits, GoodBits
<1>3. CASE p # << >> /\ Len(p) < 2
  <2>1. Len(p) # 0
      BY <1>3 DEF GoodChain, Chain
  <2>2. 1 \in 1 .. Len(p)
      BY <1>1, <2>1
  <2> QED
      BY <1>3, <2>2 DEF ExpectedBits, GoodChain
<1>4. CASE ~(Len(p) < 2)
    BY <1>1, <1>4, NextTarget, BitsAreGood
<1> QED
    BY <1>2, <1>3, <1>4

\* Every block of the chain has a target that, lowered by the clamp, takes more than
\* three bytes: a difficulty up to some 2^230.  A lower target is not what its bits are
\* read as, for target_to_bits fills three bytes from the left.
AboveThreeBytes ==
  \A i \in DOMAIN headers : Shift(3) <= Times(TargetOf(headers[i].bits), ClampDown)

\* The rule of the direction for one chain.
Rightly(p) ==
    LET w    == Window(p, LwmaWindow)
        gaps == 1 .. Len(w) - 1
        next == DifficultyOf([bits |-> ExpectedBits(p)])
    IN  /\ InTime(p) => \E i \in gaps : DifficultyOf(w[i + 1]) <= next
        /\ Slow(p) => \E i \in gaps : next <= DifficultyOf(w[i + 1])

\* The rule holds: where no block was late the target the bits are made of is at most
\* that of the mean or of the last block, and rounding to bits lowers it; where none was
\* early it is at least that of some block, which rounding does not pass.
LEMMA ExpectedRightly ==
  ASSUME NEW p, GoodChain(p), Len(p) >= 2,
         \A i \in 1 .. Len(p) : Shift(3) <= Times(TargetAt(p, i), ClampDown)
  PROVE  Rightly(p)
<1> DEFINE w == Window(p, LwmaWindow)
           next == DifficultyOf([bits |-> ExpectedBits(p)])
<1>1. PICK H \in Nat : H = HashSpace
    BY MaxTargetFacts
<1>2. /\ Chain(p) /\ Len(p) \in Nat /\ Len(p) >= 1
      /\ LwmaWindow \in Nat \ {0} /\ LwmaWindow >= 2
    BY RulesAssumption DEF GoodChain, Chain
<1>3. /\ Len(w) \in Nat /\ Len(w) >= 2
      /\ \A i \in 1 .. Len(w) : w[i] = p[Len(p) - Len(w) + i] /\ Len(p) - Len(w) + i \in 1 .. Len(p)
  <2>1. Len(w) \in Nat /\ Len(w) >= 2
      BY LwmaForm
  <2>2. \A i \in 1 .. Len(w) : w[i] = p[Len(p) - Len(w) + i] /\ Len(p) - Len(w) + i \in 1 .. Len(p)
      BY <1>2, WindowFacts
  <2> QED
      BY <2>1, <2>2
<1>4. PICK d \in Nat :
        /\ LwmaTarget(p) = TargetFor(d)
        /\ InTime(p) => \E i \in 1 .. Len(w) - 1 : DifficultyOf(w[i + 1]) <= d
        /\ Slow(p) => \E i \in 1 .. Len(w) - 1 : d <= DifficultyOf(w[i + 1])
    BY LwmaForm DEF InTime, Slow
<1>5. PICK t \in Nat, c \in Nat, r \in Nat :
        /\ t = LwmaTarget(p) /\ c = Clamped(p, t) /\ r = Eased(p, c)
        /\ r <= MaxTarget /\ ExpectedBits(p) = BitsOf(r)
    BY NextTarget
<1> HIDE DEF w
<1>6. PICK n \in Nat \ {0} : Len(w) - 1 = n /\ n + 1 = Len(w) /\ n \in 1 .. Len(w) - 1
  <2>1. Len(w) - 1 \in Nat \ {0} /\ (Len(w) - 1) + 1 = Len(w) /\ Len(w) - 1 \in 1 .. Len(w) - 1
      BY <1>3
  <2> QED
      BY <2>1
<1>7. w[n + 1] = p[Len(p)]
  <2>1. Len(w) \in 1 .. Len(w) /\ Len(p) - Len(w) + Len(w) = Len(p)
      BY <1>2, <1>3
  <2> QED
      BY <1>3, <1>6, <2>1
\* The blocks of the window: difficulty times target is within the hash space.
<1>8. ASSUME NEW i \in 1 .. n
      PROVE  LET h == w[i + 1]
                 x == TargetOf(h.bits)
             IN  /\ x \in Nat /\ x >= 1 /\ GoodBits(h.bits)
                 /\ DifficultyOf(h) \in Nat /\ DifficultyOf(h) >= 1
                 /\ DifficultyOf(h) = H \div x /\ DifficultyOf(h) * x <= H
  <2>1. i + 1 \in 1 .. Len(w)
      BY <1>6
  <2>2. PICK j \in 1 .. Len(p) : w[i + 1] = p[j]
      BY <1>3, <2>1
  <2>3. GoodBits(p[j].bits)
      BY DEF GoodChain
  <2>4. TargetAt(p, j) \in Nat /\ TargetAt(p, j) >= 1
    <3>1. PICK x \in Nat : x = TargetAt(p, j)
        BY <2>3, HardFacts DEF TargetAt
    <3>2. Times(x, ClampDown) \in Nat /\ Times(x, ClampDown) <= x
      <4>1. Fraction(ClampDown) /\ ClampDown.num <= ClampDown.den
          BY RetargetAssumption DEF Fraction
      <4> QED
          BY <4>1, TimesFacts
    <3>3. Shift(3) \in Nat /\ Shift(3) >= 1
        BY ShiftSum
    <3> QED
        BY <3>1, <3>2, <3>3
  <2> QED
      BY <1>1, <2>2, <2>3, <2>4, HardFacts DEF TargetAt
<1>9. PICK last \in Nat : last = TargetAt(p, Len(p)) /\ last >= 1 /\ last = TargetOf(w[n + 1].bits)
  <2>1. n \in 1 .. n
      OBVIOUS
  <2> QED
      BY <1>7, <1>8, <2>1 DEF TargetAt
<1>10. /\ last <= MaxTarget /\ c <= MaxTarget /\ Shift(3) <= c
       /\ t <= c \/ last <= c
       /\ c <= t \/ c <= last
  <2>1. Len(p) \in 1 .. Len(p)
      BY <1>2
  <2>2. Shift(3) <= Times(last, ClampDown)
      BY <1>9, <2>1
  <2>3. MaxTarget \in Nat
      BY MaxTargetFacts
  <2>4. /\ last <= MaxTarget /\ c <= MaxTarget
        /\ last >= 1 /\ t <= MaxTarget => (t <= c \/ last <= c)
        /\ last >= 1 /\ t > MaxTarget => last <= c
        /\ last >= 1 => (c <= t \/ c <= last)
        /\ Shift(3) <= Times(last, ClampDown) => Shift(3) <= c
      BY <1>2, <1>5, <1>9, ClampedFacts
  <2> QED
      BY <1>9, <2>2, <2>3, <2>4
<1>11. (r = c \/ last <= r) /\ (InTime(p) => r = c)
    BY <1>2, <1>5, <1>9, <1>10, EasedFacts
<1>12. Shift(3) <= r /\ r < HashSpace
  <2>1. Shift(3) <= last
    <3>1. Len(p) \in 1 .. Len(p)
        BY <1>2
    <3>2. Shift(3) <= Times(last, ClampDown)
        BY <1>9, <3>1
    <3>3. Times(last, ClampDown) \in Nat /\ Times(last, ClampDown) <= last
      <4>1. Fraction(ClampDown) /\ ClampDown.num <= ClampDown.den
          BY RetargetAssumption DEF Fraction
      <4> QED
          BY <4>1, TimesFacts
    <3>4. Shift(3) \in Nat
        BY ShiftSum
    <3> QED
        BY <3>2, <3>3, <3>4
  <2>2. Shift(3) \in Nat /\ MaxTarget \in Nat /\ MaxTarget < HashSpace /\ HashSpace \in Nat
      BY MaxTargetFacts, ShiftSum
  <2> QED
      BY <1>5, <1>10, <1>11, <2>1, <2>2
<1>13. PICK u \in Nat : /\ u = TargetOf(BitsOf(r)) /\ u >= 1 /\ u <= r
                        /\ \A b : IsBits(b) /\ TargetOf(b) <= r => TargetOf(b) <= u
    BY <1>12, RoundedKeeps
<1>14. next = H \div u /\ H \div u \in Nat
  <2> DEFINE h == [bits |-> ExpectedBits(p)]
  <2>1. h.bits = BitsOf(r)
      BY <1>5
  <2>2. GoodBits(h.bits)
      BY <1>5, <2>1, BitsAreGood
  <2> HIDE DEF h
  <2>3. DifficultyOf(h) = HashSpace \div u
      BY <1>13, <2>1, <2>2, HardFacts
  <2>4. DifficultyOf(h) = next
      BY DEF h
  <2> QED
      BY <1>1, <1>13, <2>3, <2>4, Quotient
<1> HIDE DEF next
<1>15. ASSUME InTime(p) PROVE \E i \in 1 .. n : DifficultyOf(w[i + 1]) <= next
  <2>1. u <= c
      BY <1>11, <1>13, <1>15
  <2>2. CASE c <= last
    <3>1. H \div last <= H \div u
      <4>1. u \in Nat \ {0} /\ u <= last
          BY <1>13, <2>1, <2>2
      <4> QED
          BY <4>1, QuotientBounds
    <3>2. n \in 1 .. n
        OBVIOUS
    <3>3. DifficultyOf(w[n + 1]) = H \div last
        BY <1>8, <1>9, <3>2
    <3> QED
        BY <1>14, <3>1, <3>2, <3>3
  <2>3. CASE c <= t
    <3>1. PICK i \in 1 .. n : DifficultyOf(w[i + 1]) <= d
        BY <1>4, <1>6, <1>15
    <3>2. PICK x \in Nat, y \in Nat : /\ x = DifficultyOf(w[i + 1]) /\ y = TargetOf(w[i + 1].bits)
                                      /\ x >= 1 /\ y >= 1 /\ x * y <= H
        BY <1>8
    <3>3. x <= H
      <4>1. x <= x * y /\ x * y \in Nat
          BY <3>2, Products
      <4> QED
          BY <3>2, <4>1
    <3>4. u <= TargetFor(d)
        BY <1>4, <1>5, <2>1, <2>3
    <3>5. x <= H \div u
        BY <1>1, <1>13, <3>1, <3>2, <3>3, <3>4, TargetForFacts
    <3> QED
        BY <1>14, <3>2, <3>5
  <2> QED
      BY <1>10, <2>2, <2>3
<1>16. ASSUME Slow(p) PROVE \E i \in 1 .. n : next <= DifficultyOf(w[i + 1])
  <2>1. \E i \in 1 .. n : TargetOf(w[i + 1].bits) <= r
    <3>1. CASE last <= r
      <4>1. n \in 1 .. n
          OBVIOUS
      <4> QED
          BY <1>9, <3>1, <4>1
    <3>2. CASE t <= r
      <4>1. PICK i \in 1 .. n : d <= DifficultyOf(w[i + 1])
          BY <1>4, <1>6, <1>16
      <4>2. PICK x \in Nat, y \in Nat : /\ x = DifficultyOf(w[i + 1]) /\ y = TargetOf(w[i + 1].bits)
                                        /\ x >= 1 /\ x * y <= H
          BY <1>8
      <4>3. y <= TargetFor(d)
          BY <1>1, <4>1, <4>2, TargetForFacts
      <4>4. y <= r
          BY <1>4, <1>5, <3>2, <4>3
      <4> QED
          BY <4>2, <4>4
    <3> QED
        BY <1>10, <1>11, <3>1, <3>2
  <2>2. PICK i \in 1 .. n : TargetOf(w[i + 1].bits) <= r
      BY <2>1
  <2>3. PICK y \in Nat : y = TargetOf(w[i + 1].bits) /\ y >= 1 /\ IsBits(w[i + 1].bits)
                         /\ DifficultyOf(w[i + 1]) = H \div y
      BY <1>8 DEF GoodBits
  <2>4. y <= u
      BY <1>13, <2>2, <2>3
  <2>5. H \div u <= H \div y
      BY <1>13, <2>3, <2>4, QuotientBounds
  <2> QED
      BY <1>14, <2>3, <2>5
<1> QED
    BY <1>6, <1>15, <1>16 DEF Rightly, w, next

\* A block of good bits more.
LEMMA GoodMore ==
  ASSUME NEW p, GoodChain(p), NEW b, GoodBits(b.bits), Chain(Append(p, b))
  PROVE  GoodChain(Append(p, b))
<1> DEFINE q == Append(p, b)
<1>1. PICK S : p \in Seq(S)
    BY DEF GoodChain, Chain
<1>2. p \in Seq(S \cup {b})
    BY <1>1
<1>3. /\ Len(p) \in Nat /\ Len(q) = Len(p) + 1 /\ q[Len(p) + 1] = b
      /\ \A i \in 1 .. Len(p) : q[i] = p[i]
    BY <1>2
<1>4. Chain(q)
    OBVIOUS
<1> HIDE DEF q
<1>5. ASSUME NEW i \in 1 .. Len(q) PROVE GoodBits(q[i].bits)
  <2>1. i \in 1 .. Len(p) \/ i = Len(p) + 1
      BY <1>3
  <2> QED
      BY <1>3, <2>1 DEF GoodChain
<1> QED
    BY <1>4, <1>5 DEF GoodChain, q

\* The chain and its bits.
BitsInv == RulesInv /\ GoodChain(headers)

\* An empty chain has no bits.
LEMMA BitsInitInv ==
  ASSUME RulesInit
  PROVE  BitsInv
<1>1. RulesInv /\ Len(headers) = 0
    BY RulesInitInv DEF RulesInit
<1> QED
    BY <1>1 DEF BitsInv, RulesInv, GoodChain

\* Every block takes the bits expected of it.
LEMMA BitsNextInv ==
  ASSUME BitsInv, [RulesNext]_rulesVars
  PROVE  BitsInv'
<1>1. /\ rules \in RulesBounds /\ clock \in Int /\ Chain(headers) /\ GoodChain(headers)
      /\ rules.schedule \in Schedule
      /\ rules.delays \subseteq Nat /\ rules.skews \subseteq Int
    BY RulesHaveSchedule DEF BitsInv, RulesInv
<1>2. RulesInv'
    BY RulesNextInv DEF BitsInv
<1>3. SUFFICES \E new : GoodChain(new) /\ headers' = new
    BY <1>2 DEF BitsInv, GoodChain, Chain
<1>4. CASE MineOnTip
  <2>1. PICK b : /\ b.bits = ExpectedBits(headers) /\ headers' = Append(headers, b)
      BY <1>4 DEF MineOnTip
  <2>2. Chain(Append(headers, b))
      BY <1>2, <2>1 DEF RulesInv, Chain
  <2> QED
      BY <1>1, <2>1, <2>2, ExpectedGood, GoodMore
<1>5. CASE AdoptBranch
  <2> DEFINE kept == SubSeq(headers, 1, Len(headers) - 1)
             one(first) == Branch(kept, clock + first)
             two(first, second) == Branch(one(first), clock + second)
  <2>1. PICK first \in rules.skews, second \in rules.skews :
          \E new \in {one(first), two(first, second)} : headers' = new
      BY <1>5 DEF AdoptBranch
  <2>2. GoodChain(kept)
    <3>1. Len(headers) \in Nat /\ Len(headers) >= 2
        BY <1>1, <1>5 DEF AdoptBranch, Chain
    <3>2. /\ Len(headers) - 1 \in 0 .. Len(headers)
          /\ \A i \in 1 .. Len(headers) - 1 : i \in 1 .. Len(headers)
        BY <3>1
    <3>3. /\ Chain(kept) /\ Len(kept) = Len(headers) - 1
          /\ \A i \in 1 .. Len(headers) - 1 : kept[i] = headers[i]
        BY <1>1, <3>2, PrefixOf
    <3> HIDE DEF kept
    <3> QED
        BY <1>1, <3>2, <3>3 DEF GoodChain
  <2> HIDE DEF kept
  <2>3. ASSUME NEW p, GoodChain(p), NEW ts \in Int PROVE GoodChain(Branch(p, ts))
    <3> DEFINE b == [ts |-> ts, bits |-> ExpectedBits(p), coin |-> RunningReward(p)]
    <3>1. GoodBits(b.bits)
        BY <2>3, ExpectedGood
    <3>2. Chain(Branch(p, ts)) /\ Branch(p, ts) = Append(p, b)
        BY <1>1, <2>3, BranchIsChain DEF Branch, GoodChain
    <3> HIDE DEF b
    <3>3. GoodChain(Append(p, b))
        BY <2>3, <3>1, <3>2, GoodMore
    <3> QED
        BY <3>2, <3>3
  <2>4. clock + first \in Int /\ clock + second \in Int
      BY <1>1
  <2>5. GoodChain(one(first))
      BY <2>2, <2>3, <2>4
  <2>6. GoodChain(two(first, second))
    <3> HIDE DEF one
    <3> QED
        BY <2>3, <2>4, <2>5
  <2> QED
      BY <2>1, <2>5, <2>6
<1>6. CASE UNCHANGED rulesVars
    BY <1>1, <1>6 DEF rulesVars
<1> QED
    BY <1>4, <1>5, <1>6 DEF RulesNext

\* The bits of a chain above three bytes go the right way.
LEMMA BitsGoRightly ==
  ASSUME BitsInv, AboveThreeBytes
  PROVE  RightDirection
<1>1. SUFFICES ASSUME Len(headers) >= 2 PROVE RightDirection
    BY DEF RightDirection
<1>2. GoodChain(headers) /\ DOMAIN headers = 1 .. Len(headers)
    BY DEF BitsInv, GoodChain, Chain
<1>3. \A i \in 1 .. Len(headers) : Shift(3) <= Times(TargetAt(headers, i), ClampDown)
    BY <1>2 DEF AboveThreeBytes, TargetAt
<1>4. Rightly(headers)
    BY <1>1, <1>2, <1>3, ExpectedRightly
<1> DEFINE w    == Window(headers, LwmaWindow)
           gaps == 1 .. Len(w) - 1
           next == DifficultyOf([bits |-> ExpectedBits(headers)])
<1>5. (\A i \in gaps : w[i + 1].ts - w[i].ts <= TargetTime)
        => \E x \in {DifficultyOf(w[i + 1]) : i \in gaps} : x <= next
    BY <1>4 DEF Rightly, InTime
<1>6. (\A i \in gaps : w[i + 1].ts - w[i].ts >= TargetTime)
        => \E x \in {DifficultyOf(w[i + 1]) : i \in gaps} : next <= x
    BY <1>4 DEF Rightly, Slow
<1> QED
    BY <1>5, <1>6 DEF RightDirection

\* Whatever the windows and the fractions, the difficulty expected after a window of
\* blocks none of which was late is not below the lowest of theirs, and after one
\* none of which was early not above the highest, while the targets take more than
\* three bytes.
THEOREM RetargetsRightly == RulesSpec => [](AboveThreeBytes => RightDirection)
<1>1. RulesInit => BitsInv
    BY BitsInitInv
<1>2. BitsInv /\ [RulesNext]_rulesVars => BitsInv'
    BY BitsNextInv
<1>3. BitsInv => (AboveThreeBytes => RightDirection)
    BY BitsGoRightly
<1> QED
    BY <1>1, <1>2, <1>3, PTL DEF RulesSpec

=============================================================================
