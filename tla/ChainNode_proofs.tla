-------------------------- MODULE ChainNode_proofs --------------------------
(***************************************************************************)
(* What the rules over chains give for every chain: the replay of a chain  *)
(* is a set of coins and grows block by block, its work is a natural       *)
(* number that every appended block of positive work raises, and a chain   *)
(* that passes the complete check has each block at its own height.        *)
(* Ancestors: what lies on the path below a block, and what it takes for a *)
(* chain, or for the blocks read back from a store, to lie on one path.    *)
(* Then ChainNode, for every set of threads and blocks: types, also        *)
(* of what a miner or a start reads back from the store; the agreement of  *)
(* the stored and the live UTXO set; and a chain store that never keeps a  *)
(* block of an abandoned branch.  The last one needs more than itself to   *)
(* be inductive: who may hold Blockchain.lock, and that whoever made the   *)
(* store stale is about to repair every stale height.                      *)
(***************************************************************************)
EXTENDS ChainNode, Recursion

-----------------------------------------------------------------------------
(* Chains: entries, replay, work, paths *)

\* An element of a chain is a block and the hash it answers.
LEMMA EntryFields ==
  ASSUME NEW c \in Seq(Entry), NEW i \in 1..Len(c)
  PROVE  /\ c[i] \in Entry
         /\ c[i].blk \in Block
         /\ c[i].hash \in Block \cup {NoBlock}
<1>1. c[i] \in Entry
  OBVIOUS
<1> QED BY <1>1 DEF Entry

\* A block that is new in the chain answers its own hash.
LEMMA FreshIsEntry ==
  ASSUME NEW b \in Block
  PROVE  Fresh(b) \in Entry /\ Fresh(b).blk = b /\ Fresh(b).hash = b
BY DEF Entry, Fresh

\* The deltas of a block keep the set a set of coins.
LEMMA ApplyBlockType ==
  ASSUME NEW coins \in SUBSET Coin, NEW b \in Block
  PROVE  ApplyBlock(coins, b) \in SUBSET Coin
BY BodyAssumption DEF ApplyBlock

\* The recursion of Unspent along a chain defines a function of its prefixes
\* into the sets of coins.
LEMMA UnspentDef ==
  ASSUME NEW c \in Seq(Entry)
  PROVE  /\ Unspent(c) \in [0..Len(c) -> SUBSET Coin]
         /\ Unspent(c)[0] = {}
         /\ \A n \in 1..Len(c) :
              Unspent(c)[n] = ApplyBlock(Unspent(c)[n - 1], c[n].blk)
<1> DEFINE N == Len(c)
           IsReplay(f) == f = [n \in 0..N |->
                                IF n = 0 THEN {} ELSE ApplyBlock(f[n - 1], c[n].blk)]
           step == [n \in 1..N |->
                      [coins \in SUBSET Coin |-> ApplyBlock(coins, c[n].blk)]]
<1>1. N \in Nat OBVIOUS
<1>2. step \in [1..N -> [SUBSET Coin -> SUBSET Coin]]
  BY EntryFields, ApplyBlockType
<1>3. PICK f \in [0..N -> SUBSET Coin] : Iterates(f, N, {}, step)
  <2>1. {} \in SUBSET Coin OBVIOUS
  <2> HIDE DEF step, N
  <2> QED BY <1>1, <1>2, <2>1, IterationExists
<1>4. /\ f[0] = {}
      /\ \A n \in 1..N : f[n] = ApplyBlock(f[n - 1], c[n].blk)
  <2>1. ASSUME NEW n \in 1..N PROVE f[n - 1] \in SUBSET Coin
    <3>1. n - 1 \in 0..N BY <1>1
    <3> QED BY <3>1
  <2> QED BY <1>3, <2>1 DEF Iterates
<1>5. IsReplay(f)
  <2>1. ASSUME NEW n \in 0..N
        PROVE  f[n] = IF n = 0 THEN {} ELSE ApplyBlock(f[n - 1], c[n].blk)
    <3>1. n = 0 \/ n \in 1..N BY <1>1
    <3> QED BY <1>1, <1>4, <3>1
  <2>2. f = [n \in 0..N |-> f[n]] BY <1>3
  <2> QED BY <2>1, <2>2
<1>6. IsReplay(Unspent(c))
  <2>1. Unspent(c) = CHOOSE u : IsReplay(u)
    BY DEF Unspent
  <2> HIDE DEF IsReplay
  <2> QED BY <1>5, <2>1
<1>7. /\ DOMAIN Unspent(c) = 0..N
      /\ Unspent(c)[0] = {}
      /\ \A n \in 1..N : Unspent(c)[n] = ApplyBlock(Unspent(c)[n - 1], c[n].blk)
  <2>1. ASSUME NEW u, IsReplay(u)
        PROVE  /\ DOMAIN u = 0..N
               /\ u[0] = {}
               /\ \A n \in 1..N : u[n] = ApplyBlock(u[n - 1], c[n].blk)
    <3>1. DOMAIN u = 0..N BY <2>1
    <3>2. \A n \in 0..N : u[n] = IF n = 0 THEN {} ELSE ApplyBlock(u[n - 1], c[n].blk)
      BY <2>1
    <3> HIDE DEF IsReplay
    <3>3. 0 \in 0..N /\ \A n \in 1..N : n \in 0..N /\ n # 0 BY <1>1
    <3> QED BY <3>1, <3>2, <3>3
  <2> HIDE DEF IsReplay
  <2> QED BY <1>6, <2>1
<1>8. \A n \in Nat : n \in 0..N => Unspent(c)[n] \in SUBSET Coin
  <2> DEFINE S == {n \in Nat : n \in 0..N => Unspent(c)[n] \in SUBSET Coin}
  <2>1. 0 \in S BY <1>7
  <2>2. ASSUME NEW n \in Nat, n \in S PROVE n + 1 \in S
    <3>1. CASE n + 1 \in 0..N
      <4>1. n + 1 \in 1..N /\ n \in 0..N BY <3>1, <1>1
      <4>2. c[n + 1].blk \in Block BY <4>1, EntryFields
      <4>3. Unspent(c)[n + 1] = ApplyBlock(Unspent(c)[n], c[n + 1].blk)
        BY <4>1, <1>7
      <4> QED BY <2>2, <4>1, <4>2, <4>3, ApplyBlockType
    <3>2. CASE n + 1 \notin 0..N
      BY <3>2
    <3> QED BY <3>1, <3>2
  <2> HIDE DEF S
  <2>3. Nat \subseteq S BY <2>1, <2>2, SetInduction
  <2> QED BY <2>3 DEF S
<1>9. Unspent(c) = [n \in 0..N |-> Unspent(c)[n]]
  <2>1. ASSUME NEW u, IsReplay(u) PROVE u = [n \in 0..N |-> u[n]]
    BY <2>1
  <2> HIDE DEF IsReplay
  <2> QED BY <1>6, <2>1
<1> QED BY <1>7, <1>8, <1>9

\* rebuild_from_chain leaves a set of coins.
LEMMA ReplayType ==
  ASSUME NEW c \in Seq(Entry)
  PROVE  Replay(c) \in SUBSET Coin
<1>1. Len(c) \in 0..Len(c) OBVIOUS
<1> QED BY <1>1, UnspentDef DEF Replay

\* Two chains that agree on their first k blocks leave the same coins there.
LEMMA UnspentPrefix ==
  ASSUME NEW c \in Seq(Entry), NEW d \in Seq(Entry), NEW k \in Nat,
         k <= Len(c), k <= Len(d), \A i \in 1..k : c[i].blk = d[i].blk
  PROVE  \A n \in 0..k : Unspent(c)[n] = Unspent(d)[n]
<1> DEFINE S == {n \in Nat : n <= k => Unspent(c)[n] = Unspent(d)[n]}
<1>1. 0 \in S BY UnspentDef
<1>2. ASSUME NEW n \in Nat, n \in S PROVE n + 1 \in S
  <2>1. CASE n + 1 <= k
    <3>1. n + 1 \in 1..k /\ n + 1 \in 1..Len(c) /\ n + 1 \in 1..Len(d)
      BY <2>1
    <3>2. Unspent(c)[n + 1] = ApplyBlock(Unspent(c)[n], c[n + 1].blk)
      BY <3>1, UnspentDef
    <3>3. Unspent(d)[n + 1] = ApplyBlock(Unspent(d)[n], d[n + 1].blk)
      BY <3>1, UnspentDef
    <3> QED BY <1>2, <2>1, <3>1, <3>2, <3>3
  <2>2. CASE ~(n + 1 <= k) BY <2>2
  <2> QED BY <2>1, <2>2
<1> HIDE DEF S
<1>3. Nat \subseteq S BY <1>1, <1>2, SetInduction
<1> QED BY <1>3 DEF S

\* The update of the UTXO set by one block is the replay of the longer chain:
\* add_block's deltas and rebuild_from_chain agree.
THEOREM ReplayAppend ==
  ASSUME NEW c \in Seq(Entry), NEW b \in Block
  PROVE  Replay(Append(c, Fresh(b))) = ApplyBlock(Replay(c), b)
<1> DEFINE d == Append(c, Fresh(b))
<1>1. Fresh(b) \in Entry /\ Fresh(b).blk = b BY FreshIsEntry
<1>2. d \in Seq(Entry) /\ Len(d) = Len(c) + 1 /\ d[Len(d)].blk = b
  BY <1>1
<1>3. \A i \in 1..Len(c) : c[i].blk = d[i].blk BY <1>1
<1>4. Len(c) \in Nat /\ Len(c) \in 0..Len(c) OBVIOUS
<1> HIDE DEF d
<1>5. Unspent(c)[Len(c)] = Unspent(d)[Len(c)]
  BY <1>2, <1>3, <1>4, UnspentPrefix
<1>6. Len(d) \in 1..Len(d) BY <1>2, <1>4
<1>7. Unspent(d)[Len(d)] = ApplyBlock(Unspent(d)[Len(d) - 1], d[Len(d)].blk)
  BY <1>2, <1>6, UnspentDef
<1>8. Len(d) - 1 = Len(c) BY <1>2, <1>4
<1> QED BY <1>2, <1>5, <1>7, <1>8 DEF Replay, d

\* A chain that starts at height 0 and whose blocks follow their parents holds
\* at every index the block of that height.
LEMMA HeightsOfLinked ==
  ASSUME NEW c \in Seq(Entry), c # <<>> => Height[c[1].blk] = 0,
         \A i \in 2..Len(c) : LinkedAt(c, i)
  PROVE  \A i \in 1..Len(c) : Height[c[i].blk] = i - 1
<1> DEFINE S == {n \in Nat : n + 1 <= Len(c) => Height[c[n + 1].blk] = n}
<1>1. 0 \in S
  OBVIOUS
<1>2. ASSUME NEW n \in Nat, n \in S PROVE n + 1 \in S
  <2>1. CASE n + 2 <= Len(c)
    <3>1. n + 2 \in 2..Len(c) BY <2>1
    <3>2. Height[c[n + 2].blk] = Height[c[n + 1].blk] + 1
      <4>1. LinkedAt(c, n + 2) BY <3>1
      <4>2. n + 2 - 1 = n + 1 OBVIOUS
      <4> QED BY <4>1, <4>2 DEF LinkedAt
    <3> QED BY <1>2, <2>1, <3>2
  <2>2. CASE ~(n + 2 <= Len(c)) BY <2>2
  <2> QED BY <2>1, <2>2
<1> HIDE DEF S
<1>3. Nat \subseteq S BY <1>1, <1>2, SetInduction
<1>4. ASSUME NEW i \in 1..Len(c) PROVE Height[c[i].blk] = i - 1
  <2>1. i - 1 \in S BY <1>3
  <2> QED BY <2>1 DEF S
<1> QED BY <1>4

\* So does a chain that passes _validate_complete_chain.
LEMMA HeightsOfValid ==
  ASSUME NEW c \in Seq(Entry), CompleteChainValid(c)
  PROVE  \A i \in 1..Len(c) : Height[c[i].blk] = i - 1
BY HeightsOfLinked DEF CompleteChainValid

-----------------------------------------------------------------------------
(* Work *)

\* The work of the first n blocks of a chain, along the chain.
LEMMA WorkDef ==
  ASSUME NEW c \in Seq(Entry)
  PROVE  /\ WorkOf(c) \in [0..Len(c) -> Nat]
         /\ WorkOf(c)[0] = 0
         /\ \A n \in 1..Len(c) : WorkOf(c)[n] = WorkOf(c)[n - 1] + Work[c[n].blk]
<1> DEFINE N == Len(c)
           IsWork(f) == f = [n \in 0..N |-> IF n = 0 THEN 0 ELSE f[n - 1] + Work[c[n].blk]]
           step == [n \in 1..N |-> [w \in Nat |-> w + Work[c[n].blk]]]
<1>1. N \in Nat OBVIOUS
<1>0. \A n \in 1..N : Work[c[n].blk] \in Nat
  BY EntryFields, HeaderAssumption
<1>2. step \in [1..N -> [Nat -> Nat]]
  BY <1>0
<1>3. PICK f \in [0..N -> Nat] : Iterates(f, N, 0, step)
  <2>1. 0 \in Nat OBVIOUS
  <2> HIDE DEF step, N
  <2> QED BY <1>1, <1>2, <2>1, IterationExists
<1>4. /\ f[0] = 0
      /\ \A n \in 1..N : f[n] = f[n - 1] + Work[c[n].blk]
  <2>1. ASSUME NEW n \in 1..N PROVE f[n - 1] \in Nat
    <3>1. n - 1 \in 0..N BY <1>1
    <3> QED BY <3>1
  <2> QED BY <1>3, <2>1 DEF Iterates
<1>5. IsWork(f)
  <2>1. ASSUME NEW n \in 0..N
        PROVE  f[n] = IF n = 0 THEN 0 ELSE f[n - 1] + Work[c[n].blk]
    <3>1. n = 0 \/ n \in 1..N BY <1>1
    <3> QED BY <1>1, <1>4, <3>1
  <2>2. f = [n \in 0..N |-> f[n]] BY <1>3
  <2> QED BY <2>1, <2>2
<1>6. IsWork(WorkOf(c))
  <2>1. WorkOf(c) = CHOOSE w : IsWork(w)
    BY DEF WorkOf
  <2> HIDE DEF IsWork
  <2> QED BY <1>5, <2>1
<1>7. /\ WorkOf(c) = [n \in 0..N |-> WorkOf(c)[n]]
      /\ WorkOf(c)[0] = 0
      /\ \A n \in 1..N : WorkOf(c)[n] = WorkOf(c)[n - 1] + Work[c[n].blk]
  <2>1. ASSUME NEW w, IsWork(w)
        PROVE  /\ w = [n \in 0..N |-> w[n]]
               /\ w[0] = 0
               /\ \A n \in 1..N : w[n] = w[n - 1] + Work[c[n].blk]
    <3>1. w = [n \in 0..N |-> w[n]] BY <2>1
    <3>2. \A n \in 0..N : w[n] = IF n = 0 THEN 0 ELSE w[n - 1] + Work[c[n].blk]
      BY <2>1
    <3> HIDE DEF IsWork
    <3>3. 0 \in 0..N /\ \A n \in 1..N : n \in 0..N /\ n # 0 BY <1>1
    <3> QED BY <3>1, <3>2, <3>3
  <2> HIDE DEF IsWork
  <2> QED BY <1>6, <2>1
<1>8. \A n \in Nat : n \in 0..N => WorkOf(c)[n] \in Nat
  <2> DEFINE S == {n \in Nat : n \in 0..N => WorkOf(c)[n] \in Nat}
  <2>1. 0 \in S BY <1>7
  <2>2. ASSUME NEW n \in Nat, n \in S PROVE n + 1 \in S
    <3>1. CASE n + 1 \in 0..N
      <4>1. n + 1 \in 1..N /\ n \in 0..N /\ (n + 1) - 1 = n BY <3>1, <1>1
      <4>2. WorkOf(c)[n + 1] = WorkOf(c)[n] + Work[c[n + 1].blk]
        BY <4>1, <1>7
      <4> QED BY <1>0, <2>2, <4>1, <4>2
    <3>2. CASE n + 1 \notin 0..N
      BY <3>2
    <3> QED BY <3>1, <3>2
  <2> HIDE DEF S
  <2>3. Nat \subseteq S BY <2>1, <2>2, SetInduction
  <2> QED BY <2>3 DEF S
<1>9. WorkOf(c) \in [0..N -> Nat]
  <2> DEFINE w == WorkOf(c)
  <2>1. w = [n \in 0..N |-> w[n]] BY <1>7
  <2>2. \A n \in 0..N : w[n] \in Nat BY <1>8
  <2> HIDE DEF w
  <2> QED BY <2>1, <2>2
<1> QED BY <1>7, <1>9

\* Two chains that agree on their first k blocks have the same work there.
LEMMA WorkPrefix ==
  ASSUME NEW c \in Seq(Entry), NEW d \in Seq(Entry), NEW k \in Nat,
         k <= Len(c), k <= Len(d), \A i \in 1..k : c[i].blk = d[i].blk
  PROVE  \A n \in 0..k : WorkOf(c)[n] = WorkOf(d)[n]
<1> DEFINE S == {n \in Nat : n <= k => WorkOf(c)[n] = WorkOf(d)[n]}
<1>1. 0 \in S BY WorkDef
<1>2. ASSUME NEW n \in Nat, n \in S PROVE n + 1 \in S
  <2>1. CASE n + 1 <= k
    <3>1. n + 1 \in 1..k /\ n + 1 \in 1..Len(c) /\ n + 1 \in 1..Len(d)
      BY <2>1
    <3>2. WorkOf(c)[n + 1] = WorkOf(c)[n] + Work[c[n + 1].blk]
      BY <3>1, WorkDef
    <3>3. WorkOf(d)[n + 1] = WorkOf(d)[n] + Work[d[n + 1].blk]
      BY <3>1, WorkDef
    <3> QED BY <1>2, <2>1, <3>1, <3>2, <3>3
  <2>2. CASE ~(n + 1 <= k) BY <2>2
  <2> QED BY <2>1, <2>2
<1> HIDE DEF S
<1>3. Nat \subseteq S BY <1>1, <1>2, SetInduction
<1> QED BY <1>3 DEF S

\* The work of a chain is a natural number.
LEMMA ChainWorkType ==
  ASSUME NEW c \in Seq(Entry)
  PROVE  ChainWork(c) \in Nat
<1>1. Len(c) \in 0..Len(c) OBVIOUS
<1> QED BY <1>1, WorkDef DEF ChainWork

\* A block adds its own work to the chain's.
LEMMA WorkAppend ==
  ASSUME NEW c \in Seq(Entry), NEW b \in Block
  PROVE  ChainWork(Append(c, Fresh(b))) = ChainWork(c) + Work[b]
<1> DEFINE d == Append(c, Fresh(b))
<1>1. Fresh(b) \in Entry /\ Fresh(b).blk = b BY FreshIsEntry
<1>2. d \in Seq(Entry) /\ Len(d) = Len(c) + 1 /\ d[Len(d)].blk = b
  BY <1>1
<1>3. \A i \in 1..Len(c) : c[i].blk = d[i].blk BY <1>1
<1>4. Len(c) \in Nat /\ Len(c) \in 0..Len(c) OBVIOUS
<1> HIDE DEF d
<1>5. WorkOf(c)[Len(c)] = WorkOf(d)[Len(c)]
  BY <1>2, <1>3, <1>4, WorkPrefix
<1>6. Len(d) \in 1..Len(d) BY <1>2, <1>4
<1>7. WorkOf(d)[Len(d)] = WorkOf(d)[Len(d) - 1] + Work[d[Len(d)].blk]
  BY <1>2, <1>6, WorkDef
<1>8. Len(d) - 1 = Len(c) BY <1>2, <1>4
<1> QED BY <1>2, <1>5, <1>7, <1>8 DEF ChainWork, d

\* A node prefers its chain with one more block, whatever work that block has:
\* with none the greater height decides.
THEOREM LongerIsPreferred ==
  ASSUME NEW c \in Seq(Entry), NEW b \in Block
  PROVE  Preferred(Append(c, Fresh(b)), c)
<1>1. ChainWork(Append(c, Fresh(b))) = ChainWork(c) + Work[b] BY WorkAppend
<1>2. ChainWork(c) \in Nat /\ Work[b] \in Nat BY ChainWorkType, HeaderAssumption
<1>3. Len(Append(c, Fresh(b))) > Len(c) BY FreshIsEntry
<1> QED BY <1>1, <1>2, <1>3 DEF Preferred

\* What a node prefers has at least the work of what it had.
LEMMA PreferredWork ==
  ASSUME NEW c \in Seq(Entry), NEW d \in Seq(Entry), Preferred(d, c)
  PROVE  ChainWork(d) >= ChainWork(c)
BY ChainWorkType DEF Preferred

\* The work of a chain grows along it.
LEMMA WorkGrows ==
  ASSUME NEW c \in Seq(Entry), NEW i \in 0..Len(c)
  PROVE  WorkOf(c)[i] <= ChainWork(c)
<1> DEFINE w == WorkOf(c)
           S == {n \in Nat : i + n <= Len(c) => w[i] <= w[i + n]}
<1>0. w \in [0..Len(c) -> Nat] BY WorkDef
<1>1. 0 \in S BY <1>0
<1>2. ASSUME NEW n \in Nat, n \in S PROVE n + 1 \in S
  <2>1. CASE i + (n + 1) <= Len(c)
    <3>1. i + (n + 1) \in 1..Len(c) /\ i + n \in 0..Len(c) /\ i + (n + 1) - 1 = i + n
      BY <2>1
    <3>2. w[i + (n + 1)] = w[i + n] + Work[c[i + (n + 1)].blk]
      BY <3>1, WorkDef
    <3>3. Work[c[i + (n + 1)].blk] \in Nat BY <3>1, EntryFields, HeaderAssumption
    <3>4. w[i] \in Nat /\ w[i + n] \in Nat BY <1>0, <3>1
    <3>5. w[i] <= w[i + n] BY <1>2, <3>1
    <3> HIDE DEF w
    <3> QED BY <3>2, <3>3, <3>4, <3>5
  <2>2. CASE ~(i + (n + 1) <= Len(c)) BY <2>2
  <2> QED BY <2>1, <2>2
<1> HIDE DEF S, w
<1>3. Nat \subseteq S BY <1>1, <1>2, SetInduction
<1>4. Len(c) - i \in S /\ i + (Len(c) - i) = Len(c) BY <1>3
<1> QED BY <1>4 DEF S, w, ChainWork

\* A node prefers a chain to every beginning of it.
LEMMA PreferredToPrefix ==
  ASSUME NEW c \in Seq(Entry), NEW i \in 1..Len(c), i # Len(c)
  PROVE  Preferred(c, SubSeq(c, 1, i))
<1> DEFINE d == SubSeq(c, 1, i)
<1>1. d \in Seq(Entry) /\ Len(d) = i /\ \A j \in 1..i : d[j] = c[j]
  OBVIOUS
<1> HIDE DEF d
<1>2. WorkOf(d)[i] = WorkOf(c)[i]
  BY <1>1, WorkPrefix
<1>3. ChainWork(d) <= ChainWork(c)
  BY <1>1, <1>2, WorkGrows DEF ChainWork
<1>4. ChainWork(c) \in Nat /\ ChainWork(d) \in Nat BY <1>1, ChainWorkType
<1>5. Len(c) > Len(d) BY <1>1
<1>6. Preferred(c, d) BY <1>3, <1>4, <1>5 DEF Preferred
<1> QED BY <1>6 DEF d

\* The chains whose last block answers a block's hash are ordered: who prefers
\* e to d and d to c prefers e to c.
LEMMA PreferredTransitive ==
  ASSUME NEW c \in Seq(Entry), NEW d \in Seq(Entry), NEW e \in Seq(Entry),
         \A x \in {c, d, e} : x # <<>> => TipHash(x) \in Block,
         Preferred(d, c), Preferred(e, d)
  PROVE  Preferred(e, c)
<1>1. ChainWork(c) \in Nat /\ ChainWork(d) \in Nat /\ ChainWork(e) \in Nat
  BY ChainWorkType
<1>2. Len(c) \in Nat /\ Len(d) \in Nat /\ Len(e) \in Nat
  OBVIOUS
<1>3. CASE Len(c) = Len(d) /\ Len(d) = Len(e) /\ c # <<>>
  <2>1. d # <<>> /\ e # <<>> BY <1>3
  <2>2. Rank[TipHash(c)] \in Nat /\ Rank[TipHash(d)] \in Nat /\ Rank[TipHash(e)] \in Nat
    BY <1>3, <2>1, HeaderAssumption
  <2> QED BY <1>1, <1>2, <1>3, <2>2 DEF Preferred
<1>4. CASE ~(Len(c) = Len(d) /\ Len(d) = Len(e) /\ c # <<>>)
  BY <1>1, <1>2, <1>4 DEF Preferred
<1> QED BY <1>3, <1>4

-----------------------------------------------------------------------------
(* Sound chains *)

\* What BestChain calls acceptable: rooted in the genesis, linked, validated,
\* and free of double spends; and a chain whose objects answer their own hash.
Sound(c) ==
  /\ c # <<>> => c[1] = Fresh(Genesis)
  /\ \A i \in 2..Len(c) : LinkedAt(c, i)
  /\ Blocks(c) \subseteq FullValid \cup ReorgValid
  /\ SpendsUnspent(c)
AllFresh(c) == \A i \in 1..Len(c) : c[i] = Fresh(c[i].blk)

\* A sound chain has each block at its own height.
LEMMA HeightsOfSound ==
  ASSUME NEW c \in Seq(Entry), Sound(c)
  PROVE  \A i \in 1..Len(c) : Height[c[i].blk] = i - 1
<1>1. c # <<>> => Height[c[1].blk] = 0
  BY GenesisAssumption, HeaderAssumption, FreshIsEntry DEF Sound
<1> QED BY <1>1, HeightsOfLinked DEF Sound

\* A validated block that follows the tip and spends what the chain leaves
\* unspent keeps the chain sound.
LEMMA SoundAppend ==
  ASSUME NEW c \in Seq(Entry), Sound(c), AllFresh(c), NEW b \in FullValid,
         Height[b] = Len(c), Parent[b] = TipHash(c), c = <<>> => b = Genesis,
         Spends[b] \subseteq Replay(c)
  PROVE  Sound(Append(c, Fresh(b))) /\ AllFresh(Append(c, Fresh(b)))
<1> DEFINE d == Append(c, Fresh(b))
           n == Len(c) + 1
<1>0. b \in Block /\ Fresh(b) \in Entry /\ Fresh(b).blk = b /\ Fresh(b).hash = b
  BY BodyAssumption, FreshIsEntry
<1>1. /\ d \in Seq(Entry) /\ Len(d) = n /\ d[n] = Fresh(b) /\ n \in Nat /\ DOMAIN d = 1..n
      /\ \A i \in 1..Len(c) : d[i] = c[i]
  BY <1>0
<1>2. \A i \in 1..Len(d) : i \in 1..Len(c) \/ i = n BY <1>1
<1> HIDE DEF d
<1>3. AllFresh(d) BY <1>0, <1>1, <1>2 DEF AllFresh
<1>4. d # <<>> => d[1] = Fresh(Genesis)
  <2>1. CASE c = <<>> BY <1>1, <2>1
  <2>2. CASE c # <<>>
    <3>1. 1 \in 1..Len(c) BY <2>2
    <3> QED BY <1>1, <2>2, <3>1 DEF Sound
  <2> QED BY <2>1, <2>2
<1>5. \A i \in 2..Len(d) : LinkedAt(d, i)
  <2> SUFFICES ASSUME NEW i \in 2..Len(d) PROVE LinkedAt(d, i)
    OBVIOUS
  <2>1. CASE i \in 1..Len(c)
    <3>1. i \in 2..Len(c) /\ i - 1 \in 1..Len(c) BY <2>1
    <3>2. d[i] = c[i] /\ d[i - 1] = c[i - 1] BY <1>1, <3>1
    <3>3. LinkedAt(c, i) BY <3>1 DEF Sound
    <3> QED BY <3>2, <3>3 DEF LinkedAt
  <2>2. CASE i = n
    <3>1. Len(c) \in 1..Len(c) /\ c # <<>> /\ n - 1 = Len(c) BY <1>1, <2>2
    <3>2. d[i] = Fresh(b) /\ d[i - 1] = c[Len(c)] BY <1>1, <2>2, <3>1
    <3>3. Height[c[Len(c)].blk] = Len(c) - 1 BY <3>1, HeightsOfSound
    <3>4. Parent[b] = c[Len(c)].hash BY <3>1 DEF TipHash
    <3> QED BY <1>0, <3>2, <3>3, <3>4 DEF LinkedAt
  <2> QED BY <1>1, <1>2, <2>1, <2>2
<1>6. Blocks(d) \subseteq FullValid \cup ReorgValid
  BY <1>0, <1>1, <1>2 DEF Blocks, Sound
<1>7. SpendsUnspent(d)
  <2>0. \A i \in 1..Len(c) : c[i].blk = d[i].blk BY <1>1
  <2>1. \A k \in 0..Len(c) : Unspent(c)[k] = Unspent(d)[k]
    BY <1>1, <2>0, UnspentPrefix
  <2> SUFFICES ASSUME NEW i \in 1..Len(d) PROVE Spends[d[i].blk] \subseteq Unspent(d)[i - 1]
    BY <1>1 DEF SpendsUnspent
  <2>2. CASE i \in 1..Len(c)
    <3>1. i - 1 \in 0..Len(c) BY <2>2
    <3>2. Spends[c[i].blk] \subseteq Unspent(c)[i - 1] BY <2>2 DEF Sound, SpendsUnspent
    <3>3. Unspent(c)[i - 1] = Unspent(d)[i - 1] BY <2>1, <3>1
    <3> QED BY <1>1, <2>2, <3>2, <3>3
  <2>3. CASE i = n
    <3>1. i - 1 = Len(c) /\ Len(c) \in 0..Len(c) BY <1>1, <2>3
    <3> QED BY <1>0, <1>1, <2>1, <2>3, <3>1 DEF Replay
  <2> QED BY <1>2, <2>2, <2>3
<1> QED BY <1>3, <1>4, <1>5, <1>6, <1>7 DEF Sound, d

\* A chain that passes _validate_complete_chain and keeps the genesis of a
\* sound one is sound.
LEMMA SoundReplaced ==
  ASSUME NEW c \in Seq(Entry), NEW d \in Seq(Entry), Sound(c), c # <<>>,
         CompleteChainValid(d), d[1] = c[1]
  PROVE  Sound(d)
<1>1. d[1] = Fresh(Genesis) BY DEF Sound
<1>2. \A i \in 1..Len(d) : d[i].blk \in FullValid \cup ReorgValid
  <2>1. 1 \in 1..Len(c) OBVIOUS
  <2>2. d[1].blk \in FullValid \cup ReorgValid BY <2>1 DEF Sound, Blocks
  <2>3. \A i \in 2..Len(d) : d[i].blk \in ReorgValid BY DEF CompleteChainValid
  <2>4. \A i \in 1..Len(d) : i = 1 \/ i \in 2..Len(d) OBVIOUS
  <2> QED BY <2>2, <2>3, <2>4
<1>3. Blocks(d) \subseteq FullValid \cup ReorgValid BY <1>2 DEF Blocks
<1> QED BY <1>1, <1>3 DEF Sound, CompleteChainValid

\* Two sound chains that share a block have it at the same height and agree
\* below it.
LEMMA SharedPrefix ==
  ASSUME NEW c \in Seq(Entry), NEW d \in Seq(Entry), Sound(c), AllFresh(c),
         Sound(d), AllFresh(d), NEW m \in 1..Len(c), NEW j \in 1..Len(d),
         c[m].blk = d[j].blk
  PROVE  m = j /\ \A i \in 1..m : c[i] = d[i]
<1>1. m = j BY HeightsOfSound
<1> DEFINE S == {n \in Nat : n < m => c[m - n] = d[m - n]}
<1>2. 0 \in S BY <1>1 DEF AllFresh
<1>3. ASSUME NEW n \in Nat, n \in S PROVE n + 1 \in S
  <2>1. CASE n + 1 < m
    <3> DEFINE k == m - n
    <3>1. k \in 2..Len(c) /\ k \in 2..Len(d) /\ c[k] = d[k]
      BY <1>1, <1>3, <2>1
    <3>2. k - 1 \in 1..Len(c) /\ k - 1 \in 1..Len(d) /\ k - 1 = m - (n + 1) BY <3>1
    <3> HIDE DEF k
    <3>3. Parent[c[k].blk] = c[k - 1].hash BY <3>1 DEF Sound, LinkedAt
    <3>4. Parent[d[k].blk] = d[k - 1].hash BY <3>1 DEF Sound, LinkedAt
    <3>5. c[k - 1].hash = d[k - 1].hash BY <3>1, <3>3, <3>4
    <3>6. c[k - 1] = Fresh(c[k - 1].blk) /\ d[k - 1] = Fresh(d[k - 1].blk)
      BY <3>2 DEF AllFresh
    <3>7. c[k - 1].blk \in Block /\ d[k - 1].blk \in Block BY <3>2, EntryFields
    <3>8. c[k - 1] = d[k - 1]
      <4> DEFINE x == c[k - 1].blk
                 y == d[k - 1].blk
      <4>1. Fresh(x).hash = x /\ Fresh(y).hash = y BY <3>7, FreshIsEntry
      <4>2. c[k - 1].hash = x /\ d[k - 1].hash = y BY <3>6, <4>1
      <4> QED BY <3>5, <3>6, <4>2
    <3> QED BY <3>2, <3>8
  <2>2. CASE ~(n + 1 < m) BY <2>2
  <2> QED BY <2>1, <2>2
<1> HIDE DEF S
<1>4. Nat \subseteq S BY <1>2, <1>3, SetInduction
<1>5. ASSUME NEW i \in 1..m PROVE c[i] = d[i]
  <2>1. m - i \in S /\ m - i < m /\ m - (m - i) = i BY <1>4
  <2> QED BY <2>1 DEF S
<1> QED BY <1>1, <1>5

\* The path that the parents of a block spell is the beginning of any sound
\* chain that holds the block.
LEMMA PathOfChain ==
  ASSUME NEW c \in Seq(Entry), Sound(c), AllFresh(c), NEW i \in 1..Len(c)
  PROVE  /\ PathOf(c[i].blk) = SubSeq(c, 1, i)
         /\ PathOf(c[i].blk) \in Seq(Entry)
         /\ TipHash(PathOf(c[i].blk)) = c[i].blk
<1> DEFINE b == c[i].blk
           IsBack(f) == f = [n \in 0..Height[b] |->
                IF n = 0 THEN b
                ELSE IF f[n - 1] \in Block THEN Parent[f[n - 1]] ELSE NoBlock]
           back == CHOOSE f : IsBack(f)
           g == [n \in 0..Height[b] |-> c[i - n].blk]
<1>1. b \in Block /\ Height[b] = i - 1 /\ i \in Nat /\ i <= Len(c)
  BY EntryFields, HeightsOfSound
<1>2. ASSUME NEW n \in 1..Height[b] PROVE Parent[c[i - (n - 1)].blk] = c[i - n].blk
  <2> DEFINE k == i - (n - 1)
  <2>1. k \in 2..Len(c) /\ k - 1 = i - n /\ k - 1 \in 1..Len(c) BY <1>1
  <2> HIDE DEF k
  <2>2. Parent[c[k].blk] = c[k - 1].hash BY <2>1 DEF Sound, LinkedAt
  <2>3. c[k - 1] = Fresh(c[k - 1].blk) /\ c[k - 1].blk \in Block
    BY <2>1, EntryFields DEF AllFresh
  <2>4. c[k - 1].hash = c[k - 1].blk
    <3> DEFINE x == c[k - 1].blk
    <3>1. Fresh(x).hash = x BY <2>3, FreshIsEntry
    <3> QED BY <2>3, <3>1
  <2>5. Parent[c[k].blk] = c[i - n].blk BY <2>1, <2>2, <2>4
  <2> QED BY <2>5 DEF k
<1>3. IsBack(g)
  <2>1. ASSUME NEW n \in 0..Height[b]
        PROVE  g[n] = IF n = 0 THEN b
                      ELSE IF g[n - 1] \in Block THEN Parent[g[n - 1]] ELSE NoBlock
    <3>1. CASE n = 0
      <4>1. i - 0 = i BY <1>1
      <4> QED BY <3>1, <4>1
    <3>2. CASE n # 0
      <4>1. n \in 1..Height[b] /\ n - 1 \in 0..Height[b] /\ i - (n - 1) \in 1..Len(c)
        BY <1>1, <3>2
      <4>2. g[n - 1] = c[i - (n - 1)].blk /\ g[n] = c[i - n].blk BY <4>1
      <4>3. g[n - 1] \in Block BY <4>1, <4>2, EntryFields
      <4> HIDE DEF g
      <4> QED BY <1>2, <3>2, <4>1, <4>2, <4>3
    <3> QED BY <3>1, <3>2
  <2>2. g = [n \in 0..Height[b] |-> g[n]] OBVIOUS
  <2> HIDE DEF g
  <2> QED BY <2>1, <2>2
<1>4. IsBack(back)
  <2> HIDE DEF IsBack
  <2> QED BY <1>3
<1>5. /\ back[0] = b
      /\ \A n \in 1..Height[b] :
           back[n] = IF back[n - 1] \in Block THEN Parent[back[n - 1]] ELSE NoBlock
  <2> HIDE DEF back
  <2>1. \A n \in 0..Height[b] :
          back[n] = IF n = 0 THEN b
                    ELSE IF back[n - 1] \in Block THEN Parent[back[n - 1]] ELSE NoBlock
    BY <1>4
  <2> HIDE DEF IsBack
  <2>2. 0 \in 0..Height[b] /\ \A n \in 1..Height[b] : n \in 0..Height[b] /\ n # 0
    BY <1>1
  <2> QED BY <2>1, <2>2
<1> DEFINE S == {n \in Nat : n <= Height[b] => back[n] = c[i - n].blk}
<1>6. 0 \in S
  <2>1. i - 0 = i BY <1>1
  <2> HIDE DEF back
  <2> QED BY <1>5, <2>1
<1>7. ASSUME NEW n \in Nat, n \in S PROVE n + 1 \in S
  <2>1. CASE n + 1 <= Height[b]
    <3> HIDE DEF back
    <3>1. n + 1 \in 1..Height[b] /\ (n + 1) - 1 = n /\ i - n \in 1..Len(c) BY <1>1, <2>1
    <3>2. back[n] = c[i - n].blk /\ back[n] \in Block
      BY <1>1, <1>7, <2>1, <3>1, EntryFields
    <3>3. back[n + 1] = Parent[back[n]] BY <1>5, <3>1, <3>2
    <3>4. Parent[c[i - n].blk] = c[i - (n + 1)].blk BY <1>2, <3>1
    <3> QED BY <3>2, <3>3, <3>4
  <2>2. CASE ~(n + 1 <= Height[b]) BY <2>2
  <2> QED BY <2>1, <2>2
<1>8. \A n \in 0..Height[b] : back[n] = c[i - n].blk
  <2> HIDE DEF S
  <2>1. Nat \subseteq S BY <1>6, <1>7, SetInduction
  <2>2. \A n \in 0..Height[b] : n \in S /\ n <= Height[b] BY <1>1, <2>1
  <2> HIDE DEF back
  <2> QED BY <2>2 DEF S
<1> DEFINE path == [k \in 1..(Height[b] + 1) |-> back[Height[b] + 1 - k]]
<1>9. PathOf(b) = FreshSeq(path)
  BY DEF PathOf
<1>10. path = [k \in 1..i |-> c[k].blk]
  <2> HIDE DEF back
  <2>1. Height[b] + 1 = i BY <1>1
  <2>2. \A k \in 1..i : i - k \in 0..Height[b] /\ i - (i - k) = k BY <1>1
  <2>3. \A k \in 1..i : back[i - k] = c[k].blk BY <1>8, <2>2
  <2>4. \A k \in 1..i : path[k] = c[k].blk
    <3>1. \A k \in 1..i : Height[b] + 1 - k = i - k BY <1>1
    <3> QED BY <2>1, <2>3, <3>1
  <2>5. path = [k \in 1..(Height[b] + 1) |-> path[k]] OBVIOUS
  <2> HIDE DEF path
  <2> QED BY <2>1, <2>4, <2>5
<1> HIDE DEF path, back, b
<1>11. PathOf(b) = [k \in 1..i |-> c[k]]
  <2>1. \A k \in 1..i : c[k] = Fresh(c[k].blk) BY <1>1 DEF AllFresh
  <2> QED BY <1>9, <1>10, <2>1 DEF FreshSeq
<1>12. SubSeq(c, 1, i) = [k \in 1..i |-> c[k]] BY <1>1
<1>13. PathOf(b) = SubSeq(c, 1, i) BY <1>11, <1>12
<1>14. SubSeq(c, 1, i) \in Seq(Entry) /\ Len(SubSeq(c, 1, i)) = i /\ SubSeq(c, 1, i)[i] = c[i]
  BY <1>1
<1>15. TipHash(SubSeq(c, 1, i)) = c[i].blk
  <2>1. SubSeq(c, 1, i) # <<>> BY <1>14
  <2>2. c[i] = Fresh(c[i].blk) /\ c[i].blk \in Block BY EntryFields DEF AllFresh
  <2>3. c[i].hash = c[i].blk
    <3> DEFINE x == c[i].blk
    <3>1. Fresh(x).hash = x BY <2>2, FreshIsEntry
    <3> QED BY <2>2, <3>1
  <2> QED BY <1>14, <2>1, <2>3 DEF TipHash
<1> QED BY <1>13, <1>14, <1>15 DEF b

\* The hash of a chain of fresh objects is a block's.
LEMMA FreshTip ==
  ASSUME NEW c \in Seq(Entry), AllFresh(c), c # <<>>
  PROVE  TipHash(c) \in Block /\ TipHash(c) = Last(c).blk
<1> DEFINE x == c[Len(c)].blk
<1>1. Len(c) \in 1..Len(c) OBVIOUS
<1>2. c[Len(c)] = Fresh(x) /\ x \in Block BY <1>1, EntryFields DEF AllFresh
<1>3. Fresh(x).hash = x BY <1>2, FreshIsEntry
<1> QED BY <1>2, <1>3 DEF TipHash, Last

\* What a chain has judged, a preferred chain has judged: the block is on it,
\* or its path is one that the chain is preferred to.
JudgedBy(b, c) ==
  /\ PathOf(b) \in Seq(Entry)
  /\ TipHash(PathOf(b)) \in Block
  /\ b \in Blocks(c) \/ Preferred(c, PathOf(b))

LEMMA JudgedByBetter ==
  ASSUME NEW c \in Seq(Entry), NEW d \in Seq(Entry), Sound(c), AllFresh(c), AllFresh(d),
         Preferred(d, c), NEW b \in Block, JudgedBy(b, c)
  PROVE  JudgedBy(b, d)
<1>1. \A x \in {c, d, PathOf(b)} : x # <<>> => TipHash(x) \in Block
  BY FreshTip DEF JudgedBy
<1>2. CASE Preferred(c, PathOf(b))
  BY <1>1, <1>2, PreferredTransitive DEF JudgedBy
<1>3. CASE b \in Blocks(c)
  <2>1. PICK i \in 1..Len(c) : c[i].blk = b BY <1>3 DEF Blocks
  <2>2. PathOf(b) = SubSeq(c, 1, i) BY <2>1, PathOfChain
  <2>3. CASE i = Len(c)
    <3>1. SubSeq(c, 1, i) = c BY <2>3
    <3> QED BY <2>2, <3>1 DEF JudgedBy
  <2>4. CASE i # Len(c)
    BY <1>1, <2>2, <2>4, PreferredToPrefix, PreferredTransitive DEF JudgedBy
  <2> QED BY <2>3, <2>4
<1> QED BY <1>2, <1>3 DEF JudgedBy

\* A block of the chain has been judged.
LEMMA JudgedOnChain ==
  ASSUME NEW c \in Seq(Entry), Sound(c), AllFresh(c), NEW i \in 1..Len(c)
  PROVE  JudgedBy(c[i].blk, c)
BY PathOfChain, EntryFields DEF JudgedBy, Blocks

-----------------------------------------------------------------------------
(* Ancestors *)

\* A set of blocks that holds the parent of each of its blocks, and what every
\* such set that holds b has in common.
ParentClosed(S) == \A x \in S : Parent[x] \in Block => Parent[x] \in S
Line(b) == {x \in Block : \A S \in SUBSET Block : b \in S /\ ParentClosed(S) => x \in S}

\* The line of a block is the block and the line of its parent.
LEMMA LineOf ==
  ASSUME NEW b \in Block
  PROVE  Line(b) = {b} \cup IF Parent[b] \in Block THEN Line(Parent[b]) ELSE {}
<1> DEFINE R == {b} \cup IF Parent[b] \in Block THEN Line(Parent[b]) ELSE {}
<1>1. b \in Line(b) BY DEF Line
<1>2. ASSUME Parent[b] \in Block, NEW x \in Line(Parent[b]) PROVE x \in Line(b)
  <2>1. ASSUME NEW S \in SUBSET Block, b \in S, ParentClosed(S) PROVE x \in S
    BY <1>2, <2>1 DEF Line, ParentClosed
  <2> QED BY <1>2, <2>1 DEF Line
<1>3. R \in SUBSET Block BY DEF Line
<1>4. ASSUME NEW x \in R, Parent[x] \in Block PROVE Parent[x] \in R
  <2>1. CASE x = b
    <3>1. Parent[b] \in Line(Parent[b]) BY <1>4, <2>1 DEF Line
    <3> QED BY <1>4, <2>1, <3>1
  <2>2. CASE x # b
    <3>1. Parent[b] \in Block /\ x \in Line(Parent[b]) BY <1>4, <2>2
    <3>2. Parent[x] \in Line(Parent[b])
      <4>1. ASSUME NEW S \in SUBSET Block, Parent[b] \in S, ParentClosed(S)
            PROVE  Parent[x] \in S
        <5>1. x \in S BY <3>1, <4>1 DEF Line
        <5> QED BY <1>4, <4>1, <5>1 DEF ParentClosed
      <4> QED BY <1>4, <4>1 DEF Line
    <3> QED BY <3>1, <3>2
  <2> QED BY <2>1, <2>2
<1>5. Line(b) \subseteq R
  <2>1. b \in R /\ ParentClosed(R) BY <1>4 DEF ParentClosed
  <2> HIDE DEF R
  <2> QED BY <1>3, <2>1 DEF Line
<1> QED BY <1>1, <1>2, <1>5

\* The recursion of AncestorsOf has a solution, so the equation holds of it.
AncestorStep(f) ==
  [b \in Block |-> {b} \cup IF Parent[b] \in Block THEN f[Parent[b]] ELSE {}]
LEMMA AncestorsDef ==
  ASSUME NEW b \in Block
  PROVE  AncestorsOf[b] = {b} \cup IF Parent[b] \in Block THEN AncestorsOf[Parent[b]] ELSE {}
<1> DEFINE g == [x \in Block |-> Line(x)]
<1>1. g = AncestorStep(g)
  <2>1. \A x \in Block : g[x] = {x} \cup IF Parent[x] \in Block THEN g[Parent[x]] ELSE {}
    BY LineOf
  <2> QED BY <2>1 DEF AncestorStep
<1>2. AncestorsOf = CHOOSE f : f = AncestorStep(f) BY DEF AncestorsOf, AncestorStep
<1>3. AncestorsOf = AncestorStep(AncestorsOf) BY <1>1, <1>2
<1> QED BY <1>3 DEF AncestorStep

\* The rule that a miner's header follows: the height is the parent's plus one.
TreeHeights == \A b \in Block : Parent[b] \in Block => Height[b] = Height[Parent[b]] + 1

\* The ancestors of a block are blocks, no higher, and no other of its height;
\* theirs are its own.
AncestorsWell(b) ==
  \A a \in AncestorsOf[b] :
    /\ a \in Block /\ Height[a] <= Height[b]
    /\ Height[a] = Height[b] => a = b
    /\ AncestorsOf[a] \subseteq AncestorsOf[b]
LEMMA AncestorFacts ==
  ASSUME TreeHeights, NEW b \in Block
  PROVE  AncestorsWell(b)
<1> DEFINE Bad == {n \in Nat : \E x \in Block : Height[x] = n /\ ~AncestorsWell(x)}
<1>0. \A x \in Block : Height[x] \in Nat BY HeaderAssumption
<1>1. SUFFICES ASSUME ~AncestorsWell(b) PROVE FALSE
  OBVIOUS
<1>2. PICK n \in Bad : \A k \in Bad : n <= k
  <2>1. Bad \in SUBSET Nat OBVIOUS
  <2>2. Height[b] \in Bad BY <1>0, <1>1
  <2> HIDE DEF Bad
  <2> QED BY <2>1, <2>2, LeastElement
<1>3. PICK x \in Block : Height[x] = n /\ ~AncestorsWell(x) BY <1>2
<1>4. AncestorsOf[x] = {x} \cup IF Parent[x] \in Block THEN AncestorsOf[Parent[x]] ELSE {}
  BY AncestorsDef
<1>5. CASE Parent[x] \notin Block
  BY <1>0, <1>3, <1>4, <1>5 DEF AncestorsWell
<1>6. CASE Parent[x] \in Block
  <2>1. Height[x] = Height[Parent[x]] + 1 BY <1>6 DEF TreeHeights
  <2>2. AncestorsWell(Parent[x])
    <3>1. Height[Parent[x]] \in Nat /\ ~(n <= Height[Parent[x]])
      BY <1>0, <1>3, <1>6, <2>1
    <3>2. Height[Parent[x]] \notin Bad BY <1>2, <3>1
    <3> QED BY <1>6, <3>1, <3>2
  <2>3. ASSUME NEW a \in AncestorsOf[x], a # x
        PROVE  /\ a \in Block /\ Height[a] < Height[x]
               /\ AncestorsOf[a] \subseteq AncestorsOf[x]
    <3>1. a \in AncestorsOf[Parent[x]] BY <1>4, <1>6, <2>3
    <3>2. /\ a \in Block /\ Height[a] <= Height[Parent[x]]
          /\ AncestorsOf[a] \subseteq AncestorsOf[Parent[x]]
      BY <2>2, <3>1 DEF AncestorsWell
    <3>3. Height[a] \in Nat /\ Height[Parent[x]] \in Nat BY <1>0, <1>6, <3>2
    <3> QED BY <1>4, <1>6, <2>1, <3>2, <3>3
  <2>4. AncestorsWell(x)
    <3> SUFFICES ASSUME NEW a \in AncestorsOf[x]
                 PROVE  /\ a \in Block /\ Height[a] <= Height[x]
                        /\ Height[a] = Height[x] => a = x
                        /\ AncestorsOf[a] \subseteq AncestorsOf[x]
      BY DEF AncestorsWell
    <3>1. CASE a = x BY <1>0, <3>1
    <3>2. CASE a # x
      <4>1. /\ a \in Block /\ Height[a] < Height[x]
            /\ AncestorsOf[a] \subseteq AncestorsOf[x]
        BY <2>3, <3>2
      <4>2. Height[a] \in Nat /\ Height[x] \in Nat BY <1>0, <4>1
      <4> QED BY <4>1, <4>2
    <3> QED BY <3>1, <3>2
  <2> QED BY <1>3, <2>4
<1> QED BY <1>5, <1>6

\* a is a proper ancestor of b.
Below(a, b) == Parent[b] \in Block /\ a \in AncestorsOf[Parent[b]]

\* Proper ancestry is transitive, raises the height, and depends on the parent.
LEMMA BelowFacts ==
  ASSUME TreeHeights, NEW a, NEW b \in Block, Below(a, b)
  PROVE  /\ a \in Block /\ Height[a] < Height[b] /\ a \in AncestorsOf[b]
         /\ \A c \in Block : Below(b, c) => Below(a, c)
         /\ Height[b] = Height[a] + 1 => a = Parent[b]
<1> DEFINE p == Parent[b]
<1>1. p \in Block /\ a \in AncestorsOf[p] /\ Height[b] = Height[p] + 1
  BY DEF Below, TreeHeights
<1>2. AncestorsOf[b] = {b} \cup AncestorsOf[p] BY <1>1, AncestorsDef
<1>3. AncestorsWell(p) BY <1>1, AncestorFacts
<1>4. a \in Block /\ Height[a] <= Height[p] /\ (Height[a] = Height[p] => a = p)
  BY <1>1, <1>3 DEF AncestorsWell
<1>5. Height[a] \in Nat /\ Height[p] \in Nat BY <1>1, <1>4, HeaderAssumption
<1>6. ASSUME NEW c \in Block, Below(b, c) PROVE Below(a, c)
  <2>1. Parent[c] \in Block /\ b \in AncestorsOf[Parent[c]] BY <1>6 DEF Below
  <2>2. AncestorsWell(Parent[c]) BY <2>1, AncestorFacts
  <2>3. AncestorsOf[b] \subseteq AncestorsOf[Parent[c]] BY <2>1, <2>2 DEF AncestorsWell
  <2> QED BY <1>1, <1>2, <2>1, <2>3 DEF Below
<1> HIDE DEF p
<1>7. Height[b] = Height[a] + 1 => a = p BY <1>1, <1>4, <1>5
<1> QED BY <1>1, <1>2, <1>4, <1>5, <1>6, <1>7 DEF p

\* A parent is a proper ancestor.
LEMMA ParentBelow ==
  ASSUME NEW b \in Block, Parent[b] \in Block
  PROVE  Below(Parent[b], b)
BY AncestorsDef DEF Below

\* The genesis has no proper ancestor, and only itself as an ancestor.
LEMMA GenesisAlone == AncestorsOf[Genesis] = {Genesis}
BY AncestorsDef, GenesisAssumption, HeaderAssumption

\* The blocks of c all lie on one path from the genesis, with or without gaps;
\* each object answers the hash its successor names, the last its own.
Path(c) ==
  /\ c # <<>> => c[1].blk = Genesis /\ c[Len(c)].hash = c[Len(c)].blk
  /\ \A i \in 1..(Len(c) - 1) :
       Below(c[i].blk, c[i + 1].blk) /\ c[i].hash = Parent[c[i + 1].blk]

\* Any two blocks of a path are ancestor and descendant.
LEMMA PathPairs ==
  ASSUME TreeHeights, NEW c \in Seq(Entry), Path(c),
         NEW i \in 1..Len(c), NEW j \in 1..Len(c), i < j
  PROVE  Below(c[i].blk, c[j].blk)
<1> DEFINE S == {n \in Nat : i + n + 1 <= Len(c) => Below(c[i].blk, c[i + n + 1].blk)}
<1>0. i \in Nat /\ j \in Nat /\ Len(c) \in Nat OBVIOUS
<1>1. 0 \in S
  <2>1. i + 1 <= Len(c) => i \in 1..(Len(c) - 1) BY <1>0
  <2> QED BY <2>1, <1>0 DEF Path
<1>2. ASSUME NEW n \in Nat, n \in S PROVE n + 1 \in S
  <2>1. SUFFICES ASSUME i + n + 2 <= Len(c) PROVE Below(c[i].blk, c[i + n + 2].blk)
    OBVIOUS
  <2>2. i + n + 1 \in 1..Len(c) /\ i + n + 2 \in 1..Len(c) /\ i + n + 1 \in 1..(Len(c) - 1)
    BY <1>0, <2>1
  <2>3. c[i + n + 1].blk \in Block /\ c[i + n + 2].blk \in Block BY <2>2, EntryFields
  <2>4. Below(c[i].blk, c[i + n + 1].blk) BY <1>0, <1>2, <2>1
  <2>5. Below(c[i + n + 1].blk, c[i + n + 2].blk)
    <3>1. i + n + 1 + 1 = i + n + 2 BY <1>0
    <3> QED BY <2>2, <3>1 DEF Path
  <2> QED BY <2>3, <2>4, <2>5, BelowFacts
<1> HIDE DEF S
<1>3. Nat \subseteq S BY <1>1, <1>2, SetInduction
<1>4. j - i - 1 \in S BY <1>0, <1>3
<1>5. i + (j - i - 1) + 1 = j BY <1>0
<1> QED BY <1>0, <1>4, <1>5 DEF S

\* A path holds no block below its height.
LEMMA PathHeights ==
  ASSUME TreeHeights, NEW c \in Seq(Entry), Path(c)
  PROVE  \A i \in 1..Len(c) : i - 1 <= Height[c[i].blk]
<1> DEFINE S == {n \in Nat : n + 1 <= Len(c) => n <= Height[c[n + 1].blk]}
<1>0. \A i \in 1..Len(c) : c[i].blk \in Block /\ Height[c[i].blk] \in Nat
  BY EntryFields, HeaderAssumption
<1>1. 0 \in S
  <2>1. 1 <= Len(c) => 1 \in 1..Len(c) OBVIOUS
  <2> QED BY <1>0, <2>1
<1>2. ASSUME NEW n \in Nat, n \in S PROVE n + 1 \in S
  <2>1. SUFFICES ASSUME n + 2 <= Len(c) PROVE n + 1 <= Height[c[n + 2].blk]
    OBVIOUS
  <2>2. n + 1 \in 1..Len(c) /\ n + 2 \in 1..Len(c) /\ n + 1 \in 1..(Len(c) - 1) BY <2>1
  <2>3. Below(c[n + 1].blk, c[n + 2].blk)
    <3>1. n + 1 + 1 = n + 2 OBVIOUS
    <3> QED BY <2>2, <3>1 DEF Path
  <2>4. Height[c[n + 1].blk] < Height[c[n + 2].blk] BY <1>0, <2>2, <2>3, BelowFacts
  <2>5. n <= Height[c[n + 1].blk] BY <1>2, <2>1
  <2>6. Height[c[n + 1].blk] \in Nat /\ Height[c[n + 2].blk] \in Nat BY <1>0, <2>2
  <2> QED BY <2>4, <2>5, <2>6
<1> HIDE DEF S
<1>3. Nat \subseteq S BY <1>1, <1>2, SetInduction
<1>4. ASSUME NEW i \in 1..Len(c) PROVE i - 1 <= Height[c[i].blk]
  <2>1. i - 1 \in S /\ i - 1 + 1 = i BY <1>3
  <2> QED BY <2>1 DEF S
<1> QED BY <1>4

\* What a path says of two neighbours.
LEMMA PathAt ==
  ASSUME NEW c, Path(c), NEW i \in 1..(Len(c) - 1)
  PROVE  Below(c[i].blk, c[i + 1].blk) /\ c[i].hash = Parent[c[i + 1].blk]
BY DEF Path

\* A chain that goes on from a path with blocks that name each the hash of the
\* one before is a path.
LEMMA PathGoesOn ==
  ASSUME NEW c \in Seq(Entry), Path(c), NEW k \in 1..Len(c),
         NEW d \in Seq(Entry), Len(d) > k,
         \A i \in 1..k : d[i] = c[i],
         \A i \in (k + 1)..Len(d) : d[i] = Fresh(d[i].blk) /\ Parent[d[i].blk] = d[i - 1].hash
  PROVE  Path(d)
<1>0. /\ k \in Nat /\ Len(c) \in Nat /\ Len(d) \in Nat /\ 1 <= k /\ k <= Len(c)
      /\ \A i \in 1..Len(d) : d[i].blk \in Block
  BY EntryFields
<1>1. d[1].blk = Genesis
  <2>1. d[1] = c[1] /\ c # <<>> BY <1>0
  <2> QED BY <2>1 DEF Path
<1>2. ASSUME NEW i \in (k + 1)..Len(d) PROVE d[i].hash = d[i].blk
  <2>1. d[i] = Fresh(d[i].blk) /\ d[i].blk \in Block BY <1>0, <1>2
  <2> QED BY <2>1, FreshIsEntry
<1>3. d[Len(d)].hash = d[Len(d)].blk BY <1>0, <1>2
<1>4. ASSUME NEW i \in 1..(Len(d) - 1)
      PROVE  Below(d[i].blk, d[i + 1].blk) /\ d[i].hash = Parent[d[i + 1].blk]
  <2>1. CASE i < k
    <3>1. d[i] = c[i] /\ d[i + 1] = c[i + 1] /\ i \in 1..(Len(c) - 1) BY <1>0, <2>1
    <3> QED BY <3>1 DEF Path
  <2>2. CASE i = k
    <3>1. d[i] = c[k] /\ i + 1 \in (k + 1)..Len(d) /\ i + 1 - 1 = k BY <1>0, <2>2
    <3>2. Parent[d[i + 1].blk] = c[k].hash
      <4>1. Parent[d[i + 1].blk] = d[i + 1 - 1].hash BY <3>1
      <4> QED BY <2>2, <3>1, <4>1
    <3>3. CASE k = Len(c)
      <4>1. c[k].hash = c[k].blk BY <1>0, <3>3 DEF Path
      <4>2. c[k].blk \in Block /\ d[i + 1].blk \in Block BY <1>0, EntryFields
      <4> QED BY <2>2, <3>1, <3>2, <4>1, <4>2, ParentBelow
    <3>4. CASE k # Len(c)
      <4>0. k \in 1..(Len(c) - 1) BY <1>0, <3>4
      <4>1. Below(c[k].blk, c[k + 1].blk) /\ c[k].hash = Parent[c[k + 1].blk]
        BY <4>0, PathAt
      <4> QED BY <2>2, <3>1, <3>2, <4>1 DEF Below
    <3> QED BY <3>3, <3>4
  <2>3. CASE i > k
    <3>1. i \in (k + 1)..Len(d) /\ i + 1 \in (k + 1)..Len(d) BY <1>0, <2>3
    <3>2. d[i].hash = d[i].blk BY <1>2, <3>1
    <3>3. Parent[d[i + 1].blk] = d[i].hash
      <4>1. i + 1 - 1 = i OBVIOUS
      <4>2. Parent[d[i + 1].blk] = d[i + 1 - 1].hash BY <3>1
      <4> QED BY <4>1, <4>2
    <3>4. d[i].blk \in Block /\ d[i + 1].blk \in Block BY <1>0
    <3> QED BY <3>2, <3>3, <3>4, ParentBelow
  <2> QED BY <1>0, <2>1, <2>2, <2>3
<1> QED BY <1>1, <1>3, <1>4 DEF Path

\* A sound chain is a path.
LEMMA PathOfSound ==
  ASSUME NEW c \in Seq(Entry), Sound(c), AllFresh(c)
  PROVE  Path(c)
<1>0. \A i \in 1..Len(c) : c[i].blk \in Block /\ c[i].hash = c[i].blk
  BY EntryFields, FreshIsEntry DEF AllFresh
<1>1. c # <<>> => c[1].blk = Genesis
  BY GenesisAssumption, FreshIsEntry DEF Sound
<1>2. c # <<>> => Len(c) \in 1..Len(c) OBVIOUS
<1>3. ASSUME NEW i \in 1..(Len(c) - 1)
      PROVE  Below(c[i].blk, c[i + 1].blk) /\ c[i].hash = Parent[c[i + 1].blk]
  <2>1. i \in 1..Len(c) /\ i + 1 \in 1..Len(c) /\ i + 1 \in 2..Len(c) /\ i + 1 - 1 = i
    OBVIOUS
  <2>2. Parent[c[i + 1].blk] = c[i].hash
    <3>1. LinkedAt(c, i + 1) BY <2>1 DEF Sound
    <3> QED BY <2>1, <3>1 DEF LinkedAt
  <2>3. c[i].blk \in Block /\ c[i + 1].blk \in Block /\ c[i].hash = c[i].blk BY <1>0, <2>1
  <2> QED BY <2>2, <2>3, ParentBelow
<1> QED BY <1>0, <1>1, <1>2, <1>3 DEF Path

-----------------------------------------------------------------------------
(* The stored UTXO set *)

\* No thread's name is that of a free lock.
LEMMA ThreadNames == NoThread \notin Thread
BY ThreadAssumption DEF Thread, Ingest

\* CoinsStored is inductive: a step that leaves the UTXO lock free has
\* written the same delta, or the whole set, to memory and store.
LEMMA CoinsStoredStep == CoinsStored /\ [Next]_vars => CoinsStored'
<1> SUFFICES ASSUME CoinsStored, [Next]_vars PROVE CoinsStored'
  OBVIOUS
<1> USE ThreadNames DEF CoinsStored, memory, gossip, locals, locks, disk, life
<1>1. CASE UNCHANGED vars
  BY <1>1 DEF vars
<1>2. ASSUME NEW t \in Net, Input(t) PROVE CoinsStored'
  BY <1>2 DEF Input, ReceiveBlock, ReplaceBuild
<1>3. ASSUME NEW t \in Ingest, IngestStep(t) PROVE CoinsStored'
  <2>1. CASE AddApply(t)
    BY <2>1 DEF AddApply
  <2>2. CASE ~AddApply(t)
    BY <1>3, <2>2 DEF IngestStep, Classify, ValidateContext, ValidateInputs,
       ValidateRecheck, AddCheck, AddAppend, AddMark, AddSchedule, Accept,
       ForkPrecheck, SwapCheck, SwapCommit, ReplaceCheck, ReplaceCommit, Announce
  <2> QED BY <2>1, <2>2
<1>4. ASSUME NEW t \in Thread, SaveStep(t) PROVE CoinsStored'
  <2>1. CASE RebuildUtxo(t) BY <2>1 DEF RebuildUtxo
  <2>2. CASE UtxoClear(t) BY <2>2 DEF UtxoClear
  <2>3. CASE UtxoPut(t) BY <2>3 DEF UtxoPut
  <2>4. CASE SaveBegin(t) \/ SaveClear(t) \/ SavePut(t) \/ SaveEnd(t)
             \/ SaveAbort(t) \/ CountBlocks(t) \/ SaveState(t)
    BY <2>4 DEF SaveBegin, SaveClear, SavePut, SaveEnd, SaveAbort, CountBlocks,
       SaveState
  <2> QED BY <1>4, <2>1, <2>2, <2>3, <2>4 DEF SaveStep
<1>5. ASSUME NEW m \in Miners, MineStep(m) PROVE CoinsStored'
  BY <1>5 DEF MineStep, ReloadRead, ReloadWipe, ReloadAssign, ReloadHeight,
     ReloadClean, ReloadVerify, MineFound, MineStop, MineBuild
<1>6. CASE PersistTake \/ Stop \/ Join
  BY <1>6 DEF PersistTake, Stop, Join
<1>7. CASE Crash \/ Restart
  BY <1>7 DEF Crash, Restart, Boot
<1> QED BY <1>1, <1>2, <1>3, <1>4, <1>5, <1>6, <1>7 DEF Next

\* Whatever the number of threads, miners, restarts and kills, the stored
\* UTXO set is the one in memory whenever UTXODB._lock is free.
THEOREM CoinsAlwaysStored == Spec => []CoinsStored
<1>1. Init => CoinsStored
  BY DEF Init, CoinsStored
<1> QED BY <1>1, CoinsStoredStep, PTL DEF Spec

-----------------------------------------------------------------------------
(* The invariant behind StoreFollowsChain *)

\* A node that does not mine and is not restarted: the chain is never read
\* back from the store.
NoReload == Miners = {} /\ MaxRestarts = 0

\* The steps at which a connection thread holds a chain to replace the live
\* one, and those of a miner before it has built its candidate.
Planning == {"replace", "adopt"}
Reloading == {"wipe", "assign", "height", "clean", "verify", "build"}

\* A connection thread that has taken a block, and a miner that has built its
\* candidate, has a block in hand.
InHand ==
  /\ \A t \in Net : pc[t] \notin {"idle"} \cup Planning => blk[t] \in Block
  /\ \A m \in Miners : pc[m] \notin {"idle"} \cup Reloading => blk[m] \in Block

\* Only a connection thread replaces the chain, and never by an empty one.
Planned == \A t \in Thread : pc[t] \in Planning => t \in Net /\ plan[t] # <<>>

SaveSteps == {"save", "clear", "put", "saved", "rebuild", "uclear", "uput",
              "count", "state"}

\* Who is inside save_chain's critical section, or in swap_tip_if_better or
\* replace_with after the comparison, holds Blockchain.lock, and the tip it
\* is about to store is on the chain.
Critical == {"clear", "put", "saved", "commit", "adopt"}
Locked ==
  \A t \in Thread :
    /\ pc[t] \in Critical => lock = t
    /\ args[t].held => pc[t] \in SaveSteps /\ lock = t
    /\ pc[t] \in {"clear", "put"} => save.tip < Len(chain)

\* The heights at which the store holds a block the chain does not.
Stale == {h \in DOMAIN kvChain : ~(h < Len(chain) /\ kvChain[h] = chain[h + 1].blk)}

\* What the thread that made the store stale is about to repair.
Repairs(t) ==
  /\ pc[t] = "save" =>
       /\ chain # <<>>
       /\ ~args[t].force =>
            /\ dirtyFrom # NoHeight
            /\ \A h \in Stale : dirtyFrom <= h /\ h < Len(chain)
  /\ pc[t] = "put" => Stale \subseteq SaveHeights

StoreInv ==
  /\ \A t \in Net : Reorganising(t) => Repairs(t)
  /\ (\A t \in Net : ~Reorganising(t)) => Stale = {}

\* A thread that is to swap the tip found a chain of two blocks or more whose
\* tip its block competes with; what was appended since is above the tip.
Chosen ==
  \A t \in Net :
    pc[t] = "commit" => Len(chain) >= 2 /\ Height[blk[t]] < Len(chain)

IInv == TypeOK /\ InHand /\ Planned /\ Locked /\ Chosen /\ StoreInv

-----------------------------------------------------------------------------
(* Types *)

\* The helpers of save_chain and of the reorganisations have the types that
\* the variables they are assigned to require.
LEMMA MarkedType ==
  ASSUME TypeOK, NEW h \in Nat
  PROVE  Marked(h) \in Nat /\ Marked(h) <= h
BY BoundAssumption DEF TypeOK, MemoryType, Marked

\* The hash of a tip is a block or ZERO_HASH.
LEMMA TipHashType ==
  ASSUME NEW c \in Seq(Entry)
  PROVE  TipHash(c) \in Block \cup {NoBlock}
<1>1. CASE c = <<>> BY <1>1 DEF TipHash
<1>2. CASE c # <<>>
  <2>1. Len(c) \in 1..Len(c) BY <1>2
  <2> QED BY <1>2, <2>1, EntryFields DEF TipHash
<1> QED BY <1>1, <1>2

\* The candidate of a synchronisation is a chain: the local one up to the
\* fork, then the blocks of the branch.
LEMMA CandidateType ==
  ASSUME chain \in Seq(Entry), NEW s \in Branches, ForksAt(s)
  PROVE  /\ Candidate(s) \in Seq(Entry)
         /\ Len(Candidate(s)) = Height[Head(s)] + Len(s)
         /\ \A i \in 1..Height[Head(s)] : Candidate(s)[i] = chain[i]
         /\ \A i \in 1..Len(s) : Candidate(s)[Height[Head(s)] + i] = Fresh(s[i])
<1> DEFINE k == Height[Head(s)]
           c == SubSeq(chain, 1, k)
           d == FreshSeq(s)
<1>1. s \in Seq(Block) /\ s # <<>> BY BranchAssumption
<1>2. d \in Seq(Entry) /\ Len(d) = Len(s) /\ \A i \in 1..Len(s) : d[i] = Fresh(s[i])
  <2>1. \A i \in 1..Len(s) : Fresh(s[i]) \in Entry BY <1>1, FreshIsEntry
  <2>2. d = [i \in 1..Len(s) |-> Fresh(s[i])] BY <1>1 DEF FreshSeq
  <2> QED BY <1>1, <2>1, <2>2
<1>3. k \in 1..Len(chain) BY DEF ForksAt
<1> HIDE DEF k
<1>4. c \in Seq(Entry) /\ Len(c) = k /\ \A i \in 1..k : c[i] = chain[i] BY <1>3
<1>5. Candidate(s) = c \o d BY DEF Candidate, k
<1> HIDE DEF c, d
<1>6. /\ c \o d \in Seq(Entry) /\ Len(c \o d) = k + Len(s)
      /\ \A i \in 1..k : (c \o d)[i] = c[i]
      /\ \A i \in 1..Len(s) : (c \o d)[k + i] = d[i]
  <2>1. k \in Nat /\ Len(s) \in Nat BY <1>1, <1>3
  <2>2. c \in Seq(Entry) /\ d \in Seq(Entry) /\ Len(c) = k /\ Len(d) = Len(s) BY <1>2, <1>4
  <2>3. c \o d \in Seq(Entry) /\ Len(c \o d) = k + Len(s) BY <2>2
  <2>4. \A i \in 1..k : (c \o d)[i] = c[i] BY <2>1, <2>2
  <2>5. \A i \in 1..Len(s) : (c \o d)[k + i] = d[i] BY <2>1, <2>2
  <2> QED BY <2>3, <2>4, <2>5
<1> QED BY <1>2, <1>4, <1>5, <1>6 DEF k

\* The chain with its tip swapped differs from the live one at the tip only.
LEMMA SwappedType ==
  ASSUME chain \in Seq(Entry), NEW b \in Block, Len(chain) >= 2
  PROVE  /\ SwappedFor(b) \in Seq(Entry)
         /\ Len(SwappedFor(b)) = Len(chain)
         /\ SwappedFor(b)[Len(chain)].blk = b
         /\ \A i \in 1..Len(chain) : i # Len(chain) => SwappedFor(b)[i] = chain[i]
BY FreshIsEntry DEF SwappedFor

\* The two ends of a swap: the tip is replaced, or there is no chain[-2].
LEMMA SwapEnds ==
  ASSUME chain \in Seq(Entry), NEW t, SwapCommit(t)
  PROVE  \/ /\ Len(chain) >= 2 /\ ~(Len(chain) < 2)
            /\ chain' = SwappedFor(blk[t])
            /\ dirtyFrom' = Marked(Height[blk[t]])
            /\ args' = [args EXCEPT ![t] = Call(FALSE, FALSE, TRUE, "accept")]
            /\ Goto(t, "save") /\ UNCHANGED <<lock, gossip>>
         \/ /\ Len(chain) < 2 /\ ~(Len(chain) >= 2)
            /\ Reject(t)
            /\ lock' = NoThread
            /\ UNCHANGED <<chain, dirtyFrom, args>>
<1>1. Len(chain) < 2 => ~(Len(chain) >= 2)
  <2>1. Len(chain) \in Nat OBVIOUS
  <2> HIDE DEF SwapCommit
  <2> QED BY <2>1
<1> QED BY <1>1, Zenon DEF SwapCommit

\* _determine_save_start_height answers a height or None.
LEMMA SaveStartType ==
  ASSUME TypeOK, NEW force \in BOOLEAN
  PROVE  SaveStart(force) \in Nat \cup {NoHeight}
BY DEF TypeOK, MemoryType, SaveStart


-----------------------------------------------------------------------------
(* Types are kept by every step *)

\* What a step leaves alone keeps its type.
LEMMA SameTypes ==
  /\ MemoryType /\ UNCHANGED memory => MemoryType'
  /\ LockType /\ UNCHANGED locks => LockType'
  /\ GossipType /\ UNCHANGED gossip => GossipType'
  /\ LifeType /\ UNCHANGED life => LifeType'
  /\ LocalsType /\ UNCHANGED locals => LocalsType'
  /\ DiskType /\ UNCHANGED disk => DiskType'
BY DEF memory, locks, gossip, life, locals, disk, MemoryType, LockType, GossipType,
       LifeType, LocalsType, DiskType, IsStore

\* The control state of a thread: its next step and the block in its hand.
ControlInv == pc \in [Thread -> Step] /\ GossipType /\ InHand
Typed == TypeOK /\ InHand
TypeInv == Typed /\ Planned

\* A thread that lets a chain go has none.
LEMMA PlanDropped ==
  ASSUME LocalsType, NEW t, plan' = [plan EXCEPT ![t] = <<>>]
  PROVE  plan' \in [Thread -> Seq(Entry)]
<1>0. <<>> \in Seq(Entry) OBVIOUS
<1>1. PICK S : S = Seq(Entry) /\ <<>> \in S BY <1>0, Zenon
<1>2. plan \in [Thread -> S] BY <1>1 DEF LocalsType
<1>3. plan' \in [Thread -> S] BY <1>1, <1>2
<1> QED BY <1>1, <1>3

\* A thread that only moves on keeps the control state well formed.
LEMMA GotoControl ==
  ASSUME ControlInv, NEW t \in Thread, NEW s \in Step, Goto(t, s),
         UNCHANGED gossip, t \in Net => pc[t] \notin {"idle"} \cup Planning,
         t \in Miners => pc[t] \notin {"idle"} \cup Reloading
  PROVE  ControlInv'
BY DEF ControlInv, Goto, InHand, GossipType, gossip, Thread, Ingest

\* So does one that lets its block go.
LEMMA RejectControl ==
  ASSUME ControlInv, NEW t \in Ingest, Reject(t) \/ Fail(t)
  PROVE  ControlInv'
<1>1. "idle" \in Step BY DEF Step
<1>2. /\ blk' = [blk EXCEPT ![t] = NoBlock] /\ Goto(t, "idle")
      /\ seen' \in SUBSET Block /\ processing' \in SUBSET Block
  BY DEF ControlInv, GossipType, Reject, Fail
<1> QED BY <1>1, <1>2 DEF ControlInv, Goto, InHand, GossipType, Thread, Ingest

\* Without mining the steps left are those of connections, of saves, of the
\* worker and of the shutdown, and the starts.
LEMMA NextWithoutMiners ==
  ASSUME Miners = {}, Next
  PROVE  \/ \E t \in Net : Input(t) \/ IngestStep(t)
         \/ \E t \in Thread : SaveStep(t)
         \/ PersistTake \/ Stop \/ Join
         \/ Crash \/ Restart
BY DEF Next, Ingest

\* No start follows the first where restarts are not explored.
LEMMA NoStart ==
  ASSUME NoReload, TypeOK
  PROVE  ~(Crash \/ Restart)
BY BoundAssumption DEF NoReload, TypeOK, LifeType, Crash, Restart

\* A block or a branch from a peer keeps the types.
LEMMA InputTypes ==
  ASSUME TypeInv, NEW t \in Net, Input(t)
  PROVE  Typed'
<1> USE SameTypes DEF TypeInv, Typed, TypeOK, Planning, Reloading
<1>1. ASSUME NEW b \in Block, ReceiveBlock(t, b) PROVE Typed'
  <2>1. ControlInv'
    BY <1>1 DEF ReceiveBlock, ControlInv, GossipType, InHand, Goto, Step, Thread, Ingest
  <2> QED BY <1>1, <2>1 DEF ReceiveBlock, ControlInv, life, MemoryType, memory
<1>2. ASSUME NEW s \in Branches, ReplaceBuild(t, s) PROVE Typed'
  <2>1. Candidate(s) \in Seq(Entry)
    BY <1>2, CandidateType DEF ReplaceBuild, MemoryType
  <2>2. ControlInv'
    <3>1. Goto(t, "replace") /\ UNCHANGED gossip /\ t \in Thread /\ "replace" \in Step
      BY <1>2 DEF ReplaceBuild, Step, Thread, Ingest
    <3>2. t \notin Miners BY ThreadAssumption
    <3> QED BY <3>1, <3>2 DEF ControlInv, GossipType, InHand, Goto, gossip
  <2>a. plan' \in [Thread -> Seq(Entry)] BY <1>2, <2>1 DEF ReplaceBuild, LocalsType
  <2>3. LocalsType' BY <1>2, <2>a DEF ReplaceBuild, LocalsType
  <2> QED BY <1>2, <2>2, <2>3 DEF ReplaceBuild, ControlInv
<1> QED BY <1>1, <1>2 DEF Input

\* So does every step of a thread that ingests a block.
LEMMA IngestTypes ==
  ASSUME TypeInv, NEW t \in Ingest, IngestStep(t)
  PROVE  Typed'
<1> USE SameTypes DEF TypeInv, Typed, TypeOK, Planning, Reloading
<1>0. ControlInv /\ t \in Thread BY DEF ControlInv, Thread, Ingest
<1>b. pc[t] \notin {"idle"} \cup Planning \cup Reloading => blk[t] \in Block
  BY DEF InHand, Ingest
<1>1. CASE Classify(t)
  <2>1. ControlInv'
    BY <1>0, <1>1, GotoControl, RejectControl DEF Classify, Step
  <2> QED BY <1>1, <2>1 DEF Classify, ControlInv
<1>2. CASE ValidateContext(t)
  <2>1. ControlInv'
    BY <1>0, <1>2, GotoControl, RejectControl DEF ValidateContext, Step, Fail
  <2>2. StateToken \in [height : Nat \cup {-1}, tip : Block \cup {NoBlock}]
    BY TipHashType DEF StateToken, MemoryType
  <2>a. token' \in [Thread -> [height : Nat \cup {-1}, tip : Block \cup {NoBlock}]]
    BY <1>2, <2>2 DEF ValidateContext, LocalsType
  <2>3. LocalsType'
    BY <1>2, <2>a DEF ValidateContext, LocalsType
  <2> QED BY <1>2, <2>1, <2>3 DEF ValidateContext, ControlInv
<1>3. CASE ValidateInputs(t)
  <2>1. ControlInv'
    BY <1>0, <1>3, GotoControl, RejectControl DEF ValidateInputs, Step, Fail
  <2> QED BY <1>3, <2>1 DEF ValidateInputs, ControlInv
<1>4. CASE ValidateRecheck(t)
  <2>1. ControlInv'
    BY <1>0, <1>4, GotoControl, RejectControl DEF ValidateRecheck, Step, Fail
  <2>2. LocalsType'
    BY <1>4 DEF ValidateRecheck, LocalsType, NoToken
  <2> QED BY <1>4, <2>1, <2>2 DEF ValidateRecheck, ControlInv
<1>5. CASE AddCheck(t)
  <2>1. ControlInv'
    BY <1>0, <1>5, GotoControl, RejectControl DEF AddCheck, Step
  <2> QED BY <1>5, <2>1 DEF AddCheck, ControlInv
<1>6. CASE AddAppend(t)
  <2>1. ControlInv'
    BY <1>0, <1>6, GotoControl DEF AddAppend, Step
  <2>2. Fresh(blk[t]) \in Entry
    BY <1>6, <1>b, FreshIsEntry DEF AddAppend
  <2>3. MemoryType'
    BY <1>6, <2>2 DEF AddAppend, MemoryType
  <2> QED BY <1>6, <2>1, <2>3 DEF AddAppend, ControlInv
<1>7. CASE AddMark(t)
  <2>1. ControlInv'
    BY <1>0, <1>7, GotoControl DEF AddMark, Step
  <2>2. Height[blk[t]] \in Nat
    BY <1>7, <1>b, HeaderAssumption DEF AddMark
  <2>3. MemoryType'
    BY <1>7, <2>2, MarkedType DEF AddMark, MemoryType
  <2> QED BY <1>7, <2>1, <2>3 DEF AddMark, ControlInv
<1>8. CASE AddApply(t)
  <2>1. ControlInv'
    BY <1>0, <1>8, GotoControl DEF AddApply, Step
  <2>2. blk[t] \in Block BY <1>8, <1>b DEF AddApply
  <2>3. MemoryType' /\ DiskType'
    BY <1>8, <2>2, ApplyBlockType DEF AddApply, MemoryType, DiskType, IsStore
  <2> QED BY <1>8, <2>1, <2>3 DEF AddApply, ControlInv
<1>9. CASE AddSchedule(t)
  <2>1. ControlInv'
    BY <1>0, <1>9, GotoControl DEF AddSchedule, Step
  <2>2. CASE phase # "final"
    <3> DEFINE OptsType == [force : BOOLEAN, flush : BOOLEAN]
               full == blk[t] = Genesis
    <3>1. /\ opts' = [force |-> opts.force \/ full, flush |-> opts.flush \/ full]
          /\ pending' = TRUE
          /\ UNCHANGED <<chain, utxo, dirtyFrom, persisted>>
      BY <1>9, <2>2 DEF AddSchedule
    <3>2. (opts.force \/ full) \in BOOLEAN /\ (opts.flush \/ full) \in BOOLEAN
      OBVIOUS
    <3>3. \A x, y \in BOOLEAN : [force |-> x, flush |-> y] \in OptsType
      OBVIOUS
    <3>4. opts' \in OptsType BY <3>1, <3>2, <3>3, Zenon
    <3>5. MemoryType'
      BY <3>1, <3>4 DEF MemoryType
    <3> QED BY <1>9, <2>1, <2>2, <3>5 DEF AddSchedule, ControlInv, LocalsType
  <2>3. CASE phase = "final"
    <3>1. MemoryType'
      BY <1>9, <2>3 DEF AddSchedule, MemoryType
    <3>2. \A b \in BOOLEAN, n \in {"mark", "accept"} : Call(b, b, FALSE, n) \in CallType
      BY DEF Call, CallType
    <3>3. PICK c \in CallType : args' = [args EXCEPT ![t] = c]
      BY <1>9, <2>3, <3>2 DEF AddSchedule
    <3>4. args' \in [Thread -> CallType] BY <3>3 DEF LocalsType
    <3>5. LocalsType'
      BY <1>9, <3>4 DEF AddSchedule, LocalsType
    <3> QED BY <1>9, <2>1, <3>1, <3>5 DEF AddSchedule, ControlInv
  <2> QED BY <2>2, <2>3
<1>10. CASE Accept(t)
  <2>1. ControlInv'
    BY <1>0, <1>10
       DEF Accept, ControlInv, GossipType, InHand, Goto, Step, Thread, Ingest
  <2> QED BY <1>10, <2>1 DEF Accept, ControlInv
<1>11. CASE ForkPrecheck(t)
  <2>1. ControlInv'
    BY <1>0, <1>11, GotoControl, RejectControl DEF ForkPrecheck, Step
  <2> QED BY <1>11, <2>1 DEF ForkPrecheck, ControlInv
<1>12. CASE SwapCheck(t)
  <2>1. ControlInv'
    BY <1>0, <1>12, GotoControl, RejectControl DEF SwapCheck, Step
  <2>2. LockType' BY <1>0, <1>12 DEF SwapCheck, LockType
  <2> QED BY <1>12, <2>1, <2>2 DEF SwapCheck, ControlInv
<1>14. CASE SwapCommit(t)
  <2>0. blk[t] \in Block BY <1>14, <1>b DEF SwapCommit
  <2>1. ControlInv'
    BY <1>0, <1>14, GotoControl, RejectControl DEF SwapCommit, Step
  <2>a. chain \in Seq(Entry) BY DEF MemoryType
  <2>b. UNCHANGED <<utxo, persisted, opts, pending, utxoLock, life, token, count, plan,
                    save, disk>>
    BY <1>14 DEF SwapCommit
  <2>2. CASE /\ Len(chain) >= 2
             /\ chain' = SwappedFor(blk[t])
             /\ dirtyFrom' = Marked(Height[blk[t]])
             /\ args' = [args EXCEPT ![t] = Call(FALSE, FALSE, TRUE, "accept")]
             /\ UNCHANGED lock
    <3>1. SwappedFor(blk[t]) \in Seq(Entry)
      BY <2>0, <2>2, <2>a, SwappedType
    <3>2. Marked(Height[blk[t]]) \in Nat
      BY <2>0, MarkedType, HeaderAssumption
    <3>3. MemoryType' /\ LockType'
      BY <2>2, <2>b, <3>1, <3>2 DEF MemoryType, LockType
    <3>4. Call(FALSE, FALSE, TRUE, "accept") \in CallType
      BY DEF Call, CallType
    <3>5. args' \in [Thread -> CallType] BY <2>2, <3>4 DEF LocalsType
    <3>6. LocalsType' BY <2>b, <3>5 DEF LocalsType
    <3> QED BY <2>1, <2>b, <3>3, <3>6 DEF ControlInv
  <2>3. CASE UNCHANGED <<chain, dirtyFrom, args>> /\ lock' = NoThread
    <3>1. MemoryType' BY <2>3, <2>b DEF MemoryType
    <3>2. LockType' /\ LocalsType' BY <2>3, <2>b DEF LockType, LocalsType
    <3> QED BY <2>1, <2>b, <3>1, <3>2 DEF ControlInv
  <2> QED BY <1>14, <2>2, <2>3, <2>a, SwapEnds
<1>15. CASE ReplaceCheck(t)
  <2>0. t \in Net BY <1>0, <1>15 DEF ReplaceCheck, Planned
  <2>a. /\ \E s \in {"adopt", "idle"} : Goto(t, s)
        /\ UNCHANGED gossip /\ lock' \in {t, lock}
        /\ UNCHANGED plan \/ plan' = [plan EXCEPT ![t] = <<>>]
        /\ UNCHANGED <<utxoLock, token, args, count, save>>
    BY <1>15 DEF ReplaceCheck
  <2>1. ControlInv'
    BY <1>0, <2>0, <2>a, ThreadAssumption
       DEF ControlInv, GossipType, InHand, Goto, Step, gossip
  <2>2. LockType' BY <1>0, <2>a DEF LockType
  <2>3. plan' \in [Thread -> Seq(Entry)] BY <2>a, PlanDropped DEF LocalsType
  <2>4. LocalsType' BY <2>a, <2>3 DEF LocalsType
  <2> QED BY <1>15, <2>1, <2>2, <2>4 DEF ReplaceCheck, ControlInv
<1>16. CASE ReplaceCommit(t)
  <2>0. t \in Net /\ plan[t] # <<>> /\ plan[t] \in Seq(Entry)
    BY <1>0, <1>16 DEF ReplaceCommit, Planned, LocalsType
  <2>1. Last(plan[t]).blk \in Block
    <3>1. PICK c \in Seq(Entry) : c = plan[t] /\ c # <<>> BY <2>0
    <3>2. Len(c) \in 1..Len(c) BY <3>1
    <3>3. c[Len(c)].blk \in Block BY <3>1, <3>2, EntryFields
    <3>4. Last(plan[t]) = c[Len(c)] BY <3>1 DEF Last
    <3> QED BY <3>3, <3>4
  <2>2. ControlInv'
    BY <1>0, <1>16, <2>0, <2>1, ThreadAssumption
       DEF ReplaceCommit, ControlInv, GossipType, InHand, Goto, Step
  <2>3. Marked(0) \in Nat BY MarkedType
  <2>4. MemoryType' BY <1>16, <2>0, <2>3 DEF ReplaceCommit, MemoryType
  <2>5. Call(TRUE, FALSE, TRUE, "announce") \in CallType BY DEF Call, CallType
  <2>6. args' \in [Thread -> CallType] BY <1>16, <2>5 DEF ReplaceCommit, LocalsType
  <2>7. plan' \in [Thread -> Seq(Entry)] BY <1>16, PlanDropped DEF ReplaceCommit
  <2>8. LocalsType' BY <1>16, <2>6, <2>7 DEF ReplaceCommit, LocalsType
  <2> QED BY <1>16, <2>2, <2>4, <2>8 DEF ReplaceCommit, ControlInv
<1>13. CASE Announce(t)
  <2>1. ControlInv'
    BY <1>0, <1>13
       DEF Announce, ControlInv, GossipType, InHand, Goto, Step, Thread, Ingest
  <2> QED BY <1>13, <2>1 DEF Announce, ControlInv
<1> QED BY <1>1, <1>2, <1>3, <1>4, <1>5, <1>6, <1>7, <1>8, <1>9, <1>10, <1>11,
           <1>12, <1>13, <1>14, <1>15, <1>16 DEF IngestStep


\* The batch of save_chain stores blocks of the chain under their indices.
LEMMA SavePutType ==
  ASSUME TypeOK, NEW t \in Thread, SavePut(t)
  PROVE  MemoryType' /\ DiskType'
<1> DEFINE kept == {h \in DOMAIN kvChain : save.tip < persisted => h <= save.tip}
           new == [h \in kept \cup SaveHeights |->
                     IF h \in SaveHeights THEN chain[h + 1].blk ELSE kvChain[h]]
<1>1. /\ save.tip \in Nat \cup {-1} /\ save.from \in Nat \cup {NoHeight}
      /\ save.hash \in Block \cup {NoBlock}
      /\ chain \in Seq(Entry) /\ persisted \in Nat \cup {-1}
      /\ kvChain \in [DOMAIN kvChain -> Block] /\ DOMAIN kvChain \subseteq Nat
  BY DEF TypeOK, LocalsType, MemoryType, DiskType, IsStore
<1>2. SaveHeights \subseteq Nat /\ (SaveHeights # {} => save.tip \in Nat)
  BY <1>1 DEF SaveHeights
<1>3. ASSUME NEW h \in SaveHeights PROVE chain[h + 1].blk \in Block
  <2>1. h + 1 \in 1..Len(chain)
    BY <1>1, <1>2, <1>3 DEF SavePut, SaveHeights
  <2> QED BY <1>1, <2>1, EntryFields
<1>4. kvChain' = new BY DEF SavePut
<1>5. DOMAIN new \subseteq Nat /\ new \in [DOMAIN new -> Block]
  BY <1>1, <1>2, <1>3
<1>6. IsStore(kvChain')
  <2>1. IsFiniteSet(SaveHeights)
    <3>1. CASE SaveHeights = {} BY <3>1, FS_EmptySet
    <3>2. CASE SaveHeights # {}
      <4>1. save.from \in Int /\ save.tip \in Int /\ SaveHeights = save.from..save.tip
        BY <1>1, <3>2 DEF SaveHeights
      <4> QED BY <4>1, FS_Interval
    <3> QED BY <3>1, <3>2
  <2>2. IsFiniteSet(kept)
    <3>1. IsFiniteSet(DOMAIN kvChain) BY DEF TypeOK, DiskType, IsStore
    <3>2. kept \in SUBSET (DOMAIN kvChain) OBVIOUS
    <3> QED BY <3>1, <3>2, FS_Subset
  <2>3. IsFiniteSet(kept \cup SaveHeights) BY <2>1, <2>2, FS_Union
  <2>4. DOMAIN new = kept \cup SaveHeights OBVIOUS
  <2> HIDE DEF new, kept
  <2> QED BY <1>4, <1>5, <2>3, <2>4 DEF IsStore
<1>7. MemoryType'
  BY <1>1, <1>2 DEF SavePut, MemoryType, TypeOK
<1>8. DiskType'
  BY <1>1, <1>6 DEF SavePut, DiskType, TypeOK
<1> QED BY <1>7, <1>8

\* So does every step of save_chain, the UTXO stores and save_state.
LEMMA SaveTypes ==
  ASSUME TypeInv, NEW t \in Thread, SaveStep(t)
  PROVE  Typed'
<1> USE SameTypes DEF TypeInv, Typed, TypeOK, Planning, Reloading
<1>0. ControlInv BY DEF ControlInv
<1>a. AfterSave(t) \in Step BY DEF AfterSave, Step
<1>1. CASE SaveBegin(t)
  <2>1. ControlInv'
    BY <1>0, <1>1, <1>a, GotoControl DEF SaveBegin, Step
  <2>2. CASE chain = <<>>
    <3>1. MemoryType' /\ LockType' BY <1>1, <2>2 DEF SaveBegin, MemoryType, LockType
    <3>2. LocalsType' BY <1>1, <2>2 DEF SaveBegin, LocalsType
    <3> QED BY <1>1, <2>1, <3>1, <3>2 DEF SaveBegin, ControlInv
  <2>3. CASE chain # <<>>
    <3>1. args[t].force \in BOOLEAN BY DEF LocalsType, CallType
    <3>2. SaveStart(args[t].force) \in Nat \cup {NoHeight} BY <3>1, SaveStartType
    <3>3. TipHash(chain) \in Block \cup {NoBlock} BY TipHashType DEF MemoryType
    <3>4. Len(chain) - 1 \in Nat BY <2>3 DEF MemoryType
    <3>5. save' \in [tip : Nat \cup {-1}, from : Nat \cup {NoHeight},
                     hash : Block \cup {NoBlock}]
      BY <1>1, <2>3, <3>2, <3>3, <3>4 DEF SaveBegin
    <3>6. MemoryType' /\ LockType'
      BY <1>1, <2>3 DEF SaveBegin, MemoryType, LockType
    <3>7. LocalsType' BY <1>1, <2>3, <3>5 DEF SaveBegin, LocalsType
    <3> QED BY <1>1, <2>1, <3>6, <3>7 DEF SaveBegin, ControlInv
  <2> QED BY <2>2, <2>3
<1>2. CASE SaveClear(t)
  <2>1. ControlInv' BY <1>0, <1>2, GotoControl DEF SaveClear, Step
  <2>2. MemoryType' /\ DiskType'
    BY <1>2, FS_EmptySet DEF SaveClear, MemoryType, DiskType, IsStore
  <2> QED BY <1>2, <2>1, <2>2 DEF SaveClear, ControlInv
<1>3. CASE SavePut(t)
  <2>1. ControlInv' BY <1>0, <1>3, GotoControl DEF SavePut, Step
  <2>2. MemoryType' /\ DiskType' BY <1>3, SavePutType
  <2> QED BY <1>3, <2>1, <2>2 DEF SavePut, ControlInv
<1>4. CASE SaveEnd(t)
  <2>1. ControlInv' BY <1>0, <1>4, <1>a, GotoControl DEF SaveEnd, Step
  <2>2. MemoryType' /\ LockType' BY <1>4 DEF SaveEnd, MemoryType, LockType
  <2>3. LocalsType' BY <1>4 DEF SaveEnd, LocalsType, NoSave
  <2> QED BY <1>4, <2>1, <2>2, <2>3 DEF SaveEnd, ControlInv
<1>5. CASE SaveAbort(t)
  <2>1. ControlInv'
    <3>1. CASE (t \in Net /\ Reject(t)) \/ (t \in Miners /\ Fail(t))
      BY <1>0, <3>1, RejectControl DEF Ingest
    <3>2. CASE t \in Net /\ UNCHANGED gossip /\ Goto(t, "resolve")
      BY <1>0, <1>5, <3>2, GotoControl DEF SaveAbort, Step
    <3>3. CASE UNCHANGED gossip /\ (Goto(t, "idle") \/ Goto(t, "exit"))
      BY <1>0, <1>5, <3>3, GotoControl DEF SaveAbort, Step
    <3>4. CASE /\ blk' = [blk EXCEPT ![t] = NoBlock] /\ Goto(t, "idle")
               /\ UNCHANGED <<seen, processing>>
      BY <1>0, <3>4 DEF ControlInv, GossipType, InHand, Goto, Step, Thread, Ingest
    <3> QED BY <1>5, <3>1, <3>2, <3>3, <3>4 DEF SaveAbort
  <2>2. LockType' /\ LocalsType'
    BY <1>5 DEF SaveAbort, LockType, LocalsType, NoSave, NoCall, Call, CallType
  <2> QED BY <1>5, <2>1, <2>2 DEF SaveAbort, ControlInv
<1>6. CASE RebuildUtxo(t)
  <2>1. ControlInv' BY <1>0, <1>6, GotoControl DEF RebuildUtxo, Step
  <2>2. MemoryType' /\ LockType'
    BY <1>6, ReplayType DEF RebuildUtxo, MemoryType, LockType
  <2> QED BY <1>6, <2>1, <2>2 DEF RebuildUtxo, ControlInv
<1>7. CASE UtxoClear(t)
  <2>1. ControlInv' BY <1>0, <1>7, GotoControl DEF UtxoClear, Step
  <2>2. DiskType' /\ LockType'
    BY <1>7 DEF UtxoClear, DiskType, LockType, IsStore
  <2> QED BY <1>7, <2>1, <2>2 DEF UtxoClear, ControlInv
<1>8. CASE UtxoPut(t)
  <2>1. ControlInv' BY <1>0, <1>8, GotoControl DEF UtxoPut, Step
  <2>2. DiskType' /\ LockType'
    BY <1>8 DEF UtxoPut, DiskType, LockType, MemoryType, IsStore
  <2> QED BY <1>8, <2>1, <2>2 DEF UtxoPut, ControlInv
<1>9. CASE CountBlocks(t)
  <2>1. ControlInv' BY <1>0, <1>9, GotoControl DEF CountBlocks, Step
  <2>2. LocalsType' BY <1>9 DEF CountBlocks, LocalsType, MemoryType
  <2> QED BY <1>9, <2>1, <2>2 DEF CountBlocks, ControlInv
<1>10. CASE SaveState(t)
  <2>0. args[t].next \in Step BY DEF LocalsType, CallType, Step
  <2>1. ControlInv' BY <1>0, <1>10, <2>0, GotoControl DEF SaveState
  <2>2. LockType' /\ DiskType'
    BY <1>10 DEF SaveState, LockType, LocalsType, DiskType, IsStore
  <2>3. LocalsType'
    BY <1>10 DEF SaveState, LocalsType, NoCall, Call, CallType
  <2> QED BY <1>10, <2>1, <2>2, <2>3 DEF SaveState, ControlInv
<1> QED BY <1>1, <1>2, <1>3, <1>4, <1>5, <1>6, <1>7, <1>8, <1>9, <1>10 DEF SaveStep

\* So do the steps of the persist worker and of the shutdown.
LEMMA WorkerTypes ==
  ASSUME TypeInv, PersistTake \/ Stop \/ Join
  PROVE  Typed'
<1> USE SameTypes DEF TypeInv, Typed, TypeOK, Planning, Reloading
<1>0. ControlInv /\ {Worker, Main} \subseteq Thread /\ {Worker, Main} \cap (Net \cup Miners) = {}
  BY ThreadAssumption DEF ControlInv, Thread, Ingest
<1>1. CASE PersistTake
  <2>1. ControlInv' BY <1>0, <1>1, GotoControl DEF PersistTake, Step
  <2>2. MemoryType' BY <1>1 DEF PersistTake, MemoryType, NoOpts
  <2>3. Call(opts.force, opts.flush, FALSE, "idle") \in CallType
    BY DEF MemoryType, Call, CallType
  <2>4. LocalsType' BY <1>1, <2>3 DEF PersistTake, LocalsType
  <2> QED BY <1>1, <2>1, <2>2, <2>4 DEF PersistTake, ControlInv
<1>2. CASE Stop
  <2>1. ControlInv'
    BY <1>0, <1>2 DEF Stop, ControlInv, GossipType, InHand, Goto, Step
  <2>2. LifeType' BY <1>2 DEF Stop, LifeType
  <2> QED BY <1>2, <2>1, <2>2 DEF Stop, ControlInv
<1>3. CASE Join
  <2>1. ControlInv' BY <1>0, <1>3, GotoControl DEF Join, Step
  <2>2. LifeType' BY <1>3 DEF Join, LifeType
  <2>3. Call(TRUE, TRUE, FALSE, "exit") \in CallType BY DEF Call, CallType
  <2>4. args' \in [Thread -> CallType]
    BY <1>3, <2>3 DEF Join, LocalsType
  <2>5. LocalsType' BY <1>3, <2>4 DEF Join, LocalsType
  <2> QED BY <1>3, <2>1, <2>2, <2>5 DEF Join, ControlInv
<1> QED BY <1>1, <1>2, <1>3

\* A start on the stored chain, or on an empty directory, is well typed.
LEMMA TypesInit == Init => TypeInv
<1> SUFFICES ASSUME Init PROVE TypeInv
  OBVIOUS
<1>1. chain \in Seq(Entry) /\ Len(chain) = Len(Stored)
  <2>1. Stored \in Seq(Block) BY BranchAssumption
  <2>2. \A i \in 1..Len(Stored) : Fresh(Stored[i]) \in Entry BY <2>1, FreshIsEntry
  <2>3. chain = [i \in 1..Len(Stored) |-> Fresh(Stored[i])]
    BY <2>1 DEF Init, FreshSeq
  <2> QED BY <2>1, <2>2, <2>3
<1>2. MemoryType
  <2>1. Len(Stored) \in Nat BY BranchAssumption
  <2>2. utxo \in SUBSET Coin BY <1>1, ReplayType DEF Init
  <2>3. NoOpts \in [force : BOOLEAN, flush : BOOLEAN] BY DEF NoOpts
  <2>4. /\ persisted = Len(Stored) - 1 /\ dirtyFrom = NoHeight
        /\ opts = NoOpts /\ pending = FALSE
    BY DEF Init
  <2>5. Len(Stored) - 1 \in Nat \cup {-1} BY <2>1
  <2> QED BY <1>1, <2>2, <2>3, <2>4, <2>5 DEF MemoryType
<1>3. LockType /\ GossipType /\ LifeType
  BY BoundAssumption DEF Init, LockType, GossipType, LifeType
<1>4. LocalsType
  BY DEF Init, LocalsType, NoToken, NoCall, NoSave, Call, CallType
<1>5. DiskType
  <2>1. Stored \in Seq(Block) BY BranchAssumption
  <2>2. \A h \in 0..(Len(Stored) - 1) : h \in Nat /\ h + 1 \in 1..Len(Stored) BY <2>1
  <2>3. IsFiniteSet(0..(Len(Stored) - 1)) BY <2>1, FS_Interval
  <2>a. IsStore(kvChain) BY <2>1, <2>2, <2>3 DEF Init, IsStore
  <2>4. kvTip \in Block \cup {NoBlock} BY <1>1, TipHashType DEF Init
  <2>5. kvUtxo \in SUBSET Coin BY <1>1, ReplayType DEF Init
  <2> QED BY <2>1, <2>a, <2>4, <2>5 DEF Init, DiskType
<1>6. pc \in [Thread -> Step] /\ InHand /\ Planned
  BY DEF Init, Step, InHand, Planned, Planning, Thread, Ingest
<1> QED BY <1>2, <1>3, <1>4, <1>5, <1>6 DEF TypeInv, Typed, TypeOK

\* The i-th key is the one with i keys up to it.
LEMMA KeyIsNth ==
  ASSUME NEW S \in SUBSET Nat, IsFiniteSet(S), NEW i \in 1..Cardinality(S)
  PROVE  /\ IsNth(S, i, KeyAt(S, i)) /\ KeyAt(S, i) \in S
         /\ \A k : IsNth(S, i, k) => k = KeyAt(S, i)
<1>1. PICK h : IsNth(S, i, h) /\ \A k : IsNth(S, i, k) => k = h BY NthElement
<1>2. h \in S /\ Cardinality({k \in S : k <= h}) = i BY <1>1 DEF IsNth, UpTo
<1>3. /\ KeyAt(S, i) \in S
      /\ Cardinality({k \in S : k <= KeyAt(S, i)}) = i
  BY <1>2 DEF KeyAt
<1>4. IsNth(S, i, KeyAt(S, i)) BY <1>3 DEF IsNth, UpTo
<1> QED BY <1>1, <1>3, <1>4

\* The keys are met in ascending order, the last is the greatest.
LEMMA KeyOrder ==
  ASSUME NEW S \in SUBSET Nat, IsFiniteSet(S), NEW i \in 1..Cardinality(S)
  PROVE  /\ \A j \in 1..Cardinality(S) : i < j => KeyAt(S, i) < KeyAt(S, j)
         /\ \A k \in S : k <= KeyAt(S, Cardinality(S))
<1>0. Cardinality(S) \in Nat /\ Cardinality(S) \in 1..Cardinality(S)
  <2>1. Cardinality(S) \in Nat BY FS_CardinalityType
  <2> QED BY <2>1
<1>1. ASSUME NEW p \in 1..Cardinality(S)
      PROVE  KeyAt(S, p) \in S /\ KeyAt(S, p) \in Nat /\ Cardinality(UpTo(S, KeyAt(S, p))) = p
  <2>1. IsNth(S, p, KeyAt(S, p)) /\ KeyAt(S, p) \in S BY KeyIsNth
  <2> QED BY <2>1 DEF IsNth
<1>2. ASSUME NEW j \in 1..Cardinality(S), i < j PROVE KeyAt(S, i) < KeyAt(S, j)
  <2>1. ~(KeyAt(S, j) < KeyAt(S, i))
    <3>1. KeyAt(S, j) < KeyAt(S, i) => j < i BY <1>1, UpToGrows
    <3> QED BY <1>2, <3>1
  <2>2. KeyAt(S, j) # KeyAt(S, i) BY <1>1, <1>2
  <2>3. KeyAt(S, i) \in Nat /\ KeyAt(S, j) \in Nat BY <1>1
  <2> QED BY <2>1, <2>2, <2>3
<1>3. ASSUME NEW k \in S PROVE k <= KeyAt(S, Cardinality(S))
  <2>1. KeyAt(S, Cardinality(S)) < k
          => Cardinality(UpTo(S, KeyAt(S, Cardinality(S)))) < Cardinality(UpTo(S, k))
    BY <1>0, <1>1, UpToGrows
  <2>2. Cardinality(UpTo(S, k)) \in 1..Cardinality(S) BY UpToGrows
  <2>3. Cardinality(UpTo(S, KeyAt(S, Cardinality(S)))) = Cardinality(S) BY <1>0, <1>1
  <2>4. ~(KeyAt(S, Cardinality(S)) < k) BY <1>0, <2>1, <2>2, <2>3
  <2>5. k \in Nat /\ KeyAt(S, Cardinality(S)) \in Nat BY <1>0, <1>1
  <2> QED BY <2>4, <2>5
<1> QED BY <1>2, <1>3

\* n keys below n leave no gap.
LEMMA KeysDense ==
  ASSUME NEW S \in SUBSET Nat, IsFiniteSet(S), \A k \in S : k < Cardinality(S)
  PROVE  \A i \in 1..Cardinality(S) : KeyAt(S, i) = i - 1
<1> DEFINE n == Cardinality(S)
<1>0. n \in Nat BY FS_CardinalityType
<1>1. \A m \in Nat : IsFiniteSet(0..m) /\ Cardinality(0..m) = m + 1
  <2> SUFFICES ASSUME NEW m \in Nat PROVE IsFiniteSet(0..m) /\ Cardinality(0..m) = m + 1
    OBVIOUS
  <2>1. /\ IsFiniteSet(0..m)
        /\ Cardinality(0..m) = (IF 0 > m THEN 0 ELSE m - 0 + 1)
    BY FS_Interval
  <2> QED BY <2>1
<1> SUFFICES ASSUME NEW i \in 1..n PROVE KeyAt(S, i) = i - 1
  OBVIOUS
<1>2. n - 1 \in Nat /\ S \in SUBSET (0..(n - 1)) BY <1>0
<1>3. S = 0..(n - 1)
  <2>1. IsFiniteSet(0..(n - 1)) /\ Cardinality(0..(n - 1)) = n BY <1>0, <1>1, <1>2
  <2> QED BY <1>2, <2>1, FS_Subset
<1>4. UpTo(S, i - 1) = 0..(i - 1) BY <1>0, <1>3 DEF UpTo
<1>5. Cardinality(UpTo(S, i - 1)) = i
  <2>1. i - 1 \in Nat /\ i - 1 + 1 = i BY <1>0
  <2> QED BY <1>1, <1>4, <2>1
<1>6. IsNth(S, i, i - 1) BY <1>0, <1>3, <1>5 DEF IsNth
<1> QED BY <1>6, KeyIsNth

\* The entry that load_chain makes of the i-th stored block.
LoadedEntry(i) ==
  [blk |-> kvChain[KeyAt(DOMAIN kvChain, i)],
   hash |-> IF i < Cardinality(DOMAIN kvChain)
              THEN Parent[kvChain[KeyAt(DOMAIN kvChain, i + 1)]] ELSE kvTip]

\* What load_chain reads back is a chain of entries, whatever the store holds.
LEMMA StoredEntries ==
  ASSUME DiskType
  PROVE  /\ StoredChain \in Seq(Entry)
         /\ Len(StoredChain) = Cardinality(DOMAIN kvChain)
         /\ \A i \in 1..Len(StoredChain) : StoredChain[i] = LoadedEntry(i)
<1> DEFINE keys == DOMAIN kvChain
           size == Cardinality(keys)
<1>1. keys \in SUBSET Nat /\ IsFiniteSet(keys) /\ kvChain \in [keys -> Block]
  BY DEF DiskType, IsStore
<1>2. size \in Nat BY <1>1, FS_CardinalityType
<1>3. ASSUME NEW i \in 1..size PROVE kvChain[KeyAt(keys, i)] \in Block
  <2>1. KeyAt(keys, i) \in keys BY <1>1, KeyIsNth
  <2> HIDE DEF keys
  <2> QED BY <1>1, <2>1
<1>4. ASSUME NEW i \in 1..size PROVE LoadedEntry(i) \in Entry
  <2>1. kvChain[KeyAt(keys, i)] \in Block BY <1>3
  <2>2. CASE i < size
    <3>1. i + 1 \in 1..size BY <1>2, <2>2
    <3>2. kvChain[KeyAt(keys, i + 1)] \in Block BY <1>3, <3>1
    <3>3. Parent[kvChain[KeyAt(keys, i + 1)]] \in Block \cup {NoBlock}
      BY <3>2, HeaderAssumption
    <3> QED BY <2>1, <2>2, <3>3 DEF Entry, LoadedEntry
  <2>3. CASE ~(i < size)
    <3>1. kvTip \in Block \cup {NoBlock} BY DEF DiskType
    <3> QED BY <2>1, <2>3, <3>1 DEF Entry, LoadedEntry
  <2> QED BY <2>2, <2>3
<1>5. StoredChain = [i \in 1..size |-> LoadedEntry(i)]
  BY DEF StoredChain, LoadedEntry
<1> HIDE DEF size
<1>6. StoredChain \in Seq(Entry) BY <1>2, <1>4, <1>5
<1>7. Len(StoredChain) = size BY <1>2, <1>5, <1>6
<1> QED BY <1>5, <1>6, <1>7 DEF size

\* A miner's reload, build and search keep the types.
LEMMA MineTypes ==
  ASSUME TypeInv, NEW m \in Miners, MineStep(m)
  PROVE  Typed'
<1> USE SameTypes DEF TypeInv, Typed, TypeOK, Planning, Reloading
<1>0. ControlInv /\ m \in Thread /\ m \in Ingest /\ m \notin Net
  BY ThreadAssumption DEF ControlInv, Thread, Ingest
<1>a. ASSUME NEW s \in {"idle", "wipe", "assign", "height", "clean", "verify", "build"},
             Goto(m, s), UNCHANGED gossip
      PROVE  ControlInv'
  BY <1>0, <1>a DEF ControlInv, Goto, InHand, GossipType, gossip, Step
<1>1. CASE ReloadRead(m)
  <2>1. ControlInv' BY <1>1, <1>a DEF ReloadRead
  <2>2. LoadedChain \in Seq(Entry) BY StoredEntries DEF LoadedChain
  <2>3. LocalsType' BY <1>1, <2>2 DEF ReloadRead, LocalsType
  <2> QED BY <1>1, <2>1, <2>3 DEF ReloadRead, ControlInv
<1>5. CASE ReloadWipe(m)
  <2>1. ControlInv' BY <1>5, <1>a DEF ReloadWipe
  <2>2. IsStore(<<>>) BY FS_EmptySet DEF IsStore
  <2>3. DiskType' BY <1>5, <2>2 DEF ReloadWipe, DiskType
  <2> QED BY <1>5, <2>1, <2>3 DEF ReloadWipe, ControlInv
<1>6. CASE ReloadAssign(m)
  <2>1. ControlInv' BY <1>6, <1>a DEF ReloadAssign
  <2>2. MemoryType' BY <1>0, <1>6 DEF ReloadAssign, MemoryType, LocalsType
  <2> QED BY <1>6, <2>1, <2>2 DEF ReloadAssign, ControlInv
<1>7. CASE ReloadHeight(m)
  <2>1. ControlInv' BY <1>7, <1>a DEF ReloadHeight
  <2>2. MemoryType' BY <1>7 DEF ReloadHeight, MemoryType
  <2> QED BY <1>7, <2>1, <2>2 DEF ReloadHeight, ControlInv
<1>8. CASE ReloadClean(m)
  <2>1. ControlInv' BY <1>8, <1>a DEF ReloadClean
  <2>2. MemoryType' BY <1>8 DEF ReloadClean, MemoryType
  <2>3. plan' \in [Thread -> Seq(Entry)] BY <1>8, PlanDropped DEF ReloadClean
  <2>4. LocalsType' BY <1>8, <2>3 DEF ReloadClean, LocalsType
  <2> QED BY <1>8, <2>1, <2>2, <2>4 DEF ReloadClean, ControlInv
<1>9. CASE ReloadVerify(m)
  <2>1. ControlInv' BY <1>9, <1>a DEF ReloadVerify
  <2> QED BY <1>9, <2>1 DEF ReloadVerify, ControlInv
<1>2. ASSUME NEW b \in Block, MineBuild(m, b) PROVE Typed'
  <2>1. ControlInv'
    BY <1>0, <1>2 DEF MineBuild, ControlInv, Goto, InHand, GossipType, Step
  <2> QED BY <1>2, <2>1 DEF MineBuild, ControlInv
<1>3. CASE MineFound(m)
  <2>1. ControlInv' BY <1>0, <1>3, GotoControl DEF MineFound, Step
  <2> QED BY <1>3, <2>1 DEF MineFound, ControlInv
<1>4. CASE MineStop(m)
  <2>1. ControlInv' BY <1>0, <1>4, RejectControl DEF MineStop
  <2> QED BY <1>4, <2>1 DEF MineStop, ControlInv
<1> QED BY <1>1, <1>2, <1>3, <1>4, <1>5, <1>6, <1>7, <1>8, <1>9 DEF MineStep

\* So does the start after a kill or a shutdown.
LEMMA BootTypes ==
  ASSUME TypeInv, Crash \/ Restart
  PROVE  TypeInv'
<1>1. DiskType /\ LifeType BY DEF TypeInv, Typed, TypeOK
<1>2. Boot /\ restarts < MaxRestarts /\ restarts' = restarts + 1
  BY DEF Crash, Restart
<1>3. StoredChain \in Seq(Entry) /\ <<>> \in Seq(Entry) BY <1>1, StoredEntries
<1>4. LoadedChain \in Seq(Entry) BY <1>3 DEF LoadedChain
<1>5. LoadedCoins \in SUBSET Coin BY <1>1, <1>4, ReplayType DEF LoadedCoins, DiskType
<1>6. MemoryType'
  <2>1. Len(LoadedChain) - 1 \in Nat \cup {-1} BY <1>4
  <2>2. NoOpts \in [force : BOOLEAN, flush : BOOLEAN] BY DEF NoOpts
  <2> QED BY <1>2, <1>4, <1>5, <2>1, <2>2 DEF Boot, MemoryType
<1>7. LockType' /\ GossipType' BY <1>2 DEF Boot, LockType, GossipType
<1>8. LifeType' BY <1>1, <1>2, BoundAssumption DEF Boot, LifeType
<1>9. LocalsType'
  <2>1. NoToken \in [height : Nat \cup {-1}, tip : Block \cup {NoBlock}] BY DEF NoToken
  <2>2. NoCall \in CallType BY DEF NoCall, Call, CallType
  <2>3. NoSave \in [tip : Nat \cup {-1}, from : Nat \cup {NoHeight},
                    hash : Block \cup {NoBlock}]
    BY DEF NoSave
  <2> QED BY <1>2, <2>1, <2>2, <2>3 DEF Boot, LocalsType
<1>10. DiskType'
  <2>1. IsStore(<<>>) BY FS_EmptySet DEF IsStore
  <2>2. IsStore(kvChain') BY <1>1, <1>2, <2>1 DEF Boot, DiskType
  <2> QED BY <1>1, <1>2, <1>5, <2>2 DEF Boot, DiskType
<1>11. pc' \in [Thread -> Step] /\ InHand'
  BY <1>2 DEF Boot, Step, InHand, Thread, Ingest
<1>12. Planned' BY <1>2 DEF Boot, Planned, Planning
<1> QED BY <1>6, <1>7, <1>8, <1>9, <1>10, <1>11, <1>12 DEF TypeInv, Typed, TypeOK

\* Who is at a step of a swap or replacement that no other thread leads to
\* was there before the step, with the same block and chain, or takes it now.
LEMMA ReorgSteps ==
  ASSUME TypeInv, Next, ~(Crash \/ Restart), NEW u \in Thread,
         pc'[u] \in {"commit"} \cup Planning
  PROVE  \/ pc'[u] = pc[u] /\ blk'[u] = blk[u] /\ plan'[u] = plan[u]
         \/ u \in Ingest /\ (SwapCheck(u) \/ ReplaceCheck(u))
         \/ u \in Net /\ \E s \in Branches : ReplaceBuild(u, s)
<1> DEFINE Stays == pc'[u] = pc[u] /\ blk'[u] = blk[u] /\ plan'[u] = plan[u]
           Elsewhere == Step \ ({"commit"} \cup Planning)
<1>a. /\ pc \in [Thread -> Step] /\ args \in [Thread -> CallType]
      /\ blk \in [Thread -> Block \cup {NoBlock}] /\ plan \in [Thread -> Seq(Entry)]
  BY DEF TypeInv, Typed, TypeOK, LocalsType, GossipType
<1>b. {"idle", "classify", "context", "inputs", "recheck", "check", "append", "mark",
       "apply", "schedule", "accept", "resolve", "swap", "announce", "save", "clear",
       "put", "saved", "rebuild", "uclear", "uput", "count", "state", "join", "exit",
       "wipe", "assign", "height", "clean", "verify", "build", "mining"} \subseteq Elsewhere
  BY DEF Step, Planning
<1> HIDE DEF Elsewhere
<1>c. pc'[u] \notin Elsewhere BY DEF Elsewhere
<1>d. ASSUME NEW t \in Thread, NEW s \in Elsewhere, Goto(t, s),
             \A v \in Thread : v # t => blk'[v] = blk[v] /\ plan'[v] = plan[v]
      PROVE  Stays
  <2>1. pc' = [pc EXCEPT ![t] = s] BY <1>d DEF Goto
  <2>2. u # t BY <1>a, <1>c, <1>d, <2>1
  <2> QED BY <1>a, <1>d, <2>1, <2>2
<1>1. ASSUME NEW t \in Net, NEW b \in Block, ReceiveBlock(t, b) PROVE Stays
  BY <1>1, <1>a, <1>b, <1>d DEF ReceiveBlock, locals, Thread, Ingest
<1>2. ASSUME NEW t \in Net, NEW s \in Branches, ReplaceBuild(t, s), t # u PROVE Stays
  BY <1>2, <1>a DEF ReplaceBuild, Goto, gossip, Thread, Ingest
<1>3. ASSUME NEW t \in Ingest, IngestStep(t), t # u \/ ~(SwapCheck(t) \/ ReplaceCheck(t))
      PROVE  Stays
  <2>0. t \in Thread BY DEF Thread
  <2>1. CASE Classify(t) \/ ValidateContext(t) \/ ValidateInputs(t) \/ ValidateRecheck(t)
             \/ AddCheck(t)
    BY <1>a, <1>b, <1>d, <2>0, <2>1 DEF Classify, ValidateContext, ValidateInputs,
       ValidateRecheck, AddCheck, Reject, Fail, gossip, locals
  <2>2. CASE AddAppend(t) \/ AddMark(t) \/ AddApply(t) \/ AddSchedule(t) \/ Accept(t)
             \/ ForkPrecheck(t) \/ Announce(t)
    <3>1. /\ \E s \in Elsewhere : Goto(t, s)
          /\ UNCHANGED blk \/ blk' = [blk EXCEPT ![t] = NoBlock]
          /\ UNCHANGED plan
      BY <1>b, <2>2 DEF AddAppend, AddMark, AddApply, AddSchedule, Accept,
         ForkPrecheck, Announce, Reject, gossip, locals
    <3> QED BY <1>a, <1>d, <2>0, <3>1
  <2>3. CASE SwapCommit(t) \/ ReplaceCommit(t)
    <3>1. /\ \E s \in Elsewhere : Goto(t, s)
          /\ UNCHANGED blk \/ \E x : blk' = [blk EXCEPT ![t] = x]
          /\ UNCHANGED plan \/ plan' = [plan EXCEPT ![t] = <<>>]
      BY <1>b, <2>3 DEF SwapCommit, ReplaceCommit, Reject, gossip
    <3> QED BY <1>a, <1>d, <2>0, <3>1
  <2>4. CASE SwapCheck(t) \/ ReplaceCheck(t)
    <3>1. t # u BY <1>3, <2>4
    <3>2. /\ \E s \in Step : Goto(t, s)
          /\ UNCHANGED blk \/ blk' = [blk EXCEPT ![t] = NoBlock]
          /\ UNCHANGED plan \/ plan' = [plan EXCEPT ![t] = <<>>]
      BY <2>4 DEF SwapCheck, ReplaceCheck, Reject, gossip, locals, Step
    <3> QED BY <1>a, <2>0, <3>1, <3>2 DEF Goto
  <2> QED BY <1>3, <2>1, <2>2, <2>3, <2>4 DEF IngestStep
<1>4. ASSUME NEW t \in Thread, SaveStep(t) PROVE Stays
  <2>1. CASE SaveBegin(t) \/ SaveClear(t) \/ SavePut(t) \/ SaveEnd(t) \/ SaveState(t)
    <3>1. args[t].next \in Elsewhere BY <1>a, <1>b DEF CallType
    <3>2. /\ \E s \in Elsewhere : Goto(t, s)
          /\ UNCHANGED <<blk, plan>>
      BY <1>b, <2>1, <3>1 DEF SaveBegin, SaveClear, SavePut, SaveEnd, SaveState, AfterSave,
         gossip, locals
    <3> QED BY <1>d, <3>2
  <2>2. CASE RebuildUtxo(t) \/ UtxoClear(t) \/ UtxoPut(t) \/ CountBlocks(t)
    BY <1>b, <1>d, <2>2 DEF RebuildUtxo, UtxoClear, UtxoPut, CountBlocks, gossip, locals
  <2>3. CASE SaveAbort(t)
    <3>1. /\ \E s \in Elsewhere : Goto(t, s)
          /\ UNCHANGED blk \/ blk' = [blk EXCEPT ![t] = NoBlock]
          /\ UNCHANGED plan
      BY <1>b, <2>3 DEF SaveAbort, Reject, Fail, gossip
    <3> QED BY <1>a, <1>d, <3>1
  <2> QED BY <1>4, <2>1, <2>2, <2>3 DEF SaveStep
<1>5. ASSUME NEW t \in Miners, MineStep(t) PROVE Stays
  <2>0. t \in Thread BY DEF Thread, Ingest
  <2> DEFINE Own == /\ \E s \in Elsewhere : Goto(t, s)
                    /\ UNCHANGED blk \/ \E x : blk' = [blk EXCEPT ![t] = x]
                    /\ UNCHANGED plan \/ \E x : plan' = [plan EXCEPT ![t] = x]
  <2>1. Own
    <3>1. CASE ReloadRead(t) \/ ReloadWipe(t) \/ ReloadAssign(t) \/ ReloadHeight(t)
               \/ ReloadClean(t) \/ ReloadVerify(t)
      BY <1>b, <3>1 DEF ReloadRead, ReloadWipe, ReloadAssign, ReloadHeight, ReloadClean,
         ReloadVerify, gossip, locals
    <3>2. CASE MineFound(t) \/ MineStop(t)
      BY <1>b, <3>2 DEF MineFound, MineStop, Fail, Reject, gossip, locals
    <3>3. ASSUME NEW b \in Block, MineBuild(t, b) PROVE Own
      BY <1>b, <3>3 DEF MineBuild, locals
    <3> QED BY <1>5, <3>1, <3>2, <3>3 DEF MineStep
  <2> QED BY <1>a, <1>d, <2>0, <2>1
<1>6. CASE PersistTake \/ Stop \/ Join
  <2>1. \E t \in Thread, s \in Elsewhere : Goto(t, s) /\ UNCHANGED <<blk, plan>>
    BY <1>b, <1>6 DEF PersistTake, Stop, Join, gossip, locals, Thread
  <2> QED BY <1>d, <2>1
<1> QED BY <1>1, <1>2, <1>3, <1>4, <1>5, <1>6 DEF Next, Input, Ingest

\* Who replaces the chain has one to replace it by.
LEMMA PlannedStep ==
  ASSUME TypeInv, Next, ~(Crash \/ Restart)
  PROVE  Planned'
<1> SUFFICES ASSUME NEW u \in Thread, pc'[u] \in Planning
             PROVE  u \in Net /\ plan'[u] # <<>>
  BY DEF Planned
<1>1. CASE pc'[u] = pc[u] /\ plan'[u] = plan[u]
  BY <1>1 DEF TypeInv, Planned
<1>2. CASE SwapCheck(u)
  BY <1>2 DEF SwapCheck, Reject, Goto, Planning, TypeInv, Typed, TypeOK
<1>3. CASE ReplaceCheck(u)
  <2>1. u \in Net /\ plan[u] # <<>> BY <1>3 DEF ReplaceCheck, Planning, TypeInv, Planned
  <2> QED BY <1>3, <2>1 DEF ReplaceCheck, Goto, Planning, TypeInv, Typed, TypeOK
<1>4. ASSUME u \in Net, NEW s \in Branches, ReplaceBuild(u, s)
      PROVE  u \in Net /\ plan'[u] # <<>>
  <2>1. chain \in Seq(Entry) /\ plan \in [Thread -> Seq(Entry)]
    BY DEF TypeInv, Typed, TypeOK, MemoryType, LocalsType
  <2>2. Candidate(s) \in Seq(Entry) /\ Len(Candidate(s)) = Height[Head(s)] + Len(s)
    BY <1>4, <2>1, CandidateType DEF ReplaceBuild
  <2>3. Height[Head(s)] >= 1 /\ Height[Head(s)] \in Int /\ Len(s) \in Nat
    BY <1>4, <2>1, BranchAssumption DEF ReplaceBuild, ForksAt
  <2>4. Candidate(s) # <<>> BY <2>2, <2>3
  <2> QED BY <1>4, <2>1, <2>4 DEF ReplaceBuild
<1> QED BY <1>1, <1>2, <1>3, <1>4, ReorgSteps DEF Planning

\* Types and blocks in hand are kept by every step.
LEMMA TypesStep == TypeInv /\ [Next]_vars => TypeInv'
<1> SUFFICES ASSUME TypeInv, [Next]_vars PROVE TypeInv'
  OBVIOUS
<1>1. CASE UNCHANGED vars
  <2>1. Typed' BY <1>1, SameTypes DEF vars, TypeInv, Typed, TypeOK, InHand, gossip
  <2>2. Planned' BY <1>1 DEF vars, TypeInv, Planned, locals
  <2> QED BY <2>1, <2>2 DEF TypeInv
<1>2. CASE Next /\ ~(Crash \/ Restart)
  <2>1. Typed' BY <1>2, InputTypes, IngestTypes, SaveTypes, MineTypes, WorkerTypes DEF Next
  <2>2. Planned' BY <1>2, PlannedStep
  <2> QED BY <2>1, <2>2 DEF TypeInv
<1>3. CASE Crash \/ Restart BY <1>3, BootTypes
<1> QED BY <1>1, <1>2, <1>3

\* Every variable of a node has its type, for any tree of blocks and any
\* number of connection threads, miners, kills and restarts.
THEOREM TypeCorrect == Spec => []TypeOK
<1>1. TypeInv => TypeOK BY DEF TypeInv, Typed
<1> QED BY <1>1, TypesInit, TypesStep, PTL DEF Spec

-----------------------------------------------------------------------------
(* The lock *)

\* A thread with a step of its own, and only that thread, may hold the lock.
LEMMA OnlyHolder ==
  ASSUME TypeOK, Locked, NEW t \in Thread, Free(lock, t), NEW u \in Thread, u # t
  PROVE  /\ pc[u] \notin Critical
         /\ ~args[u].held
BY ThreadNames DEF Locked, Free

\* What the others do and have not touched stays as the lock requires.
LockedFor(t) ==
  /\ pc[t] \in Critical => lock = t
  /\ args[t].held => pc[t] \in SaveSteps /\ lock = t
  /\ pc[t] \in {"clear", "put"} => save.tip < Len(chain)

\* A step of t outside save_chain that leaves the lock alone.
LEMMA LockedOutside ==
  ASSUME TypeOK, Locked, NEW t \in Thread, NEW s \in Step \ Critical,
         pc[t] \notin SaveSteps, Goto(t, s), UNCHANGED <<lock, save>>,
         \/ UNCHANGED args
         \/ \E c \in CallType : ~c.held /\ args' = [args EXCEPT ![t] = c],
         Len(chain') >= Len(chain)
  PROVE  Locked'
<1>1. ~args[t].held BY DEF Locked
<1>2. ~args'[t].held
  BY <1>1 DEF TypeOK, LocalsType
<1>3. chain \in Seq(Entry) /\ save.tip \in Int
  BY DEF TypeOK, MemoryType, LocalsType
<1>4. ASSUME NEW u \in Thread PROVE LockedFor(u)'
  <2>1. CASE u = t
    <3>1. pc'[u] = s BY <2>1 DEF Goto, TypeOK
    <3> QED BY <1>2, <2>1, <3>1 DEF LockedFor, Critical
  <2>2. CASE u # t
    <3>1. pc'[u] = pc[u] /\ args'[u] = args[u]
      BY <2>2 DEF Goto, TypeOK, LocalsType
    <3>2. pc[u] \in {"clear", "put"} => save.tip < Len(chain')
      BY <1>3 DEF Locked
    <3> QED BY <3>1, <3>2 DEF Locked, LockedFor
  <2> QED BY <2>1, <2>2
<1> QED BY <1>4 DEF Locked, LockedFor


\* A step of t inside save_chain that leaves the lock and the chain alone.
LEMMA LockedInside ==
  ASSUME TypeOK, Locked, NEW t \in Thread,
         NEW s \in SaveSteps \ Critical,
         pc[t] \in SaveSteps, Goto(t, s), UNCHANGED <<lock, save, args, chain>>
  PROVE  Locked'
<1>1. ASSUME NEW u \in Thread PROVE LockedFor(u)'
  <2>1. CASE u = t
    <3>1. pc'[u] = s BY <2>1 DEF Goto, TypeOK
    <3> QED BY <2>1, <3>1 DEF LockedFor, Locked, Critical
  <2>2. CASE u # t
    <3>1. pc'[u] = pc[u] BY <2>2 DEF Goto, TypeOK
    <3> QED BY <3>1 DEF Locked, LockedFor
  <2> QED BY <2>1, <2>2
<1> QED BY <1>1 DEF Locked, LockedFor

\* A step of t that may have the lock: only t's own claims need a look.
LEMMA LockedByOne ==
  ASSUME TypeOK, Locked, NEW t \in Thread, Free(lock, t), NEW s \in Step, Goto(t, s),
         \/ UNCHANGED args
         \/ \E c \in CallType : args' = [args EXCEPT ![t] = c],
         LockedFor(t)'
  PROVE  Locked'
<1>1. ASSUME NEW u \in Thread, u # t PROVE LockedFor(u)'
  <2>1. pc'[u] = pc[u] /\ args'[u] = args[u]
    BY <1>1 DEF Goto, TypeOK, LocalsType
  <2>2. pc[u] \notin Critical /\ ~args[u].held
    BY <1>1, OnlyHolder
  <2> QED BY <2>1, <2>2 DEF LockedFor, Critical
<1> QED BY <1>1 DEF Locked, LockedFor

\* The arguments of save_chain are what Call puts together.
LEMMA CallTypes ==
  \A f, h, l \in BOOLEAN, n \in {"idle", "accept", "mark", "announce", "exit"} :
    Call(f, h, l, n) \in CallType /\ Call(f, h, l, n).held = l
    /\ Call(f, h, l, n).force = f
BY DEF Call, CallType

\* A block or a branch is taken without the lock.
LEMMA InputLocked ==
  ASSUME TypeInv, Locked, NEW t \in Net, Input(t)
  PROVE  Locked'
<1>0. t \in Thread /\ TypeOK BY DEF Thread, Ingest, TypeInv, Typed
<1>1. ASSUME NEW b \in Block, ReceiveBlock(t, b) PROVE Locked'
  BY <1>0, <1>1, LockedOutside
     DEF ReceiveBlock, SaveSteps, Critical, Step, locks, locals, memory
<1>2. ASSUME NEW s \in Branches, ReplaceBuild(t, s) PROVE Locked'
  <2>1. /\ Goto(t, "replace") /\ pc[t] \notin SaveSteps
        /\ UNCHANGED <<lock, save, args, chain>>
    BY <1>2 DEF ReplaceBuild, SaveSteps, locks, memory
  <2>2. "replace" \in Step \ Critical BY DEF Step, Critical
  <2> QED BY <1>0, <2>1, <2>2, LockedOutside DEF TypeOK, MemoryType
<1> QED BY <1>1, <1>2 DEF Input

\* Of the steps that ingest a block swap_tip_if_better and replace_with take
\* the lock, and keep it for their saves.
LEMMA IngestLocked ==
  ASSUME TypeInv, Locked, NEW t \in Net, IngestStep(t)
  PROVE  Locked'
<1>0. t \in Thread /\ TypeOK BY DEF Thread, Ingest, TypeInv, Typed
<1>a. /\ chain \in Seq(Entry)
      /\ {"idle", "check", "context", "inputs", "recheck", "append", "mark", "apply",
          "schedule", "accept", "resolve", "swap", "announce", "save"}
         \subseteq Step \ Critical
  BY <1>0 DEF Step, Critical, TypeOK, MemoryType
<1> DEFINE Outside == Step \ Critical
<1>1. CASE Classify(t) \/ ValidateContext(t) \/ ValidateInputs(t) \/ ValidateRecheck(t)
           \/ AddCheck(t) \/ AddMark(t) \/ AddApply(t) \/ Accept(t)
           \/ ForkPrecheck(t) \/ Announce(t)
  <2>1. /\ \E s \in Outside : Goto(t, s)
        /\ pc[t] \notin SaveSteps
        /\ UNCHANGED <<lock, save, args, chain>>
    BY <1>a, <1>1 DEF Classify, ValidateContext, ValidateInputs, ValidateRecheck,
       AddCheck, AddMark, AddApply, Accept, ForkPrecheck, Announce, Reject, Fail,
       SaveSteps, locks, locals, memory
  <2>2. Len(chain') >= Len(chain) BY <1>a, <2>1
  <2> QED BY <1>0, <2>1, <2>2, LockedOutside
<1>2. CASE AddAppend(t)
  <2>1. blk[t] \in Block BY <1>2 DEF AddAppend, TypeInv, Typed, InHand, Planning
  <2>2. Len(chain') >= Len(chain) BY <1>2, <1>a, <2>1, FreshIsEntry DEF AddAppend
  <2>3. /\ \E s \in Outside : Goto(t, s)
        /\ pc[t] \notin SaveSteps
        /\ UNCHANGED <<lock, save, args>>
    BY <1>a, <1>2 DEF AddAppend, SaveSteps, locks, locals
  <2> QED BY <1>0, <2>2, <2>3, LockedOutside
<1>3. CASE AddSchedule(t)
  <2>1. /\ \E s \in Outside : Goto(t, s)
        /\ pc[t] \notin SaveSteps
        /\ UNCHANGED <<lock, save, chain>>
    BY <1>a, <1>3 DEF AddSchedule, SaveSteps, locks
  <2>2. \/ UNCHANGED args
        \/ \E c \in CallType : ~c.held /\ args' = [args EXCEPT ![t] = c]
    <3>1. \A b \in BOOLEAN, n \in {"mark", "accept"} :
            Call(b, b, FALSE, n) \in CallType /\ ~Call(b, b, FALSE, n).held
      BY CallTypes
    <3> QED BY <1>3, <3>1 DEF AddSchedule
  <2>3. Len(chain') >= Len(chain) BY <1>a, <2>1
  <2> QED BY <1>0, <2>1, <2>2, <2>3, LockedOutside
<1>4. CASE (SwapCheck(t) /\ BetterTip(blk[t])) \/ (ReplaceCheck(t) /\ Replaces(plan[t]))
  <2>1. /\ \E s \in {"commit", "adopt"} : Goto(t, s)
        /\ lock' = t /\ Free(lock, t) /\ UNCHANGED args /\ pc[t] \notin SaveSteps
    BY <1>4 DEF SwapCheck, ReplaceCheck, SaveSteps, locals
  <2>2. ~args[t].held BY <1>0, <2>1 DEF Locked
  <2>3. LockedFor(t)'
    BY <1>0, <2>1, <2>2 DEF LockedFor, Goto, TypeOK
  <2>4. {"commit", "adopt"} \subseteq Step BY DEF Step
  <2> QED BY <1>0, <2>1, <2>3, <2>4, LockedByOne
<1>5. CASE (SwapCheck(t) /\ ~BetterTip(blk[t])) \/ (ReplaceCheck(t) /\ ~Replaces(plan[t]))
  <2>1. /\ Goto(t, "idle")
        /\ pc[t] \notin SaveSteps
        /\ UNCHANGED <<lock, save, args, chain>>
    BY <1>5 DEF SwapCheck, ReplaceCheck, Reject, SaveSteps, locals, memory
  <2>2. Len(chain') >= Len(chain) BY <1>a, <2>1
  <2> QED BY <1>0, <1>a, <2>1, <2>2, LockedOutside
<1>6. CASE (SwapCommit(t) /\ Len(chain) >= 2) \/ ReplaceCommit(t)
  <2>1. \E c \in CallType : c.held /\ args' = [args EXCEPT ![t] = c]
    <3>1. /\ Call(FALSE, FALSE, TRUE, "accept") \in CallType
          /\ Call(TRUE, FALSE, TRUE, "announce") \in CallType
          /\ Call(FALSE, FALSE, TRUE, "accept").held
          /\ Call(TRUE, FALSE, TRUE, "announce").held
      BY CallTypes
    <3>2. \/ args' = [args EXCEPT ![t] = Call(FALSE, FALSE, TRUE, "accept")]
          \/ args' = [args EXCEPT ![t] = Call(TRUE, FALSE, TRUE, "announce")]
      BY <1>6, <1>a, SwapEnds DEF ReplaceCommit
    <3> QED BY <3>1, <3>2
  <2>2. Goto(t, "save") /\ lock' = lock /\ lock = t
    <3>1. Goto(t, "save") /\ lock' = lock
      BY <1>6, <1>a, SwapEnds DEF ReplaceCommit, locks
    <3>2. pc[t] \in Critical BY <1>6 DEF SwapCommit, ReplaceCommit, Critical
    <3> QED BY <1>0, <3>1, <3>2 DEF Locked
  <2>3. LockedFor(t)'
    BY <1>0, <2>1, <2>2 DEF LockedFor, Goto, TypeOK, LocalsType, SaveSteps, Critical
  <2>4. "save" \in Step /\ Free(lock, t) BY <2>2 DEF Step, Free
  <2> QED BY <1>0, <2>1, <2>2, <2>3, <2>4, LockedByOne
<1>7. CASE SwapCommit(t) /\ Len(chain) < 2
  <2>1. /\ Goto(t, "idle") /\ lock = t /\ UNCHANGED args /\ pc[t] = "commit"
    <3>1. pc[t] = "commit" BY <1>7 DEF SwapCommit
    <3>2. Reject(t) /\ UNCHANGED args BY <1>7, <1>a, SwapEnds
    <3> QED BY <1>0, <3>1, <3>2 DEF Reject, Locked, Critical
  <2>2. ~args[t].held BY <1>0, <2>1 DEF Locked, SaveSteps
  <2>3. LockedFor(t)'
    BY <1>0, <2>1, <2>2 DEF LockedFor, Goto, TypeOK, Critical
  <2>4. "idle" \in Step /\ Free(lock, t) BY <2>1 DEF Step, Free
  <2> QED BY <1>0, <2>1, <2>3, <2>4, LockedByOne
<1>8. SwapCommit(t) => Len(chain) >= 2 \/ Len(chain) < 2 BY <1>a
<1> QED BY <1>1, <1>2, <1>3, <1>4, <1>5, <1>6, <1>7, <1>8 DEF IngestStep


\* save_chain takes the lock, and releases it unless its caller holds it.
LEMMA SaveLocked ==
  ASSUME TypeInv, Locked, NEW t \in Thread, SaveStep(t), t \notin Miners
  PROVE  Locked'
<1>0. TypeOK BY DEF TypeInv, Typed
<1>a. /\ chain \in Seq(Entry)
      /\ pc \in [Thread -> Step] /\ args \in [Thread -> CallType]
  BY <1>0 DEF TypeOK, MemoryType, LocalsType
<1>b. AfterSave(t) \in {"rebuild", "uclear", "count"} BY DEF AfterSave
<1>c. {"rebuild", "uclear", "count", "uput", "state", "saved", "put", "clear",
       "idle", "resolve", "exit"} \subseteq Step BY DEF Step
<1>1. CASE SaveBegin(t)
  <2>1. CASE chain = <<>>
    <3>1. /\ Goto(t, AfterSave(t)) /\ pc[t] \in SaveSteps
          /\ UNCHANGED <<lock, save, args, chain>>
      BY <1>1, <2>1 DEF SaveBegin, SaveSteps
    <3>2. AfterSave(t) \in SaveSteps \ Critical BY <1>b DEF SaveSteps, Critical
    <3> QED BY <1>0, <3>1, <3>2, LockedInside
  <2>2. CASE chain # <<>>
    <3> DEFINE s == IF persisted' < 0 THEN "clear" ELSE "put"
    <3>1. /\ Goto(t, s) /\ lock' = t /\ UNCHANGED <<args, chain>> /\ Free(lock, t)
          /\ save'.tip = Len(chain) - 1
      BY <1>1, <2>2 DEF SaveBegin
    <3>2. LockedFor(t)'
      BY <1>a, <3>1 DEF LockedFor, Goto, SaveSteps, Critical
    <3>3. s \in Step BY <1>c
    <3> HIDE DEF s
    <3> QED BY <1>0, <3>1, <3>2, <3>3, LockedByOne
  <2> QED BY <2>1, <2>2
<1>2. CASE SaveClear(t) \/ SavePut(t)
  <2>1. lock = t /\ save.tip < Len(chain) BY <1>2 DEF Locked, Critical, SaveClear, SavePut
  <2>2. \E s \in {"put", "saved"} : Goto(t, s)
    BY <1>2 DEF SaveClear, SavePut
  <2>3. UNCHANGED <<lock, save, args, chain>>
    BY <1>2 DEF SaveClear, SavePut, locks, locals
  <2>4. LockedFor(t)'
    BY <1>a, <2>1, <2>2, <2>3 DEF LockedFor, Goto, SaveSteps, Critical
  <2>5. Free(lock, t) BY <2>1 DEF Free
  <2> QED BY <1>0, <1>c, <2>2, <2>3, <2>4, <2>5, LockedByOne
<1>3. CASE SaveEnd(t)
  <2>1. lock = t BY <1>3 DEF Locked, Critical, SaveEnd
  <2>2. Goto(t, AfterSave(t)) /\ UNCHANGED <<args, chain>>
        /\ lock' = IF args[t].held THEN lock ELSE NoThread
    BY <1>3 DEF SaveEnd
  <2>3. LockedFor(t)'
    BY <1>a, <1>b, <2>1, <2>2 DEF LockedFor, Goto, SaveSteps, Critical
  <2>4. Free(lock, t) /\ AfterSave(t) \in Step BY <1>b, <1>c, <2>1 DEF Free
  <2> QED BY <1>0, <2>2, <2>3, <2>4, LockedByOne
<1>4. CASE SaveAbort(t)
  <2>1. lock = t BY <1>4 DEF Locked, Critical, SaveAbort
  <2>2. NoCall \in CallType /\ ~NoCall.held BY CallTypes DEF NoCall
  <2>3. args' = [args EXCEPT ![t] = NoCall] BY <1>4 DEF SaveAbort
  <2>4. \E s \in {"idle", "resolve", "exit"} : Goto(t, s)
    BY <1>4 DEF SaveAbort, Reject, Fail
  <2>5. LockedFor(t)'
    BY <1>a, <2>2, <2>3, <2>4 DEF LockedFor, Goto, Critical
  <2>6. Free(lock, t) BY <2>1 DEF Free
  <2> QED BY <1>0, <1>c, <2>2, <2>3, <2>4, <2>5, <2>6, LockedByOne
<1>5. CASE RebuildUtxo(t) \/ UtxoClear(t) \/ UtxoPut(t) \/ CountBlocks(t)
  <2>1. /\ \E s \in {"uclear", "uput", "count", "state"} : Goto(t, s)
        /\ pc[t] \in SaveSteps
        /\ UNCHANGED <<lock, save, args, chain>>
    BY <1>5 DEF RebuildUtxo, UtxoClear, UtxoPut, CountBlocks, SaveSteps, locks,
       locals, memory
  <2>2. {"uclear", "uput", "count", "state"}
        \subseteq SaveSteps \ Critical BY DEF SaveSteps, Critical
  <2> QED BY <1>0, <2>1, <2>2, LockedInside
<1>6. CASE SaveState(t)
  <2>1. NoCall \in CallType /\ ~NoCall.held BY CallTypes DEF NoCall
  <2>2. /\ args' = [args EXCEPT ![t] = NoCall] /\ Goto(t, args[t].next)
        /\ lock' = IF args[t].held THEN NoThread ELSE lock
        /\ UNCHANGED <<save, chain>> /\ pc[t] \in SaveSteps
    BY <1>6 DEF SaveState, memory, SaveSteps
  <2>3. args[t].next \in Step \ Critical
    BY <1>a DEF CallType, Step, Critical
  <2>4. CASE args[t].held
    <3>1. Free(lock, t) BY <2>4 DEF Locked, Free
    <3>2. LockedFor(t)' BY <1>a, <2>1, <2>2, <2>3 DEF LockedFor, Goto, Critical
    <3> QED BY <1>0, <2>1, <2>2, <2>3, <3>1, <3>2, LockedByOne
  <2>5. CASE ~args[t].held
    <3>1. ASSUME NEW u \in Thread PROVE LockedFor(u)'
      <4>1. CASE u = t
        BY <1>a, <2>1, <2>2, <2>3, <4>1 DEF LockedFor, Goto, Critical
      <4>2. CASE u # t
        <5>1. pc'[u] = pc[u] /\ args'[u] = args[u] /\ lock' = lock
          BY <1>a, <2>2, <2>5, <4>2 DEF Goto
        <5> QED BY <2>2, <5>1 DEF Locked, LockedFor
      <4> QED BY <4>1, <4>2
    <3> QED BY <3>1 DEF Locked, LockedFor
  <2> QED BY <2>4, <2>5
<1> QED BY <1>1, <1>2, <1>3, <1>4, <1>5, <1>6 DEF SaveStep

\* The worker and the shutdown start a save without the lock.
LEMMA WorkerLocked ==
  ASSUME TypeInv, Locked, PersistTake \/ Stop \/ Join
  PROVE  Locked'
<1>0. Worker \in Thread /\ Main \in Thread /\ TypeOK BY DEF Thread, Ingest, TypeInv, Typed
<1>1. /\ {"save", "join", "exit"} \subseteq Step \ Critical
      /\ {"idle", "join"} \cap SaveSteps = {}
  BY DEF Step, SaveSteps, Critical
<1>2. UNCHANGED <<lock, save, chain>> /\ Len(chain') >= Len(chain)
  <2>1. UNCHANGED <<lock, save, chain>>
    BY DEF PersistTake, Stop, Join, memory, locks, locals
  <2> QED BY <1>0, <2>1 DEF TypeOK, MemoryType
<1>3. CASE PersistTake
  <2>1. /\ Call(opts.force, opts.flush, FALSE, "idle") \in CallType
        /\ ~Call(opts.force, opts.flush, FALSE, "idle").held
    BY <1>0, CallTypes DEF TypeOK, MemoryType
  <2> QED BY <1>0, <1>1, <1>2, <1>3, <2>1, LockedOutside DEF PersistTake
<1>4. CASE Stop
  BY <1>0, <1>1, <1>2, <1>4, LockedOutside DEF Stop, locals
<1>5. CASE Join
  <2>1. /\ Call(TRUE, TRUE, FALSE, "exit") \in CallType
        /\ ~Call(TRUE, TRUE, FALSE, "exit").held
    BY CallTypes
  <2>2. \E s \in {"exit", "save"} : Goto(Main, s)
    BY <1>5 DEF Join
  <2>3. \/ UNCHANGED args
        \/ \E c \in CallType : ~c.held /\ args' = [args EXCEPT ![Main] = c]
    BY <1>5, <2>1 DEF Join
  <2>4. pc[Main] \notin SaveSteps BY <1>1, <1>5 DEF Join
  <2> QED BY <1>0, <1>1, <1>2, <2>2, <2>3, <2>4, LockedOutside
<1> QED BY <1>3, <1>4, <1>5

\* Nobody holds the lock at the start.
LEMMA LockedInit == Init => Locked
<1>1. ~NoCall.held BY CallTypes DEF NoCall
<1> QED BY <1>1 DEF Init, Locked, Critical

\* The claims on the lock are kept by every step.
LEMMA LockedStep == Miners = {} /\ TypeInv /\ Locked /\ [Next]_vars => Locked'
<1> SUFFICES ASSUME Miners = {}, TypeInv, Locked, [Next]_vars PROVE Locked'
  OBVIOUS
<1>1. CASE UNCHANGED vars
  BY <1>1 DEF vars, Locked, memory, locks, locals
<1>2. CASE Next
  <2>1. TypeOK BY DEF TypeInv, Typed
  <2>2. CASE Crash \/ Restart
    <3>1. ~NoCall.held BY CallTypes DEF NoCall
    <3> QED BY <2>2, <3>1 DEF Crash, Restart, Boot, Locked, Critical
  <2> QED BY <1>2, <2>1, <2>2, NextWithoutMiners, InputLocked, IngestLocked, SaveLocked,
             WorkerLocked
<1> QED BY <1>1, <1>2

-----------------------------------------------------------------------------
(* The store never keeps a block of an abandoned branch *)

Quiet == \A u \in Net : ~Reorganising(u)

\* A step of t leaves every other thread where it is.
OthersStay(t) ==
  \A u \in Thread : u # t => pc'[u] = pc[u] /\ args'[u] = args[u]

\* A step that moves t, with or without new arguments, moves no other thread.
LEMMA GotoStay ==
  ASSUME TypeOK, NEW t \in Thread, NEW s \in Step, Goto(t, s),
         UNCHANGED args \/ \E c \in CallType : args' = [args EXCEPT ![t] = c]
  PROVE  OthersStay(t) /\ pc'[t] = s
BY DEF TypeOK, LocalsType, Goto, OthersStay

\* The holder of the lock, or a thread that may take it, is alone.
LEMMA QuietUnder ==
  ASSUME TypeOK, Locked, NEW t \in Thread, Free(lock, t)
  PROVE  \A u \in Net : u # t => ~Reorganising(u)
BY OnlyHolder DEF Reorganising, Thread, Ingest

\* A thread that neither starts nor ends a reorganisation keeps the
\* invariant if it makes nothing stale and only lowers the dirty height.
LEMMA StoreFrame ==
  ASSUME TypeOK, TypeOK', StoreInv, NEW t \in Thread, OthersStay(t),
         ~Reorganising(t), ~Reorganising(t)',
         Stale' \subseteq Stale, UNCHANGED save, Len(chain') >= Len(chain),
         dirtyFrom # NoHeight => dirtyFrom' # NoHeight /\ dirtyFrom' <= dirtyFrom
  PROVE  StoreInv'
<1>1. ASSUME NEW u \in Net
      PROVE  /\ Reorganising(u)' <=> Reorganising(u)
             /\ Reorganising(u) => pc'[u] = pc[u] /\ args'[u] = args[u]
  <2>1. CASE u = t BY <2>1
  <2>2. CASE u # t
    <3>1. u \in Thread BY DEF Thread, Ingest
    <3> QED BY <2>2, <3>1 DEF OthersStay, Reorganising
  <2> QED BY <2>1, <2>2
<1>2. /\ chain \in Seq(Entry) /\ chain' \in Seq(Entry)
      /\ dirtyFrom \in Nat \cup {NoHeight} /\ dirtyFrom' \in Nat \cup {NoHeight}
      /\ DOMAIN kvChain \subseteq Nat
  BY DEF TypeOK, MemoryType, DiskType, IsStore
<1>3. ASSUME NEW u \in Net, Reorganising(u)' PROVE Repairs(u)'
  <2>1. Repairs(u) /\ pc'[u] = pc[u] /\ args'[u] = args[u]
    BY <1>1, <1>3 DEF StoreInv
  <2>2. CASE pc[u] = "save"
    <3>1. chain # <<>> /\ chain' # <<>> BY <1>2, <2>1, <2>2 DEF Repairs
    <3>2. ASSUME ~args[u].force, NEW h \in Stale'
          PROVE  dirtyFrom' # NoHeight /\ dirtyFrom' <= h /\ h < Len(chain')
      <4>1. h \in Stale /\ h \in Nat BY <1>2, <3>2 DEF Stale
      <4>2. dirtyFrom # NoHeight /\ dirtyFrom <= h /\ h < Len(chain)
        BY <2>1, <2>2, <3>2, <4>1 DEF Repairs
      <4> QED BY <1>2, <4>1, <4>2
    <3>3. ~args[u].force => dirtyFrom' # NoHeight
      BY <2>1, <2>2 DEF Repairs
    <3> QED BY <2>1, <2>2, <3>1, <3>2, <3>3 DEF Repairs
  <2>3. CASE pc[u] = "put"
    <3>1. Stale' \subseteq SaveHeights'
      BY <2>1, <2>3 DEF Repairs, SaveHeights
    <3> QED BY <2>1, <2>3, <3>1 DEF Repairs
  <2>4. CASE pc[u] \notin {"save", "put"}
    BY <2>1, <2>4 DEF Repairs
  <2> QED BY <2>2, <2>3, <2>4
<1>4. (\A u \in Net : ~Reorganising(u)') => Stale' = {}
  BY <1>1 DEF StoreInv
<1> QED BY <1>3, <1>4 DEF StoreInv

\* Where no reorganisation is under way before or after the step.
LEMMA StoreQuiet ==
  ASSUME StoreInv, Quiet, Quiet', Stale' \subseteq Stale
  PROVE  StoreInv'
BY DEF StoreInv, Quiet

\* Where the step leaves nothing stale.
LEMMA StoreClean ==
  ASSUME Stale' = {}, \A u \in Net : Reorganising(u)' => pc'[u] # "save"
  PROVE  StoreInv'
BY DEF StoreInv, Repairs

\* A longer chain with the same beginning makes no stored block stale.
LEMMA SameStale ==
  /\ UNCHANGED <<chain, kvChain>> => Stale' = Stale
  /\ \A e \in Entry :
       TypeOK /\ chain' = Append(chain, e) /\ kvChain' = kvChain => Stale' \subseteq Stale
<1>1. UNCHANGED <<chain, kvChain>> => Stale' = Stale BY DEF Stale
<1>2. ASSUME TypeOK, NEW e \in Entry, chain' = Append(chain, e), kvChain' = kvChain,
             NEW h \in Stale'
      PROVE  h \in Stale
  <2>1. chain \in Seq(Entry) /\ h \in Nat /\ h \in DOMAIN kvChain
    BY <1>2 DEF TypeOK, MemoryType, DiskType, IsStore, Stale
  <2>2. h < Len(chain) => h < Len(chain') /\ chain'[h + 1] = chain[h + 1]
    BY <1>2, <2>1
  <2> QED BY <1>2, <2>1, <2>2 DEF Stale
<1> QED BY <1>1, <1>2


\* Without mining and starts the chain is only appended to, and otherwise
\* changed by the one thread that swaps its tip or replaces it.
LEMMA ChainMoves ==
  ASSUME Miners = {}, TypeInv, Next, ~(Crash \/ Restart)
  PROVE  \/ UNCHANGED chain
         \/ \E e \in Entry : chain' = Append(chain, e)
         \/ \E t \in Net : (SwapCommit(t) /\ Len(chain) >= 2) \/ ReplaceCommit(t)
<1> DEFINE Moves == \/ UNCHANGED chain
                    \/ \E e \in Entry : chain' = Append(chain, e)
                    \/ \E t \in Net : (SwapCommit(t) /\ Len(chain) >= 2) \/ ReplaceCommit(t)
<1>1. ASSUME NEW t \in Net, Input(t) PROVE Moves
  BY <1>1 DEF Input, ReceiveBlock, ReplaceBuild, memory
<1>2. ASSUME NEW t \in Net, IngestStep(t) PROVE Moves
  <2>1. CASE AddAppend(t)
    <3>1. blk[t] \in Block BY <2>1 DEF AddAppend, TypeInv, Typed, InHand, Planning
    <3> QED BY <2>1, <3>1, FreshIsEntry DEF AddAppend
  <2>2. CASE SwapCommit(t)
    BY <2>2 DEF SwapCommit
  <2>3. CASE ~AddAppend(t) /\ ~SwapCommit(t) /\ ~ReplaceCommit(t)
    BY <1>2, <2>3 DEF IngestStep, Classify, ValidateContext, ValidateInputs,
       ValidateRecheck, AddCheck, AddMark, AddApply, AddSchedule, Accept,
       ForkPrecheck, SwapCheck, ReplaceCheck, Announce, memory
  <2> QED BY <2>1, <2>2, <2>3
<1>3. ASSUME NEW t \in Thread, SaveStep(t) PROVE Moves
  BY <1>3 DEF SaveStep, SaveBegin, SaveClear, SavePut, SaveEnd, SaveAbort, RebuildUtxo,
     UtxoClear, UtxoPut, CountBlocks, SaveState, memory
<1>4. CASE PersistTake \/ Stop \/ Join
  BY <1>4 DEF PersistTake, Stop, Join, memory
<1> QED BY <1>1, <1>2, <1>3, <1>4, NextWithoutMiners

\* Between the comparison of a swap and its assignment the chain only grows.
LEMMA ChosenStep ==
  ASSUME Miners = {}, TypeInv, Locked, Chosen, Next, ~(Crash \/ Restart)
  PROVE  Chosen'
<1> SUFFICES ASSUME NEW u \in Net, pc'[u] = "commit"
             PROVE  Len(chain') >= 2 /\ Height[blk'[u]] < Len(chain')
  BY DEF Chosen
<1>0. u \in Thread /\ TypeOK BY DEF Thread, Ingest, TypeInv, Typed
<1>a. chain \in Seq(Entry) BY <1>0 DEF TypeOK, MemoryType
<1>1. CASE pc[u] = "commit" /\ blk'[u] = blk[u]
  <2>1. lock = u BY <1>0, <1>1 DEF Locked, Critical
  <2>2. blk[u] \in Block BY <1>1 DEF TypeInv, Typed, InHand, Planning
  <2>3. Height[blk[u]] \in Nat BY <2>2, HeaderAssumption
  <2>4. Len(chain) >= 2 /\ Height[blk[u]] < Len(chain) BY <1>1 DEF Chosen
  <2>5. CASE UNCHANGED chain \/ \E e \in Entry : chain' = Append(chain, e)
    <3>1. Len(chain') >= Len(chain) /\ Len(chain') \in Nat BY <1>a, <2>5
    <3> QED BY <1>a, <1>1, <2>3, <2>4, <3>1
  <2>6. ASSUME NEW t \in Net, (SwapCommit(t) /\ Len(chain) >= 2) \/ ReplaceCommit(t)
        PROVE  FALSE
    <3>1. t \in Thread /\ pc[t] \in Critical
      BY <2>6 DEF SwapCommit, ReplaceCommit, Critical, Thread, Ingest
    <3>2. t = u BY <2>1, <3>1 DEF Locked
    <3>3. Goto(t, "save") BY <1>a, <2>6, SwapEnds DEF ReplaceCommit
    <3> QED BY <1>0, <3>2, <3>3 DEF Goto, TypeOK
  <2> QED BY <2>5, <2>6, ChainMoves
<1>2. CASE SwapCheck(u)
  <2>1. BetterTip(blk[u]) /\ UNCHANGED <<chain, blk>>
    BY <1>0, <1>2 DEF SwapCheck, Reject, Goto, TypeOK, gossip, memory
  <2>2. blk[u] \in Block BY <1>2 DEF SwapCheck, TypeInv, Typed, InHand, Planning
  <2>3. /\ Len(chain) >= 2 /\ Len(SwappedFor(blk[u])) = Len(chain)
        /\ SwappedFor(blk[u])[Len(chain)].blk = blk[u]
        /\ CompleteChainValid(SwappedFor(blk[u]))
    BY <1>a, <2>1, <2>2, SwappedType DEF BetterTip, Competes
  <2>4. Len(chain) \in 1..Len(SwappedFor(blk[u])) BY <1>a, <2>3
  <2>5. Height[blk[u]] = Len(chain) - 1
    BY <1>a, <2>1, <2>2, <2>3, <2>4, HeightsOfValid, SwappedType DEF BetterTip
  <2> QED BY <1>a, <2>1, <2>3, <2>5
<1>3. ~ReplaceCheck(u)
  BY <1>0 DEF ReplaceCheck, Goto, TypeOK
<1>4. ASSUME NEW s \in Branches PROVE ~ReplaceBuild(u, s)
  BY <1>0 DEF ReplaceBuild, Goto, TypeOK
<1> QED BY <1>0, <1>1, <1>2, <1>3, <1>4, ReorgSteps

\* After a reorganisation every stale height is at or above the dirty one,
\* or the whole store is about to be cleared.
LEMMA SwapStore ==
  ASSUME TypeOK, TypeOK', Locked, StoreInv, Chosen, NEW t \in Net, blk[t] \in Block,
         SwapCommit(t), Len(chain) >= 2
  PROVE  StoreInv'
<1> DEFINE b == blk[t]
           n == Len(chain)
<1>0. t \in Thread BY DEF Thread, Ingest
<1>1. /\ chain' = SwappedFor(b) /\ dirtyFrom' = Marked(Height[b])
      /\ kvChain' = kvChain /\ Goto(t, "save") /\ Free(lock, t)
      /\ args' = [args EXCEPT ![t] = Call(FALSE, FALSE, TRUE, "accept")]
      /\ pc[t] = "commit"
  <2>1. chain \in Seq(Entry) BY DEF TypeOK, MemoryType
  <2>2. kvChain' = kvChain /\ pc[t] = "commit" BY DEF SwapCommit, disk
  <2>3. Free(lock, t) BY <1>0, <2>2 DEF Locked, Critical, Free
  <2> QED BY <2>1, <2>2, <2>3, SwapEnds
<1>2. /\ chain \in Seq(Entry) /\ n \in Nat /\ n >= 2 /\ DOMAIN kvChain \subseteq Nat
      /\ pc \in [Thread -> Step] /\ args \in [Thread -> CallType]
  BY DEF TypeOK, MemoryType, DiskType, IsStore, LocalsType
<1>3. /\ chain' \in Seq(Entry) /\ Len(chain') = n
      /\ \A i \in 1..n : i # n => chain'[i] = chain[i]
  BY <1>1, <1>2, SwappedType
<1>4. Height[b] \in Nat /\ Height[b] <= n - 1
  <2>1. Height[b] < n BY <1>1 DEF Chosen
  <2>2. Height[b] \in Nat BY HeaderAssumption
  <2> QED BY <1>2, <2>1, <2>2
<1>5. \A u \in Net : ~Reorganising(u)
  <2>1. ~Reorganising(t) BY <1>0, <1>1 DEF Reorganising, Locked, SaveSteps
  <2> QED BY <1>0, <1>1, <2>1, QuietUnder
<1>6. Stale = {} BY <1>5 DEF StoreInv
<1>7. ASSUME NEW h \in Stale' PROVE h = n - 1
  <2>1. h \in DOMAIN kvChain /\ h \in Nat BY <1>1, <1>2 DEF Stale
  <2>2. h < n /\ kvChain[h] = chain[h + 1].blk BY <1>6, <2>1 DEF Stale
  <2>3. h + 1 \in 1..n BY <1>2, <2>1, <2>2
  <2>4. h + 1 # n => kvChain'[h] = chain'[h + 1].blk /\ h < Len(chain')
    BY <1>1, <1>3, <2>2, <2>3
  <2>5. h + 1 = n BY <2>4 DEF Stale
  <2> QED BY <1>2, <2>1, <2>5
<1>8. dirtyFrom' \in Nat /\ dirtyFrom' <= n - 1
  <2>1. Marked(Height[b]) \in Nat /\ Marked(Height[b]) <= Height[b]
    BY <1>4, MarkedType
  <2> QED BY <1>1, <1>2, <1>4, <2>1
<1>9. /\ pc'[t] = "save"
      /\ OthersStay(t)
  <2>1. Call(FALSE, FALSE, TRUE, "accept") \in CallType BY CallTypes
  <2> QED BY <1>0, <1>1, <2>1, GotoStay DEF Step
<1>10. Repairs(t)'
  <2>1. chain' # <<>> BY <1>2, <1>3
  <2>2. dirtyFrom' # NoHeight BY <1>8, BoundAssumption
  <2>3. \A h \in Stale' : dirtyFrom' <= h /\ h < Len(chain')
    BY <1>2, <1>3, <1>7, <1>8
  <2> QED BY <1>9, <2>1, <2>2, <2>3 DEF Repairs
<1>11. ASSUME NEW u \in Net, Reorganising(u)' PROVE u = t
  <2>1. u \in Thread BY DEF Thread, Ingest
  <2> QED BY <1>5, <1>9, <1>11, <2>1 DEF OthersStay, Reorganising
<1>12. Reorganising(t)'
  <2>1. args'[t] = Call(FALSE, FALSE, TRUE, "accept") BY <1>0, <1>1, <1>2
  <2> QED BY <1>9, <2>1, CallTypes DEF Reorganising
<1> QED BY <1>10, <1>11, <1>12 DEF StoreInv

\* replace_with saves with force_full, which clears the store first.
LEMMA ReplaceStore ==
  ASSUME TypeOK, Locked, Planned, NEW t \in Net, ReplaceCommit(t)
  PROVE  StoreInv'
<1> DEFINE c == Call(TRUE, FALSE, TRUE, "announce")
<1>0. t \in Thread BY DEF Thread, Ingest
<1>1. c \in CallType /\ c.held /\ c.force BY CallTypes
<1>2. /\ Goto(t, "save") /\ Free(lock, t) /\ pc[t] = "adopt"
      /\ args' = [args EXCEPT ![t] = c]
      /\ chain' # <<>>
  BY <1>0 DEF ReplaceCommit, Locked, Critical, Free, Planned, Planning
<1> HIDE DEF c
<1>3. pc'[t] = "save" /\ OthersStay(t)
  BY <1>0, <1>1, <1>2, GotoStay DEF Step
<1>4. args'[t] = c BY <1>0, <1>2 DEF TypeOK, LocalsType
<1>5. Reorganising(t)' /\ Repairs(t)'
  BY <1>1, <1>2, <1>3, <1>4 DEF Reorganising, Repairs
<1>6. ASSUME NEW u \in Net, Reorganising(u)' PROVE u = t
  <2>1. u \in Thread BY DEF Thread, Ingest
  <2>2. u # t => ~Reorganising(u) BY <1>0, <1>2, QuietUnder
  <2> QED BY <1>3, <1>6, <2>1, <2>2 DEF OthersStay, Reorganising
<1> QED BY <1>5, <1>6 DEF StoreInv

\* A block or a branch from a peer keeps the store's invariant.
LEMMA InputStore ==
  ASSUME TypeOK, TypeOK', Locked, StoreInv, NEW t \in Net, Input(t)
  PROVE  StoreInv'
<1>0. t \in Thread BY DEF Thread, Ingest
<1>1. ASSUME NEW b \in Block, ReceiveBlock(t, b) PROVE StoreInv'
  <2>1. /\ Goto(t, "classify") /\ pc[t] = "idle"
        /\ UNCHANGED <<args, save, chain, kvChain, dirtyFrom>>
    BY <1>1 DEF ReceiveBlock, memory, locals, disk
  <2>2. OthersStay(t) /\ pc'[t] = "classify" BY <1>0, <2>1, GotoStay DEF Step
  <2>3. ~Reorganising(t) /\ ~Reorganising(t)'
    BY <2>1, <2>2 DEF Reorganising
  <2>4. Len(chain') >= Len(chain) /\ (dirtyFrom # NoHeight => dirtyFrom' <= dirtyFrom)
    BY <2>1 DEF TypeOK, MemoryType
  <2> QED BY <1>0, <2>1, <2>2, <2>3, <2>4, SameStale, StoreFrame
<1>2. ASSUME NEW s \in Branches, ReplaceBuild(t, s) PROVE StoreInv'
  <2>1. /\ Goto(t, "replace") /\ pc[t] = "idle"
        /\ UNCHANGED <<args, save, chain, kvChain, dirtyFrom>>
    BY <1>2 DEF ReplaceBuild, memory, disk
  <2>2. OthersStay(t) /\ pc'[t] = "replace" BY <1>0, <2>1, GotoStay DEF Step
  <2>3. ~Reorganising(t) /\ ~Reorganising(t)'
    BY <2>1, <2>2 DEF Reorganising
  <2>4. Len(chain') >= Len(chain) /\ (dirtyFrom # NoHeight => dirtyFrom' <= dirtyFrom)
    BY <2>1 DEF TypeOK, MemoryType
  <2> QED BY <1>0, <2>1, <2>2, <2>3, <2>4, SameStale, StoreFrame
<1> QED BY <1>1, <1>2 DEF Input

\* So does every step that ingests a block: appends lengthen the chain.
LEMMA IngestStore ==
  ASSUME TypeInv, TypeOK', Locked, Chosen, StoreInv, NEW t \in Net, IngestStep(t)
  PROVE  StoreInv'
<1>0. t \in Thread /\ TypeOK BY DEF Thread, Ingest, TypeInv, Typed
<1>a. /\ chain \in Seq(Entry) /\ dirtyFrom \in Nat \cup {NoHeight}
      /\ args \in [Thread -> CallType]
  BY <1>0 DEF TypeOK, MemoryType, LocalsType
<1> DEFINE Elsewhere == Step \ {"save", "clear", "put"}
<1>b. {"idle", "check", "context", "inputs", "recheck", "append", "mark", "apply",
       "schedule", "accept", "resolve", "swap", "commit", "adopt", "announce"} \subseteq Elsewhere
  BY DEF Step
<1>1. CASE \/ Classify(t) \/ ValidateContext(t) \/ ValidateInputs(t)
           \/ ValidateRecheck(t) \/ AddCheck(t) \/ AddApply(t) \/ Accept(t)
           \/ ForkPrecheck(t) \/ Announce(t) \/ SwapCheck(t) \/ ReplaceCheck(t)
           \/ (SwapCommit(t) /\ Len(chain) < 2)
  <2>1. /\ \E s \in Elsewhere : Goto(t, s)
        /\ pc[t] \notin {"save", "clear", "put"}
        /\ UNCHANGED <<args, save, chain, kvChain, dirtyFrom>>
    <3> HIDE DEF Elsewhere
    <3>1. CASE SwapCommit(t) /\ Len(chain) < 2
      <4>1. Reject(t) /\ UNCHANGED <<chain, dirtyFrom, args>> BY <1>a, <3>1, SwapEnds
      <4>2. pc[t] = "commit" /\ UNCHANGED <<save, disk>> BY <3>1 DEF SwapCommit
      <4> QED BY <1>b, <4>1, <4>2 DEF Reject, disk
    <3>2. CASE SwapCheck(t) \/ ReplaceCheck(t)
      BY <1>b, <3>2 DEF SwapCheck, ReplaceCheck, Reject, locals, memory, disk
    <3>3. CASE \/ Classify(t) \/ ValidateContext(t) \/ ValidateInputs(t)
               \/ ValidateRecheck(t) \/ AddCheck(t) \/ AddApply(t) \/ Accept(t)
               \/ ForkPrecheck(t) \/ Announce(t)
      BY <1>b, <3>3 DEF Classify, ValidateContext, ValidateInputs, ValidateRecheck,
         AddCheck, AddApply, Accept, ForkPrecheck, Announce, Reject, Fail,
         locals, memory, disk
    <3> QED BY <1>1, <3>1, <3>2, <3>3
  <2>2. OthersStay(t) /\ pc'[t] \in Elsewhere BY <1>0, <2>1, GotoStay
  <2>3. ~Reorganising(t) /\ ~Reorganising(t)' BY <2>1, <2>2 DEF Reorganising
  <2>4. Len(chain') >= Len(chain) /\ (dirtyFrom # NoHeight => dirtyFrom' <= dirtyFrom)
    BY <1>a, <2>1
  <2> QED BY <1>0, <2>1, <2>2, <2>3, <2>4, SameStale, StoreFrame
<1>2. CASE AddAppend(t)
  <2>1. blk[t] \in Block BY <1>2 DEF AddAppend, TypeInv, Typed, InHand, Planning
  <2>2. Fresh(blk[t]) \in Entry BY <2>1, FreshIsEntry
  <2>3. /\ chain' = Append(chain, Fresh(blk[t])) /\ Len(chain') >= Len(chain)
        /\ pc[t] = "append" /\ \E s \in Elsewhere : Goto(t, s)
        /\ UNCHANGED <<args, save, kvChain, dirtyFrom>>
    BY <1>2, <1>a, <1>b, <2>2 DEF AddAppend, locals, disk
  <2>4. OthersStay(t) /\ pc'[t] \in Elsewhere BY <1>0, <2>3, GotoStay
  <2>5. ~Reorganising(t) /\ ~Reorganising(t)' BY <2>3, <2>4 DEF Reorganising
  <2>6. Stale' \subseteq Stale BY <1>0, <2>2, <2>3, SameStale
  <2>7. dirtyFrom # NoHeight => dirtyFrom' <= dirtyFrom BY <1>a, <2>3
  <2> QED BY <1>0, <2>3, <2>4, <2>5, <2>6, <2>7, StoreFrame
<1>3. CASE AddMark(t)
  <2>1. Height[blk[t]] \in Nat
    BY <1>3, HeaderAssumption DEF AddMark, TypeInv, Typed, InHand, Planning
  <2>2. /\ dirtyFrom' = Marked(Height[blk[t]])
        /\ pc[t] = "mark" /\ \E s \in Elsewhere : Goto(t, s)
        /\ UNCHANGED <<args, save, chain, kvChain>>
    BY <1>3, <1>b DEF AddMark, locals, disk
  <2>3. OthersStay(t) /\ pc'[t] \in Elsewhere BY <1>0, <2>2, GotoStay
  <2>4. ~Reorganising(t) /\ ~Reorganising(t)' BY <2>2, <2>3 DEF Reorganising
  <2>5. dirtyFrom # NoHeight => dirtyFrom' # NoHeight /\ dirtyFrom' <= dirtyFrom
    BY <1>a, <2>1, <2>2, BoundAssumption DEF Marked
  <2>6. Len(chain') >= Len(chain) BY <1>a, <2>2
  <2> QED BY <1>0, <2>2, <2>3, <2>4, <2>5, <2>6, SameStale, StoreFrame
<1>4. CASE AddSchedule(t)
  <2> DEFINE full == blk[t] = Genesis
  <2>1. /\ pc[t] = "schedule"
        /\ UNCHANGED <<save, chain, kvChain, dirtyFrom>>
        /\ \E s \in Step : Goto(t, s)
    BY <1>4, <1>b DEF AddSchedule, disk, Step
  <2>2. \/ UNCHANGED args
        \/ \E c \in CallType : ~c.held /\ args' = [args EXCEPT ![t] = c]
    <3>1. \A b \in BOOLEAN, n \in {"mark", "accept"} :
            Call(b, b, FALSE, n) \in CallType /\ ~Call(b, b, FALSE, n).held
      BY CallTypes
    <3> QED BY <1>4, <3>1 DEF AddSchedule
  <2>3. OthersStay(t) BY <1>0, <2>1, <2>2, GotoStay
  <2>4. ~args[t].held BY <1>0, <2>1 DEF Locked, SaveSteps
  <2>5. ~args'[t].held BY <1>0, <1>a, <2>2, <2>4
  <2>6. ~Reorganising(t) /\ ~Reorganising(t)' BY <2>4, <2>5 DEF Reorganising
  <2>7. Len(chain') >= Len(chain) /\ (dirtyFrom # NoHeight => dirtyFrom' <= dirtyFrom)
    BY <1>a, <2>1
  <2> QED BY <1>0, <2>1, <2>3, <2>6, <2>7, SameStale, StoreFrame
<1>5. CASE SwapCommit(t) /\ Len(chain) >= 2
  <2>1. blk[t] \in Block BY <1>5 DEF SwapCommit, TypeInv, Typed, InHand, Planning
  <2> QED BY <1>0, <1>5, <2>1, SwapStore
<1>6. CASE ReplaceCommit(t)
  BY <1>0, <1>6, ReplaceStore DEF TypeInv
<1>7. SwapCommit(t) => Len(chain) >= 2 \/ Len(chain) < 2 BY <1>a
<1> QED BY <1>1, <1>2, <1>3, <1>4, <1>5, <1>6, <1>7 DEF IngestStep


\* The start of a save finds every stale height at or above the height it
\* saves from, or clears the store.
LEMMA SaveBeginStore ==
  ASSUME TypeOK, Locked, StoreInv, NEW t \in Thread, SaveBegin(t)
  PROVE  StoreInv'
<1>0. /\ chain \in Seq(Entry) /\ persisted \in Nat \cup {-1}
      /\ dirtyFrom \in Nat \cup {NoHeight} /\ DOMAIN kvChain \subseteq Nat
      /\ args \in [Thread -> CallType]
  BY DEF TypeOK, MemoryType, DiskType, IsStore, LocalsType
<1>1. /\ pc[t] = "save" /\ Free(lock, t)
      /\ UNCHANGED <<args, chain, kvChain>>
  BY DEF SaveBegin, disk
<1>2. Stale' = Stale BY <1>1, SameStale
<1>3. \A u \in Net : u # t => ~Reorganising(u) BY <1>1, QuietUnder
<1>4. CASE chain = <<>>
  <2>1. ~(t \in Net /\ Reorganising(t)) BY <1>1, <1>4 DEF StoreInv, Repairs
  <2>2. Quiet BY <1>3, <2>1 DEF Quiet
  <2>3. AfterSave(t) \in {"rebuild", "uclear", "count"} /\ AfterSave(t) \in Step
    BY DEF AfterSave, Step
  <2>4. Goto(t, AfterSave(t)) BY <1>4 DEF SaveBegin
  <2>5. OthersStay(t) /\ pc'[t] = AfterSave(t) BY <1>1, <2>3, <2>4, GotoStay
  <2>6. ASSUME NEW u \in Net PROVE ~Reorganising(u)'
    <3>1. u \in Thread BY DEF Thread, Ingest
    <3> QED BY <2>2, <2>3, <2>5, <3>1 DEF OthersStay, Reorganising, Quiet
  <2>7. Quiet' BY <2>6 DEF Quiet
  <2> QED BY <1>2, <2>2, <2>7, StoreQuiet
<1>5. CASE chain # <<>>
  <2> DEFINE s == IF persisted' < 0 THEN "clear" ELSE "put"
  <2>1. /\ Goto(t, s)
        /\ save' = [tip |-> Len(chain) - 1, from |-> SaveStart(args[t].force),
                    hash |-> TipHash(chain)]
        /\ persisted' = IF args[t].force THEN -1 ELSE persisted
    BY <1>5 DEF SaveBegin
  <2>2. s \in Step /\ s # "save" BY DEF Step
  <2>3. OthersStay(t) /\ pc'[t] = s
    <3> HIDE DEF s
    <3> QED BY <1>1, <2>1, <2>2, GotoStay
  <2>4. ASSUME NEW u \in Net, Reorganising(u)' PROVE u = t
    <3>1. u \in Thread BY DEF Thread, Ingest
    <3> QED BY <1>3, <2>3, <2>4, <3>1 DEF OthersStay, Reorganising
  <2>5. ASSUME t \in Net, Reorganising(t)' PROVE Repairs(t)'
    <3>1. Reorganising(t) /\ Repairs(t)
      BY <1>1, <2>5 DEF Reorganising, StoreInv
    <3>2. CASE persisted' < 0
      BY <2>3, <3>2 DEF Repairs
    <3>3. CASE ~(persisted' < 0)
      <4>1. ~args[t].force /\ persisted >= 0 BY <1>0, <2>1, <3>3
      <4>2. dirtyFrom # NoHeight /\ \A h \in Stale : dirtyFrom <= h /\ h < Len(chain)
        BY <1>1, <3>1, <4>1 DEF Repairs
      <4>3. SaveStart(args[t].force) = dirtyFrom
        BY <4>1, <4>2 DEF SaveStart
      <4>4. SaveHeights' = dirtyFrom..(Len(chain) - 1)
        BY <2>1, <4>2, <4>3 DEF SaveHeights
      <4>5. Stale \subseteq dirtyFrom..(Len(chain) - 1)
        <5>1. Stale \subseteq Nat BY <1>0 DEF Stale
        <5> QED BY <1>0, <4>2, <5>1
      <4> QED BY <1>2, <2>2, <2>3, <4>4, <4>5 DEF Repairs
    <3> QED BY <3>2, <3>3
  <2>6. ASSUME \A u \in Net : ~Reorganising(u)' PROVE Stale' = {}
    <3>1. ASSUME NEW u \in Net PROVE ~Reorganising(u)
      <4>1. CASE u = t
        BY <1>1, <2>3, <2>6, <4>1 DEF Reorganising
      <4>2. CASE u # t BY <1>3, <4>2
      <4> QED BY <4>1, <4>2
    <3> QED BY <1>2, <3>1 DEF StoreInv
  <2> QED BY <2>4, <2>5, <2>6 DEF StoreInv
<1> QED BY <1>4, <1>5

\* The batch of a save leaves nothing stale: what was, is within its heights.
LEMMA SavePutClean ==
  ASSUME TypeOK, Locked, StoreInv, NEW t \in Thread, SavePut(t)
  PROVE  Stale' = {}
<1>0. /\ chain \in Seq(Entry) /\ DOMAIN kvChain \subseteq Nat
      /\ persisted \in Nat \cup {-1}
      /\ save.tip \in Nat \cup {-1} /\ save.from \in Nat \cup {NoHeight}
  BY DEF TypeOK, MemoryType, DiskType, IsStore, LocalsType
<1>1. /\ pc[t] = "put" /\ lock = t /\ Free(lock, t) /\ save.tip < Len(chain)
      /\ Goto(t, "saved") /\ UNCHANGED <<args, chain>>
  BY DEF SavePut, Locked, Critical, Free, locals
<1>2. Stale \subseteq SaveHeights
  <2>1. \A u \in Net : u # t => ~Reorganising(u) BY <1>1, QuietUnder
  <2>2. CASE t \in Net /\ Reorganising(t) BY <1>1, <2>2 DEF StoreInv, Repairs
  <2>3. CASE ~(t \in Net /\ Reorganising(t)) BY <2>1, <2>3 DEF StoreInv
  <2> QED BY <2>2, <2>3
<1>3. ASSUME NEW h \in SaveHeights PROVE h < Len(chain)
  BY <1>0, <1>1, <1>3 DEF SaveHeights
<1>4. Stale' = {}
  <2> DEFINE kept == {h \in DOMAIN kvChain : save.tip < persisted => h <= save.tip}
  <2>1. kvChain' = [h \in kept \cup SaveHeights |->
                      IF h \in SaveHeights THEN chain[h + 1].blk ELSE kvChain[h]]
    BY DEF SavePut
  <2>2. ASSUME NEW h \in DOMAIN kvChain'
        PROVE  h < Len(chain) /\ kvChain'[h] = chain[h + 1].blk
    <3>1. CASE h \in SaveHeights BY <1>3, <2>1, <3>1
    <3>2. CASE h \notin SaveHeights
      <4>1. h \in DOMAIN kvChain /\ kvChain'[h] = kvChain[h] BY <2>1, <3>2
      <4>2. h \notin Stale BY <1>2, <3>2
      <4> QED BY <4>1, <4>2 DEF Stale
    <3> QED BY <3>1, <3>2
  <2> HIDE DEF kept
  <2> QED BY <1>1, <2>2 DEF Stale
<1> QED BY <1>4

LEMMA SavePutStore ==
  ASSUME TypeOK, Locked, StoreInv, NEW t \in Thread, SavePut(t)
  PROVE  StoreInv'
<1>1. /\ pc[t] = "put" /\ lock = t /\ Free(lock, t)
      /\ Goto(t, "saved") /\ UNCHANGED <<args, chain>>
  BY DEF SavePut, Locked, Critical, Free, locals
<1>4. Stale' = {} BY SavePutClean
<1>5. OthersStay(t) /\ pc'[t] = "saved" BY <1>1, GotoStay DEF Step
<1>6. ASSUME NEW u \in Net, Reorganising(u)' PROVE pc'[u] # "save"
  <2>1. u \in Thread BY DEF Thread, Ingest
  <2>2. u # t => ~Reorganising(u) BY <1>1, QuietUnder
  <2> QED BY <1>5, <1>6, <2>1, <2>2 DEF OthersStay, Reorganising
<1> QED BY <1>4, <1>6, StoreClean

\* So does every step of a save, whoever it is for.
LEMMA SaveStore ==
  ASSUME TypeOK, TypeOK', Locked, StoreInv, NEW t \in Thread, SaveStep(t)
  PROVE  StoreInv'
<1>a. /\ chain \in Seq(Entry) /\ dirtyFrom \in Nat \cup {NoHeight}
      /\ args \in [Thread -> CallType]
  BY DEF TypeOK, MemoryType, LocalsType
<1>1. CASE SaveBegin(t) BY <1>1, SaveBeginStore
<1>2. CASE SavePut(t) BY <1>2, SavePutStore
<1>3. CASE SaveClear(t)
  <2>1. /\ Free(lock, t) /\ Goto(t, "put") /\ UNCHANGED args /\ kvChain' = <<>>
    BY <1>3 DEF SaveClear, Locked, Critical, Free, locals
  <2>2. Stale' = {} BY <2>1 DEF Stale
  <2>3. OthersStay(t) /\ pc'[t] = "put" BY <2>1, GotoStay DEF Step
  <2>4. ASSUME NEW u \in Net, Reorganising(u)' PROVE pc'[u] # "save"
    <3>1. u \in Thread BY DEF Thread, Ingest
    <3>2. u # t => ~Reorganising(u) BY <2>1, QuietUnder
    <3> QED BY <2>3, <2>4, <3>1, <3>2 DEF OthersStay, Reorganising
  <2> QED BY <2>2, <2>4, StoreClean
<1>4. CASE SaveEnd(t)
  <2>1. /\ Free(lock, t) /\ Goto(t, AfterSave(t)) /\ pc[t] = "saved"
        /\ UNCHANGED <<args, chain, kvChain>>
    BY <1>4 DEF SaveEnd, Locked, Critical, Free, disk
  <2>2. AfterSave(t) \in Step \ {"save", "clear", "put"} BY DEF AfterSave, Step
  <2>3. OthersStay(t) /\ pc'[t] = AfterSave(t) BY <2>1, <2>2, GotoStay
  <2>4. ASSUME NEW u \in Net PROVE ~Reorganising(u) /\ ~Reorganising(u)'
    <3>1. u \in Thread BY DEF Thread, Ingest
    <3>2. u # t => ~Reorganising(u) BY <2>1, QuietUnder
    <3> QED BY <2>1, <2>2, <2>3, <3>1, <3>2 DEF OthersStay, Reorganising
  <2> QED BY <2>1, <2>4, SameStale, StoreQuiet DEF Quiet
<1>5. CASE SaveAbort(t)
  BY <1>a, <1>5 DEF SaveAbort, Locked, TypeOK, LocalsType
<1>6. CASE RebuildUtxo(t) \/ UtxoClear(t) \/ UtxoPut(t) \/ CountBlocks(t)
  <2>1. /\ \E s \in {"uclear", "uput", "count", "state"} : Goto(t, s)
        /\ pc[t] \notin {"save", "clear", "put"}
        /\ UNCHANGED <<args, save, chain, kvChain, dirtyFrom>>
    BY <1>6 DEF RebuildUtxo, UtxoClear, UtxoPut, CountBlocks, locals, memory, disk
  <2>2. {"uclear", "uput", "count", "state"} \subseteq Step BY DEF Step
  <2>3. OthersStay(t) /\ pc'[t] \in {"uclear", "uput", "count", "state"}
    BY <2>1, <2>2, GotoStay
  <2>4. ~Reorganising(t) /\ ~Reorganising(t)' BY <2>1, <2>3 DEF Reorganising
  <2>5. Len(chain') >= Len(chain) /\ (dirtyFrom # NoHeight => dirtyFrom' <= dirtyFrom)
    BY <1>a, <2>1
  <2> QED BY <2>1, <2>3, <2>4, <2>5, SameStale, StoreFrame
<1>7. CASE SaveState(t)
  <2>1. /\ args' = [args EXCEPT ![t] = NoCall] /\ Goto(t, args[t].next)
        /\ pc[t] = "state"
        /\ UNCHANGED <<save, chain, kvChain, dirtyFrom>>
    BY <1>7 DEF SaveState, memory
  <2>2. NoCall \in CallType /\ ~NoCall.held BY CallTypes DEF NoCall
  <2>3. args[t].next \in Step BY <1>a DEF CallType, Step
  <2>4. OthersStay(t) BY <2>1, <2>2, <2>3, GotoStay
  <2>5. ~Reorganising(t) /\ ~Reorganising(t)'
    BY <1>a, <2>1, <2>2 DEF Reorganising
  <2>6. Len(chain') >= Len(chain) /\ (dirtyFrom # NoHeight => dirtyFrom' <= dirtyFrom)
    BY <1>a, <2>1
  <2> QED BY <2>1, <2>4, <2>5, <2>6, SameStale, StoreFrame
<1> QED BY <1>1, <1>2, <1>3, <1>4, <1>5, <1>6, <1>7 DEF SaveStep

\* So do the steps of the persist worker and of the shutdown.
LEMMA WorkerStore ==
  ASSUME TypeOK, TypeOK', StoreInv, PersistTake \/ Stop \/ Join
  PROVE  StoreInv'
<1>0. {Worker, Main} \subseteq Thread /\ {Worker, Main} \cap Net = {}
  BY ThreadAssumption DEF Thread, Ingest
<1>1. /\ UNCHANGED <<save, chain, kvChain, dirtyFrom>>
      /\ \E t \in {Worker, Main} : OthersStay(t)
  <2>1. UNCHANGED <<save, chain, kvChain, dirtyFrom>>
    BY DEF PersistTake, Stop, Join, memory, locals, disk
  <2>2. PersistTake => OthersStay(Worker)
    BY <1>0 DEF PersistTake, OthersStay, Goto, TypeOK, LocalsType
  <2>3. Stop \/ Join => OthersStay(Main)
    BY <1>0 DEF Stop, Join, OthersStay, Goto, TypeOK, LocalsType, locals
  <2> QED BY <2>1, <2>2, <2>3
<1>2. \A u \in Net : pc'[u] = pc[u] /\ args'[u] = args[u]
  BY <1>0, <1>1 DEF OthersStay, Thread, Ingest
<1> QED BY <1>1, <1>2, SameStale DEF StoreInv, Repairs, Reorganising, SaveHeights

\* The store's invariant is kept by every step of a running node.
LEMMA StoreStep ==
  ASSUME Miners = {}, TypeInv, Locked, Chosen, StoreInv, [Next]_vars, ~(Crash \/ Restart)
  PROVE  StoreInv'
<1>1. CASE UNCHANGED vars
  BY <1>1 DEF vars, StoreInv, Repairs, Reorganising, SaveHeights, Stale, memory,
     locals, disk
<1>2. CASE Next
  <2>1. TypeOK /\ TypeOK' BY TypesStep DEF TypeInv, Typed
  <2> QED BY <1>2, <2>1, NextWithoutMiners, InputStore, IngestStore, SaveStore,
             WorkerStore
<1> QED BY <1>1, <1>2

\* The chain a start reads is the stored one.
LEMMA StoreInit == Init => StoreInv
<1> SUFFICES ASSUME Init PROVE StoreInv
  OBVIOUS
<1>1. \A u \in Net : ~Reorganising(u)
  BY DEF Init, Reorganising, Thread, Ingest
<1>2. Stored \in Seq(Block) BY BranchAssumption
<1>3. ASSUME NEW h \in DOMAIN kvChain
      PROVE  h < Len(chain) /\ kvChain[h] = chain[h + 1].blk
  <2>1. h \in 0..(Len(Stored) - 1) /\ kvChain[h] = Stored[h + 1]
    BY <1>3 DEF Init
  <2>2. h + 1 \in DOMAIN Stored BY <1>2, <2>1
  <2>3. chain = [i \in DOMAIN Stored |-> Fresh(Stored[i])] BY DEF Init, FreshSeq
  <2>4. Len(chain) = Len(Stored) /\ chain[h + 1] = Fresh(Stored[h + 1])
    BY <1>2, <2>2, <2>3
  <2> QED BY <1>2, <2>1, <2>4 DEF Fresh
<1>4. Stale = {} BY <1>3 DEF Stale
<1> QED BY <1>1, <1>4 DEF StoreInv

\* A running node's chain store never keeps a block of a branch the node has
\* left, for any number of connection threads that append, swap, replace and
\* save at once.
THEOREM StoreFollows == NoReload => (Spec => []StoreFollowsChain)
<1> SUFFICES ASSUME NoReload PROVE Spec => []StoreFollowsChain
  OBVIOUS
<1> DEFINE Inv == TypeInv /\ Locked /\ Chosen /\ StoreInv
<1>1. Init => Inv
  <2>1. Init => Chosen BY DEF Init, Chosen, Thread, Ingest
  <2> QED BY <2>1, TypesInit, LockedInit, StoreInit
<1>2. Inv /\ [Next]_vars => Inv'
  <2> SUFFICES ASSUME Inv, [Next]_vars PROVE Inv'
    OBVIOUS
  <2>1. Miners = {} /\ ~(Crash \/ Restart) BY NoStart DEF NoReload, TypeInv, Typed
  <2>2. UNCHANGED vars => Chosen' BY DEF Chosen, vars, memory, gossip
  <2> QED BY <2>1, <2>2, TypesStep, LockedStep, ChosenStep, StoreStep
<1>3. Inv => StoreFollowsChain
  BY DEF StoreInv, Stale, StoreFollowsChain
<1> QED BY <1>1, <1>2, <1>3, PTL DEF Spec

=============================================================================
