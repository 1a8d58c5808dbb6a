---------------------------- MODULE Mempool_proofs ----------------------------
(***************************************************************************)
(* The mempool for any number of threads, transactions and blocks: types,  *)
(* the prevout index, the stored copy, and what one thread alone keeps.    *)
(***************************************************************************)
EXTENDS Mempool, Recursion, SequenceTheorems, FiniteSetTheorems

\* The steps at which a thread holds a transaction.
Holding == {"judge", "failed", "refused", "conflicts", "replace", "space", "insert"}

Held == \A t \in Handler : pc[t] \in Holding => tx[t] \in Tx
MemTypes == TypeOK /\ Held

\* What an instance explores.
LEMMA BoundFields ==
  ASSUME bound \in Bounds
  PROVE  /\ bound.threads \subseteq Handler
         /\ bound.txs \subseteq Tx
  BY BoundsAssumption

\* The operations that follow a block are operations.
LEMMA ScriptTypes ==
  ASSUME NEW S \in SUBSET Tx
  PROVE  /\ \A name \in OpName : Op(name, S) \in Operation
         /\ AfterBlock(S) \in Seq(Operation)
         /\ PostAdd(S) \in Seq(Operation)
<1>1. /\ \A name \in OpName : Op(name, S) \in Operation
      /\ Op("prune", {}) \in Operation /\ Op("flush", {}) \in Operation
      /\ Op("recheck", {}) \in Operation
    BY DEF Op, Operation, OpName
<1>2. AfterBlock(S) \in Seq(Operation)
  <2>1. Op("confirm", S) \in Operation /\ Op("conflicts", S) \in Operation
      BY <1>1 DEF OpName
  <2> HIDE DEF Op, Operation
  <2> QED
      BY <1>1, <2>1 DEF AfterBlock
<1>3. PostAdd(S) \in Seq(Operation)
  <2>1. Op("readd", S) \in Operation
      BY <1>1 DEF OpName
  <2>2. <<Op("flush", {})>> \in Seq(Operation) /\ <<Op("recheck", {})>> \in Seq(Operation)
        /\ <<>> \in Seq(Operation) /\ <<Op("readd", S), Op("flush", {})>> \in Seq(Operation)
      BY <1>1, <2>1
  <2> QED
      BY <2>2, ConcatProperties DEF PostAdd
<1> QED
    BY <1>1, <1>2, <1>3

\* A removal leaves a pool and an index.
LEMMA DropTypes ==
  ASSUME TypeOK, NEW S, Drop(S)
  PROVE  /\ pool' \in SUBSET Tx
         /\ index' \in [Coin -> Tx \cup {NoTx}]
         /\ dirty' \in BOOLEAN
  BY DEF TypeOK, Drop, Unindexed

\* Types at the start.
LEMMA MempoolInitTypes == Init => MemTypes
<1> SUFFICES ASSUME Init PROVE MemTypes
    OBVIOUS
<1>1. /\ blocks \in Seq(SUBSET Tx) /\ script \in [Handler -> Seq(Operation)]
      /\ base \in [Handler -> Seq(SUBSET Tx)]
    BY EmptySeq DEF Init
<1>2. pc \in [Handler -> Step] /\ Held
    BY DEF Init, Step, Held, Holding
<1> QED
    BY <1>1, <1>2 DEF Init, MemTypes, TypeOK

\* The step and the transaction in hand that follow a refusal.
LEMMA RefusalTypes ==
  ASSUME MemTypes, NEW t \in Handler, pc[t] \in Holding,
         \/ Refused(t)
         \/ UNCHANGED tx /\ \E s \in {"conflicts", "failed", "space", "replace"} : Goto(t, s)
  PROVE  /\ Held'
         /\ pc' \in [Handler -> Step]
         /\ tx' \in [Handler -> Tx \cup {NoTx}]
<1>1. tx[t] \in Tx
    BY DEF MemTypes, Held
<1>2. \/ tx' = tx /\ \E s \in {"conflicts", "failed", "space", "replace", "refused"} : Goto(t, s)
      \/ tx' = [tx EXCEPT ![t] = NoTx] /\ Goto(t, "work")
    BY DEF Refused
<1> QED
    BY <1>1, <1>2 DEF MemTypes, TypeOK, Held, Holding, Step, Goto

\* A call of add_valid_tx, and a flush.
LEMMA CallTypes ==
  ASSUME MemTypes, NEW t \in Handler,
         \/ Offer(t) \/ Judge(t) \/ QueueOrphan(t) \/ QueueAgain(t) \/ FindConflicts(t)
         \/ Insert(t) \/ Flush(t) \/ FlushClear(t) \/ FlushWrite(t) \/ ClearOrphans(t)
         \/ Replace(t) \/ EnsureSpace(t)
  PROVE  MemTypes'
<1> USE DEF Step, Goto, ledger, memory, store, queue, hand, mining, life
<1>1. CASE Offer(t)
  <2>1. TypeOK'
      BY <1>1 DEF Offer, MemTypes, TypeOK, Held, Holding
  <2>2. Held'
      BY <1>1 DEF Offer, MemTypes, TypeOK, Held, Holding
  <2> QED
      BY <2>1, <2>2 DEF MemTypes
<1>2. CASE Judge(t)
  <2>1. pc[t] \in Holding
      BY <1>2 DEF Judge, Holding
  <2>2. Held' /\ pc' \in [Handler -> Step] /\ tx' \in [Handler -> Tx \cup {NoTx}]
      BY <1>2, <2>1, RefusalTypes DEF Judge
  <2>3. /\ reason' \in {"none", "missing", "waiting", "other"}
        /\ orphans' \in SUBSET Tx /\ rivals' \in [Handler -> SUBSET Tx]
      BY <1>2, <2>1 DEF Judge, Conflicts, MemTypes, TypeOK, Held
  <2>4. UNCHANGED <<ledger, memory, store, pruned, queue, snap, mining, life>>
      BY <1>2 DEF Judge
  <2> QED
      BY <2>2, <2>3, <2>4 DEF MemTypes, TypeOK
<1>3. CASE QueueOrphan(t)
  <2>1. pc[t] \in Holding
      BY <1>3 DEF QueueOrphan, Holding
  <2>2. Held' /\ pc' \in [Handler -> Step] /\ tx' \in [Handler -> Tx \cup {NoTx}]
      BY <1>3, <2>1, RefusalTypes DEF QueueOrphan
  <2>3. /\ reason' \in {"none", "missing", "waiting", "other"}
        /\ orphans' \in SUBSET Tx /\ rivals' \in [Handler -> SUBSET Tx]
      BY <1>3, <2>1 DEF QueueOrphan, Conflicts, MemTypes, TypeOK, Held
  <2>4. UNCHANGED <<ledger, memory, store, pruned, queue, snap, mining, life>>
      BY <1>3 DEF QueueOrphan
  <2> QED
      BY <2>2, <2>3, <2>4 DEF MemTypes, TypeOK
<1>4. CASE QueueAgain(t)
  <2>1. TypeOK'
      BY <1>4 DEF QueueAgain, MemTypes, TypeOK, Held, Holding
  <2>2. Held'
      BY <1>4 DEF QueueAgain, MemTypes, TypeOK, Held, Holding
  <2> QED
      BY <2>1, <2>2 DEF MemTypes
<1>5. CASE FindConflicts(t)
  <2>1. pc[t] \in Holding
      BY <1>5 DEF FindConflicts, Holding
  <2>2. Held' /\ pc' \in [Handler -> Step] /\ tx' \in [Handler -> Tx \cup {NoTx}]
      BY <1>5, <2>1, RefusalTypes DEF FindConflicts
  <2>3. /\ Conflicts(tx[t]) \in SUBSET Tx /\ rivals \in [Handler -> SUBSET Tx]
        /\ reason \in {"none", "missing", "waiting", "other"} /\ orphans \in SUBSET Tx
      BY DEF Conflicts, MemTypes, TypeOK
  <2>4. /\ rivals' = rivals \/ rivals' = [rivals EXCEPT ![t] = Conflicts(tx[t])]
        /\ reason' = reason \/ reason' = "other"
        /\ UNCHANGED <<ledger, memory, orphans, store, pruned, queue, snap, mining, life>>
      BY <1>5 DEF FindConflicts
  <2>5. /\ reason' \in {"none", "missing", "waiting", "other"}
        /\ orphans' \in SUBSET Tx
      BY <2>3, <2>4
  <2>6. rivals' \in [Handler -> SUBSET Tx]
      BY <2>3, <2>4
  <2> QED
      BY <2>2, <2>4, <2>5, <2>6 DEF MemTypes, TypeOK
<1>6. CASE Insert(t)
  <2>1. TypeOK'
      BY <1>6 DEF Insert, MemTypes, TypeOK, Held, Holding, Indexed
  <2>2. Held'
      BY <1>6 DEF Insert, MemTypes, TypeOK, Held, Holding
  <2> QED
      BY <2>1, <2>2 DEF MemTypes
<1>7. CASE Flush(t)
  <2>1. TypeOK'
      BY <1>7 DEF Flush, MemTypes, TypeOK, Held, Holding
  <2>2. Held'
      BY <1>7 DEF Flush, MemTypes, TypeOK, Held, Holding
  <2> QED
      BY <2>1, <2>2 DEF MemTypes
<1>8. CASE FlushWrite(t)
  <2>1. TypeOK'
      BY <1>8 DEF FlushWrite, MemTypes, TypeOK, Held, Holding
  <2>2. Held'
      BY <1>8 DEF FlushWrite, MemTypes, TypeOK, Held, Holding
  <2> QED
      BY <2>1, <2>2 DEF MemTypes
<1>12. CASE FlushClear(t)
  <2>1. TypeOK'
      BY <1>12 DEF FlushClear, MemTypes, TypeOK, Held, Holding
  <2>2. Held'
      BY <1>12 DEF FlushClear, MemTypes, TypeOK, Held, Holding
  <2> QED
      BY <2>1, <2>2 DEF MemTypes
<1>9. CASE ClearOrphans(t)
  <2>1. TypeOK'
      BY <1>9 DEF ClearOrphans, MemTypes, TypeOK, Held, Holding
  <2>2. Held'
      BY <1>9 DEF ClearOrphans, MemTypes, TypeOK, Held, Holding
  <2> QED
      BY <2>1, <2>2 DEF MemTypes
<1>10. CASE Replace(t)
  <2>1. PICK y : Drop({y})
      BY <1>10 DEF Replace
  <2>2. TypeOK
      BY DEF MemTypes
  <2> QED
      BY <1>10, <2>1, <2>2, DropTypes DEF Replace, MemTypes, TypeOK, Held, Holding
<1>11. CASE EnsureSpace(t)
  <2>1. TypeOK /\ Drop(Evicted(tx[t]))
      BY <1>11 DEF EnsureSpace, MemTypes
  <2> QED
      BY <1>11, <2>1, DropTypes DEF EnsureSpace, MemTypes, TypeOK, Held, Holding
<1> QED
    BY <1>1, <1>2, <1>3, <1>4, <1>5, <1>6, <1>7, <1>8, <1>9, <1>12, <1>10, <1>11

\* The next operation of a thread, and those after it.
LEMMA ScriptFields ==
  ASSUME MemTypes, NEW t \in Handler, script[t] # <<>>
  PROVE  /\ Head(script[t]).txs \in SUBSET Tx
         /\ Tail(script[t]) \in Seq(Operation)
         /\ [script EXCEPT ![t] = Tail(@)] \in [Handler -> Seq(Operation)]
<1>1. script[t] \in Seq(Operation)
    BY DEF MemTypes, TypeOK
<1>2. Head(script[t]) \in Operation /\ Tail(script[t]) \in Seq(Operation)
    BY <1>1, HeadTailProperties
<1> QED
    BY <1>2 DEF MemTypes, TypeOK, Operation

\* A step that touches neither the transactions in hand nor what is stored.
LEMMA QueueTypes ==
  ASSUME MemTypes, NEW t \in Handler,
         todo' \in [Handler -> SUBSET Tx], script' \in [Handler -> Seq(Operation)],
         UNCHANGED pc \/ \E step \in {"work", "flush", "retry", "mine"} : Goto(t, step),
         pool' \in SUBSET Tx, index' \in [Coin -> Tx \cup {NoTx}], dirty' \in BOOLEAN,
         reason' \in {"none", "missing", "waiting", "other"}, pruned' \in Nat \cup {-1},
         blocks' \in Seq(SUBSET Tx), version' \in Nat,
         cand' \in [Handler -> SUBSET Tx], base' \in [Handler -> Seq(SUBSET Tx)],
         UNCHANGED <<orphans, recent, kvPool, hand, life>>
  PROVE  MemTypes'
<1>1. pc' \in [Handler -> Step] /\ Held'
    BY DEF MemTypes, TypeOK, Held, Holding, Step, Goto, hand
<1> QED
    BY <1>1 DEF MemTypes, TypeOK, hand, life

\* What threads do between calls of add_valid_tx, and what peers offer.
LEMMA ScriptStepTypes ==
  ASSUME MemTypes, NEW t \in Handler,
         \/ FlushNow(t) \/ RecheckOrphans(t) \/ EndRecheck(t) \/ Readd(t)
         \/ RemoveConfirmed(t) \/ DropConflicts(t) \/ PruneStale(t)
         \/ \E x \in Tx : ReceiveTx(t, x)
         \/ \E S \in SUBSET Tx : ReceiveMempool(t, S)
  PROVE  MemTypes'
<1> USE DEF ledger, memory, store, mining, queue
<1>1. CASE FlushNow(t)
    BY <1>1, ScriptFields, QueueTypes DEF FlushNow, Runs, Done, MemTypes, TypeOK
<1>2. CASE RecheckOrphans(t)
  <2>1. script' \in [Handler -> Seq(Operation)]
    <3>1. CASE orphans = {}
        BY <1>2, <3>1, ScriptFields DEF RecheckOrphans, Runs
    <3>2. CASE orphans # {}
      <4>1. <<Op("retrying", {})>> \in Seq(Operation)
          BY DEF Op, Operation, OpName
      <4>2. Tail(script[t]) \in Seq(Operation)
          BY <1>2, ScriptFields DEF RecheckOrphans, Runs
      <4>3. <<Op("retrying", {})>> \o Tail(script[t]) \in Seq(Operation)
          BY <4>1, <4>2, ConcatProperties
      <4>4. script' = [script EXCEPT ![t] = <<Op("retrying", {})>> \o Tail(script[t])]
          BY <1>2, <3>2 DEF RecheckOrphans
      <4> QED
          BY <4>3, <4>4 DEF MemTypes, TypeOK
    <3> QED
        BY <3>1, <3>2
  <2>2. todo' \in [Handler -> SUBSET Tx]
    <3>1. todo \in [Handler -> SUBSET Tx] /\ orphans \in SUBSET Tx
        BY DEF MemTypes, TypeOK
    <3>2. todo' = todo \/ todo' = [todo EXCEPT ![t] = orphans]
        BY <1>2 DEF RecheckOrphans
    <3> QED
        BY <3>1, <3>2
  <2> QED
      BY <1>2, <2>1, <2>2, QueueTypes DEF RecheckOrphans, MemTypes, TypeOK
<1>3. CASE EndRecheck(t)
    BY <1>3, ScriptFields, QueueTypes DEF EndRecheck, Runs, Done, MemTypes, TypeOK
<1>4. CASE Readd(t)
  <2>1. todo' \in [Handler -> SUBSET Tx] /\ script' \in [Handler -> Seq(Operation)]
      BY <1>4, ScriptFields DEF Readd, Runs, Done, MemTypes, TypeOK
  <2> QED
      BY <1>4, <2>1, QueueTypes DEF Readd, MemTypes, TypeOK
<1>5. CASE RemoveConfirmed(t)
  <2>1. script' \in [Handler -> Seq(Operation)]
      BY <1>5, ScriptFields DEF RemoveConfirmed, Runs, Done
  <2>2. Drop(Head(script[t]).txs) /\ (UNCHANGED pc \/ Goto(t, "flush"))
      BY <1>5 DEF RemoveConfirmed, FlushIfRemoved
  <2>3. TypeOK
      BY DEF MemTypes
  <2> QED
      BY <1>5, <2>1, <2>2, <2>3, DropTypes, QueueTypes DEF RemoveConfirmed, TypeOK
<1>6. CASE DropConflicts(t)
  <2>1. script' \in [Handler -> Seq(Operation)]
      BY <1>6, ScriptFields DEF DropConflicts, Runs, Done
  <2>2. PICK S : Drop(S) /\ (UNCHANGED pc \/ Goto(t, "flush"))
      BY <1>6 DEF DropConflicts, FlushIfRemoved
  <2>3. TypeOK
      BY DEF MemTypes
  <2> QED
      BY <1>6, <2>1, <2>2, <2>3, DropTypes, QueueTypes DEF DropConflicts, TypeOK
<1>7. CASE PruneStale(t)
  <2>1. script' \in [Handler -> Seq(Operation)]
      BY <1>7, ScriptFields DEF PruneStale, Runs, Done
  <2>2. TypeOK
      BY DEF MemTypes
  <2>3. /\ pool' \in SUBSET Tx /\ index' \in [Coin -> Tx \cup {NoTx}] /\ dirty' \in BOOLEAN
        /\ pruned' \in Nat \cup {-1} /\ reason' \in {"none", "missing", "waiting", "other"}
      BY <1>7, <2>2, DropTypes DEF PruneStale, TypeOK
  <2> QED
      BY <1>7, <2>1, <2>2, <2>3, QueueTypes DEF PruneStale, TypeOK
<1>8. ASSUME NEW x \in Tx, ReceiveTx(t, x) PROVE MemTypes'
  <2>1. todo' \in [Handler -> SUBSET Tx]
      BY <1>8 DEF ReceiveTx, MemTypes, TypeOK
  <2> QED
      BY <1>8, <2>1, QueueTypes DEF ReceiveTx, MemTypes, TypeOK
<1>9. ASSUME NEW S \in SUBSET Tx, ReceiveMempool(t, S) PROVE MemTypes'
  <2>1. todo' \in [Handler -> SUBSET Tx]
      BY <1>9 DEF ReceiveMempool, MemTypes, TypeOK
  <2>2. <<[op |-> "recheck", txs |-> {}], [op |-> "flush", txs |-> {}]>> \in Seq(Operation)
      BY DEF Operation, OpName
  <2>3. script' \in [Handler -> Seq(Operation)]
      BY <1>9, <2>2 DEF ReceiveMempool, MemTypes, TypeOK
  <2> QED
      BY <1>9, <2>1, <2>3, QueueTypes DEF ReceiveMempool, MemTypes, TypeOK
<1> QED
    BY <1>1, <1>2, <1>3, <1>4, <1>5, <1>6, <1>7, <1>8, <1>9

-----------------------------------------------------------------------------
(* Candidates *)

Accepted(S, x) == S \cup (IF Fits(S, x) THEN {x} ELSE {})

\* The orders of a pool are sequences of its transactions.
LEMMA OrderTypes ==
  ASSUME MemTypes, NEW order \in Orders(pool)
  PROVE  order \in Seq(pool) /\ order \in Seq(Tx)
<1>1. IsFiniteSet(pool)
    BY FS_Subset, TxAssumption DEF MemTypes, TypeOK
<1>2. Cardinality(pool) \in Nat
    BY <1>1, FS_CardinalityType
<1>3. order \in [1..Cardinality(pool) -> pool]
    BY DEF Orders, SetToSeqs
<1>4. order \in Seq(pool)
    BY <1>2, <1>3
<1> QED
    BY <1>4, SeqMonotonic DEF MemTypes, TypeOK

\* The recursion of _build_candidate_block along an order of the pool.
LEMMA TakenDef ==
  ASSUME NEW order \in Seq(Tx)
  PROVE  /\ Taken(order) \in [0..Len(order) -> SUBSET Tx]
         /\ Taken(order)[0] = {}
         /\ \A n \in 1..Len(order) :
              Taken(order)[n] = Accepted(Taken(order)[n - 1], order[n])
<1> DEFINE N == Len(order)
           IsTaking(f) == f = [n \in 0..N |->
                                IF n = 0 THEN {}
                                ELSE f[n - 1] \cup (IF Fits(f[n - 1], order[n]) THEN {order[n]} ELSE {})]
           step == [n \in 1..N |-> [S \in SUBSET Tx |-> Accepted(S, order[n])]]
<1>1. N \in Nat
    OBVIOUS
<1>2. step \in [1..N -> [SUBSET Tx -> SUBSET Tx]]
  <2>1. \A n \in 1..N : order[n] \in Tx
      OBVIOUS
  <2>2. \A n \in 1..N : \A S \in SUBSET Tx : Accepted(S, order[n]) \in SUBSET Tx
      BY <2>1 DEF Accepted
  <2> QED
      BY <2>2
<1>3. PICK f \in [0..N -> SUBSET Tx] : Iterates(f, N, {}, step)
  <2>1. {} \in SUBSET Tx
      OBVIOUS
  <2> HIDE DEF step, N
  <2> QED
      BY <1>1, <1>2, <2>1, IterationExists
<1>4. f[0] = {} /\ \A n \in 1..N : f[n] = Accepted(f[n - 1], order[n])
  <2>1. ASSUME NEW n \in 1..N PROVE f[n - 1] \in SUBSET Tx
    <3>1. n - 1 \in 0..N
        BY <1>1
    <3> QED
        BY <3>1
  <2> QED
      BY <1>3, <2>1 DEF Iterates
<1>5. IsTaking(f)
  <2>1. ASSUME NEW n \in 0..N
        PROVE  f[n] = IF n = 0 THEN {}
                      ELSE f[n - 1] \cup (IF Fits(f[n - 1], order[n]) THEN {order[n]} ELSE {})
    <3>1. n = 0 \/ n \in 1..N
        BY <1>1
    <3> QED
        BY <1>1, <1>4, <3>1 DEF Accepted
  <2>2. f = [n \in 0..N |-> f[n]]
      BY <1>3
  <2> QED
      BY <2>1, <2>2
<1>6. IsTaking(Taken(order))
  <2>1. Taken(order) = CHOOSE u : IsTaking(u)
      BY DEF Taken
  <2> HIDE DEF IsTaking
  <2> QED
      BY <1>5, <2>1
<1>7. /\ Taken(order) = [n \in 0..N |-> Taken(order)[n]]
      /\ Taken(order)[0] = {}
      /\ \A n \in 1..N : Taken(order)[n] = Accepted(Taken(order)[n - 1], order[n])
  <2>1. ASSUME NEW u, IsTaking(u)
        PROVE  /\ u = [n \in 0..N |-> u[n]]
               /\ u[0] = {}
               /\ \A n \in 1..N : u[n] = Accepted(u[n - 1], order[n])
    <3>1. u = [n \in 0..N |-> u[n]]
        BY <2>1
    <3>2. \A n \in 0..N :
            u[n] = IF n = 0 THEN {}
                   ELSE u[n - 1] \cup (IF Fits(u[n - 1], order[n]) THEN {order[n]} ELSE {})
        BY <2>1
    <3> HIDE DEF IsTaking
    <3>3. 0 \in 0..N /\ \A n \in 1..N : n \in 0..N /\ n # 0
        BY <1>1
    <3> QED
        BY <3>1, <3>2, <3>3 DEF Accepted
  <2> HIDE DEF IsTaking
  <2> QED
      BY <1>6, <2>1
<1>8. \A n \in Nat : n \in 0..N => Taken(order)[n] \in SUBSET Tx
  <2> DEFINE S == {n \in Nat : n \in 0..N => Taken(order)[n] \in SUBSET Tx}
  <2>1. 0 \in S
      BY <1>7
  <2>2. ASSUME NEW n \in Nat, n \in S PROVE n + 1 \in S
    <3>1. CASE n + 1 \in 0..N
      <4>1. n + 1 \in 1..N /\ n \in 0..N
          BY <3>1, <1>1
      <4>2. order[n + 1] \in Tx
          BY <4>1
      <4>3. Taken(order)[n + 1] = Accepted(Taken(order)[n], order[n + 1])
          BY <4>1, <1>7
      <4> QED
          BY <2>2, <4>1, <4>2, <4>3 DEF Accepted
    <3>2. CASE n + 1 \notin 0..N
        BY <3>2
    <3> QED
        BY <3>1, <3>2
  <2> HIDE DEF S
  <2>3. Nat \subseteq S
      BY <2>1, <2>2, SetInduction
  <2> QED
      BY <2>3 DEF S
<1>9. \A n \in 0..N : n \in Nat /\ Taken(order)[n] \in SUBSET Tx
    BY <1>1, <1>8
<1>10. Taken(order) \in [0..N -> SUBSET Tx]
  <2> HIDE DEF N
  <2> QED
      BY <1>7, <1>9
<1> QED
    BY <1>7, <1>10

\* What a candidate promises, over the coins its parent leaves.
Applies(S, coins) ==
  /\ Disjoint(S)
  /\ SpentBy(S) \subseteq coins \cup MadeBy(S)
  /\ \A x, y \in S \cap Post : x = y

\* A candidate keeps that promise with every transaction it takes.
LEMMA CandidateIsGood ==
  ASSUME NEW order \in Seq(Tx)
  PROVE  Candidate(order) \in SUBSET Tx /\ Applies(Candidate(order), Coins)
<1> DEFINE G == {n \in Nat : n \in 0..Len(order) => Applies(Taken(order)[n], Coins)}
<1>1. 0 \in G
    BY TakenDef DEF Applies, Disjoint, SpentBy
<1>2. ASSUME NEW n \in Nat, n \in G PROVE n + 1 \in G
  <2>1. CASE n + 1 \in 0..Len(order)
    <3> SUFFICES Applies(Taken(order)[n + 1], Coins)
        OBVIOUS
    <3> DEFINE S == Taken(order)[n]
               x == order[n + 1]
    <3>1. n + 1 \in 1..Len(order) /\ n \in 0..Len(order)
        BY <2>1
    <3>2. Applies(S, Coins)
        BY <1>2, <3>1
    <3>3. Taken(order)[n + 1] = Accepted(S, x)
        BY <3>1, TakenDef
    <3> HIDE DEF S, x
    <3>4. CASE ~Fits(S, x)
        BY <3>2, <3>3, <3>4 DEF Accepted
    <3>5. CASE Fits(S, x)
      <4>1. Taken(order)[n + 1] = S \cup {x}
          BY <3>3, <3>5 DEF Accepted
      <4>2. /\ Spends[x] \cap SpentBy(S) = {}
            /\ Spends[x] \subseteq (Coins \cup MadeBy(S)) \ SpentBy(S)
            /\ x \in Post => S \cap Post = {}
          BY <3>5 DEF Fits, Valid
      <4>3. Disjoint(S \cup {x})
          BY <3>2, <4>2 DEF Applies, Disjoint, SpentBy
      <4>4. SpentBy(S \cup {x}) \subseteq Coins \cup MadeBy(S \cup {x})
          BY <3>2, <4>2 DEF Applies, SpentBy, MadeBy
      <4>5. \A y, z \in (S \cup {x}) \cap Post : y = z
          BY <3>2, <4>2 DEF Applies
      <4> QED
          BY <4>1, <4>3, <4>4, <4>5 DEF Applies
    <3> QED
        BY <3>4, <3>5
  <2>2. CASE n + 1 \notin 0..Len(order)
      BY <2>2
  <2> QED
      BY <2>1, <2>2
<1> HIDE DEF G
<1>3. Nat \subseteq G
    BY <1>1, <1>2, SetInduction
<1>4. Len(order) \in Nat /\ Len(order) \in 0..Len(order)
    OBVIOUS
<1>5. Applies(Candidate(order), Coins)
    BY <1>3, <1>4 DEF G, Candidate
<1> QED
    BY <1>4, <1>5, TakenDef DEF Candidate

-----------------------------------------------------------------------------
(* The ledger, mining, restarts: type correctness *)

\* The blocks and the script of a thread that moved the ledger.
LEMMA MoveTypes ==
  ASSUME MemTypes, NEW c \in Seq(SUBSET Tx), MoveLedger(c)
  PROVE  blocks' \in Seq(SUBSET Tx) /\ version' \in Nat
  BY DEF MoveLedger, MemTypes, TypeOK

\* The last block gives way: the chain below it, its transactions.
LEMMA SwapFields ==
  ASSUME MemTypes, blocks # <<>>
  PROVE  Front(blocks) \in Seq(SUBSET Tx) /\ Last(blocks) \in SUBSET Tx
<1>1. blocks \in Seq(SUBSET Tx) /\ Len(blocks) \in Nat \ {0}
    BY EmptySeq DEF MemTypes, TypeOK
<1>2. Last(blocks) \in SUBSET Tx
  <2>1. Len(blocks) \in 1..Len(blocks)
      BY <1>1
  <2> QED
      BY <1>1, <2>1, ElementOfSeq DEF Last
<1>3. \A i \in 1..(Len(blocks) - 1) : i \in 1..Len(blocks) /\ blocks[i] \in SUBSET Tx
    BY <1>1, ElementOfSeq
<1>4. Front(blocks) \in Seq(SUBSET Tx)
    BY <1>1, <1>3, SubSeqProperties DEF Front
<1> QED
    BY <1>2, <1>4

\* Connecting, replacing and mining blocks.
LEMMA LedgerStepTypes ==
  ASSUME MemTypes, NEW t \in Handler,
         \/ ConnectBlock(t) \/ SwapTip(t) \/ ReplaceChain(t)
         \/ BuildCandidate(t) \/ Mined(t)
  PROVE  MemTypes'
<1> USE DEF memory, store, queue
<1>1. \A c : NextBlocks(c) \subseteq SUBSET Tx
    BY BoundFields DEF MemTypes, TypeOK, NextBlocks
<1>2. {} \in SUBSET Tx
    OBVIOUS
<1>3. CASE ConnectBlock(t)
  <2>1. PICK S \in SUBSET Tx : /\ MoveLedger(Append(blocks, S))
                              /\ script' = [script EXCEPT ![t] = AfterBlock(S) \o PostAdd({})]
      BY <1>1, <1>3 DEF ConnectBlock
  <2>2. Append(blocks, S) \in Seq(SUBSET Tx)
      BY DEF MemTypes, TypeOK
  <2>3. AfterBlock(S) \o PostAdd({}) \in Seq(Operation)
      BY <1>2, ScriptTypes, ConcatProperties
  <2>4. script' \in [Handler -> Seq(Operation)]
      BY <2>1, <2>3 DEF MemTypes, TypeOK
  <2> QED
      BY <1>3, <2>1, <2>2, <2>4, MoveTypes, QueueTypes DEF ConnectBlock, MemTypes, TypeOK, mining
<1>4. CASE SwapTip(t)
  <2>1. PICK S \in SUBSET Tx :
          /\ MoveLedger(Append(Front(blocks), S))
          /\ script' = [script EXCEPT ![t] = AfterBlock(S) \o PostAdd(Last(blocks))]
      BY <1>1, <1>4 DEF SwapTip
  <2>2. Front(blocks) \in Seq(SUBSET Tx) /\ Last(blocks) \in SUBSET Tx
      BY <1>4, SwapFields DEF SwapTip
  <2>3. Append(Front(blocks), S) \in Seq(SUBSET Tx)
      BY <2>2
  <2>4. AfterBlock(S) \o PostAdd(Last(blocks)) \in Seq(Operation)
      BY <2>2, ScriptTypes, ConcatProperties
  <2>5. script' \in [Handler -> Seq(Operation)]
      BY <2>1, <2>4 DEF MemTypes, TypeOK
  <2> QED
      BY <1>4, <2>1, <2>3, <2>5, MoveTypes, QueueTypes DEF SwapTip, MemTypes, TypeOK, mining
<1>5. CASE ReplaceChain(t)
  <2>1. PICK k \in 0..(Len(blocks) - 1) : \E S \in NextBlocks(SubSeq(blocks, 1, k)) :
          LET new == Append(SubSeq(blocks, 1, k), S)
          IN  /\ MoveLedger(new)
              /\ script' = [script EXCEPT ![t] =
                   <<Op("readd", Reinjected(blocks, new)), Op("recheck", {}), Op("flush", {})>>]
      BY <1>5 DEF ReplaceChain
  <2>2. PICK S \in SUBSET Tx :
          LET new == Append(SubSeq(blocks, 1, k), S)
          IN  /\ MoveLedger(new)
              /\ script' = [script EXCEPT ![t] =
                   <<Op("readd", Reinjected(blocks, new)), Op("recheck", {}), Op("flush", {})>>]
      BY <1>1, <2>1
  <2> DEFINE new == Append(SubSeq(blocks, 1, k), S)
  <2>3. blocks \in Seq(SUBSET Tx) /\ Len(blocks) \in Nat
      BY DEF MemTypes, TypeOK
  <2>4. \A i \in 1..Len(blocks) : blocks[i] \in SUBSET Tx
      BY <2>3, ElementOfSeq
  <2>5. new \in Seq(SUBSET Tx)
    <3>1. \A i \in 1..k : i \in 1..Len(blocks)
        BY <2>3
    <3>2. SubSeq(blocks, 1, k) \in Seq(SUBSET Tx)
        BY <2>3, <2>4, <3>1, SubSeqProperties
    <3> QED
        BY <3>2
  <2> HIDE DEF new
  <2>6. Reinjected(blocks, new) \in SUBSET Tx
    <3>1. \A i \in (Len(new) + 1)..Len(blocks) : i \in 1..Len(blocks)
        BY <2>3, <2>5
    <3> QED
        BY <2>4, <3>1 DEF Reinjected
  <2>7. <<Op("readd", Reinjected(blocks, new)), Op("recheck", {}), Op("flush", {})>>
          \in Seq(Operation)
    <3>1. /\ Op("readd", Reinjected(blocks, new)) \in Operation
          /\ Op("recheck", {}) \in Operation /\ Op("flush", {}) \in Operation
        BY <2>6 DEF Op, Operation, OpName
    <3> QED
        BY <3>1
  <2>8. /\ MoveLedger(new)
        /\ script' = [script EXCEPT ![t] =
             <<Op("readd", Reinjected(blocks, new)), Op("recheck", {}), Op("flush", {})>>]
      BY <2>2 DEF new
  <2>9. script' \in [Handler -> Seq(Operation)]
      BY <2>7, <2>8 DEF MemTypes, TypeOK
  <2> QED
      BY <1>5, <2>5, <2>8, <2>9, MoveTypes, QueueTypes DEF ReplaceChain, MemTypes, TypeOK, mining
<1>6. CASE BuildCandidate(t)
  <2>1. PICK order \in Orders(pool) :
          /\ cand' = [cand EXCEPT ![t] = Candidate(order)]
          /\ reason' = IF Refuses(order) THEN "missing" ELSE reason
      BY <1>6 DEF BuildCandidate
  <2>2. Candidate(order) \in SUBSET Tx
      BY OrderTypes, CandidateIsGood
  <2>3. /\ cand' \in [Handler -> SUBSET Tx] /\ base' \in [Handler -> Seq(SUBSET Tx)]
        /\ reason' \in {"none", "missing", "waiting", "other"}
      BY <1>6, <2>1, <2>2 DEF BuildCandidate, MemTypes, TypeOK
  <2> QED
      BY <1>6, <2>3, QueueTypes DEF BuildCandidate, MemTypes, TypeOK, ledger
<1>7. CASE Mined(t)
  <2>1. cand[t] \in SUBSET Tx
      BY DEF MemTypes, TypeOK
  <2>2. /\ blocks' \in Seq(SUBSET Tx) /\ version' \in Nat
        /\ script' \in [Handler -> Seq(Operation)] /\ Goto(t, "work")
    <3>1. CASE UNCHANGED <<ledger, script>> /\ Goto(t, "work")
        BY <3>1 DEF MemTypes, TypeOK, ledger
    <3>2. CASE /\ MoveLedger(Append(blocks, cand[t]))
               /\ script' = [script EXCEPT ![t] = AfterBlock(cand[t]) \o <<Op("flush", {})>>]
               /\ Goto(t, "work")
      <4>1. Append(blocks, cand[t]) \in Seq(SUBSET Tx)
          BY <2>1 DEF MemTypes, TypeOK
      <4>2. <<Op("flush", {})>> \in Seq(Operation)
          BY DEF Op, Operation, OpName
      <4>3. AfterBlock(cand[t]) \o <<Op("flush", {})>> \in Seq(Operation)
          BY <2>1, <4>2, ScriptTypes, ConcatProperties
      <4>4. script' \in [Handler -> Seq(Operation)]
          BY <3>2, <4>3 DEF MemTypes, TypeOK
      <4> QED
          BY <3>2, <4>1, <4>4, MoveTypes
    <3> QED
        BY <1>7, <3>1, <3>2 DEF Mined
  <2>3. cand' \in [Handler -> SUBSET Tx] /\ base' \in [Handler -> Seq(SUBSET Tx)]
      BY <1>7, EmptySeq DEF Mined, MemTypes, TypeOK
  <2> QED
      BY <1>7, <2>2, <2>3, QueueTypes DEF Mined, MemTypes, TypeOK
<1> QED
    BY <1>3, <1>4, <1>5, <1>6, <1>7

\* A restart, and the passing of the interval.
LEMMA RestartTypes ==
  ASSUME MemTypes, Restart \/ Tick
  PROVE  MemTypes'
<1>1. CASE Restart
  <2>1. Hydrated(kvPool) \in [Coin -> Tx \cup {NoTx}]
      BY DEF Hydrated, MemTypes, TypeOK
  <2>2. /\ script' \in [Handler -> Seq(Operation)] /\ base' \in [Handler -> Seq(SUBSET Tx)]
      BY <1>1, EmptySeq DEF Restart
  <2>3. pc' \in [Handler -> Step] /\ Held'
      BY <1>1 DEF Restart, Step, Held, Holding
  <2>4. /\ tx' \in [Handler -> Tx \cup {NoTx}] /\ todo' \in [Handler -> SUBSET Tx]
        /\ rivals' \in [Handler -> SUBSET Tx] /\ snap' \in [Handler -> SUBSET Tx]
        /\ cand' \in [Handler -> SUBSET Tx]
      BY <1>1 DEF Restart
  <2>5. /\ pool' \in SUBSET Tx /\ orphans' \in SUBSET Tx /\ kvPool' \in SUBSET Tx
        /\ index' \in [Coin -> Tx \cup {NoTx}]
      BY <1>1, <2>1 DEF Restart, MemTypes, TypeOK
  <2>6. /\ reason' \in {"none", "missing", "waiting", "other"}
        /\ dirty' \in BOOLEAN /\ recent' \in BOOLEAN
      BY <1>1 DEF Restart
  <2>8. pruned' \in Nat \cup {-1}
      BY <1>1 DEF Restart
  <2>9. restarts' \in Nat
    <3>1. restarts' = restarts + 1
        BY <1>1 DEF Restart
    <3> QED
        BY <3>1 DEF MemTypes, TypeOK
  <2>7. bound' \in Bounds /\ blocks' \in Seq(SUBSET Tx) /\ version' \in Nat
      BY <1>1 DEF Restart, MemTypes, TypeOK, ledger
  <2>10. crossed' \in BOOLEAN
      BY <1>1 DEF Restart, MemTypes, TypeOK
  <2> QED
      BY <2>2, <2>3, <2>4, <2>5, <2>6, <2>7, <2>8, <2>9, <2>10 DEF MemTypes, TypeOK
<1>2. CASE Tick
    BY <1>2 DEF Tick, MemTypes, TypeOK, Held, ledger, memory, queue, hand, mining, life
<1> QED
    BY <1>1, <1>2

\* Every step keeps the types.
LEMMA StepTypes == MemTypes /\ [Next]_vars => MemTypes'
<1> SUFFICES ASSUME MemTypes, [Next]_vars PROVE MemTypes'
    OBVIOUS
<1>1. CASE UNCHANGED vars
    BY <1>1 DEF vars, MemTypes, TypeOK, Held, ledger, memory, store, queue, hand, mining, life
<1>2. CASE Restart \/ Tick
    BY <1>2, RestartTypes
<1>3. ASSUME NEW t \in bound.threads, Work(t) \/ Start(t) \/ Mined(t) PROVE MemTypes'
  <2>1. t \in Handler /\ bound.txs \subseteq Tx
      BY BoundFields DEF MemTypes, TypeOK
  <2>2. CASE Work(t)
      BY <2>1, <2>2, CallTypes, ScriptStepTypes DEF Work
  <2>3. ASSUME NEW x \in bound.txs, ReceiveTx(t, x) PROVE MemTypes'
      BY <2>1, <2>3, ScriptStepTypes
  <2>4. ASSUME NEW S \in Pushes, ReceiveMempool(t, S \cap bound.txs) PROVE MemTypes'
    <3>1. S \cap bound.txs \in SUBSET Tx
        BY <2>1
    <3> QED
        BY <2>1, <2>4, <3>1, ScriptStepTypes
  <2>5. CASE ConnectBlock(t) \/ SwapTip(t) \/ ReplaceChain(t) \/ BuildCandidate(t) \/ Mined(t)
      BY <2>1, <2>5, LedgerStepTypes
  <2> QED
      BY <1>3, <2>2, <2>3, <2>4, <2>5 DEF Start
<1> QED
    BY <1>1, <1>2, <1>3 DEF Next

\* Every variable keeps its type, whatever the threads do.
THEOREM MempoolTypeCorrect == Spec => []TypeOK
<1>1. MemTypes => TypeOK
    BY DEF MemTypes
<1> QED
    BY <1>1, MempoolInitTypes, StepTypes, PTL DEF Spec

-----------------------------------------------------------------------------
(* The index and the stored copy *)

Writes == {"clear", "write"}

\* What the other steps do: remove entries or leave the pool, and leave the store.
Elsewhere ==
  /\ (\E S : Drop(S)) \/ UNCHANGED <<memory, dirty>>
  /\ UNCHANGED <<recent, kvPool, snap, crossed, bound>>
  /\ \A u \in Handler : pc'[u] = pc[u] \/ (pc[u] \notin Writes /\ pc'[u] \notin Writes)

\* A thread goes from one step to another, neither of which is of a write.
LEMMA NoWrite ==
  ASSUME MemTypes, NEW t \in Handler, pc[t] \notin Writes,
         UNCHANGED pc \/ \E step \in Step \ Writes : Goto(t, step)
  PROVE  \A u \in Handler : pc'[u] = pc[u] \/ (pc[u] \notin Writes /\ pc'[u] \notin Writes)
  BY DEF MemTypes, TypeOK, Goto

\* Calls of add_valid_tx up to the insertion stay out of the store.
LEMMA CallsElsewhere ==
  ASSUME MemTypes, NEW t \in Handler,
         \/ Offer(t) \/ Judge(t) \/ QueueOrphan(t) \/ QueueAgain(t)
         \/ FindConflicts(t) \/ Replace(t) \/ EnsureSpace(t)
  PROVE  Elsewhere
<1> USE DEF memory, store, hand, life, Step, Writes
<1>1. CASE Offer(t)
  <2>1. pc[t] \notin Writes /\ (UNCHANGED pc \/ \E step \in Step \ Writes : Goto(t, step))
      BY <1>1 DEF Offer
  <2>2. /\ (\E S : Drop(S)) \/ UNCHANGED <<memory, dirty>>
        /\ UNCHANGED <<recent, kvPool, snap, crossed, bound>>
      BY <1>1 DEF Offer
  <2> QED
      BY <2>1, <2>2, NoWrite DEF Elsewhere
<1>2. CASE Judge(t)
  <2>1. pc[t] \notin Writes /\ (UNCHANGED pc \/ \E step \in Step \ Writes : Goto(t, step))
      BY <1>2 DEF Judge, Refused
  <2>2. /\ (\E S : Drop(S)) \/ UNCHANGED <<memory, dirty>>
        /\ UNCHANGED <<recent, kvPool, snap, crossed, bound>>
      BY <1>2 DEF Judge
  <2> QED
      BY <2>1, <2>2, NoWrite DEF Elsewhere
<1>3. CASE QueueOrphan(t)
  <2>1. pc[t] \notin Writes /\ (UNCHANGED pc \/ \E step \in Step \ Writes : Goto(t, step))
      BY <1>3 DEF QueueOrphan, Refused
  <2>2. /\ (\E S : Drop(S)) \/ UNCHANGED <<memory, dirty>>
        /\ UNCHANGED <<recent, kvPool, snap, crossed, bound>>
      BY <1>3 DEF QueueOrphan
  <2> QED
      BY <2>1, <2>2, NoWrite DEF Elsewhere
<1>4. CASE QueueAgain(t)
  <2>1. pc[t] \notin Writes /\ (UNCHANGED pc \/ \E step \in Step \ Writes : Goto(t, step))
      BY <1>4 DEF QueueAgain
  <2>2. /\ (\E S : Drop(S)) \/ UNCHANGED <<memory, dirty>>
        /\ UNCHANGED <<recent, kvPool, snap, crossed, bound>>
      BY <1>4 DEF QueueAgain
  <2> QED
      BY <2>1, <2>2, NoWrite DEF Elsewhere
<1>5. CASE FindConflicts(t)
  <2>1. pc[t] \notin Writes /\ (UNCHANGED pc \/ \E step \in Step \ Writes : Goto(t, step))
      BY <1>5 DEF FindConflicts, Refused
  <2>2. /\ (\E S : Drop(S)) \/ UNCHANGED <<memory, dirty>>
        /\ UNCHANGED <<recent, kvPool, snap, crossed, bound>>
      BY <1>5 DEF FindConflicts
  <2> QED
      BY <2>1, <2>2, NoWrite DEF Elsewhere
<1>6. CASE Replace(t)
  <2>1. pc[t] \notin Writes /\ (UNCHANGED pc \/ \E step \in Step \ Writes : Goto(t, step))
      BY <1>6 DEF Replace
  <2>2. /\ (\E S : Drop(S)) \/ UNCHANGED <<memory, dirty>>
        /\ UNCHANGED <<recent, kvPool, snap, crossed, bound>>
      BY <1>6 DEF Replace
  <2> QED
      BY <2>1, <2>2, NoWrite DEF Elsewhere
<1>7. CASE EnsureSpace(t)
  <2>1. pc[t] \notin Writes /\ (UNCHANGED pc \/ \E step \in Step \ Writes : Goto(t, step))
      BY <1>7 DEF EnsureSpace
  <2>2. /\ (\E S : Drop(S)) \/ UNCHANGED <<memory, dirty>>
        /\ UNCHANGED <<recent, kvPool, snap, crossed, bound>>
      BY <1>7 DEF EnsureSpace
  <2> QED
      BY <2>1, <2>2, NoWrite DEF Elsewhere
<1> QED
    BY <1>1, <1>2, <1>3, <1>4, <1>5, <1>6, <1>7

\* So do the operations between them.
LEMMA ScriptsElsewhere ==
  ASSUME MemTypes, NEW t \in Handler,
         \/ FlushNow(t) \/ RecheckOrphans(t) \/ ClearOrphans(t) \/ EndRecheck(t)
         \/ Readd(t) \/ RemoveConfirmed(t) \/ DropConflicts(t) \/ PruneStale(t)
  PROVE  Elsewhere
<1> USE DEF memory, store, hand, life, Step, Writes
<1>1. CASE FlushNow(t)
  <2>1. pc[t] \notin Writes /\ (UNCHANGED pc \/ \E step \in Step \ Writes : Goto(t, step))
      BY <1>1 DEF FlushNow, Runs
  <2>2. /\ (\E S : Drop(S)) \/ UNCHANGED <<memory, dirty>>
        /\ UNCHANGED <<recent, kvPool, snap, crossed, bound>>
      BY <1>1 DEF FlushNow
  <2> QED
      BY <2>1, <2>2, NoWrite DEF Elsewhere
<1>2. CASE RecheckOrphans(t)
  <2>1. pc[t] \notin Writes /\ (UNCHANGED pc \/ \E step \in Step \ Writes : Goto(t, step))
      BY <1>2 DEF RecheckOrphans, Runs
  <2>2. /\ (\E S : Drop(S)) \/ UNCHANGED <<memory, dirty>>
        /\ UNCHANGED <<recent, kvPool, snap, crossed, bound>>
      BY <1>2 DEF RecheckOrphans
  <2> QED
      BY <2>1, <2>2, NoWrite DEF Elsewhere
<1>3. CASE ClearOrphans(t)
  <2>1. pc[t] \notin Writes /\ (UNCHANGED pc \/ \E step \in Step \ Writes : Goto(t, step))
      BY <1>3 DEF ClearOrphans
  <2>2. /\ (\E S : Drop(S)) \/ UNCHANGED <<memory, dirty>>
        /\ UNCHANGED <<recent, kvPool, snap, crossed, bound>>
      BY <1>3 DEF ClearOrphans
  <2> QED
      BY <2>1, <2>2, NoWrite DEF Elsewhere
<1>4. CASE EndRecheck(t)
  <2>1. pc[t] \notin Writes /\ (UNCHANGED pc \/ \E step \in Step \ Writes : Goto(t, step))
      BY <1>4 DEF EndRecheck, Runs
  <2>2. /\ (\E S : Drop(S)) \/ UNCHANGED <<memory, dirty>>
        /\ UNCHANGED <<recent, kvPool, snap, crossed, bound>>
      BY <1>4 DEF EndRecheck
  <2> QED
      BY <2>1, <2>2, NoWrite DEF Elsewhere
<1>5. CASE Readd(t)
  <2>1. pc[t] \notin Writes /\ (UNCHANGED pc \/ \E step \in Step \ Writes : Goto(t, step))
      BY <1>5 DEF Readd, Runs
  <2>2. /\ (\E S : Drop(S)) \/ UNCHANGED <<memory, dirty>>
        /\ UNCHANGED <<recent, kvPool, snap, crossed, bound>>
      BY <1>5 DEF Readd
  <2> QED
      BY <2>1, <2>2, NoWrite DEF Elsewhere
<1>6. CASE RemoveConfirmed(t)
  <2>1. pc[t] \notin Writes /\ (UNCHANGED pc \/ \E step \in Step \ Writes : Goto(t, step))
      BY <1>6 DEF RemoveConfirmed, FlushIfRemoved, Runs
  <2>2. /\ (\E S : Drop(S)) \/ UNCHANGED <<memory, dirty>>
        /\ UNCHANGED <<recent, kvPool, snap, crossed, bound>>
      BY <1>6 DEF RemoveConfirmed
  <2> QED
      BY <2>1, <2>2, NoWrite DEF Elsewhere
<1>7. CASE DropConflicts(t)
  <2>1. pc[t] \notin Writes /\ (UNCHANGED pc \/ \E step \in Step \ Writes : Goto(t, step))
      BY <1>7 DEF DropConflicts, FlushIfRemoved, Runs
  <2>2. /\ (\E S : Drop(S)) \/ UNCHANGED <<memory, dirty>>
        /\ UNCHANGED <<recent, kvPool, snap, crossed, bound>>
      BY <1>7 DEF DropConflicts
  <2> QED
      BY <2>1, <2>2, NoWrite DEF Elsewhere
<1>8. CASE PruneStale(t)
  <2>1. pc[t] \notin Writes /\ (UNCHANGED pc \/ \E step \in Step \ Writes : Goto(t, step))
      BY <1>8 DEF PruneStale, Runs
  <2>2. /\ (\E S : Drop(S)) \/ UNCHANGED <<memory, dirty>>
        /\ UNCHANGED <<recent, kvPool, snap, crossed, bound>>
      BY <1>8 DEF PruneStale
  <2> QED
      BY <2>1, <2>2, NoWrite DEF Elsewhere
<1> QED
    BY <1>1, <1>2, <1>3, <1>4, <1>5, <1>6, <1>7, <1>8

\* And what a thread begins with.
LEMMA StartsElsewhere ==
  ASSUME MemTypes, NEW t \in Handler,
         \/ ConnectBlock(t) \/ SwapTip(t) \/ ReplaceChain(t) \/ BuildCandidate(t)
         \/ Mined(t)
         \/ (\E x : ReceiveTx(t, x)) \/ (\E S : ReceiveMempool(t, S))
  PROVE  Elsewhere
<1> USE DEF memory, store, hand, life, Step, Writes
<1>1. CASE ConnectBlock(t)
  <2>1. pc[t] \notin Writes /\ (UNCHANGED pc \/ \E step \in Step \ Writes : Goto(t, step))
      BY <1>1 DEF ConnectBlock, Idle
  <2>2. /\ (\E S : Drop(S)) \/ UNCHANGED <<memory, dirty>>
        /\ UNCHANGED <<recent, kvPool, snap, crossed, bound>>
      BY <1>1 DEF ConnectBlock
  <2> QED
      BY <2>1, <2>2, NoWrite DEF Elsewhere
<1>2. CASE SwapTip(t)
  <2>1. pc[t] \notin Writes /\ (UNCHANGED pc \/ \E step \in Step \ Writes : Goto(t, step))
      BY <1>2 DEF SwapTip, Idle
  <2>2. /\ (\E S : Drop(S)) \/ UNCHANGED <<memory, dirty>>
        /\ UNCHANGED <<recent, kvPool, snap, crossed, bound>>
      BY <1>2 DEF SwapTip
  <2> QED
      BY <2>1, <2>2, NoWrite DEF Elsewhere
<1>3. CASE ReplaceChain(t)
  <2>1. pc[t] \notin Writes /\ (UNCHANGED pc \/ \E step \in Step \ Writes : Goto(t, step))
      BY <1>3 DEF ReplaceChain, Idle
  <2>2. /\ (\E S : Drop(S)) \/ UNCHANGED <<memory, dirty>>
        /\ UNCHANGED <<recent, kvPool, snap, crossed, bound>>
      BY <1>3 DEF ReplaceChain
  <2> QED
      BY <2>1, <2>2, NoWrite DEF Elsewhere
<1>4. CASE BuildCandidate(t)
  <2>1. pc[t] \notin Writes /\ (UNCHANGED pc \/ \E step \in Step \ Writes : Goto(t, step))
      BY <1>4 DEF BuildCandidate, Idle
  <2>2. /\ (\E S : Drop(S)) \/ UNCHANGED <<memory, dirty>>
        /\ UNCHANGED <<recent, kvPool, snap, crossed, bound>>
      BY <1>4 DEF BuildCandidate
  <2> QED
      BY <2>1, <2>2, NoWrite DEF Elsewhere
<1>5. CASE Mined(t)
  <2>1. pc[t] \notin Writes /\ (UNCHANGED pc \/ \E step \in Step \ Writes : Goto(t, step))
      BY <1>5 DEF Mined
  <2>2. /\ (\E S : Drop(S)) \/ UNCHANGED <<memory, dirty>>
        /\ UNCHANGED <<recent, kvPool, snap, crossed, bound>>
      BY <1>5 DEF Mined
  <2> QED
      BY <2>1, <2>2, NoWrite DEF Elsewhere
<1>6. ASSUME NEW x, ReceiveTx(t, x) PROVE Elsewhere
  <2>1. pc[t] \notin Writes /\ UNCHANGED pc /\ UNCHANGED <<memory, dirty, recent, kvPool, snap, crossed, bound>>
      BY <1>6 DEF ReceiveTx, Idle
  <2> QED
      BY <2>1, NoWrite DEF Elsewhere
<1>7. ASSUME NEW S, ReceiveMempool(t, S) PROVE Elsewhere
  <2>1. pc[t] \notin Writes /\ UNCHANGED pc /\ UNCHANGED <<memory, dirty, recent, kvPool, snap, crossed, bound>>
      BY <1>7 DEF ReceiveMempool, Idle
  <2> QED
      BY <2>1, NoWrite DEF Elsewhere
<1> QED
    BY <1>1, <1>2, <1>3, <1>4, <1>5, <1>6, <1>7

\* The kinds of steps.
LEMMA StepKinds ==
  ASSUME MemTypes, [Next]_vars
  PROVE  \/ Restart \/ Tick \/ Elsewhere
         \/ \E t \in Handler : Insert(t) \/ Flush(t) \/ FlushClear(t) \/ FlushWrite(t)
<1>1. CASE UNCHANGED vars
    BY <1>1 DEF vars, memory, store, hand, life, Elsewhere
<1>2. ASSUME NEW t \in bound.threads, Work(t) \/ Start(t) \/ Mined(t)
      PROVE  Elsewhere \/ \E u \in Handler : Insert(u) \/ Flush(u) \/ FlushClear(u) \/ FlushWrite(u)
  <2>1. t \in Handler
      BY BoundFields DEF MemTypes, TypeOK
  <2>2. CASE Work(t)
      BY <2>1, <2>2, CallsElsewhere, ScriptsElsewhere DEF Work
  <2>3. CASE Start(t) \/ Mined(t)
      BY <2>1, <2>3, StartsElsewhere DEF Start
  <2> QED
      BY <1>2, <2>2, <2>3
<1> QED
    BY <1>1, <1>2 DEF Next

\* Every step keeps the index sound.
LEMMA StepIndex == MemTypes /\ IndexSound /\ [Next]_vars => IndexSound'
<1> SUFFICES ASSUME MemTypes, IndexSound, [Next]_vars,
                    NEW k \in Coin, index'[k] # NoTx
             PROVE  index'[k] \in pool' /\ k \in Spends[index'[k]]
    BY DEF IndexSound
<1>1. CASE Restart
  <2>1. pool' = kvPool /\ index' = Hydrated(kvPool)
      BY <1>1 DEF Restart
  <2> DEFINE last == {x \in kvPool : /\ k \in Spends[x]
                                   /\ \A y \in kvPool : k \in Spends[y] => Rank[y] <= Rank[x]}
  <2>2. index'[k] = IF last = {} THEN NoTx ELSE CHOOSE x \in last : TRUE
      BY <2>1 DEF Hydrated
  <2>3. last # {} /\ index'[k] \in last
    <3> HIDE DEF last
    <3> QED
        BY <2>2
  <2> QED
      BY <2>1, <2>3
<1>2. ASSUME NEW S, Drop(S) PROVE index'[k] \in pool' /\ k \in Spends[index'[k]]
  <2>1. k \notin SpentBy(S \cap pool) /\ index'[k] = index[k]
      BY <1>2 DEF Drop, Unindexed
  <2>2. index[k] \in pool /\ k \in Spends[index[k]]
      BY <2>1 DEF IndexSound
  <2>3. index[k] \notin S
      BY <2>1, <2>2 DEF SpentBy
  <2> QED
      BY <1>2, <2>1, <2>2, <2>3 DEF Drop
<1>3. ASSUME NEW t \in Handler, Insert(t) PROVE index'[k] \in pool' /\ k \in Spends[index'[k]]
  <2>1. pool' = pool \cup {tx[t]} /\ index'[k] = IF k \in Spends[tx[t]] THEN tx[t] ELSE index[k]
      BY <1>3 DEF Insert, Indexed
  <2> QED
      BY <2>1 DEF IndexSound
<1>4. CASE UNCHANGED memory
    BY <1>4 DEF memory, IndexSound
<1>5. (\E t \in Handler : Flush(t) \/ FlushClear(t) \/ FlushWrite(t)) \/ Tick
        => UNCHANGED memory
    BY DEF Flush, FlushClear, FlushWrite, Tick
<1>6. Elsewhere => (\E S : Drop(S)) \/ UNCHANGED memory
    BY DEF Elsewhere
<1> QED
    BY <1>1, <1>2, <1>3, <1>4, <1>5, <1>6, StepKinds

\* The prevout index of the pool names an entry that spends the prevout, for any
\* threads, transactions and ledger, whatever is replaced, pruned and reloaded:
\* is_prevout_spent never blocks a coin that no pooled transaction spends.
THEOREM IndexAlwaysSound == Spec => []IndexSound
<1>1. Init => MemTypes /\ IndexSound
    BY MempoolInitTypes DEF Init, IndexSound
<1>2. MemTypes /\ IndexSound /\ [Next]_vars => (MemTypes /\ IndexSound)'
    BY StepTypes, StepIndex
<1> QED
    BY <1>1, <1>2, PTL DEF Spec

\* While no flush has begun before another was written, one thread writes at
\* most, into a store it has emptied; a clean pool is what it writes.
OneWriter ==
  ~crossed =>
    \A t \in Handler : pc[t] \in Writes =>
      /\ pc[t] = "write" => kvPool = {}
      /\ dirty \/ snap[t] = pool
      /\ \A u \in Handler : pc[u] \in Writes => u = t

StoreInv == OneWriter /\ CleanIsStored

\* Every step keeps the store in order.
LEMMA StepStore == MemTypes /\ StoreInv /\ [Next]_vars => StoreInv'
<1> SUFFICES ASSUME MemTypes, StoreInv, [Next]_vars PROVE StoreInv'
    OBVIOUS
<1> USE DEF StoreInv, OneWriter, CleanIsStored, Writing, Writes
<1>1. CASE Restart
    BY <1>1 DEF Restart
<1>2. CASE Tick
    BY <1>2 DEF Tick, memory, hand, life
<1>3. ASSUME NEW t \in Handler, Flush(t) PROVE StoreInv'
  <2>1. CASE ~dirty \/ recent
    <3>1. Goto(t, "work") /\ UNCHANGED <<snap, store, memory, crossed>>
        BY <1>3, <2>1 DEF Flush, store
    <3>2. pc[t] = "flush" /\ \A u \in Handler : pc'[u] = IF u = t THEN "work" ELSE pc[u]
        BY <1>3, <3>1 DEF Flush, Goto, MemTypes, TypeOK
    <3> QED
        BY <3>1, <3>2 DEF store, memory
  <2>2. CASE dirty /\ ~recent
    <3>1. crossed' \/ \A u \in Handler : pc[u] \notin Writes
        BY <1>3, <2>2 DEF Flush
    <3>2. \A u \in Handler : pc'[u] = IF u = t THEN "clear" ELSE pc[u]
        BY <1>3, <2>2 DEF Flush, Goto, MemTypes, TypeOK
    <3>3. snap'[t] = pool /\ UNCHANGED pool
        BY <1>3, <2>2 DEF Flush, memory, MemTypes, TypeOK
    <3> QED
        BY <3>1, <3>2, <3>3
  <2> QED
      BY <2>1, <2>2
<1>4. ASSUME NEW t \in Handler, FlushClear(t) PROVE StoreInv'
  <2>1. pc[t] = "clear" /\ \A u \in Handler : pc'[u] = IF u = t THEN "write" ELSE pc[u]
      BY <1>4 DEF FlushClear, Goto, MemTypes, TypeOK
  <2>2. kvPool' = {} /\ UNCHANGED <<pool, dirty, snap, crossed>>
      BY <1>4 DEF FlushClear, memory, hand, life
  <2> QED
      BY <2>1, <2>2
<1>5. ASSUME NEW t \in Handler, FlushWrite(t) PROVE StoreInv'
  <2>1. pc[t] = "write" /\ \A u \in Handler : pc'[u] = IF u = t THEN "work" ELSE pc[u]
      BY <1>5 DEF FlushWrite, Goto, MemTypes, TypeOK
  <2>2. kvPool' = kvPool \cup snap[t] /\ UNCHANGED <<pool, dirty, crossed>>
      BY <1>5 DEF FlushWrite, memory, life
  <2>3. SUFFICES ASSUME ~crossed PROVE StoreInv'
      BY <2>2
  <2>4. kvPool = {} /\ (dirty \/ snap[t] = pool) /\ \A u \in Handler : pc[u] \in Writes => u = t
      BY <2>1, <2>3
  <2>5. \A u \in Handler : pc'[u] \notin Writes
      BY <2>1, <2>4
  <2> QED
      BY <2>2, <2>4, <2>5
<1>6. ASSUME NEW t \in Handler, Insert(t) PROVE StoreInv'
  <2>1. dirty' = TRUE /\ UNCHANGED <<recent, kvPool, snap, crossed>>
      BY <1>6 DEF Insert, life
  <2>2. pc[t] \notin Writes /\ \A u \in Handler : pc'[u] = IF u = t THEN "flush" ELSE pc[u]
      BY <1>6 DEF Insert, Goto, MemTypes, TypeOK
  <2> QED
      BY <2>1, <2>2
<1>7. CASE Elsewhere
  <2>1. dirty' \/ (UNCHANGED <<pool, dirty>>)
    <3>1. ASSUME NEW S, Drop(S) PROVE dirty' \/ (UNCHANGED <<pool, dirty>>)
      <4>1. CASE S \cap pool = {}
          BY <3>1, <4>1 DEF Drop, MemTypes, TypeOK
      <4>2. CASE S \cap pool # {}
          BY <3>1, <4>2 DEF Drop
      <4> QED
          BY <4>1, <4>2
    <3> QED
        BY <1>7, <3>1 DEF Elsewhere, memory
  <2>2. /\ UNCHANGED <<kvPool, snap, crossed>>
        /\ \A u \in Handler : pc'[u] = pc[u] \/ (pc[u] \notin Writes /\ pc'[u] \notin Writes)
      BY <1>7 DEF Elsewhere
  <2> QED
      BY <2>1, <2>2
<1> QED
    BY <1>1, <1>2, <1>3, <1>4, <1>5, <1>6, <1>7, StepKinds

\* flush: as long as no flush begins before another is written, the store holds
\* the pool whenever the pool is not dirty and nobody is writing it, for any
\* threads that change the pool between the snapshot and the two LMDB
\* transactions of a flush, and over restarts.
THEOREM CleanAlwaysStored == Spec => []CleanIsStored
<1>1. Init => MemTypes /\ StoreInv
    BY MempoolInitTypes DEF Init, StoreInv, OneWriter, CleanIsStored, Writing, Writes
<1>2. MemTypes /\ StoreInv /\ [Next]_vars => (MemTypes /\ StoreInv)'
    BY StepTypes, StepStore
<1>3. StoreInv => CleanIsStored
    BY DEF StoreInv
<1> QED
    BY <1>1, <1>2, <1>3, PTL DEF Spec

-----------------------------------------------------------------------------
(* One thread alone *)

\* A thread moves no other.
OthersStay(t) ==
  \A u \in Handler \ {t} : pc'[u] = pc[u] /\ tx'[u] = tx[u]

LEMMA ThreadAlone ==
  ASSUME MemTypes, NEW t \in Handler, Work(t) \/ Start(t) \/ Mined(t)
  PROVE  OthersStay(t)
<1> USE DEF hand, OthersStay, Goto
<1>0. DOMAIN pc = Handler /\ DOMAIN tx = Handler BY DEF MemTypes, TypeOK
<1>1. CASE Offer(t) \/ Judge(t) \/ QueueOrphan(t) \/ QueueAgain(t)
  <2>1. CASE Offer(t) BY <1>0, <2>1 DEF Offer
  <2>2. CASE Judge(t) BY <1>0, <2>2 DEF Judge, Refused
  <2>3. CASE QueueOrphan(t) BY <1>0, <2>3 DEF QueueOrphan, Refused
  <2>4. CASE QueueAgain(t) BY <1>0, <2>4 DEF QueueAgain
  <2> QED BY <1>1, <2>1, <2>2, <2>3, <2>4
<1>2. CASE FindConflicts(t) \/ Replace(t) \/ EnsureSpace(t) \/ Insert(t)
  <2>1. CASE FindConflicts(t) BY <1>0, <2>1 DEF FindConflicts, Refused
  <2>2. CASE Replace(t) BY <1>0, <2>2 DEF Replace
  <2>3. CASE EnsureSpace(t) BY <1>0, <2>3 DEF EnsureSpace
  <2>4. CASE Insert(t) BY <1>0, <2>4 DEF Insert
  <2> QED BY <1>2, <2>1, <2>2, <2>3, <2>4
<1>3. CASE Flush(t) \/ FlushClear(t) \/ FlushWrite(t) \/ FlushNow(t) \/ RecheckOrphans(t)
  <2>1. CASE Flush(t) BY <1>0, <2>1 DEF Flush
  <2>2. CASE FlushWrite(t) BY <1>0, <2>2 DEF FlushWrite
  <2>3. CASE FlushNow(t) BY <1>0, <2>3 DEF FlushNow
  <2>4. CASE RecheckOrphans(t) BY <1>0, <2>4 DEF RecheckOrphans
  <2>5. CASE FlushClear(t) BY <1>0, <2>5 DEF FlushClear
  <2> QED BY <1>3, <2>1, <2>2, <2>3, <2>4, <2>5
<1>4. CASE ClearOrphans(t) \/ EndRecheck(t) \/ Readd(t)
  <2>1. CASE ClearOrphans(t) BY <1>0, <2>1 DEF ClearOrphans
  <2>2. CASE EndRecheck(t) BY <1>0, <2>2 DEF EndRecheck
  <2>3. CASE Readd(t) BY <1>0, <2>3 DEF Readd
  <2> QED BY <1>4, <2>1, <2>2, <2>3
<1>5. CASE RemoveConfirmed(t) \/ DropConflicts(t) \/ PruneStale(t)
  <2>1. CASE RemoveConfirmed(t) BY <1>0, <2>1 DEF RemoveConfirmed, FlushIfRemoved
  <2>2. CASE DropConflicts(t) BY <1>0, <2>2 DEF DropConflicts, FlushIfRemoved
  <2>3. CASE PruneStale(t) BY <1>0, <2>3 DEF PruneStale
  <2> QED BY <1>5, <2>1, <2>2, <2>3
<1>6. ASSUME NEW x, ReceiveTx(t, x) PROVE OthersStay(t)
  BY <1>6 DEF ReceiveTx
<1>7. ASSUME NEW S, ReceiveMempool(t, S) PROVE OthersStay(t)
  BY <1>7 DEF ReceiveMempool
<1>8. CASE ConnectBlock(t) \/ SwapTip(t) \/ ReplaceChain(t) \/ BuildCandidate(t) \/ Mined(t)
  <2>1. CASE ConnectBlock(t) BY <1>0, <2>1 DEF ConnectBlock
  <2>2. CASE SwapTip(t) BY <1>0, <2>2 DEF SwapTip
  <2>3. CASE ReplaceChain(t) BY <1>0, <2>3 DEF ReplaceChain
  <2>4. CASE BuildCandidate(t) BY <1>0, <2>4 DEF BuildCandidate
  <2>5. CASE Mined(t) BY <1>0, <2>5 DEF Mined
  <2> QED BY <1>8, <2>1, <2>2, <2>3, <2>4, <2>5
<1> QED BY <1>1, <1>2, <1>3, <1>4, <1>5, <1>6, <1>7, <1>8 DEF Work, Start

\* A thread that is alone crosses no flush.
Uncrossed ==
  Alone => ~crossed /\ \A u \in Handler \ bound.threads : pc[u] \notin Writes

LEMMA StepUncrossed == MemTypes /\ Uncrossed /\ [Next]_vars => Uncrossed'
<1> SUFFICES ASSUME MemTypes, Uncrossed, [Next]_vars, Alone'
             PROVE  ~crossed' /\ \A u \in Handler \ bound'.threads : pc'[u] \notin Writes
    BY DEF Uncrossed
<1>1. CASE UNCHANGED vars \/ Tick
    BY <1>1 DEF vars, Tick, life, Alone, Uncrossed
<1>2. CASE Restart
    BY <1>2 DEF Restart, Alone, Uncrossed, Writes
<1>3. ASSUME NEW t \in bound.threads, Work(t) \/ Start(t) \/ Mined(t)
      PROVE  ~crossed' /\ \A u \in Handler \ bound'.threads : pc'[u] \notin Writes
  <2>1. t \in Handler /\ bound.threads \subseteq Handler
      BY BoundFields DEF MemTypes, TypeOK
  <2>2. \A u \in Handler \ {t} : pc'[u] = pc[u]
      BY <1>3, <2>1, ThreadAlone DEF OthersStay
  <2>3. \/ Elsewhere \/ Insert(t) \/ Flush(t) \/ FlushClear(t) \/ FlushWrite(t)
    <3>1. CASE Work(t)
        BY <2>1, <3>1, CallsElsewhere, ScriptsElsewhere DEF Work
    <3>2. CASE Start(t) \/ Mined(t)
        BY <2>1, <3>2, StartsElsewhere DEF Start
    <3> QED
        BY <1>3, <3>1, <3>2
  <2>4. bound' = bound
      BY <2>3 DEF Elsewhere, Insert, Flush, FlushClear, FlushWrite, life
  <2>5. Alone /\ ~crossed /\ \A u \in Handler \ bound.threads : pc[u] \notin Writes
      BY <2>4 DEF Alone, Uncrossed
  <2>6. ~crossed'
    <3>1. CASE Flush(t)
      <4>1. bound.threads = {t}
        <5>1. IsFiniteSet(bound.threads)
            BY <2>1, FS_Subset, BoundsAssumption
        <5> QED
            BY <2>5, <5>1, FS_Singleton DEF Alone
      <4>2. \A u \in Handler : ~Writing(u)
          BY <2>5, <3>1, <4>1 DEF Flush, Writing, Writes
      <4> QED
          BY <2>5, <3>1, <4>2 DEF Flush
    <3>2. CASE ~Flush(t)
        BY <2>3, <2>5, <3>2 DEF Elsewhere, Insert, FlushClear, FlushWrite, life
    <3> QED
        BY <3>1, <3>2
  <2> QED
      BY <1>3, <2>2, <2>4, <2>5, <2>6
<1> QED
    BY <1>1, <1>2, <1>3 DEF Next

\* A step at the end of which the thread is not in the middle of admitting a
\* transaction, and which at most removes entries.
Quiet(t) ==
  /\ (\E S : Drop(S)) \/ UNCHANGED memory
  /\ UNCHANGED <<kvPool, snap, bound>>
  /\ pc'[t] \notin {"conflicts", "replace", "space", "insert"}
  /\ \/ UNCHANGED <<ledger, pruned>>
     \/ version' = version + 1 /\ UNCHANGED <<pruned, memory>>
     \/ PruneStale(t)

\* The candidates: only BuildCandidate makes one.
Mines(t) ==
  \A u \in Handler : pc'[u] = "mine" =>
    \/ u = t /\ BuildCandidate(t)
    \/ pc[u] = "mine" /\ cand'[u] = cand[u] /\ base'[u] = base[u]

\* Parts of a call, and operations between calls.
LEMMA QuietCalls ==
  ASSUME MemTypes, NEW t \in Handler,
         \/ Offer(t) \/ QueueOrphan(t) \/ QueueAgain(t) \/ FlushNow(t)
         \/ RecheckOrphans(t) \/ ClearOrphans(t) \/ EndRecheck(t) \/ Readd(t)
         \/ RemoveConfirmed(t) \/ DropConflicts(t) \/ PruneStale(t)
  PROVE  Quiet(t) /\ Mines(t)
<1> USE DEF memory, store, hand, life, mining
<1>0. pc \in [Handler -> Step] /\ cand \in [Handler -> SUBSET Tx] /\ DOMAIN base = Handler
    BY DEF MemTypes, TypeOK
<1>1. CASE Offer(t)
  <2>1. (\E T : Drop(T)) \/ UNCHANGED memory
      BY <1>1 DEF Offer
  <2>2. UNCHANGED <<kvPool, snap, bound>>
      BY <1>1 DEF Offer
  <2>3. pc'[t] \notin {"conflicts", "replace", "space", "insert"}
      BY <1>0, <1>1 DEF Offer, Goto
  <2>4. \/ UNCHANGED <<ledger, pruned>>
        \/ version' = version + 1 /\ UNCHANGED <<pruned, memory>>
        \/ PruneStale(t)
      BY <1>1 DEF Offer
  <2>5. Mines(t)
      BY <1>0, <1>1 DEF Mines, Offer, Goto
  <2> QED
      BY <2>1, <2>2, <2>3, <2>4, <2>5 DEF Quiet
<1>2. CASE QueueOrphan(t)
  <2>1. (\E T : Drop(T)) \/ UNCHANGED memory
      BY <1>2 DEF QueueOrphan
  <2>2. UNCHANGED <<kvPool, snap, bound>>
      BY <1>2 DEF QueueOrphan
  <2>3. pc'[t] \notin {"conflicts", "replace", "space", "insert"}
      BY <1>0, <1>2 DEF QueueOrphan, Goto, Refused
  <2>4. \/ UNCHANGED <<ledger, pruned>>
        \/ version' = version + 1 /\ UNCHANGED <<pruned, memory>>
        \/ PruneStale(t)
      BY <1>2 DEF QueueOrphan
  <2>5. Mines(t)
      BY <1>0, <1>2 DEF Mines, QueueOrphan, Goto, Refused
  <2> QED
      BY <2>1, <2>2, <2>3, <2>4, <2>5 DEF Quiet
<1>3. CASE QueueAgain(t)
  <2>1. (\E T : Drop(T)) \/ UNCHANGED memory
      BY <1>3 DEF QueueAgain
  <2>2. UNCHANGED <<kvPool, snap, bound>>
      BY <1>3 DEF QueueAgain
  <2>3. pc'[t] \notin {"conflicts", "replace", "space", "insert"}
      BY <1>0, <1>3 DEF QueueAgain, Goto
  <2>4. \/ UNCHANGED <<ledger, pruned>>
        \/ version' = version + 1 /\ UNCHANGED <<pruned, memory>>
        \/ PruneStale(t)
      BY <1>3 DEF QueueAgain
  <2>5. Mines(t)
      BY <1>0, <1>3 DEF Mines, QueueAgain, Goto
  <2> QED
      BY <2>1, <2>2, <2>3, <2>4, <2>5 DEF Quiet
<1>4. CASE FlushNow(t)
  <2>1. (\E T : Drop(T)) \/ UNCHANGED memory
      BY <1>4 DEF FlushNow
  <2>2. UNCHANGED <<kvPool, snap, bound>>
      BY <1>4 DEF FlushNow
  <2>3. pc'[t] \notin {"conflicts", "replace", "space", "insert"}
      BY <1>0, <1>4 DEF FlushNow, Goto, Runs
  <2>4. \/ UNCHANGED <<ledger, pruned>>
        \/ version' = version + 1 /\ UNCHANGED <<pruned, memory>>
        \/ PruneStale(t)
      BY <1>4 DEF FlushNow
  <2>5. Mines(t)
      BY <1>0, <1>4 DEF Mines, FlushNow, Goto, Runs
  <2> QED
      BY <2>1, <2>2, <2>3, <2>4, <2>5 DEF Quiet
<1>5. CASE RecheckOrphans(t)
  <2>1. (\E T : Drop(T)) \/ UNCHANGED memory
      BY <1>5 DEF RecheckOrphans
  <2>2. UNCHANGED <<kvPool, snap, bound>>
      BY <1>5 DEF RecheckOrphans
  <2>3. pc'[t] \notin {"conflicts", "replace", "space", "insert"}
      BY <1>0, <1>5 DEF RecheckOrphans, Goto, Runs
  <2>4. \/ UNCHANGED <<ledger, pruned>>
        \/ version' = version + 1 /\ UNCHANGED <<pruned, memory>>
        \/ PruneStale(t)
      BY <1>5 DEF RecheckOrphans
  <2>5. Mines(t)
      BY <1>0, <1>5 DEF Mines, RecheckOrphans, Goto, Runs
  <2> QED
      BY <2>1, <2>2, <2>3, <2>4, <2>5 DEF Quiet
<1>6. CASE ClearOrphans(t)
  <2>1. (\E T : Drop(T)) \/ UNCHANGED memory
      BY <1>6 DEF ClearOrphans
  <2>2. UNCHANGED <<kvPool, snap, bound>>
      BY <1>6 DEF ClearOrphans
  <2>3. pc'[t] \notin {"conflicts", "replace", "space", "insert"}
      BY <1>0, <1>6 DEF ClearOrphans, Goto
  <2>4. \/ UNCHANGED <<ledger, pruned>>
        \/ version' = version + 1 /\ UNCHANGED <<pruned, memory>>
        \/ PruneStale(t)
      BY <1>6 DEF ClearOrphans
  <2>5. Mines(t)
      BY <1>0, <1>6 DEF Mines, ClearOrphans, Goto
  <2> QED
      BY <2>1, <2>2, <2>3, <2>4, <2>5 DEF Quiet
<1>7. CASE EndRecheck(t)
  <2>1. (\E T : Drop(T)) \/ UNCHANGED memory
      BY <1>7 DEF EndRecheck
  <2>2. UNCHANGED <<kvPool, snap, bound>>
      BY <1>7 DEF EndRecheck
  <2>3. pc'[t] \notin {"conflicts", "replace", "space", "insert"}
      BY <1>0, <1>7 DEF EndRecheck, Goto, Runs
  <2>4. \/ UNCHANGED <<ledger, pruned>>
        \/ version' = version + 1 /\ UNCHANGED <<pruned, memory>>
        \/ PruneStale(t)
      BY <1>7 DEF EndRecheck
  <2>5. Mines(t)
      BY <1>0, <1>7 DEF Mines, EndRecheck, Goto, Runs
  <2> QED
      BY <2>1, <2>2, <2>3, <2>4, <2>5 DEF Quiet
<1>8. CASE Readd(t)
  <2>1. (\E T : Drop(T)) \/ UNCHANGED memory
      BY <1>8 DEF Readd
  <2>2. UNCHANGED <<kvPool, snap, bound>>
      BY <1>8 DEF Readd
  <2>3. pc'[t] \notin {"conflicts", "replace", "space", "insert"}
      BY <1>0, <1>8 DEF Readd, Goto, Runs
  <2>4. \/ UNCHANGED <<ledger, pruned>>
        \/ version' = version + 1 /\ UNCHANGED <<pruned, memory>>
        \/ PruneStale(t)
      BY <1>8 DEF Readd
  <2>5. Mines(t)
      BY <1>0, <1>8 DEF Mines, Readd, Goto, Runs
  <2> QED
      BY <2>1, <2>2, <2>3, <2>4, <2>5 DEF Quiet
<1>9. CASE RemoveConfirmed(t)
  <2>1. (\E T : Drop(T)) \/ UNCHANGED memory
      BY <1>9 DEF RemoveConfirmed
  <2>2. UNCHANGED <<kvPool, snap, bound>>
      BY <1>9 DEF RemoveConfirmed
  <2>3. pc'[t] \notin {"conflicts", "replace", "space", "insert"}
      BY <1>0, <1>9 DEF RemoveConfirmed, Goto, FlushIfRemoved, Runs
  <2>4. \/ UNCHANGED <<ledger, pruned>>
        \/ version' = version + 1 /\ UNCHANGED <<pruned, memory>>
        \/ PruneStale(t)
      BY <1>9 DEF RemoveConfirmed
  <2>5. Mines(t)
      BY <1>0, <1>9 DEF Mines, RemoveConfirmed, Goto, FlushIfRemoved, Runs
  <2> QED
      BY <2>1, <2>2, <2>3, <2>4, <2>5 DEF Quiet
<1>10. CASE DropConflicts(t)
  <2>1. (\E T : Drop(T)) \/ UNCHANGED memory
      BY <1>10 DEF DropConflicts
  <2>2. UNCHANGED <<kvPool, snap, bound>>
      BY <1>10 DEF DropConflicts
  <2>3. pc'[t] \notin {"conflicts", "replace", "space", "insert"}
      BY <1>0, <1>10 DEF DropConflicts, Goto, FlushIfRemoved, Runs
  <2>4. \/ UNCHANGED <<ledger, pruned>>
        \/ version' = version + 1 /\ UNCHANGED <<pruned, memory>>
        \/ PruneStale(t)
      BY <1>10 DEF DropConflicts
  <2>5. Mines(t)
      BY <1>0, <1>10 DEF Mines, DropConflicts, Goto, FlushIfRemoved, Runs
  <2> QED
      BY <2>1, <2>2, <2>3, <2>4, <2>5 DEF Quiet
<1>11. CASE PruneStale(t)
  <2>1. (\E T : Drop(T)) \/ UNCHANGED memory
      BY <1>11 DEF PruneStale
  <2>2. UNCHANGED <<kvPool, snap, bound>>
      BY <1>11 DEF PruneStale
  <2>3. pc'[t] \notin {"conflicts", "replace", "space", "insert"}
      BY <1>0, <1>11 DEF PruneStale, Goto, Runs
  <2>4. \/ UNCHANGED <<ledger, pruned>>
        \/ version' = version + 1 /\ UNCHANGED <<pruned, memory>>
        \/ PruneStale(t)
      BY <1>11 DEF PruneStale
  <2>5. Mines(t)
      BY <1>0, <1>11 DEF Mines, PruneStale, Goto, Runs
  <2> QED
      BY <2>1, <2>2, <2>3, <2>4, <2>5 DEF Quiet
<1> QED
    BY <1>1, <1>2, <1>3, <1>4, <1>5, <1>6, <1>7, <1>8, <1>9, <1>10, <1>11

\* What a thread begins with, and the end of its search.
LEMMA QuietStarts ==
  ASSUME MemTypes, NEW t \in Handler,
         \/ ConnectBlock(t) \/ SwapTip(t) \/ ReplaceChain(t) \/ BuildCandidate(t)
         \/ Mined(t)
         \/ (\E x : ReceiveTx(t, x)) \/ (\E S : ReceiveMempool(t, S))
  PROVE  Quiet(t) /\ Mines(t)
<1> USE DEF memory, store, hand, life, mining
<1>0. pc \in [Handler -> Step] /\ cand \in [Handler -> SUBSET Tx] /\ DOMAIN base = Handler
    BY DEF MemTypes, TypeOK
<1>1. CASE ConnectBlock(t)
  <2>1. (\E T : Drop(T)) \/ UNCHANGED memory
      BY <1>1 DEF ConnectBlock
  <2>2. UNCHANGED <<kvPool, snap, bound>>
      BY <1>1 DEF ConnectBlock
  <2>3. pc'[t] \notin {"conflicts", "replace", "space", "insert"}
      BY <1>0, <1>1 DEF ConnectBlock, Goto, Idle
  <2>4. \/ UNCHANGED <<ledger, pruned>>
        \/ version' = version + 1 /\ UNCHANGED <<pruned, memory>>
        \/ PruneStale(t)
      BY <1>1 DEF ConnectBlock, MoveLedger
  <2>5. Mines(t)
      BY <1>0, <1>1 DEF Mines, ConnectBlock, Goto, Idle
  <2> QED
      BY <2>1, <2>2, <2>3, <2>4, <2>5 DEF Quiet
<1>2. CASE SwapTip(t)
  <2>1. (\E T : Drop(T)) \/ UNCHANGED memory
      BY <1>2 DEF SwapTip
  <2>2. UNCHANGED <<kvPool, snap, bound>>
      BY <1>2 DEF SwapTip
  <2>3. pc'[t] \notin {"conflicts", "replace", "space", "insert"}
      BY <1>0, <1>2 DEF SwapTip, Goto, Idle
  <2>4. \/ UNCHANGED <<ledger, pruned>>
        \/ version' = version + 1 /\ UNCHANGED <<pruned, memory>>
        \/ PruneStale(t)
      BY <1>2 DEF SwapTip, MoveLedger
  <2>5. Mines(t)
      BY <1>0, <1>2 DEF Mines, SwapTip, Goto, Idle
  <2> QED
      BY <2>1, <2>2, <2>3, <2>4, <2>5 DEF Quiet
<1>3. CASE ReplaceChain(t)
  <2>1. (\E T : Drop(T)) \/ UNCHANGED memory
      BY <1>3 DEF ReplaceChain
  <2>2. UNCHANGED <<kvPool, snap, bound>>
      BY <1>3 DEF ReplaceChain
  <2>3. pc'[t] \notin {"conflicts", "replace", "space", "insert"}
      BY <1>0, <1>3 DEF ReplaceChain, Goto, Idle
  <2>4. \/ UNCHANGED <<ledger, pruned>>
        \/ version' = version + 1 /\ UNCHANGED <<pruned, memory>>
        \/ PruneStale(t)
      BY <1>3 DEF ReplaceChain, MoveLedger
  <2>5. Mines(t)
      BY <1>0, <1>3 DEF Mines, ReplaceChain, Goto, Idle
  <2> QED
      BY <2>1, <2>2, <2>3, <2>4, <2>5 DEF Quiet
<1>4. CASE BuildCandidate(t)
  <2>1. (\E T : Drop(T)) \/ UNCHANGED memory
      BY <1>4 DEF BuildCandidate
  <2>2. UNCHANGED <<kvPool, snap, bound>>
      BY <1>4 DEF BuildCandidate
  <2>3. pc'[t] \notin {"conflicts", "replace", "space", "insert"}
      BY <1>0, <1>4 DEF BuildCandidate, Goto, Idle
  <2>4. \/ UNCHANGED <<ledger, pruned>>
        \/ version' = version + 1 /\ UNCHANGED <<pruned, memory>>
        \/ PruneStale(t)
      BY <1>4 DEF BuildCandidate
  <2>5. Mines(t)
      BY <1>0, <1>4 DEF Mines, BuildCandidate, Goto
  <2> QED
      BY <2>1, <2>2, <2>3, <2>4, <2>5 DEF Quiet
<1>5. CASE Mined(t)
  <2>1. (\E T : Drop(T)) \/ UNCHANGED memory
      BY <1>5 DEF Mined
  <2>2. UNCHANGED <<kvPool, snap, bound>>
      BY <1>5 DEF Mined
  <2>3. pc'[t] \notin {"conflicts", "replace", "space", "insert"}
      BY <1>0, <1>5 DEF Mined, Goto
  <2>4. \/ UNCHANGED <<ledger, pruned>>
        \/ version' = version + 1 /\ UNCHANGED <<pruned, memory>>
        \/ PruneStale(t)
      BY <1>5 DEF Mined, MoveLedger
  <2>5. Mines(t)
      BY <1>0, <1>5 DEF Mines, Mined, Goto
  <2> QED
      BY <2>1, <2>2, <2>3, <2>4, <2>5 DEF Quiet
<1>6. ASSUME NEW x, ReceiveTx(t, x) PROVE Quiet(t) /\ Mines(t)
  <2>1. (\E T : Drop(T)) \/ UNCHANGED memory
      BY <1>6 DEF ReceiveTx
  <2>2. UNCHANGED <<kvPool, snap, bound>>
      BY <1>6 DEF ReceiveTx
  <2>3. pc'[t] \notin {"conflicts", "replace", "space", "insert"}
      BY <1>0, <1>6 DEF ReceiveTx, Goto, Idle
  <2>4. \/ UNCHANGED <<ledger, pruned>>
        \/ version' = version + 1 /\ UNCHANGED <<pruned, memory>>
        \/ PruneStale(t)
      BY <1>6 DEF ReceiveTx
  <2>5. Mines(t)
      BY <1>0, <1>6 DEF Mines, ReceiveTx, Goto, Idle
  <2> QED
      BY <2>1, <2>2, <2>3, <2>4, <2>5 DEF Quiet
<1>7. ASSUME NEW S, ReceiveMempool(t, S) PROVE Quiet(t) /\ Mines(t)
  <2>1. (\E T : Drop(T)) \/ UNCHANGED memory
      BY <1>7 DEF ReceiveMempool
  <2>2. UNCHANGED <<kvPool, snap, bound>>
      BY <1>7 DEF ReceiveMempool
  <2>3. pc'[t] \notin {"conflicts", "replace", "space", "insert"}
      BY <1>0, <1>7 DEF ReceiveMempool, Goto, Idle
  <2>4. \/ UNCHANGED <<ledger, pruned>>
        \/ version' = version + 1 /\ UNCHANGED <<pruned, memory>>
        \/ PruneStale(t)
      BY <1>7 DEF ReceiveMempool
  <2>5. Mines(t)
      BY <1>0, <1>7 DEF Mines, ReceiveMempool, Goto, Idle
  <2> QED
      BY <2>1, <2>2, <2>3, <2>4, <2>5 DEF Quiet
<1> QED
    BY <1>1, <1>2, <1>3, <1>4, <1>5, <1>6, <1>7

\* The parts of a call that admit a transaction, and a flush, make no candidate.
LEMMA OtherCalls ==
  ASSUME MemTypes, NEW t \in Handler,
         \/ Judge(t) \/ FindConflicts(t) \/ Replace(t) \/ EnsureSpace(t)
         \/ Insert(t) \/ Flush(t) \/ FlushClear(t) \/ FlushWrite(t)
  PROVE  Mines(t)
<1> USE DEF memory, store, hand, life, mining
<1>0. pc \in [Handler -> Step] /\ cand \in [Handler -> SUBSET Tx] /\ DOMAIN base = Handler
    BY DEF MemTypes, TypeOK
<1>1. CASE Judge(t)
    BY <1>0, <1>1 DEF Mines, Judge, Goto, Refused
<1>2. CASE FindConflicts(t)
    BY <1>0, <1>2 DEF Mines, FindConflicts, Goto, Refused
<1>3. CASE Replace(t)
    BY <1>0, <1>3 DEF Mines, Replace, Goto
<1>4. CASE EnsureSpace(t)
    BY <1>0, <1>4 DEF Mines, EnsureSpace, Goto
<1>5. CASE Insert(t)
    BY <1>0, <1>5 DEF Mines, Insert, Goto
<1>6. CASE Flush(t)
    BY <1>0, <1>6 DEF Mines, Flush, Goto
<1>7. CASE FlushWrite(t)
    BY <1>0, <1>7 DEF Mines, FlushWrite, Goto
<1>8. CASE FlushClear(t)
    BY <1>0, <1>8 DEF Mines, FlushClear, Goto
<1> QED
    BY <1>1, <1>2, <1>3, <1>4, <1>5, <1>6, <1>7, <1>8

\* A step of a thread, by its kind.
LEMMA ThreadKinds ==
  ASSUME MemTypes, NEW t \in Handler, Work(t) \/ Start(t) \/ Mined(t)
  PROVE  /\ Mines(t)
         /\ \/ Quiet(t) \/ Judge(t) \/ FindConflicts(t) \/ Replace(t) \/ EnsureSpace(t)
            \/ Insert(t) \/ Flush(t) \/ FlushClear(t) \/ FlushWrite(t)
<1>1. CASE Work(t)
    BY <1>1, QuietCalls, OtherCalls DEF Work
<1>2. CASE Start(t) \/ Mined(t)
    BY <1>2, QuietStarts DEF Start
<1> QED
    BY <1>1, <1>2

Candidates ==
  \A t \in Handler : pc[t] = "mine" => Applies(cand[t], CoinsOf(base[t]))

\* Every step keeps the candidates good.
LEMMA StepCandidates == MemTypes /\ Candidates /\ [Next]_vars => Candidates'
<1> SUFFICES ASSUME MemTypes, Candidates, [Next]_vars,
                    NEW u \in Handler, pc'[u] = "mine"
             PROVE  Applies(cand'[u], CoinsOf(base'[u]))
    BY DEF Candidates, Applies, Disjoint, SpentBy, MadeBy, CoinsOf
<1>1. CASE UNCHANGED vars \/ Tick
    BY <1>1 DEF vars, Tick, mining, Candidates
<1>2. CASE Restart
    BY <1>2 DEF Restart
<1>3. ASSUME NEW t \in Handler, Work(t) \/ Start(t) \/ Mined(t)
      PROVE  Applies(cand'[u], CoinsOf(base'[u]))
  <2>1. CASE u = t /\ BuildCandidate(t)
    <3>1. PICK order \in Orders(pool) : cand' = [cand EXCEPT ![t] = Candidate(order)]
        BY <2>1 DEF BuildCandidate
    <3>2. cand'[t] = Candidate(order) /\ base'[t] = blocks
        BY <2>1, <3>1 DEF BuildCandidate, MemTypes, TypeOK
    <3> QED
        BY <2>1, <3>2, OrderTypes, CandidateIsGood DEF Coins
  <2>2. CASE pc[u] = "mine" /\ cand'[u] = cand[u] /\ base'[u] = base[u]
      BY <2>2 DEF Candidates
  <2> QED
      BY <1>3, <2>1, <2>2, ThreadKinds DEF Mines
<1> QED
    BY <1>1, <1>2, <1>3, BoundFields DEF Next, MemTypes, TypeOK

\* mine_block: a candidate whose parent is still the tip spends each output once
\* and only what is there, and carries one POST at most, for any pool, order and
\* number of threads.
THEOREM CandidatesApply == Spec => []CandidateApplies
<1>1. Init => MemTypes /\ Candidates
    BY MempoolInitTypes DEF Init, Candidates
<1>2. MemTypes /\ Candidates /\ [Next]_vars => (MemTypes /\ Candidates)'
    BY StepTypes, StepCandidates
<1>3. MemTypes /\ Candidates => CandidateApplies
  <2> SUFFICES ASSUME MemTypes, Candidates, NEW t \in Handler, pc[t] = "mine", base[t] = blocks
               PROVE  /\ Disjoint(cand[t])
                      /\ SpentBy(cand[t]) \subseteq Coins \cup MadeBy(cand[t])
                      /\ Cardinality(cand[t] \cap Post) <= 1
      BY DEF CandidateApplies
  <2>1. Applies(cand[t], Coins)
      BY DEF Candidates, Coins
  <2>2. Cardinality(cand[t] \cap Post) <= 1
    <3>1. cand[t] \cap Post = {} \/ \E x : cand[t] \cap Post = {x}
        BY <2>1 DEF Applies
    <3>2. Cardinality({}) = 0 /\ \A x : Cardinality({x}) = 1
        BY FS_EmptySet, FS_Singleton
    <3>3. CASE cand[t] \cap Post = {}
        BY <3>2, <3>3
    <3>4. ASSUME NEW x, cand[t] \cap Post = {x} PROVE Cardinality(cand[t] \cap Post) <= 1
      <4>1. Cardinality(cand[t] \cap Post) = 1
          BY <3>2, <3>4
      <4> QED
          BY <4>1
    <3> QED
        BY <3>1, <3>3, <3>4
  <2> QED
      BY <2>1, <2>2 DEF Applies
<1> QED
    BY <1>1, <1>2, <1>3, PTL DEF Spec

\* Of the only thread there is, what kind a step is.
LEMMA AloneKinds ==
  ASSUME MemTypes, Alone, Next
  PROVE  \/ Restart \/ Tick
         \/ \E t \in Handler :
              /\ bound.threads = {t}
              /\ \/ Quiet(t) \/ Judge(t) \/ FindConflicts(t) \/ Replace(t) \/ EnsureSpace(t)
                 \/ Insert(t) \/ Flush(t) \/ FlushClear(t) \/ FlushWrite(t)
<1>1. bound.threads \subseteq Handler
    BY BoundFields DEF MemTypes, TypeOK
<1>2. \E t : bound.threads = {t}
  <2>1. IsFiniteSet(bound.threads)
      BY <1>1, FS_Subset, BoundsAssumption
  <2> QED
      BY <2>1, FS_Singleton DEF Alone
<1> QED
    BY <1>1, <1>2, ThreadKinds DEF Next

\* What a thread has found of the transaction it admits.
Cleared(t) ==
  /\ pc[t] = "replace" =>
       \A y \in pool : Spends[y] \cap Spends[tx[t]] # {} => y \in rivals[t]
  /\ pc[t] \in {"space", "insert"} =>
       \A y \in pool : Spends[y] \cap Spends[tx[t]] = {}

Indexes(S, ix) == \A x \in S : \A k \in Spends[x] : ix[k] = x

\* The pool, what is written of it and what is on disk have no rivals.
NoRivals ==
  Alone =>
    /\ Disjoint(pool) /\ Disjoint(kvPool) /\ Indexes(pool, index)
    /\ \A t \in bound.threads : Disjoint(snap[t]) /\ Cleared(t)

\* Fewer entries have no rivals either, and the index still names them.
LEMMA DropKeepsOwners ==
  ASSUME MemTypes, NEW S, Drop(S), Disjoint(pool), Indexes(pool, index)
  PROVE  Disjoint(pool') /\ Indexes(pool', index')
<1>1. Disjoint(pool')
    BY DEF Drop, Disjoint
<1>2. ASSUME NEW x \in pool', NEW k \in Spends[x] PROVE index'[k] = x
  <2>1. x \in pool /\ x \notin S /\ k \in Coin
      BY TxAssumption DEF Drop, MemTypes, TypeOK
  <2>2. k \notin SpentBy(S \cap pool)
    <3>1. \A y \in S \cap pool : k \notin Spends[y]
        BY <2>1 DEF Disjoint
    <3> QED
        BY <3>1 DEF SpentBy
  <2>3. index[k] = x
      BY <2>1 DEF Indexes
  <2> QED
      BY <2>1, <2>2, <2>3 DEF Drop, Unindexed
<1> QED
    BY <1>1, <1>2 DEF Indexes

\* The index that is built from a pool without rivals names all of it.
LEMMA HydratedOwners ==
  ASSUME NEW S \in SUBSET Tx, Disjoint(S)
  PROVE  Indexes(S, Hydrated(S))
<1> SUFFICES ASSUME NEW x \in S, NEW k \in Spends[x] PROVE Hydrated(S)[k] = x
    BY DEF Indexes
<1> DEFINE last == {y \in S : /\ k \in Spends[y]
                             /\ \A z \in S : k \in Spends[z] => Rank[z] <= Rank[y]}
<1>1. k \in Coin /\ \A y \in S : k \in Spends[y] => y = x
    BY TxAssumption DEF Disjoint
<1>2. last = {x}
  <2>1. Rank[x] <= Rank[x]
      BY TxAssumption
  <2> QED
      BY <1>1, <2>1
<1>3. Hydrated(S)[k] = IF last = {} THEN NoTx ELSE CHOOSE y \in last : TRUE
    BY <1>1 DEF Hydrated
<1> HIDE DEF last
<1> QED
    BY <1>2, <1>3

\* Every step of a thread that is alone keeps rivals out.
LEMMA StepNoRivals ==
  MemTypes /\ StoreInv /\ Uncrossed /\ NoRivals /\ [Next]_vars => NoRivals'
<1> SUFFICES ASSUME MemTypes, StoreInv, Uncrossed, NoRivals, [Next]_vars, Alone'
             PROVE  /\ Disjoint(pool)' /\ Disjoint(kvPool)' /\ Indexes(pool, index)'
                    /\ \A t \in bound'.threads : Disjoint(snap[t])' /\ Cleared(t)'
    BY DEF NoRivals
<1>0. bound' = bound
  <2>1. CASE UNCHANGED vars
      BY <2>1 DEF vars, life
  <2>2. CASE Restart \/ Tick
      BY <2>2 DEF Restart, Tick, life
  <2>3. ASSUME NEW t \in Handler, Work(t) \/ Start(t) \/ Mined(t) PROVE bound' = bound
      BY <2>3, ThreadKinds DEF Quiet, Judge, FindConflicts, Replace, EnsureSpace, Insert,
         Flush, FlushClear, FlushWrite, life
  <2> QED
      BY <2>1, <2>2, <2>3, BoundFields DEF Next, MemTypes, TypeOK
<1>1. /\ Alone /\ Disjoint(pool) /\ Disjoint(kvPool) /\ Indexes(pool, index)
      /\ \A t \in bound.threads : Disjoint(snap[t]) /\ Cleared(t)
    BY <1>0 DEF Alone, NoRivals
<1>2. CASE UNCHANGED vars
    BY <1>1, <1>2 DEF vars, memory, store, hand, life, Cleared
<1>3. CASE Tick
    BY <1>1, <1>3 DEF Tick, memory, hand, life, Cleared
<1>4. CASE Restart
  <2>1. kvPool \in SUBSET Tx
      BY DEF MemTypes, TypeOK
  <2>2. Indexes(pool, index)'
      BY <1>1, <1>4, <2>1, HydratedOwners DEF Restart
  <2>3. \A t \in bound.threads : t \in Handler
      BY BoundFields DEF MemTypes, TypeOK
  <2>4. \A t \in Handler : Disjoint(snap[t])' /\ pc'[t] = "work"
      BY <1>4 DEF Restart, Disjoint
  <2> QED
      BY <1>0, <1>1, <1>4, <2>2, <2>3, <2>4 DEF Restart, Cleared
<1>5. ASSUME NEW t \in Handler, bound.threads = {t},
             \/ Quiet(t) \/ Judge(t) \/ FindConflicts(t) \/ Replace(t) \/ EnsureSpace(t)
             \/ Insert(t) \/ Flush(t) \/ FlushClear(t) \/ FlushWrite(t)
      PROVE  /\ Disjoint(pool)' /\ Disjoint(kvPool)' /\ Indexes(pool, index)'
             /\ Disjoint(snap[t])' /\ Cleared(t)'
  <2>1. Disjoint(snap[t]) /\ Cleared(t)
      BY <1>1, <1>5
  <2>2. CASE Quiet(t)
    <3>1. Disjoint(pool)' /\ Indexes(pool, index)'
        BY <1>1, <2>2, DropKeepsOwners DEF Quiet, memory
    <3> QED
        BY <1>1, <2>1, <2>2, <3>1 DEF Quiet, Cleared
  <2>3. CASE Judge(t)
    <3>1. UNCHANGED <<memory, kvPool, snap>> /\ pc'[t] \notin {"replace", "space", "insert"}
        BY <2>3 DEF Judge, Refused, Goto, store, MemTypes, TypeOK
    <3> QED
        BY <1>1, <2>1, <3>1 DEF Cleared, memory
  <2>4. CASE FindConflicts(t)
    <3>1. UNCHANGED <<memory, kvPool, snap>>
        BY <2>4 DEF FindConflicts, store
    <3>2. tx[t] \in Tx /\ pool \in SUBSET Tx
        BY <2>4 DEF FindConflicts, MemTypes, TypeOK, Held, Holding
    <3>3. \A y \in pool : Spends[y] \cap Spends[tx[t]] # {} => y \in Conflicts(tx[t])
        BY <1>1, <3>2 DEF Conflicts, Indexes
    <3>4. \/ pc'[t] \notin {"replace", "space", "insert"}
          \/ /\ tx' = tx /\ rivals'[t] = Conflicts(tx[t])
             /\ pc'[t] = IF Conflicts(tx[t]) = {} THEN "space" ELSE "replace"
        BY <2>4 DEF FindConflicts, Refused, Goto, MemTypes, TypeOK
    <3>5. Cleared(t)'
        BY <3>1, <3>3, <3>4 DEF Cleared, memory
    <3> QED
        BY <1>1, <2>1, <3>1, <3>5 DEF memory
  <2>5. CASE Replace(t)
    <3>1. PICK y \in rivals[t] : /\ Drop({y})
                                /\ rivals' = [rivals EXCEPT ![t] = @ \ {y}]
                                /\ Goto(t, IF rivals[t] = {y} THEN "space" ELSE "replace")
        BY <2>5 DEF Replace
    <3>2. Disjoint(pool)' /\ Indexes(pool, index)'
        BY <1>1, <3>1, DropKeepsOwners
    <3>3. /\ pool' = pool \ {y} /\ tx' = tx /\ rivals'[t] = rivals[t] \ {y}
          /\ pc'[t] = IF rivals[t] = {y} THEN "space" ELSE "replace"
        BY <2>5, <3>1 DEF Replace, Drop, Goto, MemTypes, TypeOK
    <3>4. \A z \in pool : Spends[z] \cap Spends[tx[t]] # {} => z \in rivals[t]
        BY <2>1, <2>5 DEF Replace, Cleared
    <3>5. Cleared(t)'
        BY <3>3, <3>4 DEF Cleared
    <3>6. UNCHANGED <<kvPool, snap>>
        BY <2>5 DEF Replace
    <3> QED
        BY <1>1, <2>1, <3>2, <3>5, <3>6
  <2>6. CASE EnsureSpace(t)
    <3>1. PICK S : Drop(S)
        BY <2>6 DEF EnsureSpace
    <3>2. Disjoint(pool)' /\ Indexes(pool, index)'
        BY <1>1, <3>1, DropKeepsOwners
    <3>3. pool' \subseteq pool /\ tx' = tx /\ pc'[t] = "insert" /\ UNCHANGED <<kvPool, snap>>
        BY <2>6, <3>1 DEF EnsureSpace, Drop, Goto, hand, MemTypes, TypeOK
    <3>4. \A z \in pool : Spends[z] \cap Spends[tx[t]] = {}
        BY <2>1, <2>6 DEF EnsureSpace, Cleared
    <3> QED
        BY <1>1, <2>1, <3>2, <3>3, <3>4 DEF Cleared
  <2>7. CASE Insert(t)
    <3>1. /\ pool' = pool \cup {tx[t]} /\ index' = Indexed(index, tx[t])
          /\ pc'[t] = "flush" /\ UNCHANGED <<kvPool, snap>>
        BY <2>7 DEF Insert, Goto, MemTypes, TypeOK
    <3>2. \A z \in pool : Spends[z] \cap Spends[tx[t]] = {}
        BY <2>1, <2>7 DEF Insert, Cleared
    <3>3. Disjoint(pool)'
        BY <1>1, <3>1, <3>2 DEF Disjoint
    <3>4. Indexes(pool, index)'
      <4> SUFFICES ASSUME NEW x \in pool', NEW k \in Spends[x] PROVE index'[k] = x
          BY DEF Indexes
      <4>1. k \in Coin
        <5>1. x \in Tx
            BY <2>7, <3>1 DEF Insert, MemTypes, TypeOK, Held, Holding
        <5> QED
            BY <5>1, TxAssumption
      <4>2. index'[k] = IF k \in Spends[tx[t]] THEN tx[t] ELSE index[k]
          BY <3>1, <4>1 DEF Indexed
      <4> QED
          BY <1>1, <3>1, <3>2, <4>2 DEF Indexes
    <3> QED
        BY <1>1, <2>1, <3>1, <3>3, <3>4 DEF Cleared
  <2>8. CASE Flush(t)
    <3>1. /\ UNCHANGED memory /\ pc'[t] \notin {"replace", "space", "insert"}
          /\ kvPool' = kvPool \/ kvPool' = {}
          /\ snap'[t] = snap[t] \/ snap'[t] = pool
        BY <2>8 DEF Flush, Goto, store, MemTypes, TypeOK
    <3>2. Disjoint(kvPool)' /\ Disjoint(snap[t])'
        BY <1>1, <2>1, <3>1 DEF Disjoint
    <3> QED
        BY <1>1, <3>1, <3>2 DEF Cleared, memory
  <2>9. CASE FlushWrite(t)
    <3>1. kvPool = {}
        BY <1>1, <1>5, <2>9 DEF FlushWrite, StoreInv, OneWriter, Uncrossed, Writes
    <3>2. kvPool' = kvPool \cup snap[t] /\ snap'[t] = {} /\ UNCHANGED memory /\ pc'[t] = "work"
        BY <2>9 DEF FlushWrite, Goto, MemTypes, TypeOK
    <3>3. Disjoint(kvPool)' /\ Disjoint(snap[t])'
        BY <2>1, <3>1, <3>2 DEF Disjoint
    <3> QED
        BY <1>1, <3>2, <3>3 DEF Cleared, memory
  <2>10. CASE FlushClear(t)
    <3>1. kvPool' = {} /\ UNCHANGED <<memory, snap>> /\ pc'[t] = "write"
        BY <2>10 DEF FlushClear, Goto, hand, MemTypes, TypeOK
    <3>2. Disjoint(kvPool)'
        BY <3>1 DEF Disjoint
    <3> QED
        BY <1>1, <2>1, <3>1, <3>2 DEF Cleared, memory
  <2> QED
      BY <1>5, <2>2, <2>3, <2>4, <2>5, <2>6, <2>7, <2>8, <2>9, <2>10
<1> QED
    BY <1>0, <1>1, <1>2, <1>3, <1>4, <1>5, AloneKinds

\* add_valid_tx: a thread alone never lets two transactions into the pool that
\* spend one output, and the index names the owner of every prevout, over
\* replacement, eviction, pruning, reorganisations and restarts.
THEOREM SerialIsConflictFree == Spec => []SerialConflictFree
<1>1. Init => MemTypes /\ StoreInv /\ Uncrossed /\ NoRivals
  <2> SUFFICES ASSUME Init PROVE StoreInv /\ Uncrossed /\ NoRivals
      BY MempoolInitTypes
  <2>1. StoreInv
      BY DEF Init, StoreInv, OneWriter, CleanIsStored, Writing, Writes
  <2>2. \A t \in bound.threads : t \in Handler
      BY BoundFields DEF Init
  <2> QED
      BY <2>1, <2>2 DEF Init, Uncrossed, Writes, NoRivals, Disjoint, Indexes, Cleared
<1>2. MemTypes /\ StoreInv /\ Uncrossed /\ NoRivals /\ [Next]_vars
        => (MemTypes /\ StoreInv /\ Uncrossed /\ NoRivals)'
    BY StepTypes, StepStore, StepUncrossed, StepNoRivals
<1>3. NoRivals => SerialConflictFree
    BY DEF NoRivals, SerialConflictFree, Indexes
<1> QED
    BY <1>1, <1>2, <1>3, PTL DEF Spec

\* What has been pruned for, and what a thread has judged.
Judged(t) ==
  pc[t] \in {"conflicts", "replace", "space", "insert"} => Spends[tx[t]] \subseteq Coins

PrunedInv ==
  /\ pruned <= version
  /\ Alone =>
       /\ pruned = version => SpentBy(pool) \subseteq Coins
       /\ \A t \in bound.threads : Judged(t)

\* What a thread does to the version and to the one pruned for.
LEMMA VersionMoves ==
  ASSUME MemTypes, pruned <= version, NEW t \in Handler, Work(t) \/ Start(t) \/ Mined(t)
  PROVE  /\ pruned' <= version'
         /\ \/ UNCHANGED <<ledger, pruned>>
            \/ Quiet(t)
<1>1. version \in Nat /\ pruned \in Int
    BY DEF MemTypes, TypeOK
<1>2. CASE Quiet(t)
  <2>1. CASE UNCHANGED <<ledger, pruned>>
      BY <2>1, <1>2 DEF ledger
  <2>2. CASE version' = version + 1 /\ UNCHANGED <<pruned, memory>>
      BY <1>1, <1>2, <2>2
  <2>3. CASE PruneStale(t)
    <3>1. version' = version /\ (pruned' = pruned \/ pruned' = version)
        BY <2>3 DEF PruneStale, ledger
    <3> QED
        BY <1>1, <1>2, <3>1
  <2> QED
      BY <1>2, <2>1, <2>2, <2>3 DEF Quiet
<1>3. CASE \/ Judge(t) \/ FindConflicts(t) \/ Replace(t) \/ EnsureSpace(t)
           \/ Insert(t) \/ Flush(t) \/ FlushClear(t) \/ FlushWrite(t)
  <2>1. UNCHANGED <<ledger, pruned>>
      BY <1>3 DEF Judge, FindConflicts, Replace, EnsureSpace, Insert, Flush, FlushClear, FlushWrite
  <2> QED
      BY <2>1 DEF ledger
<1> QED
    BY <1>2, <1>3, ThreadKinds

\* Every step of a thread that is alone keeps a pruned pool spendable.
LEMMA StepPruned == MemTypes /\ PrunedInv /\ [Next]_vars => PrunedInv'
<1> SUFFICES ASSUME MemTypes, PrunedInv, [Next]_vars PROVE PrunedInv'
    OBVIOUS
<1>1. version \in Nat /\ pruned \in Int /\ pruned <= version
    BY DEF MemTypes, TypeOK, PrunedInv
<1>2. CASE UNCHANGED vars
    BY <1>2 DEF vars, ledger, memory, hand, life, PrunedInv, Alone, Judged, Coins
<1>3. CASE Tick
    BY <1>3 DEF Tick, ledger, memory, hand, life, PrunedInv, Alone, Judged, Coins
<1>4. CASE Restart
  <2>1. pruned' = -1 /\ version' = version
      BY <1>4 DEF Restart, ledger
  <2>2. \A t \in bound'.threads : Judged(t)'
    <3>1. \A t \in bound'.threads : t \in Handler
        BY <1>4, BoundFields DEF Restart, MemTypes, TypeOK
    <3> QED
        BY <1>4, <3>1 DEF Restart, Judged
  <2> QED
      BY <1>1, <2>1, <2>2 DEF PrunedInv
<1>5. ASSUME Next, ~Restart, ~Tick PROVE pruned' <= version'
    BY <1>1, <1>5, VersionMoves, BoundFields DEF Next, MemTypes, TypeOK
<1>6. ASSUME NEW t \in Handler, bound.threads = {t}, Alone,
             \/ Quiet(t) \/ Judge(t) \/ FindConflicts(t) \/ Replace(t) \/ EnsureSpace(t)
             \/ Insert(t) \/ Flush(t) \/ FlushClear(t) \/ FlushWrite(t)
      PROVE  /\ pruned' = version' => SpentBy(pool') \subseteq Coins'
             /\ Judged(t)'
             /\ bound' = bound
  <2>1. (pruned = version => SpentBy(pool) \subseteq Coins) /\ Judged(t)
      BY <1>6 DEF PrunedInv
  <2>2. CASE Quiet(t)
    <3>1. pc'[t] \notin {"conflicts", "replace", "space", "insert"} /\ bound' = bound
        BY <2>2 DEF Quiet
    <3>2. pool' \subseteq pool
        BY <2>2 DEF Quiet, Drop, memory
    <3>3. CASE UNCHANGED <<ledger, pruned>>
        BY <2>1, <3>1, <3>2, <3>3 DEF ledger, Judged, Coins, SpentBy
    <3>4. CASE version' = version + 1 /\ UNCHANGED <<pruned, memory>>
      <4>1. pruned' # version'
          BY <1>1, <3>4
      <4> QED
          BY <3>1, <4>1 DEF Judged
    <3>5. CASE PruneStale(t)
      <4>1. CASE version = pruned
        <5>1. UNCHANGED <<ledger, pruned>>
            BY <3>5, <4>1 DEF PruneStale
        <5> QED
            BY <2>1, <3>1, <3>2, <5>1 DEF ledger, Judged, Coins, SpentBy
      <4>2. CASE version # pruned
        <5>1. pool' = pool \ {x \in pool : ~Valid(x, Coins, "tip + 1")} /\ UNCHANGED ledger
            BY <3>5, <4>2 DEF PruneStale, Drop
        <5>2. \A x \in pool' : Spends[x] \subseteq Coins
            BY <5>1 DEF Valid
        <5> QED
            BY <3>1, <5>1, <5>2 DEF ledger, Judged, Coins, SpentBy
      <4> QED
          BY <4>1, <4>2
    <3> QED
        BY <2>2, <3>3, <3>4, <3>5 DEF Quiet
  <2>3. CASE Judge(t)
    <3>1. UNCHANGED <<ledger, memory, pruned>> /\ bound' = bound
        BY <2>3 DEF Judge, life
    <3>2. Judged(t)'
      <4>1. \/ pc'[t] \notin {"conflicts", "replace", "space", "insert"}
            \/ Spends[tx[t]] \subseteq Coins /\ tx' = tx
          BY <2>3 DEF Judge, Refused, Goto, Valid, MemTypes, TypeOK
      <4> QED
          BY <3>1, <4>1 DEF Judged, Coins, ledger
    <3> QED
        BY <2>1, <3>1, <3>2 DEF ledger, memory, Coins
  <2>4. CASE FindConflicts(t) \/ Replace(t) \/ EnsureSpace(t)
    <3>1. UNCHANGED <<ledger, pruned>> /\ bound' = bound /\ Spends[tx[t]] \subseteq Coins
        BY <2>1, <2>4 DEF FindConflicts, Replace, EnsureSpace, life, Judged
    <3>2. pc'[t] \in {"conflicts", "replace", "space", "insert"} => tx' = tx
      <4>1. CASE FindConflicts(t)
          BY <4>1 DEF FindConflicts, Refused, Goto, MemTypes, TypeOK
      <4>2. CASE Replace(t) \/ EnsureSpace(t)
          BY <4>2 DEF Replace, EnsureSpace, hand
      <4> QED
          BY <2>4, <4>1, <4>2
    <3>3. pool' \subseteq pool
        BY <2>4 DEF FindConflicts, Replace, EnsureSpace, Drop, memory
    <3> QED
        BY <2>1, <3>1, <3>2, <3>3 DEF ledger, Coins, Judged, SpentBy
  <2>5. CASE Insert(t)
    <3>1. /\ UNCHANGED <<ledger, pruned>> /\ bound' = bound /\ Spends[tx[t]] \subseteq Coins
          /\ pool' = pool \cup {tx[t]}
        BY <2>1, <2>5 DEF Insert, life, Judged
    <3>2. pc'[t] = "flush"
        BY <2>5 DEF Insert, Goto, MemTypes, TypeOK
    <3> QED
        BY <2>1, <3>1, <3>2 DEF ledger, Coins, Judged, SpentBy
  <2>6. CASE Flush(t) \/ FlushClear(t) \/ FlushWrite(t)
    <3>1. UNCHANGED <<ledger, memory, pruned>> /\ bound' = bound
        BY <2>6 DEF Flush, FlushClear, FlushWrite, life
    <3>2. pc'[t] \in {"clear", "write", "work"}
        BY <2>6 DEF Flush, FlushClear, FlushWrite, Goto, MemTypes, TypeOK
    <3> QED
        BY <2>1, <3>1, <3>2 DEF ledger, memory, Coins, Judged
  <2> QED
      BY <1>6, <2>2, <2>3, <2>4, <2>5, <2>6
<1>7. ASSUME Next, ~Restart, ~Tick, Alone' PROVE PrunedInv'
  <2>1. Alone
    <3>1. ASSUME NEW t \in Handler, Work(t) \/ Start(t) \/ Mined(t) PROVE bound' = bound
        BY <3>1, ThreadKinds DEF Quiet, Judge, FindConflicts, Replace, EnsureSpace, Insert,
           Flush, FlushClear, FlushWrite, life
    <3> QED
        BY <1>7, <3>1, BoundFields DEF Next, MemTypes, TypeOK, Alone
  <2> QED
      BY <1>5, <1>6, <1>7, <2>1, AloneKinds DEF PrunedInv
<1>8. ASSUME Next, ~Restart, ~Tick, ~Alone' PROVE PrunedInv'
    BY <1>5, <1>8 DEF PrunedInv
<1> QED
    BY <1>2, <1>3, <1>4, <1>7, <1>8

\* prune_stale_entries: a thread alone skips no pruning that is due: a pool that
\* was pruned for the present version of the UTXO set can be spent, whatever was
\* admitted, reorganised and reloaded since.
THEOREM PrunedAlwaysSpendable == Spec => []PrunedIsSpendable
<1>1. Init => MemTypes /\ PrunedInv
  <2> SUFFICES ASSUME Init PROVE PrunedInv
      BY MempoolInitTypes
  <2>1. \A t \in bound.threads : t \in Handler
      BY BoundFields DEF Init
  <2> QED
      BY <2>1 DEF Init, PrunedInv, Judged, SpentBy
<1>2. MemTypes /\ PrunedInv /\ [Next]_vars => (MemTypes /\ PrunedInv)'
    BY StepTypes, StepPruned
<1>3. PrunedInv => PrunedIsSpendable
    BY DEF PrunedInv, PrunedIsSpendable
<1> QED
    BY <1>1, <1>2, <1>3, PTL DEF Spec
-----------------------------------------------------------------------------
(* The size of the pool *)

\* The size of some transactions is a sum of sizes.
LEMMA TotalIsSum ==
  ASSUME NEW S \in SUBSET Tx
  PROVE  /\ IsFiniteSet(S) /\ \A x \in S : Size[x] \in Int /\ Size[x] > 0
         /\ Total(S) = SumOver(Size, S)
         /\ Total(S) \in Int /\ Total(S) >= 0
<1>1. IsFiniteSet(S) BY TxAssumption, FS_Subset
<1>2. \A x \in S : Size[x] \in Int /\ Size[x] > 0 /\ Size[x] = Size[x]
  BY TxAssumption
<1>3. Total(S) = SumOver(Size, S)
  BY DEF Total, MapThenSumSet, SumOver, SumFunctionOnSet, FoldFunctionOnSet
<1>4. \A x \in S : Size[x] >= 0 BY <1>2
<1>5. SumOver(Size, S) \in Int /\ SumOver(Size, S) >= 0
  BY <1>1, <1>2, <1>4, SumSame
<1> QED BY <1>1, <1>2, <1>3, <1>5

\* It is the size of a part of them and of the rest, and of one of them and the
\* others.
LEMMA TotalParts ==
  ASSUME NEW S \in SUBSET Tx, NEW T \in SUBSET S
  PROVE  Total(S) = Total(T) + Total(S \ T) /\ Total(T) <= Total(S)
<1>1. T \in SUBSET Tx /\ S \ T \in SUBSET Tx OBVIOUS
<1>2. SumOver(Size, S) = SumOver(Size, T) + SumOver(Size, S \ T)
  BY TotalIsSum, SumParts
<1>3. /\ Total(S) = SumOver(Size, S) /\ Total(T) = SumOver(Size, T)
      /\ Total(S \ T) = SumOver(Size, S \ T)
      /\ Total(S \ T) >= 0 /\ Total(S \ T) \in Int /\ Total(T) \in Int
  BY <1>1, TotalIsSum
<1> QED BY <1>2, <1>3

LEMMA TotalPick ==
  ASSUME NEW S \in SUBSET Tx, NEW x \in S
  PROVE  Total(S) = Size[x] + Total(S \ {x})
<1>1. S \ {x} \in SUBSET Tx OBVIOUS
<1>2. SumOver(Size, S) = Size[x] + SumOver(Size, S \ {x})
  BY TotalIsSum, SumPick
<1>3. Total(S) = SumOver(Size, S) /\ Total(S \ {x}) = SumOver(Size, S \ {x})
  BY <1>1, TotalIsSum
<1> QED BY <1>2, <1>3

\* What enters adds its size at most.
LEMMA TotalEnters ==
  ASSUME NEW S \in SUBSET Tx, NEW x \in Tx
  PROVE  Total(S \cup {x}) <= Total(S) + Size[x]
<1>1. S \cup {x} \in SUBSET Tx /\ x \in S \cup {x} OBVIOUS
<1>2. Total(S \cup {x}) = Size[x] + Total((S \cup {x}) \ {x})
  BY <1>1, TotalPick
<1>3. (S \cup {x}) \ {x} \in SUBSET S /\ (S \cup {x}) \ {x} \in SUBSET Tx OBVIOUS
<1>4. Total((S \cup {x}) \ {x}) <= Total(S) BY <1>3, TotalParts
<1>5. /\ Total((S \cup {x}) \ {x}) \in Int /\ Total(S) \in Int /\ Size[x] \in Int
      /\ Total(S \cup {x}) \in Int
  BY <1>1, <1>3, TotalIsSum, TxAssumption
<1> QED BY <1>2, <1>4, <1>5

\* The order of the fee heap, by cross-multiplication.
LEMMA RatesOrdered ==
  ASSUME NEW a \in Nat, NEW b \in Nat, NEW c \in Nat,
         NEW k \in Nat \ {0}, NEW l \in Nat \ {0}, NEW m \in Nat \ {0},
         a * l <= b * k, b * m <= c * l
  PROVE  /\ a * m <= c * k
         /\ a * m = c * k => a * l = b * k /\ b * m = c * l
<1>1. (a * l) * m <= (b * k) * m /\ (b * m) * k <= (c * l) * k OBVIOUS
<1>2. (b * k) * m = (b * m) * k OBVIOUS
<1>3. (a * l) * m = (a * m) * l /\ (c * l) * k = (c * k) * l OBVIOUS
<1>4. (a * m) * l <= (c * k) * l BY <1>1, <1>2, <1>3
<1>5. a * m <= c * k BY <1>4
<1>6. ASSUME a * m = c * k PROVE a * l = b * k /\ b * m = c * l
  <2>1. (a * l) * m = (b * k) * m /\ (b * m) * k = (c * l) * k
    BY <1>1, <1>2, <1>3, <1>6
  <2> QED BY <2>1
<1> QED BY <1>5, <1>6

LEMMA CheaperOrders ==
  ASSUME NEW x \in Tx, NEW y \in Tx, NEW z \in Tx, Cheaper(x, y)
  PROVE  ~Cheaper(x, x) /\ (Cheaper(y, z) => Cheaper(x, z))
<1>1. \A v \in Tx : /\ Fee[v] \in Nat /\ Size[v] \in Nat \ {0} /\ Rank[v] \in Nat
  BY TxAssumption
<1>2. ~Cheaper(x, x)
  <2>1. Fee[x] * Size[x] \in Int BY <1>1
  <2> QED BY <1>1, <2>1 DEF Cheaper
<1>3. ASSUME Cheaper(y, z) PROVE Cheaper(x, z)
  <2> DEFINE a == Fee[x] b == Fee[y] c == Fee[z] k == Size[x] l == Size[y] m == Size[z]
  <2>1. a \in Nat /\ b \in Nat /\ c \in Nat
        /\ k \in Nat \ {0} /\ l \in Nat \ {0} /\ m \in Nat \ {0} BY <1>1
  <2>2. /\ a * l < b * k \/ (a * l = b * k /\ Rank[x] < Rank[y])
        /\ b * m < c * l \/ (b * m = c * l /\ Rank[y] < Rank[z])
    BY <1>3 DEF Cheaper
  <2> HIDE DEF a, b, c, k, l, m
  <2>3. /\ a * l \in Int /\ b * k \in Int /\ b * m \in Int /\ c * l \in Int
        /\ a * m \in Int /\ c * k \in Int
    BY <2>1
  <2>4. a * l <= b * k /\ b * m <= c * l BY <2>2, <2>3
  <2>5. a * m <= c * k /\ (a * m = c * k => a * l = b * k /\ b * m = c * l)
    BY <2>1, <2>4, RatesOrdered
  <2>6. a * m < c * k \/ (a * m = c * k /\ Rank[x] < Rank[z])
    BY <2>2, <2>3, <2>5, <1>1
  <2> QED BY <2>6 DEF Cheaper, a, b, c, k, l, m
<1> QED BY <1>2, <1>3

\* The cheaper entries of S.
Below(S, y) == {z \in S : Cheaper(z, y)}

\* What is cheaper than a cheaper entry is less, by that entry at least.
LEMMA BelowGrows ==
  ASSUME NEW S \in SUBSET Tx, NEW y \in S, NEW z \in Below(S, y)
  PROVE  Total(Below(S, z)) < Total(Below(S, y))
<1>1. z \in S /\ z \in Tx /\ y \in Tx /\ Cheaper(z, y) BY DEF Below
<1>2. Below(S, y) \in SUBSET Tx /\ Below(S, z) \in SUBSET Tx BY DEF Below
<1>3. z \notin Below(S, z) BY <1>1, CheaperOrders DEF Below
<1>4. Below(S, z) \subseteq Below(S, y)
  <2> SUFFICES ASSUME NEW w \in S, Cheaper(w, z) PROVE Cheaper(w, y)
    BY DEF Below
  <2>1. w \in Tx OBVIOUS
  <2> QED BY <1>1, <2>1, CheaperOrders
<1>5. Below(S, z) \in SUBSET (Below(S, y) \ {z}) /\ Below(S, y) \ {z} \in SUBSET Tx
  BY <1>2, <1>3, <1>4
<1>6. Total(Below(S, z)) <= Total(Below(S, y) \ {z}) BY <1>5, TotalParts
<1>7. Total(Below(S, y)) = Size[z] + Total(Below(S, y) \ {z}) BY <1>2, TotalPick
<1>8. /\ Total(Below(S, z)) \in Int /\ Total(Below(S, y)) \in Int
      /\ Total(Below(S, y) \ {z}) \in Int /\ Size[z] \in Int /\ Size[z] > 0
  BY <1>1, <1>2, <1>5, TotalIsSum
<1> QED BY <1>6, <1>7, <1>8

\* _ensure_space frees what it was to free, or everything: the cheapest entry
\* it leaves has that much below it, all of which has gone.
LEMMA EvictionFrees ==
  ASSUME NEW S \in SUBSET Tx, NEW target \in Int
  PROVE  LET gone == {y \in S : Total(Below(S, y)) < target}
         IN  gone = S \/ Total(gone) >= target
<1> DEFINE gone == {y \in S : Total(Below(S, y)) < target}
           left == {Total(Below(S, y)) : y \in S \ gone}
<1>1. SUFFICES ASSUME gone # S PROVE Total(gone) >= target
  OBVIOUS
<1>2. \A y \in S : Below(S, y) \in SUBSET Tx /\ Below(S, y) \in SUBSET S BY DEF Below
<1>3. \A y \in S : Total(Below(S, y)) \in Nat BY <1>2, TotalIsSum
<1>4. left \in SUBSET Nat /\ left # {} BY <1>1, <1>3
<1>5. PICK m \in left : \A k \in left : m <= k BY <1>4, LeastElement
<1>6. PICK y \in S \ gone : m = Total(Below(S, y)) BY <1>5
<1>7. y \in S /\ Total(Below(S, y)) >= target BY <1>3, <1>6
<1>8. Below(S, y) \subseteq gone
  <2> SUFFICES ASSUME NEW z \in Below(S, y), z \notin gone PROVE FALSE
    OBVIOUS
  <2>1. z \in S BY <1>2, <1>7
  <2>2. Total(Below(S, z)) \in left BY <2>1
  <2>3. m <= Total(Below(S, z)) BY <1>5, <2>2
  <2>4. Total(Below(S, z)) < Total(Below(S, y)) BY <1>7, BelowGrows
  <2> QED BY <1>3, <1>6, <1>7, <2>1, <2>3, <2>4
<1>9. gone \in SUBSET Tx /\ Below(S, y) \in SUBSET gone BY <1>8
<1>10. Total(Below(S, y)) <= Total(gone) BY <1>9, TotalParts
<1>11. Total(gone) \in Int BY <1>9, TotalIsSum
<1> QED BY <1>3, <1>7, <1>10, <1>11

\* The pool after a removal is no larger, and after _ensure_space has room for
\* the newcomer.
LEMMA DropShrinks ==
  ASSUME TypeOK, NEW S, Drop(S)
  PROVE  Total(pool') <= Total(pool)
<1>1. pool \in SUBSET Tx /\ pool' \in SUBSET pool BY DEF TypeOK, Drop
<1> QED BY <1>1, TotalParts

LEMMA EvictionMakesRoom ==
  ASSUME TypeOK, NEW x \in Tx, Drop(Evicted(x))
  PROVE  Total(pool') + Size[x] <= MaxSize
<1> DEFINE target == Total(pool) + Size[x] - MaxSize
           gone == {y \in pool : Total(Below(pool, y)) < target}
<1>1. pool \in SUBSET Tx BY DEF TypeOK
<1>2. Evicted(x) = gone BY DEF Evicted, Below
<1>3. pool' = pool \ gone BY <1>2 DEF Drop
<1>4. Total(pool) \in Int /\ Size[x] \in Int /\ MaxSize \in Int /\ Size[x] <= MaxSize
  BY <1>1, TotalIsSum, TxAssumption, SizeAssumption, BoundsAssumption
<1>5. target \in Int BY <1>4
<1>6. gone = pool \/ Total(gone) >= target BY <1>1, <1>5, EvictionFrees
<1>7. CASE gone = pool
  <2>1. pool' = {} /\ {} \in SUBSET Tx BY <1>3, <1>7
  <2>2. Total({}) = SumOver(Size, {}) BY <2>1, TotalIsSum
  <2>3. Total(pool') = 0 BY <2>1, <2>2, SumEmpty
  <2> QED BY <1>4, <2>3
<1>8. CASE Total(gone) >= target
  <2>1. gone \in SUBSET pool /\ gone \in SUBSET Tx /\ pool \ gone \in SUBSET Tx BY <1>1
  <2>2. Total(pool) = Total(gone) + Total(pool \ gone) BY <1>1, <2>1, TotalParts
  <2>3. Total(gone) \in Int /\ Total(pool \ gone) \in Int BY <2>1, TotalIsSum
  <2> HIDE DEF gone
  <2> QED BY <1>3, <1>4, <1>8, <2>2, <2>3
<1> QED BY <1>6, <1>7, <1>8

\* What is about to be inserted, per thread.
Entering == [t \in Handler |-> IF pc[t] = "insert" THEN Size[tx[t]] ELSE 0]
Limit == MaxSize + Largest * (Cardinality(bound.threads) - 1)
Expected == Total(pool) + SumOver(Entering, bound.threads)

\* The pool and what is about to be inserted stay within the limit, and so does
\* what is written and what is stored.
Sized == ~crossed \/ restarts = 0
Roomy ==
  /\ Sized => Expected <= Limit /\ \A t \in Handler : Total(snap[t]) <= Limit
  /\ ~crossed => Total(kvPool) <= Limit

\* The largest transaction.
LEMMA LargestIs ==
  /\ Largest \in Nat /\ Largest <= MaxSize
  /\ \A x \in Tx : Size[x] <= Largest
<1> DEFINE S == {0} \cup {Size[x] : x \in Tx}
<1>1. MaxSize \in Nat BY BoundsAssumption
<1>2. \A x \in Tx : Size[x] \in 0..MaxSize
  BY <1>1, TxAssumption, SizeAssumption
<1>3. S \in SUBSET (0..MaxSize) /\ S # {} BY <1>1, <1>2
<1>4. \A x \in Tx : Size[x] \in S OBVIOUS
<1>5. Largest = Max(S) BY DEF Largest
<1> HIDE DEF S
<1>6. Max(S) \in S /\ \A y \in S : Max(S) >= y BY <1>1, <1>3, MaxOf
<1>7. Largest \in 0..MaxSize /\ \A x \in Tx : Largest >= Size[x]
  BY <1>3, <1>4, <1>5, <1>6
<1>8. \A x \in Tx : Size[x] \in Nat BY <1>1, <1>2
<1> QED BY <1>1, <1>7, <1>8

\* The threads and what they have in hand.
LEMMA EnteringTypes ==
  ASSUME MemTypes
  PROVE  /\ IsFiniteSet(bound.threads) /\ bound.threads \in SUBSET Handler
         /\ Cardinality(bound.threads) \in Nat /\ Limit \in Int /\ Limit >= 0
         /\ \A t \in bound.threads : /\ Entering[t] \in Int /\ Entering[t] >= 0
                                     /\ Entering[t] <= Largest
<1>1. bound.threads \in SUBSET Handler BY BoundFields DEF MemTypes, TypeOK
<1>2. IsFiniteSet(bound.threads) BY <1>1, FS_Subset, BoundsAssumption
<1>3. Cardinality(bound.threads) \in Nat BY <1>2, FS_CardinalityType
<1>4. Limit \in Int /\ Limit >= 0
  <2> DEFINE n == Cardinality(bound.threads)
  <2>1. MaxSize \in Nat /\ Largest \in Nat /\ Largest <= MaxSize
    BY LargestIs, BoundsAssumption
  <2>2. n \in Nat BY <1>3
  <2>3. Limit = MaxSize + Largest * (n - 1) BY DEF Limit
  <2> HIDE DEF n
  <2>4. CASE n = 0
    <3>1. Largest * (n - 1) = -Largest BY <2>1, <2>4
    <3> QED BY <2>1, <2>3, <3>1
  <2>5. CASE n # 0
    <3>1. n - 1 \in Nat BY <2>2, <2>5
    <3>2. Largest * (n - 1) \in Nat BY <2>1, <3>1
    <3> QED BY <2>1, <2>3, <3>2
  <2> QED BY <2>4, <2>5
<1>5. ASSUME NEW t \in bound.threads
      PROVE  Entering[t] \in Int /\ Entering[t] >= 0 /\ Entering[t] <= Largest
  <2>1. t \in Handler BY <1>1
  <2>2. CASE pc[t] = "insert"
    <3>1. tx[t] \in Tx BY <2>1, <2>2 DEF MemTypes, Held, Holding
    <3>2. Size[tx[t]] \in Nat /\ Size[tx[t]] <= Largest BY <3>1, LargestIs, TxAssumption
    <3>3. Entering[t] = Size[tx[t]] BY <2>1, <2>2 DEF Entering
    <3> QED BY <3>2, <3>3
  <2>3. CASE pc[t] # "insert"
    <3>1. Entering[t] = 0 BY <2>1, <2>3 DEF Entering
    <3> QED BY <3>1, LargestIs
  <2> QED BY <2>2, <2>3
<1> QED BY <1>1, <1>2, <1>3, <1>4, <1>5

\* What the step of one thread does to the sum.
LEMMA EnteringChange ==
  ASSUME MemTypes, MemTypes', UNCHANGED bound, NEW t \in bound.threads, OthersStay(t)
  PROVE  /\ SumOver(Entering, bound.threads) \in Int
         /\ SumOver(Entering', bound.threads)
              = SumOver(Entering, bound.threads) - Entering[t] + Entering'[t]
         /\ SumOver(Entering, bound.threads) - Entering[t]
              <= Largest * (Cardinality(bound.threads) - 1)
<1> DEFINE S == bound.threads
<1>1. /\ IsFiniteSet(S) /\ S \in SUBSET Handler /\ Cardinality(S) \in Nat
      /\ \A u \in S : Entering[u] \in Int /\ Entering[u] <= Largest
  BY EnteringTypes
<1>2. \A u \in S : Entering'[u] \in Int
  <2>1. \A u \in S : u \in Handler /\ (pc'[u] = "insert" => tx'[u] \in Tx)
    BY <1>1 DEF MemTypes, Held, Holding
  <2> QED BY <2>1, TxAssumption DEF Entering
<1>3. \A u \in S \ {t} : Entering'[u] = Entering[u]
  BY <1>1 DEF Entering, OthersStay
<1>4. SumOver(Entering', S) = SumOver(Entering, S) - Entering[t] + Entering'[t]
  <2> HIDE DEF Entering
  <2> QED BY <1>1, <1>2, <1>3, SumChange
<1>5. /\ SumOver(Entering, S) \in Int /\ SumOver(Entering, S \ {t}) \in Int
      /\ SumOver(Entering, S) = Entering[t] + SumOver(Entering, S \ {t})
  BY <1>1, SumPick
<1>6. /\ IsFiniteSet(S \ {t}) /\ Cardinality(S \ {t}) = Cardinality(S) - 1
  <2>1. S \in SUBSET S OBVIOUS
  <2> QED BY <1>1, <2>1, SmallerSubset, FS_Subset
<1>7. SumOver(Entering, S \ {t}) <= Largest * (Cardinality(S) - 1)
  <2>1. \A u \in S \ {t} : Entering[u] \in Int /\ Entering[u] <= Largest BY <1>1
  <2>2. SumOver(Entering, S \ {t}) <= Largest * Cardinality(S \ {t})
    BY <1>6, <2>1, SumBounded, LargestIs
  <2> QED BY <1>6, <2>2
<1>8. Entering[t] \in Int BY <1>1
<1> QED BY <1>4, <1>5, <1>7, <1>8

\* The step of a thread that admits nothing, or removes what it admits for.
LEMMA RoomKept ==
  ASSUME MemTypes, MemTypes', Roomy, Sized, UNCHANGED bound, NEW t \in bound.threads,
         OthersStay(t), Total(pool') <= Total(pool), pc'[t] # "insert"
  PROVE  Expected' <= Limit'
<1>1. /\ SumOver(Entering, bound.threads) \in Int
      /\ SumOver(Entering', bound.threads)
           = SumOver(Entering, bound.threads) - Entering[t] + Entering'[t]
  BY EnteringChange
<1>2. Entering[t] \in Int /\ Entering[t] >= 0 /\ Limit \in Int BY EnteringTypes
<1>3. Entering'[t] = 0 BY EnteringTypes DEF Entering
<1>4. Total(pool) \in Int /\ Total(pool') \in Int
  <2>1. pool \in SUBSET Tx /\ pool' \in SUBSET Tx BY DEF MemTypes, TypeOK
  <2> QED BY <2>1, TotalIsSum
<1>5. Expected <= Limit /\ Limit' = Limit BY DEF Roomy, Limit
<1>6. Expected = Total(pool) + SumOver(Entering, bound.threads) BY DEF Expected
<1>7. Expected' = Total(pool') + SumOver(Entering', bound.threads) BY DEF Expected
<1> QED BY <1>1, <1>2, <1>3, <1>4, <1>5, <1>6, <1>7

\* _ensure_space leaves room for the newcomer, and the other threads have one
\* transaction each at most.
LEMMA RoomMade ==
  ASSUME MemTypes, MemTypes', Roomy, Sized, UNCHANGED bound, NEW t \in bound.threads,
         OthersStay(t), EnsureSpace(t)
  PROVE  Expected' <= Limit'
<1>1. /\ SumOver(Entering, bound.threads) \in Int
      /\ SumOver(Entering', bound.threads)
           = SumOver(Entering, bound.threads) - Entering[t] + Entering'[t]
      /\ SumOver(Entering, bound.threads) - Entering[t]
           <= Largest * (Cardinality(bound.threads) - 1)
  BY EnteringChange
<1>2. t \in Handler /\ Entering[t] \in Int BY EnteringTypes
<1>3. pc[t] = "space" /\ tx[t] \in Tx
  BY <1>2 DEF EnsureSpace, MemTypes, Held, Holding
<1>4. Entering'[t] = Size[tx[t]]
  <2>1. pc'[t] = "insert" /\ tx' = tx
    BY <1>2 DEF EnsureSpace, Goto, hand, MemTypes, TypeOK
  <2> QED BY <1>2, <2>1 DEF Entering
<1>5. Total(pool') + Size[tx[t]] <= MaxSize
  BY <1>3, EvictionMakesRoom DEF EnsureSpace, MemTypes
<1>6. Total(pool') \in Int
  <2>1. pool' \in SUBSET Tx BY DEF MemTypes, TypeOK
  <2> QED BY <2>1, TotalIsSum
<1>7. Limit' = MaxSize + Largest * (Cardinality(bound.threads) - 1) BY DEF Limit
<1>8. Expected' = Total(pool') + SumOver(Entering', bound.threads) BY DEF Expected
<1>9. Size[tx[t]] \in Int /\ MaxSize \in Int /\ Largest * (Cardinality(bound.threads) - 1) \in Int
  <2>1. Cardinality(bound.threads) - 1 \in Int BY EnteringTypes
  <2>2. Largest \in Int BY LargestIs
  <2> QED BY <1>3, <2>1, <2>2, TxAssumption, BoundsAssumption
<1> DEFINE room == Largest * (Cardinality(bound.threads) - 1)
<1> HIDE DEF room
<1>10. /\ SumOver(Entering, bound.threads) - Entering[t] <= room
       /\ Limit' = MaxSize + room /\ room \in Int
  BY <1>1, <1>7, <1>9 DEF room
<1> QED BY <1>1, <1>2, <1>4, <1>5, <1>6, <1>8, <1>9, <1>10

\* What was expected comes in.
LEMMA RoomTaken ==
  ASSUME MemTypes, MemTypes', Roomy, Sized, UNCHANGED bound, NEW t \in bound.threads,
         OthersStay(t), Insert(t)
  PROVE  Expected' <= Limit'
<1>1. /\ SumOver(Entering, bound.threads) \in Int
      /\ SumOver(Entering', bound.threads)
           = SumOver(Entering, bound.threads) - Entering[t] + Entering'[t]
  BY EnteringChange
<1>2. t \in Handler /\ Entering[t] \in Int /\ Limit \in Int BY EnteringTypes
<1>3. pc[t] = "insert" /\ tx[t] \in Tx
  BY <1>2 DEF Insert, MemTypes, Held, Holding
<1>4. Entering[t] = Size[tx[t]] BY <1>2, <1>3 DEF Entering
<1>5. Entering'[t] = 0
  <2>1. pc'[t] = "flush" BY <1>2 DEF Insert, Goto, MemTypes, TypeOK
  <2> QED BY <1>2, <2>1 DEF Entering
<1>6. pool \in SUBSET Tx /\ pool' \in SUBSET Tx BY DEF MemTypes, TypeOK
<1>7. Total(pool') <= Total(pool) + Size[tx[t]] BY <1>3, <1>6, TotalEnters DEF Insert
<1>8. Total(pool) \in Int /\ Total(pool') \in Int /\ Size[tx[t]] \in Int
  BY <1>3, <1>6, TotalIsSum, TxAssumption
<1>9. Expected <= Limit /\ Limit' = Limit BY DEF Roomy, Limit
<1>10. Expected = Total(pool) + SumOver(Entering, bound.threads) BY DEF Expected
<1>11. Expected' = Total(pool') + SumOver(Entering', bound.threads) BY DEF Expected
<1> QED BY <1>1, <1>2, <1>4, <1>5, <1>7, <1>8, <1>9, <1>10, <1>11

\* The pool is within what is expected.
LEMMA PoolWithin ==
  ASSUME MemTypes, Roomy, Sized
  PROVE  Total(pool) <= Limit
<1>1. /\ IsFiniteSet(bound.threads)
      /\ \A t \in bound.threads : Entering[t] \in Int /\ Entering[t] >= 0 /\ Entering[t] = Entering[t]
  BY EnteringTypes
<1>2. SumOver(Entering, bound.threads) \in Int /\ SumOver(Entering, bound.threads) >= 0
  BY <1>1, SumSame
<1>3. Total(pool) \in Int
  <2>1. pool \in SUBSET Tx BY DEF MemTypes, TypeOK
  <2> QED BY <2>1, TotalIsSum
<1>4. Limit \in Int BY EnteringTypes
<1> QED BY <1>2, <1>3, <1>4 DEF Roomy, Expected

\* Nothing is about to be inserted.
LEMMA NothingEnters ==
  ASSUME NEW S, IsFiniteSet(S), NEW f, \A t \in S : f[t] = 0
  PROVE  SumOver(f, S) = 0
<1>1. \A t \in S : f[t] \in Int /\ f[t] >= 0 /\ f[t] <= 0 /\ f[t] = f[t] OBVIOUS
<1>2. SumOver(f, S) \in Int /\ SumOver(f, S) >= 0 BY <1>1, SumSame
<1>3. SumOver(f, S) <= 0 * Cardinality(S) BY <1>1, SumBounded
<1>4. Cardinality(S) \in Nat BY FS_CardinalityType
<1>5. 0 * Cardinality(S) = 0 BY <1>4
<1> QED BY <1>2, <1>3, <1>5

\* Where room is made, taken or left alone.
LEMMA RoomKinds ==
  ASSUME MemTypes, MemTypes', Roomy, Sized, NEW t \in bound.threads,
         Work(t) \/ Start(t) \/ Mined(t)
  PROVE  Expected' <= Limit' /\ UNCHANGED bound
<1> USE DEF life, memory
<1>1. t \in Handler BY EnteringTypes
<1>2. OthersStay(t) BY <1>1, ThreadAlone
<1>3. ASSUME (\E S : Drop(S)) \/ UNCHANGED pool PROVE Total(pool') <= Total(pool)
  <2>1. pool \in SUBSET Tx BY DEF MemTypes, TypeOK
  <2>2. Total(pool) <= Total(pool) BY <2>1, TotalIsSum
  <2> QED BY <1>3, <2>2, DropShrinks DEF MemTypes
<1>4. ASSUME UNCHANGED bound, pc'[t] # "insert", (\E S : Drop(S)) \/ UNCHANGED pool
      PROVE  Expected' <= Limit' /\ UNCHANGED bound
  <2>1. Total(pool') <= Total(pool) BY <1>3, <1>4
  <2> QED BY <1>2, <1>4, <2>1, RoomKept
<1>5. CASE Quiet(t)
  BY <1>4, <1>5 DEF Quiet
<1>6. CASE Judge(t)
  <2>1. UNCHANGED bound /\ UNCHANGED pool BY <1>6 DEF Judge
  <2>2. pc'[t] # "insert" BY <1>1, <1>6 DEF Judge, Refused, Goto, MemTypes, TypeOK
  <2> QED BY <1>4, <2>1, <2>2
<1>7. CASE FindConflicts(t)
  <2>1. UNCHANGED bound /\ UNCHANGED pool BY <1>7 DEF FindConflicts
  <2>2. pc'[t] # "insert" BY <1>1, <1>7 DEF FindConflicts, Refused, Goto, MemTypes, TypeOK
  <2> QED BY <1>4, <2>1, <2>2
<1>8. CASE Replace(t)
  <2>1. UNCHANGED bound /\ \E S : Drop(S) BY <1>8 DEF Replace
  <2>2. pc'[t] # "insert" BY <1>1, <1>8 DEF Replace, Goto, MemTypes, TypeOK
  <2> QED BY <1>4, <2>1, <2>2
<1>9. CASE EnsureSpace(t)
  <2>1. UNCHANGED bound BY <1>9 DEF EnsureSpace
  <2> QED BY <1>2, <1>9, <2>1, RoomMade
<1>10. CASE Insert(t)
  <2>1. UNCHANGED bound BY <1>10 DEF Insert
  <2> QED BY <1>2, <1>10, <2>1, RoomTaken
<1>11. CASE Flush(t) \/ FlushClear(t) \/ FlushWrite(t)
  <2>1. UNCHANGED bound /\ UNCHANGED pool BY <1>11 DEF Flush, FlushClear, FlushWrite
  <2>2. pc'[t] # "insert" BY <1>1, <1>11 DEF Flush, FlushClear, FlushWrite, Goto, MemTypes, TypeOK
  <2> QED BY <1>4, <2>1, <2>2
<1> QED BY <1>1, <1>5, <1>6, <1>7, <1>8, <1>9, <1>10, <1>11, ThreadKinds

\* What is written and what is stored was the pool before.
LEMMA StoreWithin ==
  ASSUME MemTypes, Roomy, StoreInv, Sized, UNCHANGED bound,
         \/ Elsewhere \/ Tick
         \/ \E t \in Handler : Insert(t) \/ Flush(t) \/ FlushClear(t) \/ FlushWrite(t)
  PROVE  /\ \A t \in Handler : Total(snap'[t]) <= Limit'
         /\ ~crossed' => Total(kvPool') <= Limit'
<1>1. /\ Limit' = Limit /\ \A t \in Handler : Total(snap[t]) <= Limit
      /\ ~crossed => Total(kvPool) <= Limit
  BY DEF Limit, Roomy
<1>2. Total({}) <= Limit
  <2>1. {} \in SUBSET Tx OBVIOUS
  <2>2. Total({}) = 0 BY <2>1, TotalIsSum, SumEmpty
  <2> QED BY <2>2, EnteringTypes
<1>3. CASE UNCHANGED <<kvPool, snap, crossed>>
  BY <1>1, <1>3
<1>4. ASSUME NEW t \in Handler, Flush(t)
      PROVE  /\ \A u \in Handler : Total(snap'[u]) <= Limit'
             /\ ~crossed' => Total(kvPool') <= Limit'
  <2>1. /\ kvPool' = kvPool
        /\ crossed' = (crossed \/ \E u \in Handler : Writing(u)) \/ crossed' = crossed
    BY <1>4 DEF Flush
  <2>2. snap' = snap \/ snap' = [snap EXCEPT ![t] = pool] BY <1>4 DEF Flush
  <2>3. \A u \in Handler : snap'[u] = snap[u] \/ snap'[u] = pool
    BY <2>2 DEF MemTypes, TypeOK
  <2>4. Total(pool) <= Limit BY PoolWithin
  <2> QED BY <1>1, <2>1, <2>3, <2>4
<1>5. ASSUME NEW t \in Handler, FlushClear(t)
      PROVE  /\ \A u \in Handler : Total(snap'[u]) <= Limit'
             /\ ~crossed' => Total(kvPool') <= Limit'
  <2>1. kvPool' = {} /\ snap' = snap BY <1>5 DEF FlushClear, hand
  <2> QED BY <1>1, <1>2, <2>1
<1>6. ASSUME NEW t \in Handler, FlushWrite(t)
      PROVE  /\ \A u \in Handler : Total(snap'[u]) <= Limit'
             /\ ~crossed' => Total(kvPool') <= Limit'
  <2>1. /\ kvPool' = kvPool \cup snap[t] /\ snap' = [snap EXCEPT ![t] = {}]
        /\ crossed' = crossed /\ pc[t] = "write"
    BY <1>6 DEF FlushWrite, life
  <2>2. ~crossed => kvPool = {} BY <2>1 DEF StoreInv, OneWriter, Writes
  <2>3. \A u \in Handler : snap'[u] = IF u = t THEN {} ELSE snap[u]
    BY <2>1 DEF MemTypes, TypeOK
  <2>4. ~crossed' => kvPool' = snap[t] BY <2>1, <2>2
  <2> QED BY <1>1, <1>2, <2>3, <2>4
<1>7. Elsewhere \/ Tick \/ (\E t \in Handler : Insert(t)) => UNCHANGED <<kvPool, snap, crossed>>
  BY DEF Elsewhere, Tick, Insert, hand, life
<1> QED BY <1>3, <1>4, <1>5, <1>6, <1>7

\* Only a restart counts one, and a crossing is not forgotten.
LEMMA SizedBefore ==
  ASSUME Next, ~Restart, MemTypes, Sized'
  PROVE  Sized
<1> USE DEF life, Sized
<1>1. CASE Tick BY <1>1 DEF Tick
<1>2. ASSUME NEW t \in Handler, Work(t) PROVE Sized
  BY <1>2 DEF Work, Offer, Judge, QueueOrphan, QueueAgain, FindConflicts, Replace, EnsureSpace,
     Insert, Flush, FlushClear, FlushWrite, FlushNow, RecheckOrphans, ClearOrphans, EndRecheck,
     Readd, RemoveConfirmed, DropConflicts, PruneStale
<1>3. ASSUME NEW t \in Handler, Start(t) \/ Mined(t) PROVE Sized
  BY <1>3 DEF Start, ReceiveTx, ReceiveMempool, ConnectBlock, SwapTip, ReplaceChain,
     BuildCandidate, Mined
<1> QED BY <1>1, <1>2, <1>3, BoundFields DEF Next, MemTypes, TypeOK

\* Every step leaves room.
LEMMA StepRoomy == MemTypes /\ StoreInv /\ Roomy /\ [Next]_vars => Roomy'
<1> SUFFICES ASSUME MemTypes, StoreInv, Roomy, [Next]_vars PROVE Roomy'
  OBVIOUS
<1>1. MemTypes' BY StepTypes
<1>2. CASE Restart
  <2>1. /\ pool' = kvPool /\ UNCHANGED <<kvPool, bound, crossed>>
        /\ restarts' = restarts + 1 /\ restarts \in Nat
    BY <1>2 DEF Restart, MemTypes, TypeOK
  <2>2. ~Sized' \/ ~crossed BY <2>1 DEF Sized
  <2>3. SUFFICES ASSUME ~crossed PROVE Roomy'
    BY <2>1, <2>2 DEF Roomy
  <2>4. Total(kvPool) <= Limit BY <2>3 DEF Roomy
  <2>5. \A t \in Handler : pc'[t] # "insert" /\ snap'[t] = {} BY <1>2 DEF Restart
  <2>6. SumOver(Entering', bound'.threads) = 0
    <3>1. IsFiniteSet(bound.threads) /\ bound.threads \in SUBSET Handler
      BY EnteringTypes
    <3>2. \A t \in bound.threads : Entering'[t] = 0 BY <2>5, <3>1 DEF Entering
    <3> QED BY <2>1, <3>1, <3>2, NothingEnters
  <2>7. Limit' = Limit BY <2>1 DEF Limit
  <2>8. kvPool \in SUBSET Tx /\ {} \in SUBSET Tx BY DEF MemTypes, TypeOK
  <2>9. Total(kvPool) \in Int /\ Total({}) = 0 /\ Limit \in Int /\ Limit >= 0
    BY <2>8, TotalIsSum, SumEmpty, EnteringTypes
  <2>10. Expected' = Total(kvPool) BY <2>1, <2>6, <2>9 DEF Expected
  <2> QED BY <2>1, <2>4, <2>5, <2>7, <2>9, <2>10 DEF Roomy
<1>3. ASSUME Sized, Expected' <= Limit', UNCHANGED bound,
             \/ Elsewhere \/ Tick
             \/ \E t \in Handler : Insert(t) \/ Flush(t) \/ FlushClear(t) \/ FlushWrite(t)
      PROVE  Roomy'
  BY <1>3, StoreWithin DEF Roomy
<1>4. ASSUME Sized, UNCHANGED <<pool, pc, tx, bound>> PROVE Expected' <= Limit' /\ UNCHANGED bound
  <2>1. Expected' = Expected /\ Limit' = Limit BY <1>4 DEF Expected, Limit, Entering
  <2> QED BY <1>4, <2>1 DEF Roomy
<1>5. CASE UNCHANGED vars
  <2>1. UNCHANGED <<pool, pc, tx, bound, kvPool, snap, crossed, restarts>>
    BY <1>5 DEF vars, memory, store, hand, life
  <2> QED BY <1>4, <2>1 DEF Roomy, Sized, Limit
<1>6. CASE Next /\ ~Restart /\ ~Sized'
  <2>1. ~Sized' /\ crossed' BY <1>6 DEF Sized
  <2> QED BY <2>1 DEF Roomy
<1>7. CASE Next /\ ~Restart /\ Sized'
  <2>0. Sized BY <1>7, SizedBefore
  <2>1. CASE Tick
    <3>1. UNCHANGED <<pool, pc, tx, bound>> BY <2>1 DEF Tick, memory, hand, life
    <3> QED BY <1>3, <1>4, <2>0, <2>1, <3>1
  <2>2. ASSUME NEW t \in bound.threads, Work(t) \/ Start(t) \/ Mined(t) PROVE Roomy'
    <3>1. Expected' <= Limit' /\ UNCHANGED bound BY <1>1, <2>0, <2>2, RoomKinds
    <3>2. t \in Handler BY EnteringTypes
    <3>3. CASE Work(t)
      <4>1. Elsewhere \/ Insert(t) \/ Flush(t) \/ FlushClear(t) \/ FlushWrite(t)
        BY <3>2, <3>3, CallsElsewhere, ScriptsElsewhere DEF Work
      <4> QED BY <1>3, <2>0, <3>1, <3>2, <4>1
    <3>4. CASE Start(t) \/ Mined(t)
      <4>1. Elsewhere BY <3>2, <3>4, StartsElsewhere DEF Start
      <4> QED BY <1>3, <2>0, <3>1, <4>1
    <3> QED BY <2>2, <3>3, <3>4
  <2> QED BY <1>7, <2>1, <2>2 DEF Next
<1> QED BY <1>2, <1>5, <1>6, <1>7

\* add_tx makes space and takes it under separate holds of the lock: the pool
\* outgrows its limit by one transaction per other thread at most, for any
\* number of threads, and over restarts that load what one flush at a time wrote.
THEOREM SizeAlwaysBounded == Spec => []SizeBounded
<1>1. Init => MemTypes /\ StoreInv /\ Roomy
  <2> SUFFICES ASSUME Init PROVE MemTypes /\ StoreInv /\ Roomy
    OBVIOUS
  <2>1. MemTypes BY MempoolInitTypes
  <2>2. StoreInv BY DEF Init, StoreInv, OneWriter, CleanIsStored, Writing, Writes
  <2>3. /\ pool = {} /\ kvPool = {} /\ \A t \in Handler : snap[t] = {}
        /\ \A t \in Handler : pc[t] # "insert"
    BY DEF Init
  <2>4. {} \in SUBSET Tx OBVIOUS
  <2>5. Total({}) = 0 /\ Limit \in Int /\ Limit >= 0
    BY <2>1, <2>4, TotalIsSum, SumEmpty, EnteringTypes
  <2>6. SumOver(Entering, bound.threads) = 0
    <3>1. IsFiniteSet(bound.threads) /\ bound.threads \in SUBSET Handler
      BY <2>1, EnteringTypes
    <3>2. \A t \in bound.threads : Entering[t] = 0 BY <2>3, <3>1 DEF Entering
    <3> QED BY <3>1, <3>2, NothingEnters
  <2>7. Expected = 0 BY <2>3, <2>5, <2>6 DEF Expected
  <2> QED BY <2>1, <2>2, <2>3, <2>5, <2>7 DEF Roomy
<1>2. MemTypes /\ StoreInv /\ Roomy /\ [Next]_vars => (MemTypes /\ StoreInv /\ Roomy)'
  BY StepTypes, StepStore, StepRoomy
<1>3. MemTypes /\ Roomy => SizeBounded
  BY PoolWithin DEF SizeBounded, Limit, Sized
<1> QED BY <1>1, <1>2, <1>3, PTL DEF Spec

=============================================================================
