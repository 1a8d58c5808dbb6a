------------------------------- MODULE Mempool -------------------------------
(***************************************************************************)
(* The transaction pool of one node and the threads that use it: handler   *)
(* threads offer transactions (gossip, a peer's pool, a reorganisation),   *)
(* connect blocks and clean the pool after them, and mine.                 *)
(*                                                                         *)
(* TxPool guards its dictionaries with a lock per operation, and           *)
(* add_valid_tx is a series of such operations: judging a transaction,     *)
(* looking for conflicts, removing them, making space and inserting are    *)
(* separate steps here, and so are the snapshot and the two LMDB           *)
(* transactions of a flush, which another flush may cross.                 *)
(* A change of the ledger is one step: ChainNode models what it is made of.*)
(***************************************************************************)
EXTENDS Integers, Sequences, FiniteSets, FiniteSetsExt, SequencesExt

CONSTANTS
  Handler,     \* threads
  Tx,          \* transactions that pass the rules of form and signature
  NoTx,
  Coin,        \* transaction outputs
  BaseCoins,   \* outputs that exist before the first block of the model
  Spends,      \* Spends[x]: the prevouts of x
  Creates,     \* Creates[x]: its outputs
  Fee, Size,   \* integers per transaction
  Rank,        \* the order of txids, which breaks ties of the fee heap
  Post,        \* the transactions that carry a graffiti POST
  MaxSize,     \* CFG.MEMPOOL_MAX_SIZE
  MaxPosts,    \* CFG.MAX_GRAFFITI_ON_MEMPOOL
  Pushes,      \* bound: what a peer may push of its pool
  BlockSize,   \* bound: transactions in a block
  Bounds       \* bound: what an instance explores; see BoundsAssumption

ASSUME TxAssumption ==
  /\ NoTx \notin Tx
  /\ IsFiniteSet(Tx)
  /\ BaseCoins \subseteq Coin
  /\ Spends \in [Tx -> SUBSET Coin]
  /\ Creates \in [Tx -> SUBSET Coin]
  /\ Fee \in [Tx -> Nat]
  /\ Size \in [Tx -> Nat \ {0}]
  /\ Rank \in [Tx -> Nat]
  /\ Post \subseteq Tx
  /\ Pushes \subseteq SUBSET Tx
\* MAX_TX_VSIZE is far below MEMPOOL_MAX_SIZE.
ASSUME SizeAssumption == \A x \in Tx : Size[x] <= MaxSize
ASSUME BoundsAssumption ==
  /\ IsFiniteSet(Handler)
  /\ MaxSize \in Nat /\ MaxPosts \in Nat /\ BlockSize \in Nat
  /\ Bounds \subseteq
       [threads : SUBSET Handler, \* the threads at work
        ledger : SUBSET Handler,  \* those among them that connect blocks and mine
        txs : SUBSET Tx,          \* the transactions there are
        flushes : BOOLEAN,        \* whether the flush interval ever passes
        moves : Nat,              \* changes of the ledger
        restarts : Nat]           \* restarts of the process

VARIABLES
  blocks,     \* the chain above the base: per block, its transactions
  version,    \* UTXODB._version
  pool,       \* _pool
  index,      \* _prevout_index
  orphans,    \* _orphan_pool
  reason,     \* last_error_reason, one field for all threads
  dirty,      \* _dirty
  recent,     \* less than MEMPOOL_FLUSH_INTERVAL has passed since _last_flush
  pruned,     \* _last_prune_version, -1 for None
  kvPool,     \* the LMDB mempool
  pc, tx,     \* per thread: next step, transaction in hand
  todo,       \* per thread: transactions still to offer to add_valid_tx
  script,     \* per thread: what follows when todo is empty
  rivals,     \* per thread: conflicts still to remove
  snap,       \* per thread: the entries a flush writes
  cand,       \* per thread: transactions of the block being mined
  base,       \* per thread: the blocks below that candidate
  restarts,
  crossed,    \* history: a flush has begun before another was written
  bound       \* the member of Bounds explored

ledger == <<blocks, version>>
memory == <<pool, index>>
store  == <<dirty, recent, kvPool>>
queue  == <<todo, script>>
hand   == <<tx, rivals, snap>>
mining == <<cand, base>>
life   == <<restarts, crossed, bound>>
vars   == <<ledger, memory, orphans, reason, store, pruned, pc,
            queue, hand, mining, life>>

-----------------------------------------------------------------------------
(* Helpers *)

Goto(t, step) == pc' = [pc EXCEPT ![t] = step]

SpentBy(S) == UNION {Spends[x] : x \in S}
MadeBy(S)  == UNION {Creates[x] : x \in S}

\* UTXODB.utxos after the blocks c.
CoinsOf(c) ==
  LET all == UNION {c[i] : i \in DOMAIN c}
  IN  (BaseCoins \cup MadeBy(all)) \ SpentBy(all)
Coins == CoinsOf(blocks)

Disjoint(S) == \A x, y \in S : x # y => Spends[x] \cap Spends[y] = {}

\* current_size, which every operation keeps equal to the sum of _size_map.
Total(S) == MapThenSumSet(LAMBDA x : Size[x], S)

\* The fee heap's order: fee rate, then txid.
Cheaper(x, y) ==
  \/ Fee[x] * Size[y] < Fee[y] * Size[x]
  \/ Fee[x] * Size[y] = Fee[y] * Size[x] /\ Rank[x] < Rank[y]

\* Mutant: the keys of the dictionary go with their values.
Unindexed_Shrinks(ix, S) == [c \in Coin \ SpentBy(S) |-> ix[c]]
\* _drop_tx_prevouts: the prevouts of x leave the index, whoever owns them.
Unindexed(ix, S) == [c \in Coin |-> IF c \in SpentBy(S) THEN NoTx ELSE ix[c]]
\* _index_tx_prevouts: the last transaction to come owns its prevouts.
Indexed(ix, x) == [c \in Coin |-> IF c \in Spends[x] THEN x ELSE ix[c]]

\* Mutant: only the entries leave, their prevouts stay indexed.
Drop_KeepsIndex(S) ==
  /\ pool' = pool \ S
  /\ UNCHANGED index
  /\ dirty' = (dirty \/ S \cap pool # {})

\* remove_tx, remove_many and the removals of the policy.
Drop(S) ==
  /\ pool' = pool \ S
  /\ index' = Unindexed(index, S \cap pool)
  /\ dirty' = (dirty \/ S \cap pool # {})

-----------------------------------------------------------------------------
(* Start and restart *)

\* The prevout index _hydrate_pool builds: of rivals, the last in key order.
Hydrated(S) ==
  [c \in Coin |->
     LET last == {x \in S : /\ c \in Spends[x]
                            /\ \A y \in S : c \in Spends[y] => Rank[y] <= Rank[x]}
     IN  IF last = {} THEN NoTx ELSE CHOOSE x \in last : TRUE]

Init ==
  /\ blocks = <<>> /\ version = 0
  /\ pool = {} /\ index = [c \in Coin |-> NoTx]
  /\ orphans = {} /\ reason = "none"
  /\ dirty = FALSE /\ recent = TRUE /\ kvPool = {}
  /\ pruned = -1 /\ restarts = 0 /\ crossed = FALSE /\ bound \in Bounds
  /\ pc = [t \in Handler |-> "work"]
  /\ tx = [t \in Handler |-> NoTx]
  /\ todo = [t \in Handler |-> {}]
  /\ script = [t \in Handler |-> <<>>]
  /\ rivals = [t \in Handler |-> {}]
  /\ snap = [t \in Handler |-> {}]
  /\ cand = [t \in Handler |-> {}]
  /\ base = [t \in Handler |-> <<>>]

\* A kill at any point, and TxPool.__init__ in the next process.
Restart ==
  /\ restarts < bound.restarts
  /\ restarts' = restarts + 1
  /\ pool' = kvPool /\ index' = Hydrated(kvPool)
  /\ orphans' = {} /\ reason' = "none"
  /\ dirty' = FALSE /\ recent' = TRUE
  /\ pruned' = -1
  /\ pc' = [t \in Handler |-> "work"]
  /\ tx' = [t \in Handler |-> NoTx]
  /\ todo' = [t \in Handler |-> {}]
  /\ script' = [t \in Handler |-> <<>>]
  /\ rivals' = [t \in Handler |-> {}]
  /\ snap' = [t \in Handler |-> {}]
  /\ cand' = [t \in Handler |-> {}]
  /\ base' = [t \in Handler |-> <<>>]
  /\ UNCHANGED <<ledger, kvPool, crossed, bound>>

-----------------------------------------------------------------------------
(* Where transactions come from *)

Idle(t) == pc[t] = "work" /\ todo[t] = {} /\ script[t] = <<>>

\* receive_tx, of a transaction that seen_txs lets pass (Dandelion).
ReceiveTx(t, x) ==
  /\ Idle(t)
  /\ todo' = [todo EXCEPT ![t] = {x}]
  /\ UNCHANGED <<ledger, memory, orphans, reason, store, pruned, pc, script,
                 hand, mining, life>>

\* receive_mempool: a peer pushes some of its pool.
ReceiveMempool(t, S) ==
  /\ Idle(t)
  /\ todo' = [todo EXCEPT ![t] = S]
  /\ script' = [script EXCEPT ![t] = <<[op |-> "recheck", txs |-> {}],
                                       [op |-> "flush", txs |-> {}]>>]
  /\ UNCHANGED <<ledger, memory, orphans, reason, store, pruned, pc,
                 hand, mining, life>>

-----------------------------------------------------------------------------
(* add_valid_tx *)

\* validate_transaction: the limit on pooled posts is looked at only when
\* the caller leaves spend_at_height to its default, which none does.
Valid(x, coins, at) ==
  /\ Spends[x] \subseteq coins
  /\ at = "default" /\ x \in Post =>
       MaxPosts = 0 \/ Cardinality(pool \cap Post) < MaxPosts

\* A call of add_valid_tx begins: the reason is cleared, for every thread.
Offer(t) ==
  /\ pc[t] = "work"
  /\ \E x \in todo[t] :
       /\ todo' = [todo EXCEPT ![t] = @ \ {x}]
       /\ tx' = [tx EXCEPT ![t] = x]
  /\ reason' = "none"
  /\ Goto(t, "judge")
  /\ UNCHANGED <<ledger, memory, orphans, store, pruned, script,
                 rivals, snap, mining, life>>

\* It is over; recheck_orphans looks at the reason of a refusal once more.
Retrying(t) == script[t] # <<>> /\ Head(script[t]).op = "retrying"
Refused(t) ==
  IF Retrying(t) THEN Goto(t, "refused") /\ UNCHANGED tx
                 ELSE Goto(t, "work") /\ tx' = [tx EXCEPT ![t] = NoTx]

\* has_tx and validate_transaction; the outcome is left in the shared reason.
Judge(t) ==
  /\ pc[t] = "judge"
  /\ \/ /\ tx[t] \in pool
        /\ reason' = "other"
        /\ Refused(t)
     \/ /\ tx[t] \notin pool /\ Valid(tx[t], Coins, "tip + 1")
        /\ Goto(t, "conflicts")
        /\ UNCHANGED <<reason, tx>>
     \/ /\ tx[t] \notin pool /\ ~Valid(tx[t], Coins, "tip + 1")
        /\ reason' = "missing"
        /\ Goto(t, "failed")
        /\ UNCHANGED tx
  /\ UNCHANGED <<ledger, memory, orphans, store, pruned, queue,
                 rivals, snap, mining, life>>

\* Lines 184-193: an orphan only if the shared reason still says so.
QueueOrphan(t) ==
  /\ pc[t] = "failed"
  /\ IF reason = "missing"
     THEN orphans' = orphans \cup {tx[t]} /\ reason' = "waiting"
     ELSE UNCHANGED orphans /\ reason' = IF reason = "none" THEN "other" ELSE reason
  /\ Refused(t)
  /\ UNCHANGED <<ledger, memory, store, pruned, queue,
                 rivals, snap, mining, life>>

\* Lines 27-31 of recheck_orphans, by the shared reason.
QueueAgain(t) ==
  /\ pc[t] = "refused"
  /\ orphans' = IF reason \in {"missing", "waiting"} THEN orphans \cup {tx[t]} ELSE orphans
  /\ tx' = [tx EXCEPT ![t] = NoTx]
  /\ Goto(t, "work")
  /\ UNCHANGED <<ledger, memory, reason, store, pruned, queue,
                 rivals, snap, mining, life>>

\* Mutant: posts are never replaced.
Conflicts_SparesPosts(x) == {index[c] : c \in Spends[x]} \cap (pool \ Post)

\* The owners of its prevouts according to the index, read without the lock.
Conflicts(x) == {index[c] : c \in Spends[x]} \cap pool

\* Replace by fee: a better rate than every rival, or a fee above each.
Outbids(x, S) ==
  \/ \A y \in S : Fee[x] * Size[y] > Fee[y] * Size[x]
  \/ \A y \in S : Fee[x] > Fee[y]

FindConflicts(t) ==
  /\ pc[t] = "conflicts"
  /\ LET old == Conflicts(tx[t])
     IN \/ /\ old = {} \/ Outbids(tx[t], old)
           /\ rivals' = [rivals EXCEPT ![t] = old]
           /\ Goto(t, IF old = {} THEN "space" ELSE "replace")
           /\ UNCHANGED <<reason, tx>>
        \/ /\ old # {} /\ ~Outbids(tx[t], old)
           /\ reason' = "other"
           /\ Refused(t)
           /\ UNCHANGED rivals
  /\ UNCHANGED <<ledger, memory, orphans, store, pruned, queue,
                 snap, mining, life>>

\* remove_tx of one rival after the other.
Replace(t) ==
  /\ pc[t] = "replace"
  /\ \E y \in rivals[t] :
       /\ Drop({y})
       /\ rivals' = [rivals EXCEPT ![t] = @ \ {y}]
       /\ Goto(t, IF rivals[t] = {y} THEN "space" ELSE "replace")
  /\ UNCHANGED <<ledger, orphans, reason, recent, kvPool, pruned,
                 queue, tx, snap, mining, life>>

\* Mutant: space is made for what is there, not for what is to come.
Evicted_IgnoresNewcomer(x) ==
  LET target == Total(pool) - MaxSize
  IN  {y \in pool : Total({z \in pool : Cheaper(z, y)}) < target}

\* _ensure_space: the cheapest entries go until enough is freed.
Evicted(x) ==
  LET target == Total(pool) + Size[x] - MaxSize
  IN  {y \in pool : Total({z \in pool : Cheaper(z, y)}) < target}

EnsureSpace(t) ==
  /\ pc[t] = "space"
  /\ Drop(Evicted(tx[t]))
  /\ Goto(t, "insert")
  /\ UNCHANGED <<ledger, orphans, reason, recent, kvPool, pruned,
                 queue, hand, mining, life>>

\* add_tx under the lock.
Insert(t) ==
  /\ pc[t] = "insert"
  /\ pool' = pool \cup {tx[t]}
  /\ index' = Indexed(index, tx[t])
  /\ dirty' = TRUE
  /\ tx' = [tx EXCEPT ![t] = NoTx]
  /\ Goto(t, "flush")
  /\ UNCHANGED <<ledger, orphans, reason, recent, kvPool, pruned,
                 queue, rivals, snap, mining, life>>

-----------------------------------------------------------------------------
(* flush *)

\* Time passes, whether or not a flush is still being written.
Tick ==
  /\ recent /\ bound.flushes
  /\ recent' = FALSE
  /\ UNCHANGED <<ledger, memory, orphans, reason, dirty, kvPool,
                 pruned, pc, queue, hand, mining, life>>

\* Between the snapshot and the end of the batch.
Writing(t) == pc[t] \in {"clear", "write"}

\* The snapshot, under the lock; the store is written without it.
Flush(t) ==
  /\ pc[t] = "flush"
  /\ \/ /\ dirty /\ ~recent
        /\ snap' = [snap EXCEPT ![t] = pool]
        /\ dirty' = FALSE
        /\ recent' = TRUE
        /\ crossed' = (crossed \/ \E u \in Handler : Writing(u))
        /\ Goto(t, "clear")
     \/ /\ ~dirty \/ recent
        /\ Goto(t, "work")
        /\ UNCHANGED <<snap, dirty, recent, crossed>>
  /\ UNCHANGED <<ledger, memory, orphans, reason, kvPool, pruned, queue, tx,
                 rivals, mining, restarts, bound>>

\* clear_db, then the batch: two LMDB transactions.
FlushClear(t) ==
  /\ pc[t] = "clear"
  /\ kvPool' = {}
  /\ Goto(t, "write")
  /\ UNCHANGED <<ledger, memory, orphans, reason, dirty, recent, pruned, queue,
                 hand, mining, life>>

\* Mutant: the pool is marked clean when the write is over.
FlushWrite_Cleans(t) ==
  /\ pc[t] = "write"
  /\ kvPool' = kvPool \cup snap[t]
  /\ snap' = [snap EXCEPT ![t] = {}]
  /\ dirty' = FALSE
  /\ Goto(t, "work")
  /\ UNCHANGED <<ledger, memory, orphans, reason, recent, pruned, queue, tx,
                 rivals, mining, life>>

FlushWrite(t) ==
  /\ pc[t] = "write"
  /\ kvPool' = kvPool \cup snap[t]
  /\ snap' = [snap EXCEPT ![t] = {}]
  /\ Goto(t, "work")
  /\ UNCHANGED <<ledger, memory, orphans, reason, dirty, recent,
                 pruned, queue, tx, rivals, mining, life>>

-----------------------------------------------------------------------------
(* What follows a batch of transactions or a block *)

Op(name, S) == [op |-> name, txs |-> S]

\* The thread runs its next operation: todo is empty.
Runs(t, name) ==
  /\ pc[t] = "work" /\ todo[t] = {}
  /\ script[t] # <<>> /\ Head(script[t]).op = name
Done(t) == script' = [script EXCEPT ![t] = Tail(@)]

FlushNow(t) ==
  /\ Runs(t, "flush") /\ Done(t)
  /\ Goto(t, "flush")
  /\ UNCHANGED <<ledger, memory, orphans, reason, store, pruned,
                 todo, hand, mining, life>>

\* Mutant: nothing is looked at again while the pool is empty.
RecheckOrphans_PoolOnly(t) ==
  /\ Runs(t, "recheck")
  /\ IF orphans = {} \/ pool = {}
     THEN script' = [script EXCEPT ![t] = Tail(@)] /\ UNCHANGED <<todo, pc>>
     ELSE /\ todo' = [todo EXCEPT ![t] = orphans]
          /\ script' = [script EXCEPT ![t] = <<Op("retrying", {})>> \o Tail(@)]
          /\ Goto(t, "retry")
  /\ UNCHANGED <<ledger, memory, orphans, reason, store, pruned, hand, mining,
                 life>>

\* recheck_orphans: the list is taken, then the pool of orphans is replaced
\* by an empty one, then each of the list is offered again.
RecheckOrphans(t) ==
  /\ Runs(t, "recheck")
  /\ IF orphans = {}
     THEN script' = [script EXCEPT ![t] = Tail(@)] /\ UNCHANGED <<todo, pc>>
     ELSE /\ todo' = [todo EXCEPT ![t] = orphans]
          /\ script' = [script EXCEPT ![t] = <<Op("retrying", {})>> \o Tail(@)]
          /\ Goto(t, "retry")
  /\ UNCHANGED <<ledger, memory, orphans, reason, store, pruned,
                 hand, mining, life>>

ClearOrphans(t) ==
  /\ pc[t] = "retry"
  /\ orphans' = {}
  /\ Goto(t, "work")
  /\ UNCHANGED <<ledger, memory, reason, store, pruned, queue,
                 hand, mining, life>>

\* Each of the list has been offered.
EndRecheck(t) ==
  /\ Runs(t, "retrying") /\ Done(t)
  /\ UNCHANGED <<ledger, memory, orphans, reason, store, pruned, pc, todo,
                 hand, mining, life>>

\* The transactions of an abandoned block are offered again.
Readd(t) ==
  /\ Runs(t, "readd") /\ Done(t)
  /\ todo' = [todo EXCEPT ![t] = Head(script[t]).txs]
  /\ UNCHANGED <<ledger, memory, orphans, reason, store, pruned, pc,
                 hand, mining, life>>

\* After a removal _maybe_flush_after_mutation looks at the interval.
FlushIfRemoved(t, S) ==
  IF S \cap pool = {} THEN UNCHANGED pc ELSE Goto(t, "flush")

\* remove_many of the block's transactions.
RemoveConfirmed(t) ==
  /\ Runs(t, "confirm") /\ Done(t)
  /\ Drop(Head(script[t]).txs)
  /\ FlushIfRemoved(t, Head(script[t]).txs)
  /\ UNCHANGED <<ledger, orphans, reason, recent, kvPool, pruned,
                 todo, hand, mining, life>>

\* drop_conflicts: by the index, and by a scan where the index names none.
DropConflicts(t) ==
  /\ Runs(t, "conflicts") /\ Done(t)
  /\ LET spent == SpentBy(Head(script[t]).txs)
         named == {index[c] : c \in spent} \cap pool
         found == IF named # {} THEN named
                  ELSE {x \in pool : Spends[x] \cap spent # {}}
     IN Drop(found) /\ FlushIfRemoved(t, found)
  /\ UNCHANGED <<ledger, orphans, reason, recent, kvPool, pruned,
                 todo, hand, mining, life>>

\* Mutant: only what the chain has spent is stale, not what has vanished.
PruneStale_SpentOnly(t) ==
  /\ Runs(t, "prune") /\ Done(t)
  /\ IF version = pruned
     THEN UNCHANGED <<memory, dirty, pruned>>
     ELSE /\ Drop({x \in pool :
                    \E i \in DOMAIN blocks : Spends[x] \cap SpentBy(blocks[i]) # {}})
          /\ pruned' = version
  /\ UNCHANGED <<ledger, orphans, reason, recent, kvPool, pc, todo, hand,
                 mining, life>>

\* prune_stale_entries: every entry judged again, once per version.
PruneStale(t) ==
  /\ Runs(t, "prune") /\ Done(t)
  /\ IF version = pruned
     THEN UNCHANGED <<memory, dirty, pruned, reason>>
     ELSE LET stale == {x \in pool : ~Valid(x, Coins, "tip + 1")}
          IN  /\ Drop(stale)
              /\ reason' = IF stale = {} THEN reason ELSE "missing"
              /\ pruned' = version
  /\ UNCHANGED <<ledger, orphans, recent, kvPool, pc,
                 todo, hand, mining, life>>

-----------------------------------------------------------------------------
(* The ledger moves *)

\* _prune_mempool_confirmed: nothing for a block of a coinbase only.
AfterBlock(S) ==
  IF S = {} THEN <<>>
  ELSE <<Op("confirm", S), Op("conflicts", S), Op("prune", {})>>
\* _post_add_block_success: old holds the transactions of a swapped tip.
\* (Of flushes in a row one is left: the thread changes nothing in between.)
PostAdd(old) ==
  <<Op("flush", {})>>
    \o (IF old = {} THEN <<>> ELSE <<Op("readd", old), Op("flush", {})>>)
    \o <<Op("recheck", {})>>

\* Blocks the network may come up with on top of c.
NextBlocks(c) ==
  {S \in SUBSET bound.txs :
     Cardinality(S) <= BlockSize /\ SpentBy(S) \subseteq CoinsOf(c) /\ Disjoint(S)}

MoveLedger(c) ==
  /\ version < bound.moves
  /\ version' = version + 1
  /\ blocks' = c

\* receive_block: add_block, then _post_add_block_success.
ConnectBlock(t) ==
  /\ Idle(t)
  /\ \E S \in NextBlocks(blocks) :
       /\ MoveLedger(Append(blocks, S))
       /\ script' = [script EXCEPT ![t] = AfterBlock(S) \o PostAdd({})]
  /\ UNCHANGED <<memory, orphans, reason, store, pruned, pc, todo,
                 hand, mining, life>>

\* receive_block: swap_tip_if_better, then _post_add_block_success.
SwapTip(t) ==
  /\ Idle(t) /\ blocks # <<>>
  /\ \E S \in NextBlocks(Front(blocks)) :
       /\ S # Last(blocks)
       /\ MoveLedger(Append(Front(blocks), S))
       /\ script' = [script EXCEPT ![t] = AfterBlock(S) \o PostAdd(Last(blocks))]
  /\ UNCHANGED <<memory, orphans, reason, store, pruned, pc, todo,
                 hand, mining, life>>

\* _reinject_mempool_from_reorg: the fork is looked for between the new chain
\* and itself, so the old blocks above the new tip are all that come back.
Reinjected(old, new) ==
  UNION {old[i] : i \in (Len(new) + 1)..Len(old)} \ UNION {new[i] : i \in DOMAIN new}

\* replace_with: the last blocks give way to others; nothing is pruned.
ReplaceChain(t) ==
  /\ Idle(t)
  /\ \E k \in 0..(Len(blocks) - 1) :
       LET kept == SubSeq(blocks, 1, k)
       IN \E S \in NextBlocks(kept) :
            LET new == Append(kept, S)
            IN  /\ S # blocks[k + 1]
                /\ MoveLedger(new)
                /\ script' = [script EXCEPT ![t] =
                     <<Op("readd", Reinjected(blocks, new)), Op("recheck", {}),
                       Op("flush", {})>>]
  /\ UNCHANGED <<memory, orphans, reason, store, pruned, pc, todo,
                 hand, mining, life>>

-----------------------------------------------------------------------------
(* Mining: _fetch_sorted_mempool_txs and _build_candidate_block *)

\* Posts first, in some order of arrival; the others by fee.
Precedes(x, y) ==
  \/ x \in Post /\ y \notin Post
  \/ x \notin Post /\ y \notin Post /\ Fee[x] > Fee[y]
Orders(S) == {o \in SetToSeqs(S) :
                \A i, j \in DOMAIN o : i < j => ~Precedes(o[j], o[i])}

\* Mutant: the candidate's own spends are not taken off the coins.
Fits_Stateless(S, x) ==
  /\ Valid(x, Coins \cup MadeBy(S), "tip + 1")
  /\ x \in Post => S \cap Post = {}

\* Each is judged against the coins the accepted ones leave; one post.
Fits(S, x) ==
  /\ Spends[x] \cap SpentBy(S) = {}
  /\ Valid(x, (Coins \cup MadeBy(S)) \ SpentBy(S), "tip + 1")
  /\ x \in Post => S \cap Post = {}

\* What is accepted of the first i transactions of an order.
Taken(order) ==
  LET acc[i \in 0..Len(order)] ==
        IF i = 0 THEN {}
        ELSE acc[i - 1] \cup (IF Fits(acc[i - 1], order[i]) THEN {order[i]} ELSE {})
  IN  acc
Candidate(order) == Taken(order)[Len(order)]

\* Some were judged, and refused for a prevout that is missing.
Refuses(order) ==
  \E i \in 1..Len(order) :
    LET S == Taken(order)[i - 1]
    IN  /\ Spends[order[i]] \cap SpentBy(S) = {}
        /\ ~Valid(order[i], (Coins \cup MadeBy(S)) \ SpentBy(S), "tip + 1")

BuildCandidate(t) ==
  /\ Idle(t)
  /\ \E order \in Orders(pool) :
       /\ cand' = [cand EXCEPT ![t] = Candidate(order)]
       /\ reason' = IF Refuses(order) THEN "missing" ELSE reason
  /\ base' = [base EXCEPT ![t] = blocks]
  /\ Goto(t, "mine")
  /\ UNCHANGED <<ledger, memory, orphans, store, pruned,
                 queue, hand, life>>

\* Found, still on the tip and judged again; or in vain.
Mined(t) ==
  /\ pc[t] = "mine"
  /\ \/ /\ base[t] = blocks
        /\ MoveLedger(Append(blocks, cand[t]))
        /\ script' = [script EXCEPT ![t] = AfterBlock(cand[t]) \o <<Op("flush", {})>>]
        /\ Goto(t, "work")
     \/ /\ UNCHANGED <<ledger, script>>
        /\ Goto(t, "work")
  /\ cand' = [cand EXCEPT ![t] = {}]
  /\ base' = [base EXCEPT ![t] = <<>>]
  /\ UNCHANGED <<memory, orphans, reason, store, pruned, todo, hand,
                 life>>

-----------------------------------------------------------------------------
(* The specification *)

Work(t) ==
  \/ Offer(t) \/ Judge(t) \/ QueueOrphan(t) \/ QueueAgain(t)
  \/ FindConflicts(t) \/ Replace(t)
  \/ EnsureSpace(t) \/ Insert(t)
  \/ Flush(t) \/ FlushClear(t) \/ FlushWrite(t)
  \/ FlushNow(t) \/ RecheckOrphans(t) \/ ClearOrphans(t) \/ EndRecheck(t)
  \/ Readd(t) \/ RemoveConfirmed(t) \/ DropConflicts(t) \/ PruneStale(t)

Start(t) ==
  \/ \E x \in bound.txs : ReceiveTx(t, x)
  \/ \E S \in Pushes : ReceiveMempool(t, S \cap bound.txs)
  \/ /\ t \in bound.ledger
     /\ ConnectBlock(t) \/ SwapTip(t) \/ ReplaceChain(t) \/ BuildCandidate(t)

Next ==
  \/ Restart
  \/ Tick
  \/ \E t \in bound.threads : Work(t) \/ Start(t) \/ Mined(t)

Spec == Init /\ [][Next]_vars

\* Threads finish what they began; nothing more has to come.
FairSpec ==
  /\ Spec
  /\ \A t \in Handler : WF_vars(t \in bound.threads /\ (Work(t) \/ Mined(t)))

-----------------------------------------------------------------------------
(* Properties *)

Step == {"work", "judge", "failed", "refused", "conflicts", "replace", "space",
         "insert", "flush", "clear", "write", "retry", "mine"}
OpName == {"flush", "recheck", "retrying", "readd", "confirm", "conflicts", "prune"}
Operation == [op : OpName, txs : SUBSET Tx]

TypeOK ==
  /\ blocks \in Seq(SUBSET Tx) /\ version \in Nat
  /\ pool \in SUBSET Tx /\ index \in [Coin -> Tx \cup {NoTx}]
  /\ orphans \in SUBSET Tx /\ reason \in {"none", "missing", "waiting", "other"}
  /\ dirty \in BOOLEAN /\ recent \in BOOLEAN /\ kvPool \in SUBSET Tx
  /\ pruned \in Nat \cup {-1}
  /\ pc \in [Handler -> Step]
  /\ tx \in [Handler -> Tx \cup {NoTx}]
  /\ todo \in [Handler -> SUBSET Tx]
  /\ script \in [Handler -> Seq(Operation)]
  /\ rivals \in [Handler -> SUBSET Tx] /\ snap \in [Handler -> SUBSET Tx]
  /\ cand \in [Handler -> SUBSET Tx] /\ base \in [Handler -> Seq(SUBSET Tx)]
  /\ restarts \in Nat /\ crossed \in BOOLEAN /\ bound \in Bounds

\* Whoever the prevout index names is in the pool and spends that prevout,
\* whatever the threads' order: is_prevout_spent never blocks a free coin.
IndexSound ==
  \A c \in Coin : index[c] # NoTx => index[c] \in pool /\ c \in Spends[index[c]]

\* No two calls overlap.
Alone == Cardinality(bound.threads) = 1

\* With one thread at work no two entries spend one output and the index
\* knows every prevout; only overlapping calls of add_valid_tx break this.
SerialConflictFree ==
  Alone => Disjoint(pool) /\ \A x \in pool : \A c \in Spends[x] : index[c] = x

\* Space is made and taken under separate holds of the lock: the pool outgrows
\* MEMPOOL_MAX_SIZE by at most one transaction per other thread, unless a
\* restart has loaded what two crossing flushes left.
Largest == Max({0} \cup {Size[x] : x \in Tx})
SizeBounded ==
  ~crossed \/ restarts = 0 =>
    Total(pool) <= MaxSize + Largest * (Cardinality(bound.threads) - 1)

\* With one thread at work, a pool pruned for the current UTXO version holds
\* spendable transactions only: the version check skips no due pruning.
PrunedIsSpendable ==
  Alone /\ pruned = version => SpentBy(pool) \subseteq Coins

\* Unless a flush has begun before another was written, a pool that is not
\* dirty and not being written is the one on disk: what changes between the
\* snapshot, the clearing and the batch is not lost.
CleanIsStored ==
  ~crossed /\ ~dirty /\ (\A t \in Handler : ~Writing(t)) => kvPool = pool

\* A candidate whose parent is still the tip spends each output once, only
\* outputs that exist, and carries at most one POST, whatever is pooled.
CandidateApplies ==
  \A t \in Handler :
    pc[t] = "mine" /\ base[t] = blocks =>
      /\ Disjoint(cand[t])
      /\ SpentBy(cand[t]) \subseteq Coins \cup MadeBy(cand[t])
      /\ Cardinality(cand[t] \cap Post) <= 1

\* receive_mempool gets past its tests of the sync state again and again.
PoolsKeepComing ==
  []<><<\E t \in bound.threads :
          \E S \in Pushes : ReceiveMempool(t, S \cap bound.txs)>>_vars

\* As long as pools are received, an orphan whose prevouts have appeared is
\* looked at again: it leaves the orphans, or a prevout is gone. The node owes
\* its peers no such message, so without them an orphan may stay.
OrphansRevisited ==
  PoolsKeepComing =>
    \A x \in Tx :
      x \in orphans /\ Spends[x] \subseteq Coins
        ~> x \notin orphans \/ ~(Spends[x] \subseteq Coins)
=============================================================================
