------------------------------ MODULE ChainNode ------------------------------
(***************************************************************************)
(* One full node's ledger: the in-memory chain and UTXO set, the LMDB      *)
(* stores behind them, and the threads that share them.  Connection and    *)
(* sync threads ingest blocks (receive_block, replace_with), miner threads *)
(* of the same process produce them (mine_block), one worker persists the  *)
(* chain in the background, and the main thread stops the node.            *)
(*                                                                         *)
(* A step of a thread is the code between two points at which another      *)
(* thread can be seen: lock boundaries, unlocked reads and writes of       *)
(* shared state, and LMDB transactions.  pc names the next step.           *)
(***************************************************************************)
EXTENDS BlockTree

CONSTANTS
  Net,          \* connection threads and the sync thread
  Miners,       \* mining threads sharing the node's Blockchain object
  Worker,       \* tsarchain.persist
  Main,         \* the thread that runs shutdown
  NoThread,     \* no holder of a lock
  NoHeight,     \* None as a height
  Stored,       \* the chain an earlier run left in the data directory
  Branches,     \* the block lists a peer may serve from a fork height on
  ReorgLimit,   \* CFG.REORG_LIMIT
  Stoppable,    \* bound: whether a shutdown is explored
  MaxRestarts   \* bound: process restarts explored

ASSUME ThreadAssumption ==
  /\ Net \cap Miners = {}
  /\ {Worker, Main} \cap (Net \cup Miners) = {}
  /\ Worker # Main
  /\ NoThread \notin Net \cup Miners \cup {Worker, Main}
ASSUME BoundAssumption ==
  /\ NoHeight \notin Int
  /\ ReorgLimit \in Nat
  /\ Stoppable \in BOOLEAN
  /\ MaxRestarts \in Nat
ASSUME BranchAssumption ==
  /\ Stored \in Seq(Block)
  /\ Stored # <<>> => Stored[1] = Genesis
  /\ \A s \in Branches : s \in Seq(Block) /\ s # <<>>

VARIABLES
  chain,        \* Blockchain.chain
  utxo,         \* UTXODB.utxos
  dirtyFrom,    \* _chain_dirty_from
  persisted,    \* _persisted_height
  opts,         \* _persist_opts (save_state is always requested)
  pending,      \* _persist_pending, with its token in the queue
  lock,         \* holder of Blockchain.lock
  utxoLock,     \* holder of UTXODB._lock
  seen,         \* Broadcast.seen_blocks
  processing,   \* Broadcast._processing_blocks
  phase,        \* progress of the shutdown: "run", "stop" or "final"
  pc, blk,      \* per thread: next step, block in hand
  token,        \* per thread: the tip that validation started from
  args,         \* per thread: arguments and caller of save_chain
  count,        \* per thread: the chain length save_state read
  plan,         \* per thread: a chain it holds and has not installed yet
  save,         \* locals of the save_chain call that holds lock
  kvChain,      \* LMDB chain: height -> block
  kvTip,        \* LMDB chain: __meta__.tip_hash
  kvUtxo,       \* LMDB utxo
  kvBlocks,     \* LMDB state: k:total_blocks
  restarts      \* process restarts so far

memory == <<chain, utxo, dirtyFrom, persisted, opts, pending>>
gossip == <<seen, processing, blk>>
locals == <<token, args, count, plan, save>>
disk   == <<kvChain, kvTip, kvUtxo, kvBlocks>>
locks  == <<lock, utxoLock>>
life   == <<phase, restarts>>
vars   == <<memory, locks, gossip, life, pc, locals, disk>>

Ingest == Net \cup Miners
Thread == Ingest \cup {Worker, Main}

-----------------------------------------------------------------------------
(* Helpers *)

Free(l, t) == l \in {NoThread, t}
Goto(t, step) == pc' = [pc EXCEPT ![t] = step]

\* get_last_block().height
TipHeight == IF chain = <<>> THEN -1 ELSE Height[Last(chain).blk]

\* The pair validate_block compares: (height, tip hash).
StateToken == [height |-> Len(chain) - 1, tip |-> TipHash(chain)]
NoToken == [height |-> -1, tip |-> NoBlock]

\* How save_chain is called: its arguments, whether the caller holds
\* Blockchain.lock around it, and where the caller goes on.
Call(force, flush, held, next) ==
  [force |-> force, flush |-> flush, held |-> held, next |-> next]
NoCall == Call(FALSE, FALSE, FALSE, "idle")
NoSave == [tip |-> -1, from |-> NoHeight, hash |-> NoBlock]
NoOpts == [force |-> FALSE, flush |-> FALSE]

\* _mark_chain_dirty
Marked(h) == IF dirtyFrom = NoHeight \/ h < dirtyFrom THEN h ELSE dirtyFrom

\* The i-th key of a store in ascending order.
KeyAt(keys, i) == CHOOSE h \in keys : Cardinality({k \in keys : k <= h}) = i

\* _fetch_kv_chain_data: the stored blocks in key order; each object's hash
\* cache is filled from its successor's prev field, the last from __meta__.
StoredChain ==
  LET size == Cardinality(DOMAIN kvChain)
      at(i) == kvChain[KeyAt(DOMAIN kvChain, i)]
  IN  [i \in 1..size |->
         [blk |-> at(i),
          hash |-> IF i < size THEN Parent[at(i + 1)] ELSE kvTip]]

\* _validate_loaded_chain: only the genesis is checked.
Loadable(c) == c # <<>> /\ Height[c[1].blk] = 0 /\ c[1].hash = Genesis

\* _is_chain_consistent
Consistent(c) ==
  /\ c # <<>> => Height[c[1].blk] = 0 /\ Parent[c[1].blk] = NoBlock
  /\ \A i \in 2..Len(c) : LinkedAt(c, i)

-----------------------------------------------------------------------------
(* A process start: empty memory, then load_chain and ensure_utxodb *)

\* load_chain on an empty memory; _reset_chain_store drops a chain that is
\* not this network's.
LoadedChain == IF Loadable(StoredChain) THEN StoredChain ELSE <<>>
Resets == StoredChain # <<>> /\ ~Loadable(StoredChain)

\* ensure_utxodb: the stored coins, rebuilt only where there are none.
LoadedCoins ==
  IF LoadedChain # <<>> /\ kvUtxo = {} THEN Replay(LoadedChain) ELSE kvUtxo

Boot ==
  LET loaded == LoadedChain
  IN /\ chain' = loaded
     /\ utxo' = LoadedCoins
     /\ kvUtxo' = LoadedCoins
     /\ dirtyFrom' = NoHeight
     /\ persisted' = Len(loaded) - 1
     /\ opts' = NoOpts /\ pending' = FALSE
     /\ lock' = NoThread /\ utxoLock' = NoThread
     /\ seen' = {} /\ processing' = {}
     /\ phase' = "run"
     /\ pc' = [t \in Thread |-> "idle"]
     /\ blk' = [t \in Thread |-> NoBlock]
     /\ token' = [t \in Thread |-> NoToken]
     /\ args' = [t \in Thread |-> NoCall]
     /\ count' = [t \in Thread |-> 0]
     /\ plan' = [t \in Thread |-> <<>>]
     /\ save' = NoSave
     /\ kvChain' = IF Resets THEN <<>> ELSE kvChain
     /\ kvTip' = IF Resets THEN NoBlock ELSE kvTip
     /\ kvBlocks' = IF loaded = <<>> THEN 0 ELSE kvBlocks

\* The first start on a data directory that holds Stored, or on an empty one.
Init ==
  /\ chain = FreshSeq(Stored) /\ utxo = Replay(chain)
  /\ dirtyFrom = NoHeight /\ persisted = Len(Stored) - 1
  /\ opts = NoOpts /\ pending = FALSE
  /\ lock = NoThread /\ utxoLock = NoThread
  /\ seen = {} /\ processing = {}
  /\ phase = "run" /\ restarts = 0
  /\ pc = [t \in Thread |-> "idle"]
  /\ blk = [t \in Thread |-> NoBlock]
  /\ token = [t \in Thread |-> NoToken]
  /\ args = [t \in Thread |-> NoCall]
  /\ count = [t \in Thread |-> 0]
  /\ plan = [t \in Thread |-> <<>>]
  /\ save = NoSave
  /\ kvChain = [h \in 0..(Len(Stored) - 1) |-> Stored[h + 1]]
  /\ kvTip = TipHash(chain) /\ kvUtxo = utxo /\ kvBlocks = Len(Stored)

\* A kill or power loss at any point, or the end of an orderly shutdown.
Crash ==
  /\ restarts < MaxRestarts
  /\ pc[Main] # "exit"
  /\ restarts' = restarts + 1
  /\ Boot
Restart ==
  /\ pc[Main] = "exit"
  /\ restarts < MaxRestarts
  /\ restarts' = restarts + 1
  /\ Boot

-----------------------------------------------------------------------------
(* receive_block *)

\* Mutant: the dedup looks at the seen blocks only.
ReceiveBlock_SeenOnly(t, b) ==
  /\ pc[t] = "idle"
  /\ b \notin seen
  /\ processing' = processing \cup {b}
  /\ blk' = [blk EXCEPT ![t] = b]
  /\ Goto(t, "classify")
  /\ UNCHANGED <<memory, locks, seen, life, locals, disk>>

\* The dedup of lines 30-59: a block seen or in process is not taken again.
ReceiveBlock(t, b) ==
  /\ pc[t] = "idle"
  /\ b \notin seen \cup processing
  /\ processing' = processing \cup {b}
  /\ blk' = [blk EXCEPT ![t] = b]
  /\ Goto(t, "classify")
  /\ UNCHANGED <<memory, locks, seen, life, locals, disk>>

\* Mutants: the finally clause forgets the discard, or discards too little.
Reject_KeepsSeen(t) ==
  /\ processing' = processing \ {blk[t]}
  /\ seen' = seen \cup {blk[t]}
  /\ blk' = [blk EXCEPT ![t] = NoBlock]
  /\ Goto(t, "idle")
Reject_Leaks(t) ==
  /\ UNCHANGED <<processing, seen>>
  /\ blk' = [blk EXCEPT ![t] = NoBlock]
  /\ Goto(t, "idle")

\* Leaving without success: the finally clause forgets the block.
Reject(t) ==
  /\ processing' = processing \ {blk[t]}
  /\ seen' = seen \ {blk[t]}
  /\ blk' = [blk EXCEPT ![t] = NoBlock]
  /\ Goto(t, "idle")

\* What a failure means: a miner just drops its block.
Fail(t) ==
  \/ /\ t \in Miners
     /\ blk' = [blk EXCEPT ![t] = NoBlock]
     /\ Goto(t, "idle") /\ UNCHANGED <<seen, processing>>
  \/ t \in Net /\ Reject(t)

\* Gap, possible fork (validation is deferred), or an extension of the tip.
Gap(b) == chain # <<>> /\ Height[b] > TipHeight + 1
PotentialFork(b) == chain # <<>> /\ ~Gap(b) /\ Parent[b] # TipHash(chain)

Classify(t) ==
  /\ pc[t] = "classify"
  /\ \/ Gap(blk[t]) /\ Reject(t)
     \/ PotentialFork(blk[t]) /\ Goto(t, "check") /\ UNCHANGED gossip
     \/ /\ ~Gap(blk[t]) /\ ~PotentialFork(blk[t])
        /\ Goto(t, "context") /\ UNCHANGED gossip
  /\ UNCHANGED <<memory, locks, life, locals, disk>>

-----------------------------------------------------------------------------
(* validate_block: context under the lock, coins outside it, then the token *)

ContextValid(b) ==
  /\ b \in FullValid
  /\ Height[b] = Len(chain)
  /\ Parent[b] = TipHash(chain)
  /\ chain = <<>> => b = Genesis

ValidateContext(t) ==
  /\ pc[t] = "context" /\ Free(lock, t)
  /\ \/ /\ ContextValid(blk[t])
        /\ token' = [token EXCEPT ![t] = StateToken]
        /\ Goto(t, "inputs") /\ UNCHANGED gossip
     \/ /\ ~ContextValid(blk[t])
        /\ Fail(t) /\ UNCHANGED token
  /\ UNCHANGED <<memory, locks, life, args, count, plan, save, disk>>

\* _prepare_tx_snapshot finds every prevout of an earlier block.
PrevoutsFound(b) == Spends[b] \subseteq utxo

ValidateInputs(t) ==
  /\ pc[t] = "inputs"
  /\ \/ /\ PrevoutsFound(blk[t])
        /\ Goto(t, "recheck") /\ UNCHANGED gossip
     \/ /\ ~PrevoutsFound(blk[t])
        /\ Fail(t)
  /\ UNCHANGED <<memory, locks, life, locals, disk>>

ValidateRecheck(t) ==
  /\ pc[t] = "recheck" /\ Free(lock, t)
  /\ \/ /\ token[t] = StateToken
        /\ Goto(t, "check") /\ UNCHANGED gossip
     \/ /\ token[t] # StateToken
        /\ Fail(t)
  /\ token' = [token EXCEPT ![t] = NoToken]
  /\ UNCHANGED <<memory, locks, life, args, count, plan, save, disk>>

-----------------------------------------------------------------------------
(* add_block, which takes no lock *)

Attaches(b) ==
  /\ Height[b] = TipHeight + 1
  /\ IF chain = <<>> THEN b = Genesis ELSE Parent[b] = TipHash(chain)

\* The checks of _add_genesis_block and _add_subsequent_block; a failure is
\* an exception, which receive_block turns into fork resolution.
AddCheck(t) ==
  /\ pc[t] = "check"
  /\ \/ /\ Attaches(blk[t])
        /\ Goto(t, "append")
        /\ UNCHANGED gossip
     \/ /\ ~Attaches(blk[t])
        /\ \/ t \in Miners /\ Fail(t)
           \/ t \in Net /\ Goto(t, "resolve") /\ UNCHANGED gossip
  /\ UNCHANGED <<memory, locks, life, locals, disk>>

AddAppend(t) ==
  /\ pc[t] = "append"
  /\ chain' = Append(chain, Fresh(blk[t]))
  /\ Goto(t, IF blk[t] = Genesis THEN "apply" ELSE "mark")
  /\ UNCHANGED <<utxo, dirtyFrom, persisted, opts, pending, locks, gossip,
                 life, locals, disk>>

\* The genesis path marks after it has scheduled, the other before it applies.
AddMark(t) ==
  /\ pc[t] = "mark"
  /\ dirtyFrom' = Marked(Height[blk[t]])
  /\ Goto(t, IF blk[t] = Genesis THEN "accept" ELSE "apply")
  /\ UNCHANGED <<chain, utxo, persisted, opts, pending, locks, gossip, life,
                 locals, disk>>

\* UTXODB.update: memory, then one LMDB transaction, all under UTXODB._lock.
AddApply(t) ==
  /\ pc[t] = "apply" /\ Free(utxoLock, t)
  /\ utxo' = ApplyBlock(utxo, blk[t])
  /\ kvUtxo' = ApplyBlock(kvUtxo, blk[t])
  /\ Goto(t, "schedule")
  /\ UNCHANGED <<chain, dirtyFrom, persisted, opts, pending, locks, gossip,
                 life, locals, kvChain, kvTip, kvBlocks>>

\* _schedule_persist: a token for the worker, or, once the queue is gone,
\* the whole save in the calling thread.
AddSchedule(t) ==
  /\ pc[t] = "schedule"
  /\ LET full == blk[t] = Genesis
         next == IF full THEN "mark" ELSE "accept"
     IN \/ /\ phase # "final"
           /\ opts' = [force |-> opts.force \/ full, flush |-> opts.flush \/ full]
           /\ pending' = TRUE
           /\ Goto(t, next)
           /\ UNCHANGED args
        \/ /\ phase = "final"
           /\ args' = [args EXCEPT ![t] = Call(full, full, FALSE, next)]
           /\ Goto(t, "save")
           /\ UNCHANGED <<opts, pending>>
  /\ UNCHANGED <<chain, utxo, dirtyFrom, persisted, locks, gossip, life,
                 token, count, plan, save, disk>>

\* Lines 95-116 of receive_block; a miner's block is seen when broadcast.
Accept(t) ==
  /\ pc[t] = "accept"
  /\ seen' = seen \cup {blk[t]}
  /\ processing' = IF t \in Net THEN processing \ {blk[t]} ELSE processing
  /\ blk' = [blk EXCEPT ![t] = NoBlock]
  /\ Goto(t, "idle")
  /\ UNCHANGED <<memory, locks, life, locals, disk>>

-----------------------------------------------------------------------------
(* Fork resolution and reorganisation *)

\* A competitor of the tip: it attaches to chain[-2].
Competes(b) ==
  /\ Len(chain) >= 2
  /\ Height[b] = Height[chain[Len(chain) - 1].blk] + 1
  /\ Parent[b] = chain[Len(chain) - 1].hash

SwappedFor(b) == [chain EXCEPT ![Len(chain)] = Fresh(b)]

\* _resolve_add_block_failure looks at chain[-2] without the lock.
ForkPrecheck(t) ==
  /\ pc[t] = "resolve"
  /\ \/ Competes(blk[t]) /\ Goto(t, "swap") /\ UNCHANGED gossip
     \/ ~Competes(blk[t]) /\ Reject(t)
  /\ UNCHANGED <<memory, locks, life, locals, disk>>

\* Mutant: the candidate is not compared with the tip.
BetterTip_Sticky(b) ==
  /\ Competes(b)
  /\ CompleteChainValid(SwappedFor(b))

\* _is_valid_tip_candidate
BetterTip(b) ==
  /\ Competes(b)
  /\ CompleteChainValid(SwappedFor(b))
  /\ Preferred(SwappedFor(b), chain)

\* swap_tip_if_better takes the lock and compares; add_block takes no lock,
\* so blocks may still be appended until the tip is replaced.
SwapCheck(t) ==
  /\ pc[t] = "swap" /\ Free(lock, t)
  /\ \/ /\ BetterTip(blk[t])
        /\ lock' = t
        /\ Goto(t, "commit") /\ UNCHANGED gossip
     \/ /\ ~BetterTip(blk[t])
        /\ Reject(t) /\ UNCHANGED lock
  /\ UNCHANGED <<memory, utxoLock, life, locals, disk>>

\* _commit_tip_swap up to save_chain: the last block of the chain of this
\* moment is replaced and the lock stays held.  Where a reload left no
\* chain[-2], the IndexError ends the swap.
SwapCommit(t) ==
  /\ pc[t] = "commit"
  /\ \/ /\ Len(chain) >= 2
        /\ chain' = SwappedFor(blk[t])
        /\ dirtyFrom' = Marked(Height[blk[t]])
        /\ args' = [args EXCEPT ![t] = Call(FALSE, FALSE, TRUE, "accept")]
        /\ Goto(t, "save") /\ UNCHANGED <<lock, gossip>>
     \/ /\ Len(chain) < 2
        /\ Reject(t)
        /\ lock' = NoThread
        /\ UNCHANGED <<chain, dirtyFrom, args>>
  /\ UNCHANGED <<utxo, persisted, opts, pending, utxoLock, life, token, count,
                 plan, save, disk>>

\* _apply_reorg_from_sync: the local prefix below the fork, then the list s.
Candidate(s) == SubSeq(chain, 1, Height[Head(s)]) \o FreshSeq(s)

ForksAt(s) ==
  LET forkHeight == Height[Head(s)]
  IN  /\ forkHeight \in 1..Len(chain)
      /\ Parent[Head(s)] = chain[forkHeight].hash

\* Mutant: the reorganisation limit is not consulted.
Replaces_AnyDepth(c) ==
  /\ CompleteChainValid(c)
  /\ Preferred(c, chain)

\* _validate_replacement_chain
Replaces(c) ==
  /\ CompleteChainValid(c)
  /\ Preferred(c, chain)
  /\ LET common == CommonHeight(chain, c)
     IN  common >= 0 => (Len(chain) - 1) - common <= ReorgLimit

\* The candidate is built on a copy of the chain, without Blockchain.lock.
ReplaceBuild(t, s) ==
  /\ pc[t] = "idle"
  /\ ForksAt(s)
  /\ plan' = [plan EXCEPT ![t] = Candidate(s)]
  /\ Goto(t, "replace")
  /\ UNCHANGED <<memory, locks, gossip, life, token, args, count, save, disk>>

\* replace_with compares the candidate with the chain of this moment.
ReplaceCheck(t) ==
  /\ pc[t] = "replace" /\ Free(lock, t)
  /\ \/ /\ Replaces(plan[t])
        /\ lock' = t
        /\ Goto(t, "adopt") /\ UNCHANGED plan
     \/ /\ ~Replaces(plan[t])
        /\ plan' = [plan EXCEPT ![t] = <<>>]
        /\ Goto(t, "idle") /\ UNCHANGED lock
  /\ UNCHANGED <<memory, utxoLock, gossip, life, token, args, count, save, disk>>

\* _commit_chain_replacement up to save_chain(force_full=True); what was
\* appended since the comparison is dropped; the lock stays held.
ReplaceCommit(t) ==
  /\ pc[t] = "adopt"
  /\ chain' = plan[t]
  /\ dirtyFrom' = Marked(0)
  /\ blk' = [blk EXCEPT ![t] = Last(plan[t]).blk]
  /\ plan' = [plan EXCEPT ![t] = <<>>]
  /\ args' = [args EXCEPT ![t] = Call(TRUE, FALSE, TRUE, "announce")]
  /\ Goto(t, "save")
  /\ UNCHANGED <<utxo, persisted, opts, pending, locks, seen, processing, life,
                 token, count, save, disk>>

\* broadcast_block of the new tip after a reorganisation.
Announce(t) ==
  /\ pc[t] = "announce"
  /\ seen' = seen \cup {blk[t]}
  /\ blk' = [blk EXCEPT ![t] = NoBlock]
  /\ Goto(t, "idle")
  /\ UNCHANGED <<memory, locks, processing, life, locals, disk>>

-----------------------------------------------------------------------------
(* save_chain, the UTXO stores and save_state, called by any thread *)

\* Mutant: swap and replace go on without rebuild_from_chain.
AfterSave_NoRebuild(t) ==
  IF args[t].flush /\ ~args[t].held THEN "uclear" ELSE "count"

AfterSave(t) ==
  IF args[t].held THEN "rebuild" ELSE IF args[t].flush THEN "uclear" ELSE "count"

\* Mutants: the dirty height is ignored, or taken one too low.
SaveStart_IgnoresDirty(force) ==
  IF force \/ persisted < 0 THEN 0
  ELSE IF Len(chain) - 1 > persisted THEN persisted + 1 ELSE NoHeight
SaveStart_OneBefore(force) ==
  IF force \/ persisted < 0 THEN 0
  ELSE IF dirtyFrom # NoHeight THEN dirtyFrom - 1
  ELSE IF Len(chain) - 1 > persisted THEN persisted + 1 ELSE NoHeight

\* _determine_save_start_height, after force_full's reset of the two heights
SaveStart(force) ==
  CASE force \/ persisted < 0 -> 0
    [] ~force /\ persisted >= 0 /\ dirtyFrom # NoHeight -> dirtyFrom
    [] ~force /\ persisted >= 0 /\ dirtyFrom = NoHeight ->
         IF Len(chain) - 1 > persisted THEN persisted + 1 ELSE NoHeight

SaveBegin(t) ==
  /\ pc[t] = "save" /\ Free(lock, t)
  /\ \/ /\ chain = <<>>
        /\ dirtyFrom' = NoHeight /\ persisted' = -1
        /\ Goto(t, AfterSave(t))
        /\ UNCHANGED <<lock, save>>
     \/ /\ chain # <<>>
        /\ lock' = t
        /\ save' = [tip |-> Len(chain) - 1, from |-> SaveStart(args[t].force),
                    hash |-> TipHash(chain)]
        /\ dirtyFrom' = IF args[t].force THEN 0 ELSE dirtyFrom
        /\ persisted' = IF args[t].force THEN -1 ELSE persisted
        /\ Goto(t, IF persisted' < 0 THEN "clear" ELSE "put")
  /\ UNCHANGED <<chain, utxo, opts, pending, utxoLock, gossip, life, token,
                 args, count, plan, disk>>

\* clear_db('chain'), a transaction of its own
SaveClear(t) ==
  /\ pc[t] = "clear"
  /\ kvChain' = <<>> /\ kvTip' = NoBlock
  /\ persisted' = -1
  /\ Goto(t, "put")
  /\ UNCHANGED <<chain, utxo, dirtyFrom, opts, pending, locks, gossip, life,
                 locals, kvUtxo, kvBlocks>>

\* The pruning of keys above a shorter tip, then one batch with the heights
\* from..tip of the live chain and the meta record.
SaveHeights == IF save.from = NoHeight THEN {} ELSE save.from..save.tip

SavePut(t) ==
  /\ pc[t] = "put"
  /\ SaveHeights # {} => save.tip < Len(chain)
  /\ LET kept == {h \in DOMAIN kvChain : save.tip < persisted => h <= save.tip}
     IN kvChain' = [h \in kept \cup SaveHeights |->
                      IF h \in SaveHeights THEN chain[h + 1].blk ELSE kvChain[h]]
  /\ kvTip' = IF SaveHeights = {} THEN kvTip ELSE save.hash
  /\ persisted' = IF SaveHeights # {} \/ save.tip < persisted THEN save.tip
                                                               ELSE persisted
  /\ Goto(t, "saved")
  /\ UNCHANGED <<chain, utxo, dirtyFrom, opts, pending, locks, gossip, life,
                 locals, kvUtxo, kvBlocks>>

\* Line 67 and the end of the with block; swap and replace keep the lock.
SaveEnd(t) ==
  /\ pc[t] = "saved"
  /\ dirtyFrom' = NoHeight
  /\ lock' = IF args[t].held THEN lock ELSE NoThread
  /\ save' = NoSave
  /\ Goto(t, AfterSave(t))
  /\ UNCHANGED <<chain, utxo, persisted, opts, pending, utxoLock, gossip, life,
                 token, args, count, plan, disk>>

\* An IndexError inside the batch: a reload shortened the chain under the
\* save.  The batch is dropped and the exception ends what the caller did.
SaveAbort(t) ==
  /\ pc[t] = "put"
  /\ SaveHeights # {} /\ save.tip >= Len(chain)
  /\ lock' = NoThread
  /\ save' = NoSave
  /\ args' = [args EXCEPT ![t] = NoCall]
  /\ \/ t \in Net /\ args[t].next = "accept" /\ args[t].held /\ Reject(t)
     \/ t \in Net /\ args[t].next = "announce" 
        /\ blk' = [blk EXCEPT ![t] = NoBlock]
        /\ Goto(t, "idle") /\ UNCHANGED <<seen, processing>>
     \/ t \in Net /\ ~args[t].held /\ Goto(t, "resolve") /\ UNCHANGED gossip
     \/ t \in Miners /\ Fail(t)
     \/ t = Worker /\ Goto(t, "idle") /\ UNCHANGED gossip
     \/ t = Main /\ Goto(t, "exit") /\ UNCHANGED gossip
  /\ UNCHANGED <<memory, utxoLock, life, token, count, plan, disk>>

\* rebuild_from_chain: the replay in memory, then _save(force=True).
RebuildUtxo(t) ==
  /\ pc[t] = "rebuild" /\ Free(utxoLock, t)
  /\ utxoLock' = t
  /\ utxo' = Replay(chain)
  /\ Goto(t, "uclear")
  /\ UNCHANGED <<chain, dirtyFrom, persisted, opts, pending, lock, gossip, life,
                 locals, disk>>

\* Mutant: the UTXO lock is released between clear_db and the batch.
UtxoClear_Unlocked(t) ==
  /\ pc[t] = "uclear" /\ Free(utxoLock, t)
  /\ utxoLock' = NoThread
  /\ kvUtxo' = {}
  /\ Goto(t, "uput")
  /\ UNCHANGED <<memory, lock, gossip, life, locals, kvChain, kvTip, kvBlocks>>

\* clear_db('utxo'), then the batch with every unspent output.
UtxoClear(t) ==
  /\ pc[t] = "uclear" /\ Free(utxoLock, t)
  /\ utxoLock' = t
  /\ kvUtxo' = {}
  /\ Goto(t, "uput")
  /\ UNCHANGED <<memory, lock, gossip, life, locals, kvChain, kvTip, kvBlocks>>

UtxoPut(t) ==
  /\ pc[t] = "uput"
  /\ kvUtxo' = utxo
  /\ utxoLock' = NoThread
  /\ Goto(t, "count")
  /\ UNCHANGED <<memory, lock, gossip, life, locals, kvChain, kvTip, kvBlocks>>

\* save_state reads the chain, computes the snapshot, and writes it later.
CountBlocks(t) ==
  /\ pc[t] = "count"
  /\ count' = [count EXCEPT ![t] = Len(chain)]
  /\ Goto(t, "state")
  /\ UNCHANGED <<memory, locks, gossip, life, token, args, plan, save, disk>>

SaveState(t) ==
  /\ pc[t] = "state"
  /\ kvBlocks' = count[t]
  /\ count' = [count EXCEPT ![t] = 0]
  /\ lock' = IF args[t].held THEN NoThread ELSE lock
  /\ args' = [args EXCEPT ![t] = NoCall]
  /\ Goto(t, args[t].next)
  /\ UNCHANGED <<memory, utxoLock, gossip, life, token, plan, save, kvChain, kvTip,
                 kvUtxo>>

-----------------------------------------------------------------------------
(* The persist worker and the shutdown *)

\* _persist_loop takes a token and the options accumulated so far.
PersistTake ==
  /\ pc[Worker] = "idle" /\ pending /\ phase # "final"
  /\ pending' = FALSE /\ opts' = NoOpts
  /\ args' = [args EXCEPT ![Worker] = Call(opts.force, opts.flush, FALSE, "idle")]
  /\ Goto(Worker, "save")
  /\ UNCHANGED <<chain, utxo, dirtyFrom, persisted, locks, gossip, life, token,
                 count, plan, save, disk>>

\* Broadcast.shutdown up to the stop flag and the None token.
Stop ==
  /\ Stoppable
  /\ pc[Main] = "idle" /\ phase = "run"
  /\ phase' = "stop"
  /\ seen' = {}
  /\ Goto(Main, "join")
  /\ UNCHANGED <<memory, locks, processing, blk, restarts, locals, disk>>

\* The worker has ended or the join has timed out; the queue is dropped and
\* the main thread persists everything itself.
Join ==
  /\ pc[Main] = "join"
  /\ phase' = "final"
  /\ \/ chain = <<>> /\ Goto(Main, "exit") /\ UNCHANGED args
     \/ /\ chain # <<>>
        /\ args' = [args EXCEPT ![Main] = Call(TRUE, TRUE, FALSE, "exit")]
        /\ Goto(Main, "save")
  /\ UNCHANGED <<memory, locks, gossip, restarts, token, count, plan, save, disk>>

-----------------------------------------------------------------------------
(* mine_block *)

\* _validate_chain_state calls load_chain over the live chain, without the
\* lock: the store is read, and the chain and its two heights are assigned
\* one after the other.
ReloadRead(m) ==
  /\ pc[m] = "idle"
  /\ plan' = [plan EXCEPT ![m] = LoadedChain]
  /\ Goto(m, IF Resets THEN "wipe" ELSE IF StoredChain = <<>> THEN "verify"
                                        ELSE "assign")
  /\ UNCHANGED <<memory, locks, gossip, life, token, args, count, save, disk>>

\* _reset_chain_store of a store that is not this network's
ReloadWipe(m) ==
  /\ pc[m] = "wipe"
  /\ kvChain' = <<>> /\ kvTip' = NoBlock
  /\ Goto(m, "height")
  /\ UNCHANGED <<memory, locks, gossip, life, locals, kvUtxo, kvBlocks>>


ReloadAssign(m) ==
  /\ pc[m] = "assign"
  /\ chain' = plan[m]
  /\ Goto(m, "height")
  /\ UNCHANGED <<utxo, dirtyFrom, persisted, opts, pending, locks, gossip, life,
                 locals, disk>>

\* The height is taken from the chain of this moment, or reset.
ReloadHeight(m) ==
  /\ pc[m] = "height"
  /\ persisted' = IF plan[m] = <<>> THEN -1 ELSE Len(chain) - 1
  /\ Goto(m, "clean")
  /\ UNCHANGED <<chain, utxo, dirtyFrom, opts, pending, locks, gossip, life,
                 locals, disk>>

ReloadClean(m) ==
  /\ pc[m] = "clean"
  /\ dirtyFrom' = NoHeight
  /\ plan' = [plan EXCEPT ![m] = <<>>]
  /\ Goto(m, "verify")
  /\ UNCHANGED <<chain, utxo, persisted, opts, pending, locks, gossip, life,
                 token, args, count, save, disk>>

\* The emptiness test and _is_chain_consistent, which holds the lock.
ReloadVerify(m) ==
  /\ pc[m] = "verify" /\ Free(lock, m)
  /\ Goto(m, IF chain # <<>> /\ Consistent(chain) THEN "build" ELSE "idle")
  /\ UNCHANGED <<memory, locks, gossip, life, locals, disk>>

\* _build_candidate_block on the tip of that moment
MineBuild(m, b) ==
  /\ pc[m] = "build"
  /\ chain # <<>> /\ Height[b] = Len(chain) /\ Parent[b] = TipHash(chain)
  /\ blk' = [blk EXCEPT ![m] = b]
  /\ Goto(m, "mining")
  /\ UNCHANGED <<memory, locks, seen, processing, life, locals, disk>>

\* A nonce was found and _is_stale_block does not discard the block.
MineFound(m) ==
  /\ pc[m] = "mining"
  /\ Parent[blk[m]] = TipHash(chain)
  /\ chain # <<>> => Height[blk[m]] = TipHeight + 1
  /\ Goto(m, "context")
  /\ UNCHANGED <<memory, locks, gossip, life, locals, disk>>

\* Cancelled, nothing found, or stale.
MineStop(m) ==
  /\ pc[m] \in {"build", "mining"}
  /\ Fail(m)
  /\ UNCHANGED <<memory, locks, life, locals, disk>>

-----------------------------------------------------------------------------
(* The specification *)

IngestStep(t) ==
  \/ Classify(t) \/ ValidateContext(t) \/ ValidateInputs(t) \/ ValidateRecheck(t)
  \/ AddCheck(t) \/ AddAppend(t) \/ AddMark(t) \/ AddApply(t) \/ AddSchedule(t)
  \/ Accept(t) \/ ForkPrecheck(t) \/ SwapCheck(t) \/ SwapCommit(t)
  \/ ReplaceCheck(t) \/ ReplaceCommit(t) \/ Announce(t)
SaveStep(t) ==
  \/ SaveBegin(t) \/ SaveClear(t) \/ SavePut(t) \/ SaveEnd(t) \/ SaveAbort(t)
  \/ RebuildUtxo(t) \/ UtxoClear(t) \/ UtxoPut(t) \/ CountBlocks(t) \/ SaveState(t)
Input(t) ==
  \/ \E b \in Block : ReceiveBlock(t, b)
  \/ \E s \in Branches : ReplaceBuild(t, s)
MineStep(m) ==
  \/ ReloadRead(m) \/ ReloadWipe(m) \/ ReloadAssign(m) \/ ReloadHeight(m)
  \/ ReloadClean(m) \/ ReloadVerify(m) \/ MineFound(m) \/ MineStop(m)
  \/ \E b \in Block : MineBuild(m, b)

Next ==
  \/ \E t \in Net : Input(t)
  \/ \E t \in Ingest : IngestStep(t)
  \/ \E t \in Thread : SaveStep(t)
  \/ \E m \in Miners : MineStep(m)
  \/ PersistTake
  \/ Stop \/ Join
  \/ Crash \/ Restart

Spec == Init /\ [][Next]_vars

\* Every thread that can run is scheduled; inputs, mining, shutdown and
\* crashes are never owed.
Fairness ==
  /\ \A t \in Ingest : WF_vars(IngestStep(t))
  /\ \A t \in Thread : WF_vars(SaveStep(t))
  /\ WF_vars(PersistTake) /\ WF_vars(Join)

FairSpec == Spec /\ Fairness

-----------------------------------------------------------------------------
(* Properties *)

Step == {"idle", "classify", "context", "inputs", "recheck", "check", "append",
         "mark", "apply", "schedule", "accept", "resolve", "swap", "commit",
         "replace", "adopt", "announce",
         "save", "clear", "put", "saved", "rebuild", "uclear", "uput", "count",
         "state", "join", "exit", "wipe", "assign", "height", "clean", "verify",
         "build", "mining"}
CallType == [force : BOOLEAN, flush : BOOLEAN, held : BOOLEAN,
             next : {"idle", "accept", "mark", "announce", "exit"}]
IsStore(f) ==
  f \in [DOMAIN f -> Block] /\ DOMAIN f \subseteq Nat /\ IsFiniteSet(DOMAIN f)

MemoryType ==
  /\ chain \in Seq(Entry)
  /\ utxo \in SUBSET Coin
  /\ dirtyFrom \in Nat \cup {NoHeight}
  /\ persisted \in Nat \cup {-1}
  /\ opts \in [force : BOOLEAN, flush : BOOLEAN]
  /\ pending \in BOOLEAN
LockType == lock \in Thread \cup {NoThread} /\ utxoLock \in Thread \cup {NoThread}
GossipType ==
  /\ seen \in SUBSET Block /\ processing \in SUBSET Block
  /\ blk \in [Thread -> Block \cup {NoBlock}]
LifeType == phase \in {"run", "stop", "final"} /\ restarts \in 0..MaxRestarts
LocalsType ==
  /\ token \in [Thread -> [height : Nat \cup {-1}, tip : Block \cup {NoBlock}]]
  /\ args \in [Thread -> CallType]
  /\ count \in [Thread -> Nat]
  /\ plan \in [Thread -> Seq(Entry)]
  /\ save \in [tip : Nat \cup {-1}, from : Nat \cup {NoHeight},
               hash : Block \cup {NoBlock}]
DiskType ==
  /\ IsStore(kvChain)
  /\ kvTip \in Block \cup {NoBlock}
  /\ kvUtxo \in SUBSET Coin
  /\ kvBlocks \in Nat

\* Every variable holds a value of the program's type for it.
TypeOK ==
  /\ MemoryType /\ LockType /\ GossipType /\ LifeType
  /\ LocalsType /\ DiskType
  /\ pc \in [Thread -> Step]

\* Steps at which a thread of swap_tip_if_better or replace_with has changed
\* the chain and not yet stored the change.
Reorganising(t) == args[t].held /\ pc[t] \in {"save", "clear", "put"}

(***************************************************************************)
(* The chain store never keeps a block of an abandoned branch: outside a   *)
(* reorganisation's own save, every stored height is a height of the live  *)
(* chain and holds that block, whatever appends, saves and swaps overlap.  *)
(***************************************************************************)
StoreFollowsChain ==
  (\A t \in Net : ~Reorganising(t)) =>
    \A h \in DOMAIN kvChain : h < Len(chain) /\ kvChain[h] = chain[h + 1].blk


(***************************************************************************)
(* The UTXO set is the replay of the chain whenever no thread is between a *)
(* change of the chain and the matching change of the set, and the stored  *)
(* set equals it whenever the UTXO lock is free.                           *)
(***************************************************************************)
Settling(t) ==
  \/ pc[t] \in {"mark", "apply"}
  \/ args[t].held /\ pc[t] \in {"save", "clear", "put", "saved", "rebuild"}

UtxoFollowsChain ==
  (\A t \in Ingest : ~Settling(t)) =>
    /\ utxo = Replay(chain)
    /\ utxoLock = NoThread => kvUtxo = utxo

(***************************************************************************)
(* The stored UTXO set is the one in memory whenever UTXODB._lock is free: *)
(* block deltas, rebuilds and forced flushes never leave a mix of two of   *)
(* them on disk, and a start reads back what the last of them wrote.       *)
(***************************************************************************)
CoinsStored == utxoLock = NoThread => kvUtxo = utxo

(***************************************************************************)
(* The live chain implements the abstract best-chain ledger: whatever the  *)
(* overlap of ingest, saves and shutdown, each change of it is the         *)
(* adoption of a validated, linked, double-spend free, preferred chain.    *)
(***************************************************************************)
Best == INSTANCE BestChain WITH ledger <- chain
ImplementsBestChain == Best!BestSpec

\* No block of the chain spends a coin that was spent before or never made
\* ("re-verifies all UTXO inputs").
LedgerSound == SpendsUnspent(chain)

\* Every block of the chain met the rules of validate_block or those of the
\* complete-chain check ("enforces all consensus rules").
OnlyValidated == Blocks(chain) \subseteq FullValid \cup ReorgValid

(***************************************************************************)
(* While the process runs, the chain is only ever replaced by one the node *)
(* prefers: a candidate with less work, fewer blocks or a larger hash      *)
(* never becomes the chain ("Failure: lower work, shorter height, hash     *)
(* tie-break loss").                                                       *)
(***************************************************************************)
TipNeverWorsens ==
  [][chain' # chain /\ restarts' = restarts => Preferred(chain', chain)]_vars

(***************************************************************************)
(* Two connection threads never work on the same block at the same time,   *)
(* although a failed one may be retried and a reorganisation announces its *)
(* tip while a connection delivers it.                                     *)
(***************************************************************************)
Reorganised(t) == args[t].next = "announce" \/ pc[t] = "announce"
ProcessedOnce ==
  \A s, t \in Net :
    s # t /\ blk[s] # NoBlock /\ blk[s] = blk[t] => Reorganised(s) \/ Reorganised(t)

(***************************************************************************)
(* A block the node remembers as seen, and so will never take again, is on *)
(* its chain or lost to it: the node prefers its chain to the path that    *)
(* ends in the block.                                                      *)
(***************************************************************************)
SeenIsJudged == \A b \in seen : b \in Blocks(chain) \/ Preferred(chain, PathOf(b))

(***************************************************************************)
(* The node never abandons more than ReorgLimit blocks at once, except the *)
(* single tip that a swap replaces.                                        *)
(***************************************************************************)
Abandoned(old, new) == {i \in DOMAIN old : i > Len(new) \/ new[i] # old[i]}
ReorgDepthBounded ==
  [][restarts' = restarts =>
       Cardinality(Abandoned(chain, chain')) <= Max({1, ReorgLimit})]_vars

\* Once nothing is in progress, every block of the chain is in the store
\* ("valid blocks are committed to the LMDB database").
AtRest ==
  /\ \A t \in Thread : pc[t] = "idle"
  /\ ~pending /\ phase = "run"
AllBlocksStored == AtRest => \A h \in 0..(Len(chain) - 1) : h \in DOMAIN kvChain

\* A node that ends in or after its final save is found with a chain at the
\* next start ("final synchronous persistence to ensure no data loss").
NoDataLoss ==
  [][restarts' # restarts /\ phase = "final" /\ kvBlocks > 0
       => chain' # <<>>]_vars

(***************************************************************************)
(* A start may lose blocks but never joins two branches: the blocks of the *)
(* live chain all lie on one path from the genesis.                        *)
(***************************************************************************)
OneBranch ==
  /\ chain # <<>> => chain[1].blk = Genesis
  /\ \A i, j \in DOMAIN chain :
       i < j => chain[i].blk \in AncestorsOf[chain[j].blk]

\* Every block taken from a peer is eventually accepted or let go.
EveryBlockSettled == \A b \in Block : b \in processing ~> b \notin processing

\* The tip and the UTXO set reach the disk and stay there.
TipReachesDisk == <>[](kvTip = TipHash(chain) /\ kvUtxo = utxo)

=============================================================================
