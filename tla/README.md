# A verification project for Graffiti Protocol

Graffiti Protocol (`src/`) is a proof-of-work blockchain node in Python with a
Rust helper library, a storage node for images ("archivist"), a desktop wallet
with an encrypted chat ("kremlin") and a web explorer with call signalling. This
directory holds TLA+ models of their own logic, the TLC configurations that check
them and the theorems TLAPS proves about them. Paths below are relative to
`src/src/tsarchain/` unless they start with `src/`.

The core is one node's ledger with all its threads and its stores (`ChainNode`).
Around it stand the mempool (`Mempool`), what nodes do over their connections
(`PeerLinks`, `Sync`, `RpcChannel`, `Relay`) and the services (`Graffiti`,
`AddressIndex`, `ChatSession`, `ChatRelay`, `Archivist`, `Miner`, `Calls`,
`Bootstrap`), and the rules over times, difficulty and subsidies (`HeaderRules`).

## 1. Inventory

| Part | State | Operations | Interacts with | What is hard | What makes it correct | Modules |
|---|---|---|---|---|---|---|
| Chain ledger: `consensus/chain_ops.py`, `difficulty.py` | the chain (a list of blocks), chain work per block | `add_block`, `swap_tip_if_better`, `replace_with`, `_validate_complete_chain` | UTXO store, chain store, mempool, receive path, sync, miner | `add_block` takes no lock, the other two do | a chain from the genesis, linked, validated, without double spends; only ever replaced by a preferred one; reorganisations are bounded; the retarget answers in the right direction | `BlockTree`, `BestChain`, `ChainNode`, `HeaderRules` |
| Chain store: `consensus/chain_storage.py` | LMDB `chain` (blocks by height, meta record), LMDB `state`, `_chain_dirty_from`, `_persisted_height`, snapshot backups | `save_chain`, `load_chain`, `save_state`, reset, prune, backup | the ledger, the persist worker | incremental saves race appends; full saves are two transactions | the store follows the chain; nothing of an abandoned branch stays; a restart finds a coherent chain | `ChainNode` |
| Facade and persist worker: `consensus/blockchain.py` | queue, pending flag, accumulated options, hash cache | start, `_schedule_persist`, `_persist_loop`, `_stop_persist_worker` | all of the above | coalesced requests, join with a timeout, final save | every request is served; shutdown loses nothing | `ChainNode` |
| Block validation: `consensus/validation.py` | none of its own; a token of the chain's state | `validate_block` | chain, UTXO store, graffiti registry | the lock is dropped between context, inputs and the re-check | what is accepted was valid on its parent | `ChainNode`; graffiti rules in `Graffiti` |
| Mining: `consensus/mining.py`, `genesis.py`, `miner/orchestrator.py` | candidate block, cancel flag, unsent blocks | `mine_block`, genesis creation, the miner's loop | store (a reload), mempool, validation, the seed | reloads the live chain from the store; events set and cleared by several threads | mines on the tip, never loses blocks; no search on a stale tip | `ChainNode`, `Mempool`, `Miner` |
| UTXO store: `consensus/utxo_validate.py`, `storage/utxo_logic/` | the unspent outputs in memory and LMDB, dirty keys, address index | `update`, `rebuild_from_chain`, load, flush, balances | ledger, mempool, validation, graffiti | delta versus rebuild, clear and refill | equals the replay of the chain; disk equals memory; no balance is short | `ChainNode`, `AddressIndex` |
| Receive path and gossip: `network/cast/`, `broadcast.py` | `seen_blocks`, `_processing_blocks`, `seen_txs`, peers | `receive_block`, `receive_tx`, `receive_mempool`, relays, shutdown | ledger, mempool, sync | classification by a tip that moves; forget after failure; marks set too early | each block is processed once at a time and judged or forgotten; a transaction reaches all | `ChainNode`, `Relay` |
| Sync: `network/node_logic/sync.py` | sync requests, back-off, peers' heights | locators, headers, block download, `_apply_reorg_from_sync` | peers, ledger | acts on a copy of the chain | nodes converge to one chain | `ChainNode`, `Sync` |
| Mempool: `mempool/` | pool, prevout index, fee heap, orphans, LMDB | admission, replacement, eviction, orphan retry, flush, reload | UTXO store, ledger, registry | check then act; limits; reinjection after a reorganisation | the index is sound; no two entries spend one output; size bounds; candidates apply | `Mempool` |
| Graffiti contracts and registry: `contracts/`, `storage/utxo_logic/graff_utxo.py`, `network/rpc/storage_rpc.py` | posts, comments, payouts, proofs, pool balances | events of applied blocks; validity of payouts; proofs and payout requests | UTXO update, validation, mempool | not rewound by a reorganisation; balances by deltas | a paid epoch stays paid; without a reorganisation the registry is the replay of the chain | `Graffiti`, `AddressIndex` |
| Transport, discovery: `network/node.py`, `protocol.py`, `node_logic/` | connections, peer table and scores, channel cache | HELLO, accept loop, offers of mempools, requests on cached channels | receive path, sync | a lock held while dialling; timeouts | nobody waits for ever; no channel is shared | `PeerLinks`, `RpcChannel` |
| Dandelion: `dandelion_pp.py` | stem marks, embargo timers | stem, fluff | receive path | timers, loss | a transaction is broadcast in the end | `Relay` |
| Admission tokens and rate limits: `pow_token.py`, `node_logic/ratelimit.py` | none; buckets per address | issue and check; take from a bucket | RPC | expiry | a token holds for its challenge, until it expires | none |
| Chat relay: `network/rpc/user_rpc/category/chat.py`, `rpc_helper/chat.py` | bundles of prekeys, mailboxes, receipts, counters | register, get a prekey, send, pull, read, deactivate, collect | wallet | handlers of many steps; counters kept by hand | a prekey is given once, a message delivered once, the count right | `ChatRelay` |
| Chat client: `src/src/kremlin/security/chat/` | sessions in memory and on disk, ratchet keys, skipped keys | X3DH, send, poll, restart | chat relay | reordering, loss, restarts | both sides stay in step | `ChatSession` |
| Archivist: `src/src/archivist/` | index of files, blobs, payout guard | upload, commit, prove, ask for payouts, collect, restart | wallet, node | several threads, a save in two steps | a second payout of an epoch is built only if the archivist did not hear of one | `Archivist` |
| Call signalling: `src/src/web/Backend/` | connections, active calls | authenticate, offer, answer, hang up, time out, clean up | clients, a node | handlers of several locked parts | a client is in one call at most | `Calls` |
| Start from a snapshot: `utils/bootstrap.py` | the node's directory, one moved aside, a staging one | extract, swap, validate, clean up, roll back | chain store | a kill between any two | a good database is not lost, unless another one was validated in its stead | `Bootstrap` |
| Rewards: `consensus/rewards.py` | none | scheduled reward, supply up to a height, block reward | both validations, the miner | halving boundaries, a cap within an epoch, a count by epochs beside a running sum | the counts agree; bounded supply | `HeaderRules` |
| Wallet windows, explorer pages, native library `src/tsarcore_native`, `src/apps`, `src/tools`, `src/scripts` | see `PROJECT.json` | | | | | none |

`PROJECT.json` lists each with its status, and every hazard with its line and
the properties that watch it.

## 2. The modules

| Module | What it is |
|---|---|
| `BlockTree` | The constants of one network (blocks, parents, heights, work, hash order, coins spent and created) and the pure rules over chains: work, preference, common ancestor, UTXO replay, `_validate_complete_chain`. |
| `BestChain` | The abstract ledger: it holds an acceptable chain and adopts only acceptable chains that it prefers. |
| `ChainNode` | One node: threads that receive, sync, mine, persist and stop, over the shared memory and the LMDB stores. |
| `MCChainNode` | The instances TLC checks. |
| `Mempool`, `MCMempool` | The pool of one node, with the threads that offer, connect, clean and mine. |
| `PeerLinks` | Two nodes that greet each other: accept loop, locks, timeouts. |
| `Sync` | Two nodes that bring forked chains together. |
| `RpcChannel` | The cached encrypted channels to one peer. |
| `Relay` | One transaction on its way to all mempools. |
| `MCNetwork` | The four of them on small instances. |
| `AddressIndex` | The index and totals per address, as operators over a record. |
| `Graffiti` | Events of blocks, their rules, the registry, a storer's requests; extends `AddressIndex`. |
| `ChatSession` | Two chat clients: X3DH and the double ratchet over a relay that reorders and loses. |
| `ChatRelay` | The relay: bundles, one-time prekeys, mailboxes, receipts. |
| `Archivist` | The storage node: uploads, proofs, payouts. |
| `Miner` | The mining loop beside a node. |
| `Calls` | The signalling of calls. |
| `Bootstrap` | The start from a snapshot. |
| `HeaderRules` | Emission, compact bits, retarget and time rules, and the two validations that apply them, over a chain that grows under clocks that are off. |
| `MCServices` | The eight of them on small instances. |
| `Mempool_proofs`, `Graffiti_proofs`, `HeaderRules_proofs` | The theorems of these modules, `Graffiti_proofs` with those of `AddressIndex`. |
| `Services_proofs` | The theorems of the miner's loop, the start, the calls, the archivist, the request channels and the chat relay. |
| `Recursion` | Lemmas: how a function defined by recursion over `0..n` unfolds, from the well-foundedness of the naturals, what a sum over a finite set is, how it changes with one summand and what bounds it, and the same for a fold over a sequence; the elements of a finite set of naturals by rank; quotients, powers of two, and a mean, plain or weighted, among its terms. |
| `ChatSession_proofs` | That two wallets stay in step. |
| `ChainNode_proofs` | Facts about replay, work, the preference order, sound chains and ancestors; the theorems of `ChainNode` about types and the stores, and what a store with holes reads back as. |
| `BestChain_proofs` | Its theorems about the chain itself, and that it implements `BestChain`. |

### How `ChainNode` corresponds to the code

A block is a model value. Its hash is itself, and the constants say what its
bytes say. `FullValid` is the set of blocks whose own content passes
`validate_block` on their parent; `ReorgValid` the set whose content passes the
per-block rules of `_validate_complete_chain`, a different function with other
rules (no signature or graffiti rules, but in-block chained spends are refused),
so the two sets differ. Header times and coinbase maturity, which depend on the
ancestors of a block and on nothing else, are part of these sets. An element of
the chain carries the block and the hash its object answers: after a load that
is a cached value taken from the successor's parent field
(`_fetch_kv_chain_data`), which is not the block's own hash when the store has a
hole.

A step of a thread is the code between two points where another thread can look:
lock boundaries, unlocked reads and writes of shared state, LMDB transactions.

| Code | Actions |
|---|---|
| `receive_block` | `ReceiveBlock`, `Classify`, (validation), `AddCheck`.., `ForkPrecheck`, `SwapCheck`, `SwapCommit`, `Accept` or `Reject` |
| `validate_block` | `ValidateContext` (lock), `ValidateInputs` (no lock), `ValidateRecheck` (lock) |
| `add_block` | `AddCheck`, `AddAppend`, `AddMark`, `AddApply`, `AddSchedule`; the genesis path in its own order (apply, schedule, mark) |
| `swap_tip_if_better` | `SwapCheck`, `SwapCommit`, then the save with the lock held, `RebuildUtxo`, `UtxoClear`, `UtxoPut`, `CountBlocks`, `SaveState` |
| `_apply_reorg_from_sync`, `replace_with` | `ReplaceBuild`, `ReplaceCheck`, `ReplaceCommit`, the same tail, `Announce` |
| `save_chain` | `SaveBegin`, `SaveClear` (a full save), `SavePut`, `SaveEnd`; `SaveAbort` when a reload has shortened the chain under it |
| `maybe_flush_utxo`, `save_state` | `UtxoClear`, `UtxoPut`; `CountBlocks`, `SaveState` |
| persist worker, shutdown | `PersistTake`; `Stop`, `Join`, the final save by `Main` |
| `mine_block` | `ReloadRead`, `ReloadWipe`, `ReloadAssign`, `ReloadHeight`, `ReloadClean`, `ReloadVerify`, `MineBuild`, `MineFound`, validation and `add_block`, `MineStop` |
| start of the process | `Init`; `Boot` (with `LoadedChain`, `Resets`, `LoadedCoins`) after `Crash` or `Restart` |

Points a reader of the code will look for:

- `add_block` takes no lock, hence five actions; `swap_tip_if_better` and
  `replace_with` keep the lock from their check to their end, so the locals of
  the save that holds the lock are one record, `save`. The lock does not keep
  appends out between their comparison and their assignment, hence a check and a
  commit. A check reads the chain once in the model; it is exact for appends, of
  which the code sees some or all, while a miner's reload in the middle of a
  check is abstracted.
- `_should_flush_chain` is always true with `CHAIN_FLUSH_INTERVAL = 1`, the
  configured value, and is left out. A `flush` that is not forced writes nothing,
  because `update` has already saved and reset `_dirty`.
- `rebuild_from_chain` in memory is one step. A miner's `load_chain` reads the
  store in one transaction and assigns the chain, the persisted height and the
  dirty mark one after the other, without the lock; at the start of the process
  nobody looks on, so `Boot` is one step. `UtxoClear` and `UtxoPut` are the two LMDB transactions of a forced
  flush, both under `UTXODB._lock`.
- the sync thread builds its candidate on a copy of the chain (`ReplaceBuild`), and
  `replace_with` compares it with the chain it finds under the lock; `Branches` lets
  a peer serve lists that fork anywhere.
- a miner's own block is marked as seen when it is broadcast, without passing
  `_processing_blocks`.
- the mempool, notifications, backups, the hash cache and `total_supply` are
  left out of the core; the mempool has a module of its own.

### How the other modules correspond to the code

`Mempool`. `TxPool` takes its lock per operation, so a call of `add_valid_tx` is
the steps `Offer`, `Judge`, `FindConflicts`, `Replace` (one rival a step), `EnsureSpace`,
`Insert`; the flush that follows a change is `Flush` (the snapshot), `FlushClear`
and `FlushWrite`. `last_error_reason` is one field that all threads
write, as in the code: an offer clears it, refusals, pruning and the building of a
candidate set it, and `QueueOrphan` and, for a transaction that `recheck_orphans`
offers again, `QueueAgain` decide by it, whoever wrote it last. What `_post_add_block_success` and the ledger do to the
pool after a block is a script of such operations per thread. A transaction is a
model value with prevouts, outputs, fee and size; the rules of form and signature
and coinbase maturity are taken as passed; `current_size` is the sum of the
sizes. `Tick` lets the interval between flushes end at any time, so a flush may begin
while another is still being written; `crossed` remembers that it has happened. A change
of the ledger is one step, since `ChainNode` has its parts.

`PeerLinks`. A connection is who dialled it and what for. `Setup` reads the first
frame with `Network.lock` held, `Serve` dials back with it held; the timeouts that
end both are `NoFirstFrame` and `HandshakeFails`.

`Sync`. A chain is its sequence of labels, a block the path to it, so equal hashes
are equal paths. `Ask`, `Answered`, `Begin`, `Fetch`, `ApplyReorg` follow
`sync_with_peers` and `_download_blocks`; `Lost` is a request without an answer,
in which case a reorganisation goes on with what it has. Forks are no deeper than
`REORG_LIMIT`, which is less than `HEADERS_BATCH_MAX`; the direct announcement of
a block is left out, so convergence does not lean on it.

`Relay`. Neither phase of Dandelion puts a transaction on the wire in this code:
`receive_tx` marks it as seen before `broadcast_tx_fluff`, which drops what is
marked, and `_send_stem` calls a method its host does not have. The actions are
what is left: reception from a wallet, a push that is noted however it ends, and
the pull at the end of every HELLO.

`Graffiti`. A transaction stands for its event and for its one output in the pool
of an artwork. `Connect` applies the coins of a block and `Record` one event at a
time, with a kill possible in between; `Reorganise` replays the chain over an
index and a registry that are not cleared, as `rebuild_from_chain` does.
`AddressIndex` is dropped by a load and built when a balance is asked.

`ChatSession`. A key is what it was derived from, and a ciphertext opens under the
key it was made with: cryptography is taken to be perfect, and what is left is
which key each side has. `Session` is the record of a `RatchetSession`; its skipped
keys are a sequence, in the order of the dict they stand for: a key of an id that is
there takes its place, a new one goes to the end, and the oldest makes room. `ReadInSession`, `ReadAgain` and `ReadAsResponder` are the
three ways through `_process_chat_items`; an exception drops the rest of the answer.
A message to a contact without a session asks for a bundle, and nothing remembers that
one was asked for (`asks`), so a second message may ask again; the callback of each
answer runs whole on the window's thread (`root.after(0, ...)`,
`src/src/kremlin/services/rpc_kremlin.py:279-291`) and puts its session in the place of
the one that is there (`replaced`). The nested event loop of the password dialogs is not
modelled.

`ChatRelay`. A handler is as many steps as it takes `chat_lock`: `Prepare`,
`PutBundle`; `DeleteBundle`, `ClearRam`; `DedupMid`, `Accept`, `Queue`, `EnqueueRcpt`.
Bundles are stored, everything else is lost with a restart. Left out: rate limits and
proof of work, onion hops (`CHAT_FORCE_RELAY` is off), lookups, push tokens. The table of
messages seen forgets as the code does: the oldest sender above `SeenSenders` (2000), the
oldest ids above `SeenMax` (512, `chat_seen_max`), and `SeenDropped` (1000) senders when
the mailboxes are collected; `forgotten` has what was dropped. Expiry takes what is at the front of a mailbox, up to the
first message that still lives, as `mailbox_put` and `gc_mailboxes` do.

`Archivist`. The threads of wallets, of the refresh, of the payouts and of the
proofs; a request to the node is sent, built or refused, and answered, so anything may happen in
between. The answer of a payout may be lost; `RPC.call` then sends the same envelope once
more, which the nonce refuses unless the first never arrived, and a request that was given
up may still be handled (`late`, which has what was asked and not how often). The node's
own cooldown is taken as a refusal at any time, which allows more than the code. The payout guard is saved before the request. An index is saved by a
clear and a put, so `RestartArchivist` finds it whole or empty.

`Miner`, `Calls`, `Bootstrap`. A step of the mining loop ends where another thread
may set the event; a step of a signalling handler where it gives the lock back; a
step of the bootstrap at each change of the file system, with `Stop` possible after
each. Moving, installing, deleting and putting back may fail. `handle` is the LMDB
environment that `storage/kv.py:38-63` keeps under the path: what was opened before a
directory is moved goes on being read.

`HeaderRules`. A header is its time, its bits and the subsidy in its coinbase; the
fees, which both validations add in the same way, are left out, and so are hashes and
links, which `ChainNode` has. `AcceptedAlone` is what `validate_block` asks of a block
on the tip, with the subsidy by `cumulative_supply_until`; `AcceptedAfter` what
`_validate_complete_chain` asks of each block of a candidate, with the subsidy by its
own running sum. `MineOnTip` takes a block the first way, from a miner whose clock may
be off, `AdoptBranch` replaces the tip by a branch of one or two blocks the second way.
The converse of `WholeChainAgrees` does not hold: `validate_block` also refuses a
block more than a block time before its parent, so a branch with such a block passes in
a reorganisation and not on the tip. The second cap in `_calculate_reward`, by
`total_supply`, is left out: the configured schedule ends below `MAX_SUPPLY`.
A byte has `ByteBits` bits and a hash `HashBytes` bytes. The targets of the
instance stay above three bytes, as in the program, where `target_to_bits` is the
inverse of `bits_to_target` up to rounding; below that, which takes a difficulty of
2^232 and more, it is not: it fills the three bytes from the left, and what is read
back is another target. `AboveThreeBytes`, in `HeaderRules_proofs`, says where the line is.

## 3. The runs

### The core

The runs of the core use `MCChainNode`: a genesis `g`, a branch `a1 a2 a3` and a branch
`b1 b2`, whose works make `a1` better than `b1` and the two branches tie at
length two so that the hash decides; `a1`, `b2` and `d2` (a child of `a1`) spend
the coin of `g`, so `d2` is a double spend; `x2` breaks a rule; `a3`, with a
chained spend inside the block, is fit for `validate_block` and not for a
reorganisation. `ReorgLimit` is 1, so a reorganisation of depth two is refused.

| Run | Instance | Checked | What it shows |
|---|---|---|---|
| `ingest` | one connection thread, the worker, all blocks but `d2`, empty directory | `TypeOK`, `StoreFollowsChain`, `UtxoFollowsChain`, `SeenIsJudged`, `ImplementsBestChain`, `ReorgDepthBounded`, `EveryBlockSettled`, `TipReachesDisk` | with one ingesting thread, the ledger implements `BestChain`; UTXO set and store follow it; a block that is taken is let go again, and the tip reaches the disk |
| `restart` | one connection thread, six blocks with a branch of three, on a directory with the genesis; shutdown, one kill or restart at any step | `CoinsStored`, `OneBranch`, `OnlyValidated`, `TipNeverWorsens` | what a restart finds is coherent, although it may be short of blocks, and also a chain with a hole is replaced by a preferred one only |
| `mining` | a miner and two connection threads, two blocks | `CoinsStored`, `ProcessedOnce` | what survives the races of unlocked appends and of a reload that reads and assigns step by step: the coins on disk stay those in memory, and no block is processed twice |
| `lost_block`, `unchecked_block`, `double_spend`, `worse_tip`, `lost_chain` | see below | one property each | disagreements between the code and what it says of itself |

Bounds. Threads: two connection threads are enough for every pair of steps to
overlap; the third actor on the locks is the worker. Blocks: with `Branches` the
five to seven blocks of the runs without a miner give extensions, gaps, competitors of the tip that win, lose
and tie, reorganisations of depth one and two, an invalid block in a branch, and
the genesis path. `MaxRestarts = 1` suffices for a crash at every step and a full
second life, which starts from what the first left. The branch of three is what a
hole takes: the store of `restart` may hold `g`, `a1` and `a3`, and the second life begins on
it. `Stoppable` bounds shutdown to the run about
it. No counter of the program is cut: heights and counts are bounded by the
blocks. Symmetry is over connection threads, in runs that check only safety.

Deadlock is not checked: a node with no input waits for ever, and a node that has
exited does nothing.

Fairness (`FairSpec`, run `ingest`). Weak fairness of the steps of each thread
that is inside an operation, of the worker's take and of the join: the
interpreter schedules every runnable thread. Inputs, mining, shutdown and crashes
are never owed. Weak fairness on a lock's acquisition is justified here since
with one connection thread a waiting thread finds the lock free for good once
its only rival has left; with a miner it is not (an RLock is not fair), and
`EveryBlockSettled` is claimed for no run with one.

Some properties are bound to their run on purpose. `UtxoFollowsChain` fails with
two connection threads (the rebuild of a reorganisation and the delta of an
append overlap) and after a kill between append and update. `ImplementsBestChain` fails
with two, as the findings show. A miner's reload, which may read the store before a
save and assign the chain after it, breaks more: TLC finds `AllBlocksStored`,
`SeenIsJudged`, `LedgerSound`, `UtxoFollowsChain` and `StoreFollowsChain` violated, and
with a chain of two blocks `OneBranch`, which is why `mining` claims only what it does.
`StoreFollowsChain` fails after a restart with a
hole in the store, since list positions and heights then differ.

### Mempool, network, services

| Run | Instance | Checked | What it shows |
|---|---|---|---|
| `mempool` | `MCMempool`: rivals `p` and `q`, `r` that spends `p`'s output; five bounds, one chosen at the start: two threads with the rivals, two with the orphan, one with everything and two changes of the ledger, one that flushes and is restarted, two that flush | `TypeOK`, `IndexSound`, `SerialConflictFree`, `SizeBounded`, `PrunedIsSpendable`, `CleanIsStored`, `CandidateApplies`, `OrphansRevisited` | the prevout index never blocks a free coin; the pool outgrows its limit by one transaction per extra thread at most; a clean pool is the stored one, unless a flush has begun before another was written; every candidate applies; orphans are looked at again as long as pools are received |
| `network` | `MCNetwork`, one of four parts moving: two nodes that greet each other (both, or one that falls silent, or two rounds with a change of a mempool); two nodes with chains of up to three and two blocks, lost requests and a gap; two threads and three channels; three nodes in a row with one lost transaction | `ChannelExclusive`, `NobodyWaitsForever`, `Converges`, `AllHear` | the waits of two nodes for each other are ended by timeouts; forked nodes end on one chain; no channel is shared; a transaction reaches every mempool |
| `services` | `MCServices`, one of eight parts moving: chains of two or three blocks with a post, a comment and three payouts, one reorganisation, one kill; two wallets that send three and one or two and two messages, one opener, one restart, one loss; the relay with two wallets, three messages and a table of messages seen with room for one sender and one id; one artwork with up to three epochs, uploads, a failed proof, a lost answer, a restart; six tips; three clients in a ring of calls on three connections; three starts; chains of five to twelve headers under four schedules | `KnowsItsChain`, `EpochRecordedOnce`, `BalanceNeverShort`, `InStep`, `MailCount`, `OpkOnce`, `DeliveredOnce`, `AskedOnce`, `StaleIsAborted`, `OneCall`, `GoodIsKept`, `PaidEpochKept`, `WholeChainAgrees`, `RightDirection` | see the comment of each property |
| `chat_healing` | `MCServices` with two wallets that open a session at once | `HandshakeHeals` | see below |

The parts of `MCNetwork` and of `MCServices` share no variable and read nothing of
each other, so one part moves in a behaviour (`moving`) and the others stay as they
start: every behaviour of a part is explored, and the product of the parts, which
would show nothing more, is not. A record of bounds chosen at the start keeps an
instance small where several small ones show what a large one would.

Bounds. Two threads suffice for every pair of steps of `add_valid_tx`; rivals, a
chain of two and a post are the cases its checks tell apart. In `Sync` a fork of two
against one is a reorganisation on one side, and with three against two the branches
are longer than a batch, so a download has more than one request and may be
overtaken. Three relays in a row are the shortest line on which a transaction must be passed
on. Three clients in a ring let every client be called while it calls. A second
payout of an epoch, and one of the next, are what the registry must tell apart.
The properties that name `Alone` hold with one thread at work only: two calls of
`add_valid_tx` may admit two rivals, and the properties say so: `SerialConflictFree` does
not watch that race, as `OnlyValidated` in `restart`, with one connection, does not watch
the one of `unchecked_block`. `SizeBounded` does not say that what enters pays more than
what was evicted. It and `CleanIsStored` except flushes that cross: what is on disk may
then be an older pool, or a mixture of two, which a restart loads. `EpochRecordedOnce` speaks
of artworks posted once, since a second post starts a new entry, and `KnowsItsChain` of
nodes without a reorganisation or a kill, since the registry is not rewound; that it is
not is a hazard no property watches.
The headers use the ratios of `config.py`, a window of three blocks and bytes of two
bits. One instance has three delays and three errors of a clock, in which the easing
of `_apply_eda`, both clamps and times that go backwards occur; the others have one clock
and chains long enough for three or four halvings, with a cap that is reached within an
epoch, at the end of one, or never.
`InStep` is checked with one side that opens the session. It excuses a session
whose first message was lost with the name of the prekey in it, and sessions that were
replaced: two first messages sent before the first bundle is there open two, and without
the exception TLC finds the ratchets out of step, as it finds `HandshakeHeals` violated,
with one opener. `DeliveredOnce` excepts what the table of messages seen has dropped:
without that TLC has a message delivered twice after its id made room for another.
`AskedOnce` excepts payouts whose answer was lost: without that (`twice` empty) TLC
has the node build a second one after the cooldown, and `record_payout`, which
`EpochRecordedOnce` is about, is what keeps it from being recorded. `GoodIsKept` excepts a
validation that read another database (see below).

Fairness. `Mempool` (`FairSpec`): weak fairness of the steps of each thread inside
an operation and of the cleaning that follows a block; blocks themselves, offers,
receipts of a mempool and restarts are not owed. `OrphansRevisited` therefore has the
hypothesis `PoolsKeepComing`: peers send their mempool only when it has changed and is not
empty, and a node that is catching up does not look at its orphans, so without it an
orphan may stay. `PeerLinks`: the timeouts fire, first frames that were sent
are read and answers given; nobody is forced to dial, to accept or to answer in
time. `Sync`: the loop wakes up again and again, a request that is not lost is
answered, and losses are bounded. `Relay`: every HELLO ends with a pull, and
discovery comes again and again; pushes are never owed. `NetworkSpec` asks the
fairness of `Sync` only where `Sync` moves (`MovingSyncFairness`), since its loop can
always take a step.

### Disagreements found

1. `lost_block` / `AllBlocksStored`. `save_chain` ends with
   `_chain_dirty_from = None` (`consensus/chain_storage.py:67`). A block appended and
   marked by `add_block`, which holds no lock, after the save had read the tip loses its mark. If
   another block is appended and marked before the next save, that save starts at the later
   height, and the earlier block never reaches the store.
   `src/docs/ARCHITECTURE.md:968`: "Valid blocks are committed to the LMDB
   database."
2. `unchecked_block` / `OnlyValidated`. A block whose parent is not the tip at
   classification skips validation; the comment at `network/cast/receive.py:201`
   says that "downstream logic (swap_tip_if_better/add_block) enforces all consensus
   rules". `add_block` checks height and parent only. When the tip becomes the
   block's parent in between, the block is appended unvalidated.
3. `double_spend` / `LedgerSound`. `validate_block` reads the UTXO set outside the
   lock. Between the append of the parent (`chain_ops.py:105`) and its deltas
   (line 123), a child that spends what the parent spent passes; the token that
   is compared afterwards holds only height and tip. `src/docs/ARCHITECTURE.md:967`:
   "Re-verifies all UTXO inputs".
4. `worse_tip` / `TipNeverWorsens`. `swap_tip_if_better` and `replace_with` compare the
   candidate with the chain under the lock (`chain_ops.py:218-244`, 131-158), but
   `add_block` takes none: another thread may append before the tip is assigned
   (`chain[-1] = block`, line 250) or the list (`chain = list(other)`, line 165), and what
   was appended is overwritten although the node prefers it.
   `src/tests/tsarchain/consensus/chain_ops_test.py:25` lists "lower work, shorter height"
   among what a replacement must refuse.
5. `lost_chain` / `NoDataLoss`. The final save, "to ensure no data loss"
   (`consensus/blockchain.py:232`), clears the chain store in one transaction and
   refills it in another; a kill in between leaves an empty chain.
6. `chat_healing` / `HandshakeHeals`. `src/src/kremlin/security/chat/triple_xdh.py:685`
   announces "Self-healing: if decryption fails and message appears to be a new
   handshake". The recovery waits for `decrypt` to return `None`, but a key that does
   not fit makes AESGCM raise, which `double_ratchet.py:285-288` lets through. When
   both wallets open a session at once, the first message of each side raises in the
   session the other has made, the new handshake is not tried, and the rest of the
   answer to the poll is lost.

Met while modelling, without a run: no `NEW_TX` is ever relayed
(`network/cast/receive.py:133` with `gossip.py:85`, and `dandelion_pp.py:127`); the
transactions of a replaced chain are not taken back (`consensus/chain_ops.py:200`); a
tip swap leaves a stale hash in the explorer's cache (`chain_ops.py:259`). Without a
`snapshot.meta.json` the local height is read from the chain itself
(`utils/bootstrap.py:351-353`), which leaves the database open under its path
(`storage/kv.py:38-63`); `_validate_snapshot_chain` then reads the database moved aside, a
bad snapshot passes on its word, and line 148 deletes the good one (TLC finds `GoodIsKept`
violated in six steps without its exception). The other way round, after a snapshot was
refused the handle stays on the refused database, which was deleted, and the
node goes on with it, although the log says that the previous one was restored. A comment calls `DIFF_CLAMP_MAX_UP = 1.5` the "ratio cap for upward
difficulty moves" (`utils/config.py:344`), but `_apply_diff_clamp` applies it to the target
(`difficulty.py:119-122`): the difficulty rises up to 2.5-fold, by `DIFF_CLAMP_MAX_DOWN = 0.4`,
and falls 1.5-fold, or 2-fold when `_apply_eda` steps in. The model does as the code does.

## 4. The proofs

`tlapm` proves, with no assumption beyond the named `ASSUME`s of the modules (what
the constants are; TLC evaluates them in every run):

- `CoinsAlwaysStored`: `Spec => []CoinsStored`, for all constants, with miners,
  shutdown and restarts. `CoinsStored` is inductive as it stands: `UtxoClear`
  takes or keeps the lock, `UtxoPut` makes the two equal, `AddApply` runs with
  the lock free, when they are equal, and changes both alike, and `Boot` writes
  one value to both.
- `TypeCorrect`: `Spec => []TypeOK`, for all constants, with miners, shutdown and
  restarts. The strengthening `InHand` says
  that a connection thread outside its idle step has a block in hand. A reload needs
  what `StoredChain` makes of a store with holes: the stored blocks in the order
  of their keys (`StoredEntries`), from the facts about ranks in `Recursion`.
- `StoreFollows`: `NoReload => (Spec => []StoreFollowsChain)`, for any number of connection
  threads. The invariant of the runs is not inductive; `IInv` adds `Locked` (who is
  inside the critical section holds the lock, and the tip it stores is still on
  the chain) and `StoreInv`: while a reorganisation is between its change of the
  chain and its put, the heights at which store and chain differ (`Stale`) are at
  or above the height its save starts from, and otherwise there are none. The
  step that needs care is `SaveEnd`'s reset of the dirty mark, which may lose the
  mark of an append; that is why the theorem speaks of what the store holds and
  `AllBlocksStored` fails.
- `ReplayAppend`: replaying a chain with one more block is the replay of the
  chain with that block's deltas. `LongerIsPreferred`: the longer of the two is
  preferred, so what `add_block` appends is what a comparison would have chosen.
- `TipOnlyImproves`: `OneReader => (Spec => TipNeverWorsens)`, for one connection thread without
  miners, with restarts. What was compared still wins when it is assigned, since the only
  thread that appends is the one that compared (`Proposed`); `ChainChange` names the steps that
  change the chain. With two connections `worse_tip` refutes it.
- `NoBlockTwice`: `Spec => []ProcessedOnce`, for any number of connections and miners,
  with restarts. `OnceInv` adds what keeps a block from a second thread (`Tracked`):
  who works on a block has it in `processing`, except while it announces a
  reorganisation's tip.
- For one connection thread beside the worker and the shutdown, on a directory that is
  empty or holds a sound chain (`OneConnection /\ StartsSound`, the hypotheses of run
  `ingest`), and for every tree of blocks, peers' branches and limit:
  - `LedgerImplementsBestChain`: `Spec => ImplementsBestChain`, and from its invariant
    `NoDoubleSpend` (`LedgerSound`);
  - `CoinsFollowChain` (`UtxoFollowsChain`), `SeenBlocksJudged` (`SeenIsJudged`) and
    `ReorgWithinLimit` (`ReorgDepthBounded`).

  The hypothesis of one connection is what the code lacks a lock for: with two, `double_spend`
  refutes the first two. The invariant `OneInv` says what each step
  of a thread relies on. `Validated`: from the validation to the append the block in hand
  still extends the chain and spends unspent coins, or it can attach nowhere and
  `add_block` will refuse it. `Settled`: the UTXO set is one block behind the chain between
  append and update, anything between a reorganisation and its rebuild, and the replay
  otherwise. `TipInHand` and `Returns`: what `update` applies is the tip. `ChainInv`: the chain is
  sound (`Sound`, what `BestChain` calls acceptable) and what is seen was judged; a block
  judged against a chain stays so when a preferred one follows (`JudgedByBetter`), which needs
  that the preference is transitive (`PreferredTransitive`). A reorganisation that gives up a block
  shares the chain below the fork with it (`SharedPrefix`), so `replace_with`'s bound on the
  ancestor's depth bounds what is given up.
- For one connection thread without miners, with any number of kills and restarts
  (`OneReader /\ StartsSound`, the hypotheses of run `restart`), after which the store may have
  holes and the chain may be short of blocks:
  - `EveryBlockValidated`: `Spec => []OnlyValidated`. A start validates nothing but the genesis,
    so the invariant (`ValidInv`) is about the store as well: what it holds has passed a
    validation, since only blocks of the chain are written to it. With two connections
    `unchecked_block` refutes it.
  - `BranchesNeverJoined`: `TreeHeights => (Spec => []OneBranch)`. `OneBranch` is not inductive:
    a start makes the chain of the store, and the store is written in pieces. `BranchInv`
    says of the store that its keys follow one path upwards, that none lies above
    the height of its block and that the meta record names the last (`PathStore`); of a
    save under way, that it writes the tip it has read above all other keys
    (`Saving`, `Keys`); and of the chain that it is a path whose positions are the store's
    keys (`Following`), or that a start has met a hole (`Frozen`). After a hole the positions
    of the chain are not heights: no block fits on its tip, nothing is marked or
    scheduled, so no save begins on its account, and it stays as it is until a synchronised
    branch replaces it, a save clears the store first, or the node starts again. That a loaded
    chain is a path, and one without a hole if its last block is at its own height, is
    `LoadedPath`; the facts about paths and ancestors are
    in `ChainNode_proofs`.
    `TreeHeights` says that the height in a header is the parent's plus one. The runs have such
    trees; without it a block with a false height could take the place of the tip
    of a chain with a hole, whose positions are not heights either.
- Of `Mempool`, for any number of threads and transactions:
  - `MempoolTypeCorrect`: `Spec => []TypeOK`. `Held` adds which steps have a
    transaction in hand, without which `Insert` could add none.
  - `IndexAlwaysSound`: `Spec => []IndexSound`, inductive beside the types: whoever
    removes an entry removes what the index says of all its prevouts, and whoever
    enters is what the index says of its own.
  - `CleanAlwaysStored`: `Spec => []CleanIsStored`. `OneWriter` says that, until flushes cross,
    one thread at most is between its snapshot and its write; what it has in hand is
    the pool, unless the pool is dirty again.
  - `CandidatesApply`: `Spec => []CandidateApplies`. What is taken of the first `i`
    transactions of an order has the property for every `i`, by induction over the
    order (`CandidateIsGood`); a candidate keeps it while the blocks below it stay.
  - `SerialIsConflictFree`: `Spec => []SerialConflictFree`. With one thread, whose flushes do not cross (`Uncrossed`), what is
    found in conflict is what is left to remove at every step up to the insertion
    (`Cleared`), and the index knows every prevout of the pool (`Indexes`).
  - `PrunedAlwaysSpendable`: `Spec => []PrunedIsSpendable`. A transaction in hand was
    judged by the coins that are there, since one thread changes the ledger only
    between two offers (`Judged`).
  - `SizeAlwaysBounded`: `Spec => []SizeBounded`, from `SizeAssumption` (a transaction fits
    into an empty pool: `MAX_TX_VSIZE` is 10 kB, `MEMPOOL_MAX_SIZE` 2 MB). `Roomy` bounds the
    size of the pool together with what the threads between `_ensure_space` and `add_tx`
    are about to add; after an eviction the others have one transaction each. That an eviction
    frees what it must (`EvictionFrees`) follows from the cheapest entry it leaves: all
    that is cheaper has gone, which needs that the order of fee rates is transitive
    (`CheaperOrders`, by cross-multiplication).
- Of `ChatSession`, `RatchetsInStep`: `ChatSpec => []InStep`, until a session is replaced by another, under `OneOpener`, which says
  what else `InStep` needs: one wallet at most opens sessions, and each sends no more messages
  than a session keeps skipped keys (`MaxSkip`, 200 in `config.py`), so that no key is ever
  dropped for want of room. That is more than needed, since messages that were read take no
  room, but the behaviours stay unbounded in everything else. The run `services` satisfies it; two wallets that both open are the subject of
  `chat_healing`. `InStep` says nothing of the keys, so the invariant `ChatInv` must. Until the
  handshake fails, nothing was missed, and there is no session (`Apart`), one that nobody
  has answered (`Opened`), or two, of which one leads (`Paired`): its ratchet was turned last,
  to the key the other one sends with (`Leads`). Every message on its way to the leader has
  a skipped key (`Kept`) or an index still to come in the chain being received (`Current`);
  to the other one also, or it is in the chain the leader has turned to (`Ahead`).
  Reading one of the last turns the other's ratchet, and it leads (`ReadAhead`,
  `ChangesPlaces`); reading any other leaves the order as it is (`ReadByLeader`,
  `ReadBehind`), and the responder leads from the first message on (`ReadFirst`).
  Three things more make it inductive: ids of messages and of skipped keys name one
  each, since a new ratchet key is new (`FreshIsNew`); no skipped key is of an index
  still to come (`NoneToCome`); and the keys that are kept, those that messages on their way
  can skip and the messages still to be sent fit together under `MaxSkip` (`LeaderFits`,
  `OtherFits`). That the skipped keys are stored behind one another is an induction over
  the fold of `_skip_message_keys` (`AllStoredBehind`). A restart keeps all of it because
  each step that changes a session stores it.
- `RpcExclusive`: `RpcSpec => []ChannelExclusive`. The strengthening `Engaged` says
  that a thread has a channel exactly while its request is out; a thread that gives
  its channel back would otherwise be free to put one into the cache it never had.
- `OpkHandedOnce`: `MailSpec => []OpkOnce`. `ListedIsFresh` says that a prekey in a
  bundle is its owner's and was published more often than it was handed out; so it
  is in one list, and leaving it makes up for the handing out. Restarts keep the
  bundles, which are stored.
- `DeliveredOnlyOnce`: `MailSpec => []DeliveredOnce`. A message that was accepted is in one
  place (`InOnePlace`): in the hand of the request that brought it, in its mailbox or
  handed over; and unless it was forgotten it is remembered in the table of messages seen, so a retry
  brings no second one. A sender who leaves is dropped from the table, and so is what was
  seen first when the table is full, which is why the property is of messages that are
  not dropped.
- `CountIsRight`: `MailSpec => []MailCount`, from `MailAssumption` (the addresses are finite).
  Every handler changes one mailbox and the count by as much (`CountChanges`, a sum in which
  one summand changes); so the `max(0, ...)` of `chat_deactivate` never has to cut.
- `NoStaleSearch`: `MinerSpec => []StaleIsAborted`. `MinerInv` adds that a worker
  exists only while the loop watches it, so the event is cleared when nobody searches.
- `KeptThroughKills`: `BootSpec => []GoodIsKept`, also when steps fail. `BootInv` says at each
  point of the start which directories hold what, and what the process has open: between
  the move and the validation the good database is one moved aside.
- `OneCallAtATime`: `CallsSpec => []OneCall`, inductive as it stands: a registration
  ends all calls of the caller and is refused when one of the callee is left.
- `HeardNotBuiltAgain`: `ArchSpec => []AskedOnce`. `GuardHolds` adds that a payout that was
  built and heard of is below the guard's epoch, or at it and the guard says "ok", or its
  answer is on the way (`HeardIsGuarded`); that a request on its way has the guard at its
  epoch (`AskIsGuarded`) and asks for nothing that was heard of (`AskIsNew`). The guard, not the
  proof or the index, carries the promise over a restart.
- Of `Graffiti`, for any artworks, transactions and blocks, any number of reorganisations,
  kills and reloads, from `GraffitiAssumption` (what the constants are: amounts are
  naturals, a transaction has one event):
  - `IndexNeverShort`: `GSpec => []BalanceNeverShort`. `Covers` says that a live index lists
    every coin there is and that each of its totals is at least what it lists is worth. A
    replay adds an output again but lists it once, so totals only err upwards; what a block
    takes was listed, so the deltas never cut a total below what is left.
  - `EpochPaidOnce`: `GSpec => []EpochRecordedOnce`, and `PaidStaysPaid`:
    `GSpec => PaidEpochKept`. `PaidInOrder` says that what is recorded as paid for an artwork
    with one POST is at most its last paid epoch, so the comparison of `record_payout` alone
    refuses a second payout. The replay of a reorganisation is a fold over the events of
    the chain (`RebuiltIs`); each event keeps the invariant and the last epoch
    (`RecordedInOrder`, `RecordedKeepsEpoch`), and so does the fold (`RebuiltKeeps`).
    Another POST of the artwork starts a new entry with nothing paid, which is why
    `PaidEpochKept` speaks of chains that have no other.
  - `RegistryKnowsChain`: `GSpec => []KnowsItsChain`. What was recorded and what is left to
    record (`todo`) are together the events of the chain (`KnowsSoFar`).
- Of `HeaderRules`, for any schedule, any parameters of the retarget and any clocks, from
  `RulesAssumption` (what the constants are):
  - `SupplyStep`: the count by epochs of `cumulative_supply_until` grows with each block by
    that block's reward, up to the cap. `SupplyForm` writes the count as what the epochs
    that are over give, and the blocks of the running one; `TotalsAgree` says that the
    first part does not change from one height to the next.
  - `WholeAlwaysAgrees`: `RulesSpec => []WholeChainAgrees`. The invariant is that the chain
    passes as a whole; `MintedIsSupply` then gives the count by induction over its blocks,
    and with it a block's reward by epochs is the one by the running sum, so a block that
    passes alone keeps the invariant. The clock only grows, so what passed passes later.
  - `RetargetsRightly`: `RulesSpec => [](AboveThreeBytes => RightDirection)`, with
    `RetargetAssumption` (the windows and the fractions are ordered as in `config.py`: EDA
    looks back no further than LWMA, easing eases). The invariant `BitsInv` is that every
    block's bits are a mantissa and an exponent whose target is not easier than the easiest. A
    mean lies among its terms, weighted or not (`MeanOf`, `WeightedMeanOf`), so the
    difficulty of the mean is at least, or at most, that of some block (`LwmaForm`); the
    clamp leaves the target between itself and the last block's (`ClampedFacts`);
    EDA changes nothing if no block was late, and otherwise raises the last target
    (`EasedFacts`). `RoundedKeeps` is the step the code does not show: three bytes lose digits,
    but no target that bits can hold, so rounding never passes below a past block's
    target. All of it is arithmetic with products of variables, done by lemmas about
    products (`Products`, `QuotientBounds`), and the bytes are powers of two
    (`PowerDoubles` takes from the library that 2^n counts subsets). `AboveThreeBytes` says
    that each target of the chain, lowered by the clamp once, has more than three bytes,
    which in the program every difficulty up to 2^230 satisfies; every state of the run
    `services` does.

`NoReload`, a hypothesis of `StoreFollows` and of the theorems for `OneConnection`, says that
nothing is read back from the store: no miner threads and no restarts. They need it:
with a hole in the store (run `lost_block`), list positions and heights differ after a reload
and `StoreFollowsChain` is false; a kill between an append and the update of the UTXO set
falsifies `UtxoFollowsChain`; and a start or a miner's reload gives up blocks, as the abstract
ledger never does.

Proof by induction over chains is done without an induction rule that takes an
operator: `Recursion` states it over sets of naturals (`SetInduction`) and proves
that an iteration exists and unfolds (`IterationExists`), from which `UnspentDef`
follows for the recursive function in `Unspent`.

What is only model-checked: everything about liveness and fairness (`EveryBlockSettled`,
`TipReachesDisk`, `OrphansRevisited`, `NobodyWaitsForever`, `Converges`, `AllHear`), which
is out of the prover's reach; what the runs that expect a violation check; `InStep` for
wallets that send more than `MaxSkip` messages each; and `RightDirection` for targets of three
bytes and less.

## 5. Plan

Done: the core with its races, crashes and proofs; the mempool; the exchanges of
nodes; the services. What is left, in this order:

1. Proofs: `InStep` for any number of messages, of which no more than `MaxSkip` are
   skipped at once; the bound would count what is outstanding instead of what is sent.
2. Models: the rate limiter; the hash cache of the explorer; coinbase maturity in the
   address index.

## 6. Not modelled

- Byte formats, hashing, signatures and session encryption (`core/tx.py`,
  `core/coinbase.py`, `network/protocol.py`): functions of bytes; the models take a
  transaction, a block, a key or a ciphertext as a value with what the rules read of it.
- The wallet's windows (`src/src/kremlin/tab_ui` and what they call), the explorer's
  pages and queries: about half of the repository's lines. They show and ask; the state
  that matters is that of the node, the chat client and the signalling, which are
  modelled. The key storage is files and encryption.
- The admission tokens and the rate limits: they refuse requests, and a refused
  request is one that is not made; every model allows that.
- The economic figures of the state snapshot, the snapshot backup, notifications:
  written for display or for export, read by no rule of the node.
- The Rust code behind the native calls: its effect is modelled at the call.
- `src/apps`, `src/tools`, `src/benchmarks`, `src/scripts`: entry points, inspection
  and measurement.
