-------------------------------- MODULE Miner --------------------------------
(***************************************************************************)
(* The mining loop of a miner (SimpleMiner in miner/orchestrator.py) beside *)
(* its node: the loop starts a worker thread for one block at a time and    *)
(* has it stop when a thread of the node that changed the tip says so by   *)
(* the event abort_block_mining.  The loop mines only while its tip is the *)
(* one of the trusted seed, and keeps the blocks it could not send.        *)
(*                                                                         *)
(* A tip is a number; every change of a chain gives it a new one.  What a  *)
(* worker does until it has its candidate is one step, and so is the end   *)
(* of a search with the stale check and the adding of the block, which the *)
(* module ChainNode has in detail.  The signals that stop a miner are left *)
(* out.                                                                    *)
(***************************************************************************)
EXTENDS Integers, Sequences

CONSTANTS PendingMax,   \* how many unsent blocks are kept
          Tips          \* the tips behaviours go through: 0 .. Tips

VARIABLES tip,          \* the node's tip
          newest,       \* the last number given
          seedTip,      \* the tip of the trusted seed
          notice,       \* a network thread changed the tip and has not said so
          connected,    \* there are active peers
          abort,        \* the event abort_block_mining
          loop,         \* where the loop is
          worker,       \* the worker: [at, on, cancel, block]
          unsent        \* the blocks to be sent again (_pending_blocks)

minerVars == << tip, newest, seedTip, notice, connected, abort, loop, worker, unsent >>

NoWorker == [at |-> "none", on |-> 0, cancel |-> FALSE, block |-> 0]

----------------------------------------------------------------------------
\* The node takes a block or another chain: the tip changes first.
TipChanges ==
    /\ ~ notice /\ newest < Tips
    /\ newest' = newest + 1
    /\ tip' = newest' /\ notice' = TRUE
    /\ UNCHANGED << seedTip, connected, abort, loop, worker, unsent >>

\* _on_tip_changed
Notified ==
    /\ notice /\ notice' = FALSE
    /\ abort' = TRUE
    /\ UNCHANGED << tip, newest, seedTip, connected, loop, worker, unsent >>

\* Peers come and go; the seed follows the node, or the node the seed.
ConnectionsChange ==
    /\ connected' = ~ connected
    /\ UNCHANGED << tip, newest, seedTip, notice, abort, loop, worker, unsent >>

SeedMoves ==
    /\ seedTip # tip /\ seedTip' = tip
    /\ UNCHANGED << tip, newest, notice, connected, abort, loop, worker, unsent >>

----------------------------------------------------------------------------
\* The loop's checks: peers are there, and the trusted tip is the local one.
\* Unsent blocks are tried again, at most those the peers take.
Check ==
    /\ loop = "check"
    /\ connected /\ seedTip = tip
    /\ \E n \in 0 .. Len(unsent) : unsent' = SubSeq(unsent, n + 1, Len(unsent))
    /\ loop' = "clear"
    /\ UNCHANGED << tip, newest, seedTip, notice, connected, abort, worker >>

ClearAbort_WhenRunning ==
    /\ \/ loop = "clear" /\ loop' = "start" /\ UNCHANGED abort
       \/ loop = "watch" /\ worker.at # "none" /\ abort' = FALSE /\ UNCHANGED loop
    /\ UNCHANGED << tip, newest, seedTip, notice, connected, worker, unsent >>

ClearAbort ==
    /\ loop = "clear" /\ loop' = "start"
    /\ abort' = FALSE
    /\ UNCHANGED << tip, newest, seedTip, notice, connected, worker, unsent >>

StartWorker ==
    /\ loop = "start" /\ loop' = "watch"
    /\ worker' = [NoWorker EXCEPT !.at = "starting"]
    /\ UNCHANGED << tip, newest, seedTip, notice, connected, abort, unsent >>

\* mine_block builds its candidate on the tip it finds, or refuses to.
WorkerBuilds ==
    /\ worker.at = "starting"
    /\ \/ worker' = [worker EXCEPT !.at = "hashing", !.on = tip]
       \/ worker' = [worker EXCEPT !.at = "over"]
    /\ UNCHANGED << tip, newest, seedTip, notice, connected, abort, loop, unsent >>

\* The loop wakes up, sees the event, and cancels the worker.
Cancel ==
    /\ loop = "watch" /\ abort /\ worker.at # "none" /\ ~ worker.cancel
    /\ worker' = [worker EXCEPT !.cancel = TRUE]
    /\ UNCHANGED << tip, newest, seedTip, notice, connected, abort, loop, unsent >>

WorkerStops ==
    /\ worker.at = "hashing" /\ worker.cancel
    /\ worker' = [worker EXCEPT !.at = "over"]
    /\ UNCHANGED << tip, newest, seedTip, notice, connected, abort, loop, unsent >>

\* A nonce is found: a stale candidate is discarded; any other block becomes
\* the tip.
WorkerFinds ==
    /\ worker.at = "hashing"
    /\ IF worker.on = tip /\ ~ notice
       THEN /\ newest < Tips /\ newest' = newest + 1 /\ tip' = newest'
            /\ worker' = [worker EXCEPT !.at = "added", !.block = newest']
       ELSE /\ worker' = [worker EXCEPT !.at = "over"]
            /\ UNCHANGED << tip, newest >>
    /\ UNCHANGED << seedTip, notice, connected, abort, loop, unsent >>

\* The worker's own block is a change of the tip as well.
WorkerNotifies ==
    /\ worker.at = "added" /\ worker' = [worker EXCEPT !.at = "over"]
    /\ abort' = TRUE
    /\ UNCHANGED << tip, newest, seedTip, notice, connected, loop, unsent >>

\* _queue_block_for_broadcast: the oldest blocks are let go of.
Queued(b) == LET q == Append(unsent, b)
             IN  IF Len(q) > PendingMax THEN Tail(q) ELSE q

\* The worker is over: its block is published, or kept when no peer took it.
Reap ==
    /\ loop = "watch" /\ worker.at = "over"
    /\ worker' = NoWorker /\ loop' = "check"
    /\ abort' = FALSE
    /\ \/ UNCHANGED unsent
       \/ worker.block # 0 /\ unsent' = Queued(worker.block)
    /\ UNCHANGED << tip, newest, seedTip, notice, connected >>

----------------------------------------------------------------------------
MinerInit ==
    /\ tip = 0 /\ newest = 0 /\ seedTip = 0
    /\ notice = FALSE /\ connected = TRUE /\ abort = FALSE
    /\ loop = "check" /\ worker = NoWorker /\ unsent = << >>

MinerNext ==
    \/ TipChanges \/ Notified \/ ConnectionsChange \/ SeedMoves
    \/ Check \/ ClearAbort \/ StartWorker \/ Cancel \/ Reap
    \/ WorkerBuilds \/ WorkerStops \/ WorkerFinds \/ WorkerNotifies

MinerSpec == MinerInit /\ [][MinerNext]_minerVars

\* No worker is left searching on a tip that is gone: either it is told to
\* stop already, or the event is set that makes the loop tell it, or the
\* thread that changed the tip is about to set it.  The event is cleared by
\* the loop in three places while the node's threads set it
\* (orchestrator.py, start_mining and _on_tip_changed).
StaleIsAborted ==
    worker.at = "hashing" /\ worker.on # tip => worker.cancel \/ abort \/ notice
=============================================================================
