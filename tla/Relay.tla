---------------------------------- MODULE Relay ----------------------------------
(***************************************************************************)
(* How one transaction comes from the wallet that made it to the mempools  *)
(* of all nodes: over the stem and fluff phases of Dandelion, and by the   *)
(* exchange of mempools that ends every discovery round.  Neither phase    *)
(* puts a NEW_TX on the wire: to fluff means to drop what is marked as     *)
(* seen, and receive_tx marks it first; to stem raises, for the host has   *)
(* no _send.  So a NEW_TX comes from a wallet only.                        *)
(***************************************************************************)
EXTENDS Naturals, FiniteSets

CONSTANTS
  Relayer,        \* nodes
  PeersOf,        \* PeersOf[n]: the peers n knows
  MinPeers,       \* CFG.MIN_PEERS_FOR_DANDELION
  RelayBounds     \* bounds, one chosen at the start: how often a mempool drops
                  \* the transaction

VARIABLES
  pooled,     \* nodes whose mempool holds the transaction
  seenTxs,    \* nodes that have it in seen_txs
  stemSeen,   \* nodes that have it in _stem_seen
  poolChange, \* per node: mempool.change_seq
  noted,      \* per node and peer: _last_mempool_seq
  drops       \* what is left of the bound

relayVars == <<pooled, seenTxs, stemSeen, poolChange, noted, drops>>

-----------------------------------------------------------------------------
(* NEW_TX *)

Enabled(n) == Cardinality(PeersOf[n]) >= MinPeers

\* add_valid_tx, which refuses what the mempool holds.
Pooled(n) ==
  /\ pooled' = pooled \cup {n}
  /\ poolChange' = [poolChange EXCEPT ![n] = @ + 1]

\* receive_tx outside the stem phase: from a storage node, or with too few
\* peers for Dandelion.  broadcast_tx_fluff then drops what is in seen_txs.
ReceiveFluff(n) ==
  /\ n \notin seenTxs
  /\ seenTxs' = seenTxs \cup {n}
  /\ IF n \in pooled
     THEN UNCHANGED <<pooled, poolChange>>
     ELSE Pooled(n)
  /\ UNCHANGED <<stemSeen, noted, drops>>

\* handle_inbound_stem, of a transaction seen for the first time: there is a
\* peer to stem to, so _send_stem raises, and receive_tx gives up before a fluff
\* timer is set.
Stem(n) == stemSeen' = stemSeen \cup {n}

\* receive_tx in the stem phase, from a wallet: new_tx asks for it.
ReceiveStem(n) ==
  /\ Enabled(n) /\ n \notin pooled
  /\ Pooled(n)
  /\ Stem(n)
  /\ UNCHANGED <<seenTxs, noted, drops>>

\* A mempool loses the transaction: evicted, replaced, or taken out by hand.
Dropped(n) ==
  /\ drops > 0 /\ n \in pooled
  /\ drops' = drops - 1 /\ pooled' = pooled \ {n}
  /\ poolChange' = [poolChange EXCEPT ![n] = @ + 1]
  /\ UNCHANGED <<seenTxs, stemSeen, noted>>

-----------------------------------------------------------------------------
(* The exchange of mempools *)

Stored(n, m) ==
  IF n \in pooled /\ m \notin pooled THEN Pooled(m) ELSE UNCHANGED <<pooled, poolChange>>

\* send_mempool_to_peer: what has been sent is noted, whether it arrives and
\* is looked at (receive_mempool of a node that has caught up) or not.
PushPool(n, m) ==
  /\ noted[n][m] # poolChange[n]
  /\ noted' = [noted EXCEPT ![n][m] = poolChange[n]]
  /\ Stored(n, m) \/ UNCHANGED <<pooled, poolChange>>
  /\ UNCHANGED <<seenTxs, stemSeen, drops>>

\* Mutant: the snapshot is asked for only where there is something to send.
PullPool_WhenDue(n, m) ==
  /\ m \in pooled /\ n \notin pooled /\ noted[n][m] # poolChange[n]
  /\ Stored(m, n)
  /\ UNCHANGED <<seenTxs, stemSeen, noted, drops>>

\* request_mempool_snapshot, forced at the end of every HELLO.
PullPool(n, m) ==
  /\ m \in pooled /\ n \notin pooled
  /\ Stored(m, n)
  /\ UNCHANGED <<seenTxs, stemSeen, noted, drops>>

-----------------------------------------------------------------------------
(* The specification *)

RelayInit ==
  /\ pooled = {} /\ seenTxs = {} /\ stemSeen = {}
  /\ poolChange = [n \in Relayer |-> 0]
  /\ noted = [n \in Relayer |-> [m \in PeersOf[n] |-> 0]]
  /\ drops \in RelayBounds

RelayNext ==
  \/ \E n \in Relayer : ReceiveFluff(n) \/ ReceiveStem(n) \/ Dropped(n)
  \/ \E n \in Relayer : \E m \in PeersOf[n] : PushPool(n, m) \/ PullPool(n, m)

\* Discovery rounds come again and again, and a snapshot asked for again and
\* again is answered.
RelayFairness ==
  \A n \in Relayer : \A m \in PeersOf[n] : WF_relayVars(PullPool(n, m))

RelaySpec == RelayInit /\ [][RelayNext]_relayVars /\ RelayFairness

-----------------------------------------------------------------------------
(* Properties *)

\* Although a push is made once and may be lost, a transaction that some node
\* keeps comes to the mempools of all.
AllHear ==
  pooled # {} ~> pooled \in {Relayer, {}}
=============================================================================
