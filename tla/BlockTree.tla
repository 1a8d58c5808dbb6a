------------------------------ MODULE BlockTree ------------------------------
(***************************************************************************)
(* The blocks of one network and the pure rules over sequences of blocks   *)
(* that every node applies: the cumulative work of a chain, the tie-break  *)
(* between two chains, the replay of a chain into the set of unspent       *)
(* coins, and the check of a complete candidate chain.                     *)
(*                                                                         *)
(* A block is a model value.  Its hash is the block itself; what its       *)
(* header and body say is given by the constant functions below.           *)
(***************************************************************************)
EXTENDS Integers, Sequences, SequencesExt

CONSTANTS
  Block,        \* the blocks that may ever reach the node
  Genesis,      \* the block whose hash is TSAR_GENESIS_HASH
  NoBlock,      \* ZERO_HASH as a parent, None as a block
  Parent,       \* prev_block_hash
  Height,       \* the height field
  Work,         \* _work_from_bits(bits)
  Rank,         \* the order of the hashes as byte strings
  Coin,         \* outpoints
  Spends,       \* the outpoints of earlier blocks a block consumes
  Creates,      \* the outpoints a block leaves unspent
  FullValid,    \* blocks that meet validate_block's rules on their own parent
  ReorgValid    \* blocks that meet _validate_complete_chain's per-block rules

ASSUME GenesisAssumption ==
  /\ Genesis \in Block
  /\ NoBlock \notin Block
ASSUME HeaderAssumption ==
  /\ Parent \in [Block -> Block \cup {NoBlock}]
  /\ Parent[Genesis] = NoBlock
  /\ Height \in [Block -> Nat]
  /\ Height[Genesis] = 0
  /\ Work \in [Block -> Nat]
  /\ Rank \in [Block -> Nat]
  /\ \A b, c \in Block : Rank[b] = Rank[c] => b = c
ASSUME BodyAssumption ==
  /\ Spends \in [Block -> SUBSET Coin]
  /\ Creates \in [Block -> SUBSET Coin]
  /\ FullValid \subseteq Block
  /\ ReorgValid \subseteq Block

(***************************************************************************)
(* An element of a node's chain: the block object and the hash it answers, *)
(* which is a cached value once the block was loaded from the store.       *)
(***************************************************************************)
Entry == [blk : Block, hash : Block \cup {NoBlock}]
Fresh(b) == [blk |-> b, hash |-> b]
FreshSeq(s) == [i \in DOMAIN s |-> Fresh(s[i])]

TipHash(c) == IF c = <<>> THEN NoBlock ELSE c[Len(c)].hash
Blocks(c) == {c[i].blk : i \in DOMAIN c}

\* _compute_chainwork_for_chain: the work of the first n blocks of c.
WorkOf(c) ==
  LET w[n \in 0..Len(c)] == IF n = 0 THEN 0 ELSE w[n - 1] + Work[c[n].blk]
  IN  w
ChainWork(c) == WorkOf(c)[Len(c)]

\* One block's deltas on the set of unspent outpoints, and what the first n
\* blocks of c leave unspent; Replay is the set rebuilt from a whole chain.
ApplyBlock(coins, b) == (coins \ Spends[b]) \cup Creates[b]
Unspent(c) ==
  LET u[n \in 0..Len(c)] == IF n = 0 THEN {} ELSE ApplyBlock(u[n - 1], c[n].blk)
  IN  u
Replay(c) == Unspent(c)[Len(c)]

\* A block and all its ancestors.
AncestorsOf[b \in Block] ==
  {b} \cup IF Parent[b] \in Block THEN AncestorsOf[Parent[b]] ELSE {}

\* The chain from the genesis to b that the parents of b spell.
PathOf(b) ==
  LET back[n \in 0..Height[b]] ==
        IF n = 0 THEN b
        ELSE IF back[n - 1] \in Block THEN Parent[back[n - 1]] ELSE NoBlock
  IN  FreshSeq([i \in 1..(Height[b] + 1) |-> back[Height[b] + 1 - i]])

\* Every block of c spends only what its predecessors left unspent.
SpendsUnspent(c) ==
  \A i \in DOMAIN c : Spends[c[i].blk] \subseteq Unspent(c)[i - 1]

(***************************************************************************)
(* _validate_complete_chain: the locked genesis, then heights, parent      *)
(* links (through the hash an object answers), the per-block rules and the *)
(* ephemeral UTXO replay.  It is weaker than validate_block (no signatures *)
(* or graffiti rules) and stricter in one point (no in-block chained       *)
(* spends), hence a set of blocks of its own.                              *)
(***************************************************************************)
LinkedAt(c, i) ==
  /\ Height[c[i].blk] = Height[c[i - 1].blk] + 1
  /\ Parent[c[i].blk] = c[i - 1].hash

\* Mutant: the per-block rules are not applied.
CompleteChainValid_LinksOnly(c) ==
  /\ c # <<>>
  /\ c[1].hash = Genesis /\ Height[c[1].blk] = 0
  /\ \A i \in 2..Len(c) : LinkedAt(c, i)
  /\ SpendsUnspent(c)

CompleteChainValid(c) ==
  /\ c # <<>>
  /\ c[1].hash = Genesis /\ Height[c[1].blk] = 0
  /\ \A i \in 2..Len(c) : LinkedAt(c, i) /\ c[i].blk \in ReorgValid
  /\ SpendsUnspent(c)

\* The order in which a node prefers chains: work, then height, then hash.
Preferred(new, old) ==
  \/ ChainWork(new) > ChainWork(old)
  \/ /\ ChainWork(new) = ChainWork(old)
     /\ \/ Len(new) > Len(old)
        \/ /\ Len(new) = Len(old) /\ old # <<>>
           /\ Rank[TipHash(new)] < Rank[TipHash(old)]

\* _common_ancestor_height: the last hash of c that is on the node's chain.
CommonHeight(mine, c) ==
  LET shared == {i \in DOMAIN mine : \E j \in DOMAIN c : c[j].hash = mine[i].hash}
  IN  IF shared = {} THEN -1 ELSE Max(shared) - 1
=============================================================================
