---------------------------- MODULE MCChainNode ----------------------------
(***************************************************************************)
(* Small instances of ChainNode: a genesis with two branches, a double     *)
(* spend, a block no rule accepts, and one (with an in-block chained       *)
(* spend) that validate_block accepts and a reorganisation does not.       *)
(***************************************************************************)
EXTENDS ChainNode

CONSTANTS
  g,          \* the genesis
  a1, a2, a3, \* a branch of three blocks, the last with a chained spend
  b1, b2,     \* a branch of two
  d2,         \* a child of a1 that spends a coin a1 has spent
  x2,         \* a child of a1 that breaks a rule
  cg, ca, cb  \* the coins the genesis, a1 and b1 create

MCParent ==
  [b \in Block |-> CASE b = g -> NoBlock
                     [] b \in {a1, b1} -> g
                     [] b \in {a2, d2, x2} -> a1
                     [] b = b2 -> b1
                     [] b = a3 -> a2]
MCHeight ==
  [b \in Block |-> CASE b = g -> 0 [] b \in {a1, b1} -> 1
                     [] b = a3 -> 3 [] OTHER -> 2]

\* a1 has more work than b1 and the two branches of length two tie.
MCWork == [b \in Block |-> CASE b = a1 -> 2 [] b = b2 -> 2 [] OTHER -> 1]
MCRank ==
  [b \in Block |-> CASE b = g -> 0 [] b = b2 -> 1 [] b = a2 -> 2 [] b = b1 -> 3
                     [] b = a1 -> 4 [] b = d2 -> 5 [] b = x2 -> 6
                     [] b = a3 -> 7]
MCSpends ==
  [b \in Block |-> CASE b \in {a1, d2, b2} -> {cg} [] b = a2 -> {ca} [] OTHER -> {}]
MCCreates ==
  [b \in Block |-> CASE b = g -> {cg} [] b = a1 -> {ca} [] b = b1 -> {cb}
                     [] OTHER -> {}]
MCFullValid == Block \ {x2}
MCReorgValid == Block \ {x2, a3}

\* A new data directory, and one that holds the genesis.
MCFresh == <<>>
MCGenesisOnly == <<g>>

MCSymmetry == Permutations(Net)

\* What peers on either branch serve to a node that forked from them.
MCBranches ==
  {s \in {<<b1, b2>>, <<a1, a2>>, <<b2>>, <<a1, x2>>, <<a2, a3>>} :
     \A i \in DOMAIN s : s[i] \in Block}
=============================================================================
