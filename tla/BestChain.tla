------------------------------ MODULE BestChain ------------------------------
(***************************************************************************)
(* What a node promises about its ledger: it holds a chain that starts     *)
(* with the network's genesis, links height by height, contains only       *)
(* blocks that passed validation, and never spends a coin twice; and it    *)
(* only ever moves to another such chain that it prefers.                  *)
(***************************************************************************)
EXTENDS BlockTree

VARIABLE ledger

Rooted(c) == c # <<>> => c[1] = Fresh(Genesis)
Linked(c) == \A i \in 2..Len(c) : LinkedAt(c, i)
Validated(c) == Blocks(c) \subseteq FullValid \cup ReorgValid
Acceptable(c) == Rooted(c) /\ Linked(c) /\ Validated(c) /\ SpendsUnspent(c)

BestInit == Acceptable(ledger)
Adopt == Acceptable(ledger') /\ Preferred(ledger', ledger)
BestSpec == BestInit /\ [][Adopt]_ledger
=============================================================================
