------------------------------ MODULE MCMempool ------------------------------
EXTENDS Mempool, TLC

CONSTANTS
  p, q, r,       \* two rivals, and a spender of p's output
  h1, h2,        \* threads
  c, d, k        \* the coin of p and q, another one of q, the output of p

MCSpends == [x \in Tx |-> CASE x = p -> {c} [] x = q -> {c, d} [] x = r -> {k}]
MCCreates == [x \in Tx |-> CASE x = p -> {k} [] OTHER -> {}]
MCFee == [x \in Tx |-> CASE x = p -> 2 [] x = q -> 3 [] x = r -> 1]
MCSize == [x \in Tx |-> CASE x = p -> 1 [] OTHER -> 2]
MCRank == [x \in Tx |-> CASE x = p -> 2 [] x = q -> 1 [] x = r -> 3]
MCPushes == {{}, {q}}

\* Two threads with rivals, two with an orphan, one with everything, one
\* that flushes and restarts, and two that flush while the ledger stands still.
Instance(threads, movers, txs, flushes, moves, restarted) ==
  [threads |-> threads, ledger |-> movers, txs |-> txs, flushes |-> flushes,
   moves |-> moves, restarts |-> restarted]
MCBounds ==
  {Instance({h1, h2}, {h1}, {p, q}, FALSE, 1, 0),
   Instance({h1, h2}, {h1}, {p, r}, FALSE, 1, 0),
   Instance({h1}, {h1}, {p, q, r}, FALSE, 2, 0),
   Instance({h1}, {h1}, {p, q}, TRUE, 1, 1),
   Instance({h1, h2}, {}, {p, q}, TRUE, 0, 0)}
=============================================================================
