CONSTANTS
  h1 = h1
  h2 = h2
  p = p
  q = q
  r = r
  c = c
  d = d
  k = k
  Tx = {p, q, r}
  NoTx = NoTx
  Coin = {c, d, k}
  BaseCoins = {c, d}
  Spends <- MCSpends
  Creates <- MCCreates
  Fee <- MCFee
  Size <- MCSize
  Rank <- MCRank
  Post = {q}
  MaxSize = 3
  MaxPosts = 1
  Handler = {h1, h2}
  Pushes <- MCPushes
  BlockSize = 1
  Bounds <- MCBounds
SPECIFICATION FairSpec
INVARIANTS TypeOK IndexSound SerialConflictFree SizeBounded PrunedIsSpendable
  CleanIsStored CandidateApplies
PROPERTIES OrphansRevisited
CHECK_DEADLOCK FALSE
