CONSTANTS
  g = g
  a1 = a1
  a2 = a2
  a3 = a3
  b1 = b1
  b2 = b2
  d2 = d2
  x2 = x2
  cg = cg
  ca = ca
  cb = cb
  Block = {g, a1, a2, a3, b1, b2, x2}
  Genesis = g
  NoBlock = NoBlock
  Coin = {cg, ca, cb}
  Parent <- MCParent
  Height <- MCHeight
  Work <- MCWork
  Rank <- MCRank
  Spends <- MCSpends
  Creates <- MCCreates
  FullValid <- MCFullValid
  ReorgValid <- MCReorgValid
  Stored <- MCFresh
  Branches <- MCBranches
  Net = {n1}
  Miners = {}
  Worker = Worker
  Main = Main
  NoThread = NoThread
  NoHeight = NoHeight
  ReorgLimit = 1
  Stoppable = FALSE
  MaxRestarts = 0
SPECIFICATION FairSpec
INVARIANTS TypeOK StoreFollowsChain UtxoFollowsChain SeenIsJudged
PROPERTIES ImplementsBestChain ReorgDepthBounded EveryBlockSettled TipReachesDisk
CHECK_DEADLOCK FALSE
