\* What nodes do over their connections on small instances, one part moving
\* at a time.
CONSTANTS
    Parts = {"links", "sync", "rpc", "relay"}
    n1 = n1  n2 = n2
    Node = {n1, n2}
    Dials <- MCDials
    MaxPerIp = 1
    LinkBounds <- MCLinkBounds
    u = u  v = v
    Member = {u, v}
    Other <- MCOther
    Brand <- MCBrand
    Effort <- MCEffort
    Dense = 2
    HeadersBatchMax = 4
    BlockDownloadBatchMax = 2
    ReorgLimit = 3
    GapSpan = 2
    SyncBounds <- MCSyncBounds
    Caller = {c1, c2}
    Wire = {w1, w2, w3}
    NoWire = NoWire
    r1 = r1  r2 = r2  r3 = r3
    Relayer = {r1, r2, r3}
    PeersOf <- MCPeersOf
    MinPeers = 2
    RelayBounds = {1}
SPECIFICATION NetworkSpec
INVARIANT ChannelExclusive
PROPERTIES
    NobodyWaitsForever
    Converges
    AllHear
CHECK_DEADLOCK FALSE
