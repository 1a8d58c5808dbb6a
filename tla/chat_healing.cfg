\* Both wallets open a session at once: does a failed message heal?
CONSTANTS
    Parts = {"chat"}
    tp = tp  tc = tc  tx = tx  ty = ty  tz = tz  art = art  sr = sr
    Coin = {tp, tc, tx, ty, tz}
    Owner <- MCOwner
    Amount <- MCAmount
    Event <- MCEvent
    Takes <- MCTakes
    Content <- MCContent
    Epoch <- MCEpoch
    Claim <- MCClaim
    Storer <- MCStorer
    Pays <- MCPays
    MinFee = 2
    EpochBlocks = 2
    Drift = 1
    BlockRoom = 2
    GraffitiBounds <- MCGraffitiBounds
    wa = wa  wb = wb
    User = {wa, wb}
    NoSession = NoSession
    MaxSkip = 3
    ChatBounds <- MCChatBoth
    w1 = w1  w2 = w2   o1 = o1  o2 = o2
    m1 = m1  m2 = m2  m3 = m3
    Address = {w1, w2}
    Mid = {m1, m2, m3}
    From <- MCFrom
    Dest <- MCDest
    Opk = {o1, o2}
    OpkOf <- MCOpkOf
    MailboxMax = 2
    GlobalQueueMax = 3
    OpkMax = 2
    SeenSenders = 0
    SeenMax = 1
    SeenDropped = 1
    MailBounds <- MCMailBounds
    Artwork = {art}
    ArchBounds <- MCArchBounds
    PendingMax = 2
    Tips = 6
    p1 = p1  p2 = p2  p3 = p3  l1 = l1  l2 = l2  l3 = l3
    Client = {p1, p2, p3}
    Socket = {s1, s2, s3}
    CallId = {l1, l2, l3}
    CallerOf <- MCCallerOf
    CalleeOf <- MCCalleeOf
    Pushable = {p2}
    Nobody = Nobody
    NoSocket = NoSocket
    Starts = 3
    TargetTime = 4
    LwmaWindow = 3
    EdaWindow = 3
    MtpWindows = 3
    FutureDrift = 8
    ClampUp <- MCClampUp
    ClampDown <- MCClampDown
    EdaTrigger <- MCEdaTrigger
    EdaEase <- MCEdaEase
    ByteBits = 2
    HashBytes = 14
    MaxBits <- MCMaxBits
    RulesBounds <- MCRulesBounds
SPECIFICATION ServicesSpec
INVARIANT HandshakeHeals
CHECK_DEADLOCK FALSE
