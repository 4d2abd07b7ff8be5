\* The relays stay out of reach.
CONSTANTS
    alice = alice  carol = carol  walletA = walletA  walletC = walletC
    a1 = a1  a2 = a2  b1 = b1  b2 = b2  p1 = p1  p2 = p2  k1 = k1  k2 = k2
    None = None
    Pids = {p1}
    Keys = {k1}
    Coins = {a1, b1}
    Procs = {alice}
    Insisting = {alice}
    Killable = {alice}
    Files = {walletA}
    FileOf <- OneFile
    CoinsOf <- OneCoin
    Flags <- PayingFlags
    MayAbandon = FALSE
    ReceiverCoins = {b1}
    KeepAlive = {FALSE}
    Verdicts = {"accept", "refuse"}
    KillableAt <- AllPhases
    MayReset = FALSE
    MaxCopies = 1
    UnackedStores = FALSE
    UnackedBroadcasts = FALSE
SPECIFICATION RelaylessSpec
PROPERTIES EventuallyPaid
