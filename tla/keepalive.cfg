\* The receiver keeps serving after a payjoin.
CONSTANTS
    alice = alice  carol = carol  walletA = walletA  walletC = walletC
    a1 = a1  a2 = a2  b1 = b1  b2 = b2  p1 = p1  p2 = p2  k1 = k1  k2 = k2
    None = None
    Pids = {p1}
    Keys = {k1}
    Coins = {a1, b1}
    Procs = {alice}
    Insisting = {alice}
    Killable = {alice}
    Files = {walletA}
    FileOf <- OneFile
    CoinsOf <- OneCoin
    Flags <- SeriousFlags
    MayAbandon = FALSE
    ReceiverCoins = {b1}
    KeepAlive = {TRUE}
    Verdicts = {"accept", "refuse"}
    KillableAt <- Nowhere
    MayReset = FALSE
    MaxCopies = 1
    UnackedStores = TRUE
    UnackedBroadcasts = TRUE
SPECIFICATION Spec
SYMMETRY Symmetries
INVARIANTS SpentSecretGone
