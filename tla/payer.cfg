\* One payer, two payments, two URIs; anything may be killed, fail or be reset.
CONSTANTS
    alice = alice  carol = carol  walletA = walletA  walletC = walletC
    a1 = a1  a2 = a2  b1 = b1  b2 = b2  p1 = p1  p2 = p2  k1 = k1  k2 = k2
    None = None
    Pids = {p1, p2}
    Keys = {k1, k2}
    Coins = {a1, a2, b1}
    Procs = {alice}
    Insisting = {alice}
    Killable = {alice}
    Files = {walletA}
    FileOf <- OneFile
    CoinsOf <- OneWallet
    Flags <- AnyFlags
    MayAbandon = FALSE
    ReceiverCoins = {b1}
    KeepAlive = {FALSE}
    Verdicts = {"accept", "refuse"}
    KillableAt <- AllPhases
    MayReset = TRUE
    MaxCopies = 1
    UnackedStores = TRUE
    UnackedBroadcasts = TRUE
SPECIFICATION Spec
SYMMETRY Symmetries
INVARIANTS IInv NoDoublePayment ToldIsPaid SpentSecretGone
PROPERTIES LedgerSpec
