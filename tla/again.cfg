\* Runs that end between two steps, one property at a time: a request is sent again, an
\* answered request is refused, a paid payment is given up.
CONSTANTS
    alice = alice  carol = carol  walletA = walletA  walletC = walletC
    a1 = a1  a2 = a2  b1 = b1  b2 = b2  p1 = p1  p2 = p2  k1 = k1  k2 = k2
    None = None
    Pids = {p1}
    Keys = {k1}
    Coins = {a1, b1}
    Procs = {alice}
    Insisting = {alice}
    Killable = {alice}
    Files = {walletA}
    FileOf <- OneFile
    CoinsOf <- OneCoin
    Flags <- SeriousFlags
    MayAbandon = TRUE
    ReceiverCoins = {b1}
    KeepAlive = {FALSE}
    Verdicts = {"accept", "refuse"}
    KillableAt <- JustSaved
    MayReset = FALSE
    MaxCopies = 2
    UnackedStores = TRUE
    UnackedBroadcasts = TRUE
SPECIFICATION Spec
SYMMETRY Symmetries
INVARIANTS
    NothingSentTwice
    NoErrorAfterProposal
PROPERTIES
    AbandonFreesCoins
