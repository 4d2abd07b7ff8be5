\* Requests and replies stored twice; the receiver keeps serving, and is killed
\* anywhere except between sending a reply and saving what it taught.
CONSTANTS
    alice = alice  carol = carol  walletA = walletA  walletC = walletC
    a1 = a1  a2 = a2  b1 = b1  b2 = b2  p1 = p1  p2 = p2  k1 = k1  k2 = k2
    None = None
    Pids = {p1, p2}
    Keys = {k1}
    Coins = {a1, b1, b2}
    Procs = {alice}
    Insisting = {alice}
    Killable = {alice}
    Files = {walletA}
    FileOf <- OneFile
    CoinsOf <- OneCoin
    Flags <- SeriousFlags
    MayAbandon = TRUE
    ReceiverCoins = {b1, b2}
    KeepAlive = {TRUE}
    Verdicts = {"accept", "refuse", "unfit"}
    KillableAt <- NotUnsaved
    MayReset = FALSE
    MaxCopies = 2
    UnackedStores = TRUE
    UnackedBroadcasts = FALSE
SPECIFICATION Spec
SYMMETRY Symmetries
INVARIANTS AnsweredIsRemembered OneProposalPerCoin ReplyKeyKept PublishedIsStored
PROPERTIES RecordedNeverResent SeenOnlyGrows
