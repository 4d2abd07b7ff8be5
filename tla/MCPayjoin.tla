----------------------------- MODULE MCPayjoin ------------------------------
(***************************************************************************)
(* Payjoin on small instances: the values the configurations choose from.  *)
(***************************************************************************)
EXTENDS Payjoin, TLC

CONSTANTS alice, carol, walletA, walletC, a1, a2, b1, b2, p1, p2, k1, k2

\* One payer with a wallet of two coins.
OneFile == alice :> walletA
OneWallet == alice :> {a1, a2}

OneCoin == alice :> {a1}

\* Two terminals on one session file, or on one wallet.
SharedFile == alice :> walletA @@ carol :> walletA
SharedWallet == alice :> {a1, a2} @@ carol :> {a1, a2}
SameCoin == alice :> {a1} @@ carol :> {a1}

\* Two payers with one coin each.
TwoFiles == alice :> walletA @@ carol :> walletC
TwoWallets == alice :> {a1} @@ carol :> {a2}

\* Every use of --dry-run and --fallback-on-failure; only serious ones; only
\* those of a user who insists on paying.
AnyFlags == [dry : BOOLEAN, fallback : BOOLEAN]
SeriousFlags == [dry : {FALSE}, fallback : BOOLEAN]
PayingFlags == [dry : {FALSE}, fallback : {TRUE}]

\* Where the receiver may be killed.
AllPhases == Phases
Nowhere == {}
JustAnswered == {"answered"}
JustSaved == {"saved"}
\* Everywhere but between sending a reply and saving what it taught.
NotUnsaved == Phases \ {"answered"}

\* The coins of one wallet are alike, and so are payments and session keys.
Symmetries ==
    Permutations(Pids) \cup Permutations(Keys) \cup Permutations(ReceiverCoins)
    \cup UNION {Permutations(CoinsOf[p]) : p \in Procs}
=============================================================================
