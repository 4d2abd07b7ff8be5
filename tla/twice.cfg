\* A task that was told to stop may take a note although its successor listens.
CONSTANTS
    i1 = i1  i2 = i2  q1 = q1  q2 = q2  a1 = a1  a2 = a2  b1 = b1  b2 = b2
    t1 = t1  t2 = t2
    None = None
    Invoices = {i1}
    Tries = {q1}
    AliceCoins = {a1, a2}
    BobCoins = {b1}
    Bobs = {t1, t2}
    Verdicts = {"accept", "unfit"}
    UnackedSends = TRUE
    UnackedBroadcasts = FALSE
    FlakyConnect = TRUE
SPECIFICATION Spec
SYMMETRY Symmetries
INVARIANTS NeverAnsweredTwice
