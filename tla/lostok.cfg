\* A broadcast is accepted and reports failure.
CONSTANTS
    i1 = i1  i2 = i2  q1 = q1  q2 = q2  a1 = a1  a2 = a2  b1 = b1  b2 = b2
    t1 = t1  t2 = t2
    None = None
    Invoices = {i1, i2}
    Tries = {q1, q2}
    AliceCoins = {a1, a2}
    BobCoins = {b1, b2}
    Bobs = {t1, t2}
    Verdicts = {"accept", "unfit"}
    UnackedSends = FALSE
    UnackedBroadcasts = TRUE
    FlakyConnect = FALSE
SPECIFICATION Spec
SYMMETRY Symmetries
INVARIANTS InvoicePaidOnce
