\* What the page shows, one INVARIANT at a time: a late confirmation, a reply that is
\* stored and reports failure, a note that Bob takes before Alice reports it.
CONSTANTS
    i1 = i1  i2 = i2  q1 = q1  q2 = q2  a1 = a1  a2 = a2  b1 = b1  b2 = b2
    t1 = t1  t2 = t2
    None = None
    Invoices = {i1, i2}
    Tries = {q1, q2}
    AliceCoins = {a1, a2}
    BobCoins = {b1, b2}
    Bobs = {t1, t2}
    Verdicts = {"accept", "unfit"}
    UnackedSends = TRUE
    UnackedBroadcasts = FALSE
    FlakyConnect = TRUE
SPECIFICATION Spec
SYMMETRY Symmetries
INVARIANTS
    DoneIsConfirmed
    FailureMeansUnpaid
    CollectStaysTicked
