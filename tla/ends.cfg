\* Every payment Alice starts ends; Bob connects, and may take a note after he was told to stop.
CONSTANTS
    i1 = i1  i2 = i2  q1 = q1  q2 = q2  a1 = a1  a2 = a2  b1 = b1  b2 = b2
    t1 = t1  t2 = t2
    None = None
    Invoices = {i1}
    Tries = {q1}
    AliceCoins = {a1}
    BobCoins = {b1, b2}
    Bobs = {t1, t2}
    Verdicts = {"accept", "unfit"}
    UnackedSends = TRUE
    UnackedBroadcasts = FALSE
    FlakyConnect = FALSE
SPECIFICATION RunningSpec
INVARIANTS OneProposalPerCoin
PROPERTIES PaymentEnds NoteCollected
