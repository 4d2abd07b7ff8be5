\* Two relays, a wrap the party can open and one it cannot; every failure and every end.
CONSTANTS
    r1 = r1  r2 = r2
    None = None
    Relays = {r1, r2}
    Wraps = {w1, junk}
    Openable = {w1}
    Configs <- BothRelays
SPECIFICATION FairSpec
INVARIANTS
    IInv
    NoGap
PROPERTIES
    MailboxSpec
    HandedOver
    FoundInTheEnd
