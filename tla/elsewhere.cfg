\* As recv, when the list a run is given leaves out a relay of the URI.
CONSTANTS
    r1 = r1  r2 = r2
    None = None
    Relays = {r1, r2}
    Wraps = {w1, junk}
    Openable = {w1}
    Configs <- OtherRelay
SPECIFICATION FairSpec
PROPERTIES
    FoundInTheEnd
