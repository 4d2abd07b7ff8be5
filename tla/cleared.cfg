\* The stage is cleared while events are emitted.
CONSTANTS
    h1 = h1  h2 = h2  page1 = page1  page2 = page2
    Handlers = {h1, h2}
    Pages = {page1}
    Capacity = 6
    Drops = FALSE
    Clears = TRUE
    MaxVersion = 3
    MaxEvents = 3
SPECIFICATION Spec
SYMMETRY Symmetries
INVARIANTS NothingLost
