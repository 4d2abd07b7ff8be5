\* Events, state changes and cleared stages while slow pages connect, read and reconnect.
CONSTANTS
    h1 = h1  h2 = h2  page1 = page1  page2 = page2
    Handlers = {h1, h2}
    Pages = {page1, page2}
    Capacity = 2
    Drops = TRUE
    Clears = TRUE
    MaxVersion = 3
    MaxEvents = 2
SPECIFICATION Spec
SYMMETRY Symmetries
INVARIANTS IInv ShownOnce LostOnlyAmidClears
