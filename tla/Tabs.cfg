SPECIFICATION Spec
CONSTANTS
    Tabs = {a, b}
    Slots = {s1, s2}
    MaxToken = 2
    MaxLoads = 1
    MaxEvents = 1
    MaxWork = 2
    Stored <- OldRelease
    WebLocks = TRUE
INVARIANTS OneRefreshOnTheWire
PROPERTIES BootAwaitsHandoff ReplayIsAccounted
SYMMETRY Symmetry
CHECK_DEADLOCK FALSE
