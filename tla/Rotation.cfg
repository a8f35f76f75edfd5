SPECIFICATION Spec
CONSTANTS
    Tokens = {t1, t2, t3, t4}
    Users = {ada}
    Calls = {c1, c2, c3}
    TTL = 1
    MaxTime = 0
    None = None
INVARIANTS OneLivePerLineage KillSwitch
PROPERTIES DisableEndsSessions ImplementsSessions
SYMMETRY IdSymmetry
CHECK_DEADLOCK FALSE
