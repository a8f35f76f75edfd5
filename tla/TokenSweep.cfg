SPECIFICATION FairSpec
CONSTANTS
    Tokens = {t1, t2}
    Users = {ada}
    Calls = {c1, c2}
    TTL = 2
    MaxTime = 2
    None = None
INVARIANTS TokenInv ReplayRecognised
PROPERTIES ExpiredRowsGo
CHECK_DEADLOCK FALSE
