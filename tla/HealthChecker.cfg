CONSTANTS
    Servers = {s1}
    Rounds = {r1, r2}
    NoLbClient = NoLbClient
    s1 = s1
    r1 = r1
    r2 = r2
SPECIFICATION FairSpec
INVARIANT NoLeakedEntry
INVARIANT FoundWhenSerial
PROPERTY DownIsDetected
PROPERTY UpIsDetected
CHECK_DEADLOCK FALSE
