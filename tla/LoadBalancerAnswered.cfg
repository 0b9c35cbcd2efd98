CONSTANTS
    Users = {u1, u2}
    NServers = 1
    NoLbClient = NoLbClient
    u1 = u1
    u2 = u2
SPECIFICATION FairSpec
PROPERTY RequestAnswered
CHECK_DEADLOCK FALSE
