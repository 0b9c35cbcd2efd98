CONSTANTS
    Users = {u1, u2}
    NServers = 2
    NoLbClient = NoLbClient
    u1 = u1
    u2 = u2
SPECIFICATION FairSpec
INVARIANT AloneIsServed
INVARIANT AnswerFromChosenServer
INVARIANT TwoAnswersOnlyAfterFailure
INVARIANT UserKeptUntilAnswered
INVARIANT RegistryMatchesServer
INVARIANT LeakOnlyAfterFailure
PROPERTY RequestEnds
CHECK_DEADLOCK FALSE
