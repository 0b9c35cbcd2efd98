CONSTANTS
    Clients = {c1, c2}
    Keys = {k1, k2}
    SampleSize = 2
    MaxTime = 1
    MaxNumber = 1
    NoTime = NoTime
    c1 = c1
    c2 = c2
    k1 = k1
    k2 = k2
SPECIFICATION FairSpec
INVARIANT ExpiredUnlessOvertaken
INVARIANT IncrementUnlessOvertaken
PROPERTY LiveKeyStaysUnlessStale
PROPERTY ExpiredIsReclaimed
