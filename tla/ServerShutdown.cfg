CONSTANTS
    Workers = {w1, w2, w3}
    Main = main
    main = main
    w1 = w1
    w2 = w2
    w3 = w3
SPECIFICATION FairSpec
INVARIANT DestroyedInOrder
PROPERTY EndsOnceAsked
CHECK_DEADLOCK FALSE
