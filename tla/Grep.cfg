CONSTANT Jobs <- AllJobs
CONSTANT Compiles <- accepts
CONSTANT Automaton <- compile_regex
SPECIFICATION FairSpec
INVARIANT PatternIsReadWhole
INVARIANT OutcomeIsAWay
INVARIANT MatchesDisjointAndComplete
INVARIANT PrintsSelectedLines
INVARIANT StatusTellsOutput
PROPERTY GrepEnds
CHECK_DEADLOCK FALSE
