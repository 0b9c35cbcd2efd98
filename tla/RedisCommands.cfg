CONSTANTS
    Word = 16
    MaxInt = 7
    Second = 3
    MaxSize = 6
    MaxLength = 4
    Characters <- SomeCharacters
    Depth = 2
    ValueLists <- SomeValues
    Bytes <- SomeBytes
SPECIFICATION CommandsSpec
INVARIANT ArgumentsArePresent
INVARIANT ExpiryIsAhead
INVARIANT RangeSelects
INVARIANT CutsDontMatter
INVARIANT WrittenIsRead
CHECK_DEADLOCK FALSE
