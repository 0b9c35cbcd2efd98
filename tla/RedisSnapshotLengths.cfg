CONSTANTS
    Keys = {k1}
    Savers = {s1}
    Sizes = {1, 128}
    MaxChanges = 2
    MaxRestarts = 1
SPECIFICATION Spec
INVARIANT LengthsSurvive
CHECK_DEADLOCK FALSE
