CONSTANTS
    Keys = {k1, k2}
    Savers = {s1, s2}
    Sizes = {1, 128}
    MaxChanges = 3
    MaxRestarts = 1
SPECIFICATION Spec
PROPERTY RestartRestores
PROPERTY AllOrNothing
SYMMETRY Symmetry
CHECK_DEADLOCK FALSE
