SPECIFICATION Spec
CONSTANTS
    Calls = {c1, c2, c3}
    Debounce = 2
    MaxTime = 6
SYMMETRY Symmetry
INVARIANT LastUsedIsRecent
CHECK_DEADLOCK FALSE
