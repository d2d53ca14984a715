\* One call per creator: the promise that names stay unique.
CONSTANTS
    Creator = {p1, p2}
    Slug = {s1, s2}
    BadSlug = {bad}
    Fraction = 2
    LastSecond = 9
    HandWritten = {1, 3}
    Undated = {undated}
    MaxClock = 6
    MaxSetBacks = 1
    MaxHand = 1
    MaxRuns = 1
SPECIFICATION Spec
INVARIANTS
    NamesUnique
CHECK_DEADLOCK FALSE
