\* Two overlapping calls; hand-written files ahead of the clock and not dated at
\* all; the last second in reach, and behind it names with a sign; the clock is set
\* back once; it ends when the calls are over.
CONSTANTS
    Creator = {p1, p2}
    Slug = {s1, s2}
    BadSlug = {bad}
    Fraction = 2
    LastSecond = 4
    HandWritten = {3}
    Undated = {undated}
    MaxClock = 5
    MaxSetBacks = 1
    MaxHand = 2
    MaxRuns = 1
SPECIFICATION Spec
INVARIANTS
    TypeOK
    SortsAfterKnown
CHECK_DEADLOCK FALSE
