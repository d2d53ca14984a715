\* docs/errors.md:14 against a baseline that overlaps an up.
CONSTANTS
    r1 = r1  r2 = r2  k1 = k1  k2 = k2
    a = a  b = b  bad = bad  junk = junk
    None = None
    Replica = {r1, r2}
    Checkout = {k1}
    Home <- SharedHome
    Batch = {b1, b2, b3}
    Name = {1, 2}
    Content = {a, b}
    InvalidName = {}
    Unsplittable = {}
    Broken = {}
    Handler = {"up", "baseline"}
    BaselineNames <- BaselineAll
    CodegenOnUp = FALSE
    InitDirs <- GoodDirs
    MaxRuns = 1
    FaultBudget <- NoFaults
SPECIFICATION Spec
SYMMETRY BatchSymmetry
INVARIANTS
    UnavailableMeansUnavailable
