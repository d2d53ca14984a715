\* docs/errors.md:9 against a mismatch found in the middle of a run.
CONSTANTS
    r1 = r1  r2 = r2  k1 = k1  k2 = k2
    a = a  b = b  bad = bad  junk = junk
    None = None
    Replica = {r1, r2}
    Checkout = {k1}
    Home <- SharedHome
    Batch = {b1, b2, b3}
    Name = {1, 2}
    Content = {a, b}
    InvalidName = {}
    Unsplittable = {}
    Broken = {}
    Handler = {"up"}
    BaselineNames = {}
    CodegenOnUp = FALSE
    InitDirs <- GoodDirs
    MaxRuns = 1
    FaultBudget <- OneEdit
SPECIFICATION Spec
SYMMETRY BatchSymmetry
INVARIANTS
    NothingAppliedOnMismatch
