\* up.rs:182 against a run that fails after it applied a file.
CONSTANTS
    r1 = r1  r2 = r2  k1 = k1  k2 = k2
    a = a  b = b  bad = bad  junk = junk
    None = None
    Replica = {r1}
    Checkout = {k1}
    Home <- SharedHome
    Batch = {b1, b2, b3}
    Name = {1, 2}
    Content = {a, bad}
    InvalidName = {}
    Unsplittable = {}
    Broken = {bad}
    Handler = {"up"}
    BaselineNames = {}
    CodegenOnUp = TRUE
    InitDirs <- MixedDirs
    MaxRuns = 2
    FaultBudget <- OneEdit
SPECIFICATION Spec
SYMMETRY BatchSymmetry
INVARIANTS
    TypesNeverDrift
