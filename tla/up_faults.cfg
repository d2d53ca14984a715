\* Two replicas with equal directories run up and codegen; one failure of every
\* kind of call, one crash.
CONSTANTS
    r1 = r1  r2 = r2  k1 = k1  k2 = k2
    a = a  b = b  bad = bad  junk = junk
    None = None
    Replica = {r1, r2}
    Checkout = {k1, k2}
    Home <- OwnHome
    Batch = {b1, b2, b3}
    Name = {1, 2}
    Content = {a, bad, junk}
    InvalidName = {}
    Unsplittable = {junk}
    Broken = {bad}
    Handler = {"up", "codegen"}
    BaselineNames = {}
    CodegenOnUp = TRUE
    InitDirs <- MixedDirs
    MaxRuns = 2
    FaultBudget <- CallFaults
SPECIFICATION Spec
SYMMETRY OwnSymmetry
INVARIANTS
    TypeOK
    ExecutedOnce
    ExecutedInOrder
    FailureIsTheFiles
    NoFalseMismatch
    UpUnavailableIsReal
    TypesCoverApplied
