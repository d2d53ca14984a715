\* Replicas on one host run up and baseline while a file is edited, added or
\* removed and a batch commits late.
CONSTANTS
    r1 = r1  r2 = r2  k1 = k1  k2 = k2
    a = a  b = b  bad = bad  junk = junk
    None = None
    Replica = {r1, r2}
    Checkout = {k1}
    Home <- SharedHome
    Batch = {b1, b2, b3}
    Name = {1, 2, 3}
    Content = {a, b}
    InvalidName = {3}
    Unsplittable = {}
    Broken = {}
    Handler = {"up", "baseline"}
    BaselineNames <- BaselineSome
    CodegenOnUp = FALSE
    InitDirs <- GoodDirs
    MaxRuns = 2
    FaultBudget <- EditAndTimeout
SPECIFICATION Spec
SYMMETRY SharedSymmetry
INVARIANTS
    LedgerMatchesExecution
    SuccessMeansRecorded
    AppliedByOneRun
    EveryFileAccounted
    MismatchIsReal
PROPERTIES
    ImplementsLog
