\* Two replicas start with `auto: true`, each with its own directory.
CONSTANTS
    r1 = r1  r2 = r2  k1 = k1  k2 = k2
    a = a  b = b
    None = None
    Replica = {r1, r2}
    Checkout = {k1, k2}
    Home <- OwnHome
    Batch = {b1, b2}
    Name = {1, 2}
    Content = {a, b}
    InvalidName = {}
    Unsplittable = {}
    Broken = {}
    Handler = {"up"}
    BaselineNames = {}
    CodegenOnUp = FALSE
    InitDirs <- RollingDirs
    MaxRuns = 4
    MaxAttempts = 2
    FaultBudget <- LateLostCrashed
SPECIFICATION DeploySpec
PROPERTIES
    AutoRunSettles
    EveryReplicaServes
