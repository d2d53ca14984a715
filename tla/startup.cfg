\* The start is over once the worker serves or has exited.
\* Both workers appear at any time or never; a passing failure afterwards;
\* an operator changes the entry once.
CONSTANTS
    None = None
    Budget <- Budgets
    FirstDelay <- FirstDelays
    MaxDelay <- MaxDelays
    CallMax <- CallMaxes
    Lateness = 1
    ReadyTimes <- Times
    Seeds = {None, "seed"}
    Stored = {"absent", "null", "custom", "malformed"}
    WithAuto = {"seed", "custom"}
    MaxFlukes = 1
    MaxEdits = 1
SPECIFICATION Spec
INVARIANTS
    TypeOK
    AttemptsInBudget
    GivesUpLate
    ServesWithoutDatabase
    StoredConfigWins
PROPERTIES
    StartEnds
CHECK_DEADLOCK FALSE
