\* One report at a time, of either kind, over a directory that changes twice,
\* with up and baseline running and a database that may be unreachable; it ends
\* when the calls are over and nothing is left to apply.
\* Or one schema or codegen call, with two migrations while it reads.
CONSTANTS
    a = a  b = b  junk = junk  blank = blank
    None = None
    Name = {1, 2}
    Content = {a, b, junk, blank}
    Unsplittable = {junk}
    Blank = {blank}
    IllName = {ill}
    Reporter = {r1}
    Kind = {"status", "check"}
    InitDirs <- Dirs
    InitLedgers <- Ledgers
    MaxEdits = 2
    MaxRuns = 2
    Histories <- MCHistories
    TrackingTable = 2
    Tables = {1, 4}
    MaxChanges = 2
SPECIFICATION MCSpec
INVARIANTS
    TypeOK
    
    
    StatusMissesNoPending
    
    EnumColumnsTyped
CHECK_DEADLOCK FALSE
