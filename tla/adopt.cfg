\* Two overlapping calls, each made again, while the journal grows, up applies
\* what it finds, a database call fails and a process dies.
CONSTANTS
    a1 = a1  a2 = a2  x = x  y = y  own = own  torn = torn
    None = None
    Name = {1, 2, 3}
    Content = {x, y, own, torn}
    Adopter = {a1, a2}
    Mark = {"auto", "all"}
    When = {2, 3, 4}
    Milli = 2
    Source = {x, y}
    Torn = torn
    Rerunnable = {y}
    DbDialect = "postgres"
    InitJournals <- Journals
    InitDirs <- Dirs
    DrizzleTables <- Tables
    MaxEntries = 3
    MaxRuns = 2
    MaxCrashes = 1
    MaxFailures = 1
SPECIFICATION Spec
SYMMETRY AdopterSymmetry
INVARIANTS
    TypeOK
    AdoptionComplete
    FilesFollowJournal
PROPERTIES
    
    
    AdoptImplementsLog
