SPECIFICATION Spec
CONSTANTS
    j1 = j1
    j2 = j2
    j3 = j3
    s1 = s1
    s2 = s2
    Job <- ThreeJobs
    Symbol <- TwoSymbols
    Wanted <- OneWantsBoth
    Attempts = 3
    NoSymbol = NoSymbol
    Workers = 2
    MayDie = FALSE
    NoOutcome = NoOutcome
SYMMETRY TheOthers
INVARIANTS
    WrittenOnce
    ReturnedIsComplete
    OnlyConnectionErrorsAreRetried
    NothingHalfWritten
CHECK_DEADLOCK FALSE
