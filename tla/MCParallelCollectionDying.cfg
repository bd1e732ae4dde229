SPECIFICATION FairSpec
CONSTANTS
    j1 = j1
    j2 = j2
    j3 = j3
    s1 = s1
    s2 = s2
    Job <- TwoJobs
    Symbol <- TwoSymbols
    Wanted <- Everyone
    Attempts = 2
    NoSymbol = NoSymbol
    Workers = 2
    MayDie = TRUE
    NoOutcome = NoOutcome
INVARIANTS
    RefusalIsNotMasked
PROPERTIES
    RunAnswers
    KeepsThePromise
CHECK_DEADLOCK FALSE
