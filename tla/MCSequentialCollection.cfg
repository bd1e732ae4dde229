SPECIFICATION RequestSpec
CONSTANTS
    j1 = j1
    j2 = j2
    s1 = s1
    s2 = s2
    Job <- TwoJobs
    Symbol <- TwoSymbols
    Wanted <- Everyone
    Attempts = 2
    NoSymbol = NoSymbol
    Profiles <- InOrder
    NoReply = NoReply
INVARIANTS
    StopsAtTheFirstFailure
PROPERTIES
    RequestKeepsThePromise
CHECK_DEADLOCK FALSE
