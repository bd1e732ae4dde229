SPECIFICATION Spec
CONSTANTS
    NoValue = NoValue
    Bars = 6
    Columns = {"a", "b"}
    Draw = {0, 1, 2}
    Requests <- MCRequests
    Files <- MCFiles
INVARIANTS
    TestIsUnseen
    SelectionIgnoresTheFuture
    EachBarCountsOnce
    StressOnlyHurts
    SimulatorAgreesWithTheBacktest
    ReportedIsWhole
CHECK_DEADLOCK FALSE
