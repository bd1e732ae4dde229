SPECIFICATION Spec
CONSTANTS
    DefaultGap = 2
    SpacingMultiple = 2
    Cadence = Cadence
    Unset = Unset
    DefaultGrid <- MCGrid
    ConfiguredLatency = 1
    Requests <- MCRequests
INVARIANTS
    ComparableLegsAgree
    ExecutableIsFilledAndFunded
    SummaryIsOfOnePopulation
    SweepTellsTheDistance
CHECK_DEADLOCK FALSE
