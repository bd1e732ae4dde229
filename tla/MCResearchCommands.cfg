SPECIFICATION CommandSpec
CONSTANTS
    NoValue = NoValue
    Names <- MCNames
    Expression <- ExpressionOf
    Refused <- Unparsable
    ZWindow = 2
    ExpandingRows = 2
    StationarityRows = 3
    Unit = 20
    PValues = {1, 2, 3, 5}
    Inputs <- MCInputs
    NormalOf <- MCNormalOf
    AliasesOf <- MCAliasesOf
    ContainedIn <- MCContainedIn
    NotFound = NotFound
    Studies <- MCStudies
    Terminals <- MCTerminals
    FirstBar = 2
    LastBar = 3
    Limit = 2
    MaxDelay = 1
    MinimumRows = 1
INVARIANTS
    SharedWindowIsSound
    ExpansionIsExact
    HypothesesAreDistinct
    SurvivorsWereTested
    SettledRowsAreRepeatable
    SharedSeriesAreByFallback
CHECK_DEADLOCK FALSE
