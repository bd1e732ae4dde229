SPECIFICATION Spec
CONSTANTS
    DefaultGap = 2
    SpacingMultiple = 1
    Cadence = Cadence
    LastTime = 4
    Requests <- MCRequests
    FramesA <- MCFramesA
    FramesB <- MCFramesB
INVARIANTS
    EachQuoteOnce
    MatchesAreNearest
    EitherBrokerFirst
    EpisodesPartitionTheEdge
    CrossableWasHeldLongEnough
    CaptureIsTheMeanOfTheTent
CHECK_DEADLOCK FALSE
