SPECIFICATION Spec
CONSTANTS
    Producers = {p1, p2}
    Owner = p1
    Calls = {"small", "largeAndFinish", "finish"}
    BatchSize = 2
    MaxCalls = 3
    MaxOtherCalls = 2
INVARIANTS TilesInTheirFrame AllAnswered DestructorReturns
PROPERTY AnsweredOnce
\* Once destroyed the stream stops; that it does not before is DestructorReturns.
CHECK_DEADLOCK FALSE
