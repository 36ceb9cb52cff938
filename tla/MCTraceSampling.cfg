SPECIFICATION Spec
CONSTANTS
    Threads = {t1, t2}
    Methods = {m1, m2}
    MaxDepth <- MCMaxDepth
    MaxTicks <- MCMaxTicks
    NULL = NULL
INVARIANT
    TypeOK
    EventsReplayToSample
    VectorsOwnedOnce
PROPERTY
    DiffEmitsOnlyChangedFrames
    FinishedTraceIsFinal
CHECK_DEADLOCK FALSE
