SPECIFICATION Spec
CONSTANTS
    Threads = {t1, t2}
    SamplingThread = sampler
    Controllers = {c1, c2}
    BufferSizes <- MCBufferSizes
    ClockSources <- MCClockSources
    MaxEvents <- MCMaxEvents
    MaxSessions <- MCMaxSessions
    NULL = NULL
INVARIANT
    TypeOK
    ReservedSlicesDisjoint
    NoPartialRecord
    DroppedCountExact
PROPERTY
    ImplementsTraceOrder
    TeardownCompletes
CHECK_DEADLOCK TRUE
