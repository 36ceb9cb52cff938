SPECIFICATION Spec
CONSTANTS
    ByteBits <- MCByteBits
    ClockSources = {"thread_cpu", "wall", "dual"}
    ThreadIds <- MCThreadIds
    MethodIndexes <- MCMethodIndexes
    ClockDiffs <- MCClockDiffs
    StartTimes <- MCStartTimes
    MaxRecords <- MCMaxRecords
    NULL = NULL
INVARIANT
    TypeOK
    TraceRoundTrip
CHECK_DEADLOCK TRUE
