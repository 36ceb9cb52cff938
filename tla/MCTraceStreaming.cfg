SPECIFICATION Spec
CONSTANTS
    Threads = {t1, t2}
    Methods = {m1, m2}
    ThreadBufferRecords <- MCThreadBufferRecords
    BufferSize <- MCBufferSize
    RecordUnits <- MCRecordUnits
    LineUnits <- MCLineUnits
    MaxEvents <- MCMaxEvents
    NULL = NULL
INVARIANT
    TypeOK
    NamesPrecedeUse
    NoRecordLost
    InternedIdsDense
PROPERTY
    ImplementsTraceOrder
    StopCloses
CHECK_DEADLOCK TRUE
