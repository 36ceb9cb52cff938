SPECIFICATION Spec
CONSTANTS
    PtrBits <- MCPtrBits
    U32Bits <- MCU32Bits
    EntryPoints <- MCEntryPoints
    DexPcs <- MCDexPcs
    DexPcLists <- MCDexPcLists
    NterpCatchHandler = 5
    CodeInfos <- MCCodeInfos
    NULL = NULL
INVARIANT
    TypeOK
    ToDexPcAgreesWithStackMaps
    CatchRowAgreesWithPc
CHECK_DEADLOCK TRUE
