SPECIFICATION Spec
CONSTANTS
    Names <- MCNames
    Ids <- MCIds
    DexPaths <- MCDexPaths
    UserIds <- MCUserIds
    Files <- MCFiles
    Isas = {arm64, bogus}
    ValidIsas = {arm64}
    NULL = NULL
INVARIANT
    TypeOK
    PrimaryProfileInsidePackageDirectory
    DistinctRequestsDistinctFiles
    DexProfileBesideDex
    BuiltProfilesAreManaged
    OnlyOatFilesOfAppsAreManaged
CHECK_DEADLOCK TRUE
