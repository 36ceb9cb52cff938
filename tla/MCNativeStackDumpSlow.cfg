SPECIFICATION Spec
CONSTANTS
    Files <- MCFiles
    IgnoredFiles <- MCIgnoredFiles
    MaxFrames <- MCMaxFrames
    MaxPairs <- MCMaxPairs
    MaxRead <- MCMaxRead
    ChildIsPrompt = FALSE
    NULL = NULL
INVARIANT
    TypeOK
    NoDescriptorLeak
    NoStrayChild
    PrefixOnlyAtLineStart
    IndentFollowsLineKind
PROPERTY
    OneChildAtATime
    DumpTerminates
CHECK_DEADLOCK TRUE
