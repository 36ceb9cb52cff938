SPECIFICATION Spec
CONSTANTS
    Files <- MCFiles
    IgnoredFiles <- MCIgnoredFiles
    MaxFrames <- MCMaxFrames
    MaxPairs <- MCMaxPairs
    MaxRead <- MCMaxRead
    ChildIsPrompt = TRUE
    NULL = NULL
INVARIANT
    AnswersUnderOwnFrame
CHECK_DEADLOCK TRUE
