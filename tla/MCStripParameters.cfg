SPECIFICATION Spec
CONSTANTS
    Letters <- MCLetters
    MaxLen <- MCMaxLen
INVARIANT TypeOK
INVARIANT StripMatchesReference
INVARIANT OnlyWholeGroupsErased
CHECK_DEADLOCK TRUE
