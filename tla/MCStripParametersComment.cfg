SPECIFICATION Spec
CONSTANTS
    Letters <- MCLetters
    MaxLen <- MCMaxLen
INVARIANT StripsEveryTopLevelGroup
