CONSTANTS
    Paths <- MCPaths
    Kind <- MCKind
    Resolved <- MCResolved
    MaxFaults = 1
    Symbols <- MCSymbols
    Small <- MCSmall
    Numbers <- MCNumbers
    Folders <- MCFolders
    Spellings <- MCSpellings
    Queries <- MCQueries
    Lists <- MCLists
    Mistakes <- MCMistakes
SPECIFICATION Spec
INVARIANT ErrorsGoOn
CHECK_DEADLOCK FALSE
