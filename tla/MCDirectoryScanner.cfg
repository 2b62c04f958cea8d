CONSTANTS
    Paths <- MCPaths
    Kind <- MCKind
    Resolved <- MCResolved
    MaxFaults = 3
    Symbols <- MCSymbols
    Small <- MCSmall
    Numbers <- MCNumbers
    Folders <- MCFolders
    Spellings <- MCSpellings
    Queries <- MCQueries
    Lists <- MCLists
    Mistakes <- MCMistakes
SPECIFICATION Spec
INVARIANTS TypeOK ArgumentsArrive FoldersFirst ExcludedStaysOut NothingForgotten CoverInv
CHECK_DEADLOCK FALSE
