CONSTANTS
    Names <- MCNames
    Entries <- MCEntries
    Configs <- MCConfigs
    BatchSize = 2
    MaxObjects = 2
    MaxErrors = 0
    MaxDepth = 3
SPECIFICATION SearchSpec
INVARIANT SearchDuringIndexing
CONSTRAINT MCReportedOnce
CONSTRAINT MCFollowed
