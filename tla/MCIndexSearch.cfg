CONSTANTS
    Names <- MCNames
    Entries <- MCEntries
    Configs <- MCConfigs
    BatchSize = 2
    MaxObjects = 3
    MaxErrors = 0
    MaxDepth = 3
SPECIFICATION SearchSpec
INVARIANTS SearchTypeOK ResultsTrue FindsCommitted FindsAll SearchInv
CONSTRAINT MCReportedOnce
CONSTRAINT MCFollowed
