CONSTANTS
    Names <- MCNames
    Entries <- MCEntries
    BatchSize = 2
    MaxObjects = 3
    MaxErrors = 1
SPECIFICATION FairSpec
INVARIANTS TypeOK ReferencesResolve IdsUnique LossBounded EndedWhole StatusTrue StatisticsTrue StatisticsInv IInv PromiseInv
PROPERTIES StopKept AppendOnly KeepsPromise StopHonoured PauseEnds
