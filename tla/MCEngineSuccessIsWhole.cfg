CONSTANTS
    Names <- MCNames
    Entries <- MCEntries
    BatchSize = 2
    MaxObjects = 3
    MaxErrors = 0
SPECIFICATION Spec
INVARIANT SuccessIsWhole
