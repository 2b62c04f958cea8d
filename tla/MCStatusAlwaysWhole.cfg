CONSTANTS
    m1 = m1
    m2 = m2
    r1 = r1
    Messages = {m1, m2}
    Size <- MCSize
    MaxSize = 2
    MaxAttempts = 2
    MaxVersion = 4
    Readers = {r1}
    Indexer = indexer
    Nul = nul
SPECIFICATION Spec
INVARIANT AlwaysWhole
