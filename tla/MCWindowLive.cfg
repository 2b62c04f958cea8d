CONSTANTS
    Indexers = {i}
    Windows = {w}
    Users = {u}
    Searchers = {s}
    MaxJobs = 3
    Nobody = Nobody
SPECIFICATION FairSpec
PROPERTIES ButtonsReturn
