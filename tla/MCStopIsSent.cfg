CONSTANTS
    Indexers = {i}
    Windows = {w}
    Users = {}
    Searchers = {s}
    MaxJobs = 1
    Nobody = Nobody
SPECIFICATION Spec
PROPERTY StopIsSent
