CONSTANTS
    Indexers = {i1, i2}
    Windows = {w1, w2}
    Users = {u}
    Searchers = {s1, s2}
    MaxJobs = 2
    Nobody = Nobody
SPECIFICATION Spec
INVARIANTS TypeOK OneWriter IInv
PROPERTIES PathsTrue ShownIsAnswer StopHitsOwn
SYMMETRY MCSymmetry
CONSTRAINT MCSearchesApart
