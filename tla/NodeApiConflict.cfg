SPECIFICATION ApiSpec
CONSTANTS
    Requests = {r1, r2, r3}
    Uuids = {u1}
    Given = {}
    Types = {t1}
    Data = {d1}
    FirstRevisions = {1, 2}
    ClientRevisions = {1, 2}
    Batch = 1
    NoNode = NoNode
SYMMETRY Symmetry
CHECK_DEADLOCK FALSE
INVARIANT SuccessMeansSaved
