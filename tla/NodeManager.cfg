SPECIFICATION FairSpec
CONSTANTS
    Requests = {r1, r2, r3}
    Uuids = {u1}
    Given = {u1}
    Types = {t1}
    Data = {d1}
    FirstRevisions = {1, 2}
    Batch = 2
    NoNode = NoNode
CHECK_DEADLOCK FALSE
INVARIANTS
    TypeOK
    AuditComplete
    EventBacked
    NoSpuriousConflict
PROPERTIES
    RemoveReturns
