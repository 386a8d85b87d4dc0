SPECIFICATION FairSubSpec
CONSTANTS
    Channels = {c1, c2}
    Handlers = {h1, h2}
    Stoppers = {h1}
    MaxEvents = 2
    MaxReconnects = 1
    Nil = Nil
CHECK_DEADLOCK FALSE
INVARIANTS
    SubTypeOK
    HandledOnce
PROPERTIES
    NobodySkipped
    StopReturns
