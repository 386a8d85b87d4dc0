SPECIFICATION SubSpec
CONSTANTS
    Channels = {c1}
    Handlers = {h1}
    Stoppers = {}
    MaxEvents = 1
    MaxReconnects = 1
    Nil = Nil
SYMMETRY Symmetry
CHECK_DEADLOCK FALSE
INVARIANT SurvivesReconnect
