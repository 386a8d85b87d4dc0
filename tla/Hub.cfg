SPECIFICATION HubSpec
CONSTANTS
    Conns = {c1, c2, c3}
    Events = {e1}
    Root = Root
    Nil = Nil
    Hook = Hook
SYMMETRY Symmetry
CHECK_DEADLOCK FALSE
INVARIANTS
    HubTypeOK
    OneRing
    EverybodyReached
PROPERTY SentOnce
