SPECIFICATION TreeSpec
CONSTANTS
    Nodes = {n1, n2, n3, n4}
    Sessions = {s1}
    Named <- Anything
    Brought <- Blank
    NoParent = NoParent
    None = None
SYMMETRY Symmetry
INVARIANTS
    TreeTypeOK
    ParentsArePath
    RefusedForAReason
PROPERTIES
    MoveRewrites
    ImplementsHierarchy
