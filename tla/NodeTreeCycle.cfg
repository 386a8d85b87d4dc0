SPECIFICATION TreeSpec
CONSTANTS
    Nodes = {n1, n2, n3}
    Sessions = {s1, s2}
    Named <- Anything
    Brought = {}
    NoParent = NoParent
    None = None
SYMMETRY Symmetry
INVARIANT CommittedForest
