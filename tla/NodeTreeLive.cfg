SPECIFICATION FairTreeSpec
CONSTANTS
    Nodes = {n1, n2, n3}
    Sessions = {s1, s2}
    Named = {NoParent}
    Brought = {}
    NoParent = NoParent
    None = None
PROPERTY MovesReturn
