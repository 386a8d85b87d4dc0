SPECIFICATION MediaSpec
CONSTANTS
    Images = {i1}
    Videos = {v1}
    Listeners = {l1, l2}
    Clients = {c1}
    MaxUpdates = 2
    MaxNotices = 1
    MaxFaults = 1
CHECK_DEADLOCK FALSE
INVARIANTS
    MediaTypeOK
    DoneMeansStored
PROPERTIES
    Served
    Quiesces
