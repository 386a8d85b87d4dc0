SPECIFICATION VaultSpec
CONSTANTS
    BlockSize = 3
    CopySize = 2
    Names = {n1}
    Calls = {c1, c2, c3}
    Algos = {"no_op", "aes_ctr", "aes_cbc", "aes_gcm"}
    Drivers = {"fs", "s3"}
    MaxActive = 2
    MaxFaults = 1
    Uploads <- UploadValues
SYMMETRY Symmetry
CHECK_DEADLOCK FALSE
INVARIANTS
    VaultTypeOK
    AcknowledgedReadable
    AuthenticatedRead
PROPERTIES
    FailedLeavesNothing
    SettledStays
    ImplementsWriteOnce
