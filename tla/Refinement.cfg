CONSTANTS
    n1 = n1
    n2 = n2
    s1 = s1
    s2 = s2
    Node = {n1, n2}
    Shard = {s1, s2}
    Client = {c1, c2}
    NumKeys = 2
    KeyShard <- MCKeyShard
    InitMaster <- MCInitMaster
    MaxWrites = 2
    MaxOps = 1
    MaxMigrations = 1
    ClientOps = {"put", "del", "get"}
    CrashNodes = {}
    MaxCrashes = 0
    InformOnUnavailable = FALSE
    WaitOnUnhealthy = TRUE
    NoShard = NoShard
    None = None
SYMMETRY ClientSymmetry
SPECIFICATION Spec
INVARIANT TypeOK
PROPERTY KVRefinement
CHECK_DEADLOCK FALSE
