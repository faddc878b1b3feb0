CONSTANTS
    n1 = n1
    n2 = n2
    s1 = s1
    s2 = s2
    Node = {n1, n2}
    Shard = {s1, s2}
    Client = {c1}
    NumKeys = 2
    KeyShard <- MCKeyShard
    InitMaster <- MCInitMaster
    MaxWrites = 2
    MaxOps = 2
    MaxMigrations = 1
    ClientOps = {"put", "get"}
    CrashNodes = {n2}
    MaxCrashes = 1
    InformOnUnavailable = TRUE
    WaitOnUnhealthy = TRUE
    NoShard = NoShard
    None = None
SYMMETRY ClientSymmetry
SPECIFICATION Spec
CHECK_DEADLOCK FALSE
INVARIANT ImportEnds
