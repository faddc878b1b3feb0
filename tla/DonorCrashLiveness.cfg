\* Progress under the fairness of the server threads and the client loop:
\* one shard on n1 that the operator moves to n2 (n1 then removes itself
\* and shuts down); n1 may crash once, and the client informs etcd of a
\* master that stays down.
CONSTANTS
    n1 = n1
    n2 = n2
    s1 = s1
    s2 = s2
    Node = {n1, n2}
    Shard = {s1}
    Client = {c1}
    NumKeys = 2
    KeyShard <- MCKeyShard
    InitMaster <- MCOneShard
    MaxWrites = 2
    MaxOps = 2
    MaxMigrations = 1
    ClientOps = {"put", "get", "batch"}
    CrashNodes = {n1}
    MaxCrashes = 1
    InformOnUnavailable = TRUE
    WaitOnUnhealthy = TRUE
    NoShard = NoShard
    None = None
SPECIFICATION FairSpec
CHECK_DEADLOCK FALSE
PROPERTY MigrationCompletes
PROPERTY ClientOpsComplete
