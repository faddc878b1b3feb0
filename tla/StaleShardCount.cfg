\* n1 serves with a watched copy of 3 shards while n2's join in INIT
\* makes them 4 and the client's Run starts the cluster.
CONSTANTS
    n1 = n1
    n2 = n2
    k1 = k1
    k2 = k2
    Node = {n1, n2}
    Client = {c1}
    Key = {k1, k2}
    Hash <- MCHash
    Declared <- MCDeclared
    MaxPuts = 1
    MaxMigrations = 1
    NoBlob = NoBlob
SPECIFICATION Spec
INVARIANT KeyInItsShard
\* Servers block in WatchNext and clients stop after MaxPuts.
CHECK_DEADLOCK FALSE
