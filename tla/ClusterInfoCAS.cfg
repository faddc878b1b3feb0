\* Two servers joining in any order, one client and one Migrate racing
\* them, every CAS loop under weak fairness of its continuation steps.
CONSTANTS
    n1 = n1
    n2 = n2
    k1 = k1
    k2 = k2
    Node = {n1, n2}
    Client = {c1}
    Key = {k1, k2}
    Hash <- MCHash
    Declared <- MCDeclared
    MaxPuts = 1
    MaxMigrations = 1
    NoBlob = NoBlob
SPECIFICATION FairSpec
INVARIANT TypeOK
INVARIANT NoLostJoin
INVARIANT ShardHasHome
INVARIANT MigratingIffFlag
PROPERTY InfoCallsReturn
PROPERTY MigrationEnds
\* Servers block in WatchNext and clients stop after MaxPuts.
CHECK_DEADLOCK FALSE
