SPECIFICATION SchemaSpec
CONSTANTS
    Ensured <- SomeEnsured
    Up <- SomeUp
    Down <- SomeDown
    Apis = {a1}
    Jobs = {j1, j2}
    Worker = worker
    Rollbacks = TRUE
    Faults = TRUE
    j1 = j1
    j2 = j2
INVARIANTS SchemaTypeOK ServedIndexed UnindexedHasCause ServerOrMigrations
SYMMETRY Symmetry
