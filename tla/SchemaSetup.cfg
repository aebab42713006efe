SPECIFICATION SchemaSpec
CONSTANTS
    Ensured <- AllEnsured
    Up <- AllUp
    Down <- AllDown
    Apis = {a1}
    Jobs = {j1}
    Worker = worker
    Rollbacks = FALSE
    Faults = FALSE
    j1 = j1
    j2 = j2
INVARIANTS SetupWorks
