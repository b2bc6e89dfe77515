SPECIFICATION Spec
CONSTANTS
    late = late
    asap = asap
    a = a
    b = b
    Start = {late, asap}
    Policy <- MCPolicy
    Group = {a}
    Deletions = 1
    Unreachable = TRUE
    Repairs = {"sync", "reconcile"}
CONSTRAINT Preparing
CHECK_DEADLOCK FALSE
INVARIANTS
    GpuFindsWeights
    SyncSparesCopies
