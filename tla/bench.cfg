\* Two trials, each in one of the three download modes; two GPU groups.
SPECIFICATION FairSpec
CONSTANTS
    Group = {a, b}
    Trials = 2
    Downloads = {"none", "cpu", "gpu"}
    Tries = 2
    Reads = 2
INVARIANTS TypeOK Sequential NothingLeft RowsAreTrue ServersStopped
PROPERTIES CancelEnds
CHECK_DEADLOCK FALSE
