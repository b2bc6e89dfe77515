SPECIFICATION FairSpec
CONSTANTS
    late = late
    asap = asap
    a = a
    b = b
    Start = {asap}
    Policy <- MCPolicy
    Group = {a, b}
    Deletions = 1
    Unreachable = FALSE
    Repairs = {"sync"}
CHECK_DEADLOCK FALSE
INVARIANTS
    LinesAreTrue
PROPERTIES
    ProvenHasServed
    StartEnds
    GoneIsForgotten
