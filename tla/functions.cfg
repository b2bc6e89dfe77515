\* One input of one kind per initial state; the timings of one model (and an
\* idle second one) with three launches folded in by two workers; the recovery of two trials.
SPECIFICATION Spec
CONSTANTS
    RamPerWeight = 2
    RamBase = 64
    RamPerGpu = 180
    CpusPerGpu = 4
    MinTtl <- MCMinTtl
    ReferenceBytes = 57
    Shard = {s1, s2}
    Hinted = {"cache", "jit"}
    Skipped = {"results"}
    MinBytes = 2
    Worker = {w1, w2}
    Model = {m1}
    Estimate = {load, graphs}
    Value = {8, 16}
    Prior = 64
    Launches = 3
    Trial = {t1, t2}
INVARIANTS
    GroupsShareNothing
    PrefetchHasRoom
    PlansAreKept
    CompletenessAgrees
    CachesAreSaved
    PageShowsTheMarks
    SegmentsAreTrue
    WaitsAreExcluded
    OwnMeasurements
    KeysAgree
    EstimatesMeanIt
    ShownTrialsAreWhole
CHECK_DEADLOCK FALSE
