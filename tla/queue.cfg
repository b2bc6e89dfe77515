SPECIFICATION Spec
CONSTANTS
    Job = {j1, j2}
    Groups = 1
    Worker = {w1, w2}
    Mortal = {w1}
    NoWorker = NoWorker
    NoJob = NoJob
    Cold = {}
    Faults = {"stream", "lag", "api"}
    Cancels = {c1}
    Stops = {}
CONSTRAINT QueueOnly
SYMMETRY Interchangeable
INVARIANTS ClaimedOnce
PROPERTIES ImplementsQueue
