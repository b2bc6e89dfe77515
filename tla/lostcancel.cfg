SPECIFICATION Spec
CONSTANTS
    Job = {j1}
    Groups = 1
    Worker = {w1}
    Mortal = {}
    NoWorker = NoWorker
    NoJob = NoJob
    Cold = {}
    Faults = {}
    Cancels = {c1}
    Stops = {}
INVARIANT CancelledDoesNotServe
