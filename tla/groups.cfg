SPECIFICATION Spec
CONSTANTS
    Job = {j1}
    Groups = 2
    Worker = {w1}
    Mortal = {}
    NoWorker = NoWorker
    NoJob = NoJob
    Cold = {}
    Faults = {"api", "tick"}
    Cancels = {}
    Stops = {s1, s2}
INVARIANTS TypeOK NoLostSandbox
PROPERTIES UnregisteredIsDown
