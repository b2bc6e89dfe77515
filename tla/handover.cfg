SPECIFICATION Spec
CONSTANTS
    Job = {j1}
    Groups = 1
    Worker = {w1, w2}
    Mortal = {w1}
    NoWorker = NoWorker
    NoJob = NoJob
    Cold = {j1}
    Faults = {}
    Cancels = {c1}
    Stops = {}
INVARIANTS NoLostSandbox EndStatusHasCause ServingKilledForCause
PROPERTIES UnregisteredIsDown
